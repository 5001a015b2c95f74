------------------------------- MODULE Huffman -------------------------------
(***************************************************************************)
(* The Huffman code of field strings: lib/nghttp3_qpack_huffman.c with the *)
(* tables of lib/nghttp3_qpack_huffman_data.c.  The code is canonical, so  *)
(* the table of symbols follows from the lengths of their codes, and a     *)
(* state of the decoding table, which is walked four bits at a time, is    *)
(* the path from the root of the code to the node it stands for.           *)
(***************************************************************************)
EXTENDS Integers, FiniteSets, SequencesExt

EOS == 256
Lengths == {5, 6, 7, 8, 10, 11, 12, 13, 14, 15} \cup (19..28) \cup {30}

\* nbits of huffman_sym_table
SymbolsOf(bits) ==
  CASE bits = 5 -> {48, 49, 50, 97, 99, 101, 105, 111, 115, 116}
    [] bits = 6 -> {32, 37, 45, 46, 47, 61, 65, 95, 98, 100, 102, 103, 104, 108, 109, 110,
                    112, 114, 117} \cup (51..57)
    [] bits = 7 -> {58, 87, 89, 106, 107, 113, 118} \cup (66..86) \cup (119..122)
    [] bits = 8 -> {38, 42, 44, 59, 88, 90}
    [] bits = 10 -> {33, 34, 40, 41, 63}
    [] bits = 11 -> {39, 43, 124}
    [] bits = 12 -> {35, 62}
    [] bits = 13 -> {0, 36, 64, 91, 93, 126}
    [] bits = 14 -> {94, 125}
    [] bits = 15 -> {60, 96, 123}
    [] bits = 19 -> {92, 195, 208}
    [] bits = 20 -> {128, 130, 131, 162, 184, 194, 224, 226}
    [] bits = 21 -> {153, 161, 167, 172, 176, 177, 179, 209, 216, 217, 227, 229, 230}
    [] bits = 22 -> {129, 132, 133, 134, 136, 146, 154, 156, 160, 163, 164, 169, 170, 173, 178,
                     181, 185, 186, 187, 189, 190, 196, 198, 228, 232, 233}
    [] bits = 23 -> {1, 135, 143, 147, 155, 157, 158, 165, 166, 168, 174, 175, 180, 182, 183, 188,
                     191, 197, 231, 239} \cup (137..141) \cup (149..152)
    [] bits = 24 -> {9, 142, 144, 145, 148, 159, 171, 206, 215, 225, 236, 237}
    [] bits = 25 -> {199, 207, 234, 235}
    [] bits = 26 -> {192, 193, 200, 201, 202, 205, 210, 213, 218, 219, 238, 240, 242, 243, 255}
    [] bits = 27 -> {203, 204, 211, 212, 214, 221, 222, 223, 254} \cup ((241..253) \ {242, 243, 249})
    [] bits = 28 -> {11, 12, 127, 220, 249} \cup (2..8) \cup ((14..31) \ {22})
    [] bits = 30 -> {10, 13, 22, EOS}

Root == [len |-> 0, bits |-> 0]
Failed == [len |-> 256, bits |-> 0]       \* state 0x100

\* the code of the first symbol of a length
FirstCode[bits \in 0..30] ==
  IF bits <= 5 THEN 0
  ELSE 2 * (FirstCode[bits - 1] +
            (IF bits - 1 \in Lengths THEN Cardinality(SymbolsOf(bits - 1)) ELSE 0))

\* huffman_sym_table: codes of a length are given out in the order of the symbols
CodeOf == [s \in 0..EOS |->
  LET n == CHOOSE n \in Lengths : s \in SymbolsOf(n)
  IN  [len |-> n, bits |-> FirstCode[n] + Cardinality({x \in SymbolsOf(n) : x < s})]]

\* the symbol a path leads to
Symbols == [p \in Range(CodeOf) |-> CHOOSE s \in 0..EOS : CodeOf[s] = p]

\* the bits of a number, the first one first
BitsOf(n, width) == [i \in 1..width |-> (n \div 2 ^ (width - i)) % 2]
NumberOf(bits) == FoldLeft(LAMBDA n, b : 2 * n + b, 0, bits)

\* nghttp3_qpack_huffman_encode_count
EncodeCount(text) == (FoldLeft(LAMBDA n, s : n + CodeOf[s].len, 0, text) + 7) \div 8

\* nghttp3_qpack_huffman_encode: the last byte is filled with ones
HuffmanEncode(text) ==
  LET code == FlattenSeq([i \in DOMAIN text |-> BitsOf(CodeOf[text[i]].bits, CodeOf[text[i]].len)])
      full == code \o [i \in 1..((8 - (Len(code) % 8)) % 8) |-> 1]
  IN  [i \in 1..(Len(full) \div 8) |-> NumberOf(SubSeq(full, 8 * i - 7, 8 * i))]

\* four bits further: at most one symbol ends in them
Nibble(t, bits) ==
  IF t.path = Failed THEN t
  ELSE FoldLeft(LAMBDA u, b :
         LET p == [len |-> u.path.len + 1, bits |-> 2 * u.path.bits + b]
         IN  IF u.path = Failed THEN u
             ELSE IF p \notin DOMAIN Symbols THEN [u EXCEPT !.path = p]
             ELSE IF Symbols[p] = EOS THEN [u EXCEPT !.path = Failed]
             ELSE [path |-> Root, out |-> Append(u.out, Symbols[p])],
       t, bits)

\* nghttp3_qpack_huffman_decode: the path it stops at and what it wrote
HuffmanDecode(path, bytes) ==
  FoldLeft(LAMBDA t, c : Nibble(Nibble(t, BitsOf(c \div 16, 4)), BitsOf(c % 16, 4)),
           [path |-> path, out |-> <<>>], bytes)

\* NGHTTP3_QPACK_HUFFMAN_FLAG_ACCEPTED: less than a byte of ones is left over
Accepted(path) == path.len < 8 /\ path.bits = 2 ^ path.len - 1

\* nghttp3_qpack_huffman_estimate_decode_length
EstimateDecodeLength(len) == (len * 8) \div 5
=============================================================================
