------------------------------ MODULE QpackWire ------------------------------
(***************************************************************************)
(* QPACK on the wire, byte by byte: how lib/nghttp3_qpack.c writes the     *)
(* instructions of the encoder stream, of the decoder stream and of a      *)
(* field section, and how its readers take them out of the pieces in which *)
(* a stream arrives.  What an instruction does to the tables is the matter *)
(* of QpackEncoder and QpackDecoder.                                       *)
(***************************************************************************)
EXTENDS Huffman, TLC

CONSTANTS
  IntBits,       \* NGHTTP3_QPACK_INT_MAX = 2^IntBits - 1
  StaticLen,     \* nghttp3_arraylen(stable)
  MaxNameLen,    \* NGHTTP3_QPACK_MAX_NAMELEN
  MaxValueLen    \* NGHTTP3_QPACK_MAX_VALUELEN

IntMax == 2 ^ IntBits - 1
-----------------------------------------------------------------------------
(* Writing *)

RECURSIVE SevenBits(_)
SevenBits(n) == IF n < 128 THEN <<n>> ELSE <<128 + (n % 128)>> \o SevenBits(n \div 128)

\* nghttp3_qpack_put_varint into a byte whose other bits are fb
PutVarint(fb, n, prefix) ==
  LET k == 2 ^ prefix - 1
  IN  IF n < k THEN <<fb + n>> ELSE <<fb + k>> \o SevenBits(n - k)

\* nghttp3_qpack_put_varint_len
PutVarintLen(n, prefix) ==
  LET rest == n - (2 ^ prefix - 1)
  IN  IF rest < 0 THEN 1 ELSE 1 + CHOOSE l \in 1..IntBits :
        rest < 128 ^ l /\ (l > 1 => rest >= 128 ^ (l - 1))

\* a string with the length before it, Huffman coded when that is shorter
PutString(fb, text, prefix) ==
  IF EncodeCount(text) < Len(text)
  THEN PutVarint(fb + 2 ^ prefix, EncodeCount(text), prefix) \o HuffmanEncode(text)
  ELSE PutVarint(fb, Len(text), prefix) \o text

\* qpack_encoder_write_indexed_name
WriteIndexedName(fb, i, prefix) == PutVarint(fb, i.idx, prefix) \o PutString(0, i.value, 7)
\* qpack_encoder_write_literal
WriteLiteral(fb, i, prefix) == PutString(fb, i.name, prefix) \o PutString(0, i.value, 7)

Flag(bit, b) == IF b THEN bit ELSE 0

\* the field section prefix
WritePrefix(i) == PutVarint(0, i.ricnt, 8) \o PutVarint(Flag(128, i.sign), i.base, 7)

\* qpack_write_number: an instruction that is one number
WriteNumber(fb, n, prefix) == PutVarint(fb, n, prefix)

\* nghttp3_qpack_encoder_write_*, ..._set_dtable_cap, and the decoder's
\* section acknowledgment, stream cancellation and insert count increment
Write(i) ==
  CASE i.op = "Prefix"       -> WritePrefix(i)
    [] i.op = "Indexed"      -> WriteNumber(128 + Flag(64, ~i.dyn), i.idx, 6)
    [] i.op = "IndexedPB"    -> WriteNumber(16, i.idx, 4)
    [] i.op = "Name"         -> WriteIndexedName(64 + Flag(16, ~i.dyn) + Flag(32, i.never), i, 4)
    [] i.op = "NamePB"       -> WriteIndexedName(Flag(8, i.never), i, 3)
    [] i.op = "Literal"      -> WriteLiteral(32 + Flag(16, i.never), i, 3)
    [] i.op = "SetCap"       -> WriteNumber(32, i.idx, 5)
    [] i.op = "Duplicate"    -> WriteNumber(0, i.idx, 5)
    [] i.op = "InsertName"   -> WriteIndexedName(128 + Flag(64, ~i.dyn), i, 6)
    [] i.op = "Insert"       -> WriteLiteral(64, i, 5)
    [] i.op = "Ack"          -> WriteNumber(128, i.idx, 7)
    [] i.op = "Cancel"       -> WriteNumber(64, i.idx, 6)
    [] i.op = "Increment"    -> WriteNumber(0, i.idx, 6)
-----------------------------------------------------------------------------
(* Reading *)

\* nghttp3_qpack_read_state and the state of its owner
ResetState ==
  [st |-> "OPCODE", op |-> "", left |-> 0, shift |-> 0, prefix |-> 0, dyn |-> FALSE,
   never |-> FALSE, huff |-> FALSE, path |-> Root, idx |-> 0, name |-> <<>>, value |-> <<>>,
   ricnt |-> 0, sign |-> FALSE]
NewReader(kind) ==
  IF kind = "request" THEN [ResetState EXCEPT !.st = "RICNT", !.prefix = 8] ELSE ResetState

\* the bytes of a number after the first one, from the i-th byte of p
RECURSIVE ReadRest(_, _, _, _)
ReadRest(n, shift, p, i) ==
  IF i > Len(p) THEN [left |-> n, shift |-> shift, n |-> Len(p), fin |-> FALSE, bad |-> FALSE]
  ELSE LET add == p[i] % 128 IN
    IF \/ shift > IntBits
       \/ IntMax \div 2 ^ shift < add
       \/ IntMax - add * 2 ^ shift < n
    THEN [left |-> n, shift |-> shift, n |-> i, fin |-> FALSE, bad |-> TRUE]
    ELSE IF p[i] >= 128 THEN ReadRest(n + add * 2 ^ shift, shift + 7, p, i + 1)
    ELSE [left |-> n + add * 2 ^ shift, shift |-> shift, n |-> i, fin |-> TRUE, bad |-> FALSE]

\* the shift is not kept between two pieces
ReadVarint_Bug(r, p) ==
  LET k == 2 ^ r.prefix - 1
      b == p[1] % (k + 1)
  IN  IF r.left # 0 THEN ReadRest(r.left, 0, p, 1)
      ELSE IF b # k THEN [left |-> b, shift |-> 0, n |-> 1, fin |-> TRUE, bad |-> FALSE]
      ELSE ReadRest(k, r.shift, p, 2)
\* qpack_read_varint: a number is being continued if left is not 0
ReadVarint(r, p) ==
  LET k == 2 ^ r.prefix - 1
      b == p[1] % (k + 1)
  IN  IF r.left # 0 THEN ReadRest(r.left, r.shift, p, 1)
      ELSE IF b # k THEN [left |-> b, shift |-> 0, n |-> 1, fin |-> TRUE, bad |-> FALSE]
      ELSE ReadRest(k, r.shift, p, 2)

\* the outcome of a step: the reader, the bytes taken, what was emitted,
\* whether it goes on with nothing left to read, and the error
Goes(r, n) == [r |-> r, n |-> n, emit |-> <<>>, busy |-> FALSE, err |-> ""]
Emit(r, n, i) == [Goes(r, n) EXCEPT !.emit = <<i>>]
Stop(r, err) == [Goes(r, 0) EXCEPT !.err = err]

\* The last thing read of a representation
Instruction(r) ==
  [op |-> r.op, dyn |-> r.dyn, never |-> r.never, idx |-> r.idx, name |-> r.name, value |-> r.value]
PrefixOf(r) == [op |-> "Prefix", ricnt |-> r.ricnt, sign |-> r.sign, base |-> r.left]

\* the first byte of an instruction: its kind, the bits of its first number,
\* whether it names the dynamic table, whether a field is never to be indexed
Op(op, prefix, dyn, never) == [op |-> op, prefix |-> prefix, dyn |-> dyn, never |-> never]
Bit(b, n) == (b \div n) % 2 = 1
EncoderOpcode(b) ==
  CASE b >= 128 -> Op("InsertName", 6, ~Bit(b, 64), FALSE)
    [] b \in 64..127 -> Op("Insert", 5, FALSE, FALSE)
    [] b \in 32..63 -> Op("SetCap", 5, FALSE, FALSE)
    [] b < 32 -> Op("Duplicate", 5, TRUE, FALSE)
RequestOpcode(b) ==
  CASE b >= 128 -> Op("Indexed", 6, ~Bit(b, 64), FALSE)
    [] b \in 64..127 -> Op("Name", 4, ~Bit(b, 16), Bit(b, 32))
    [] b \in 32..63 -> Op("Literal", 3, FALSE, Bit(b, 16))
    [] b \in 16..31 -> Op("IndexedPB", 4, TRUE, FALSE)
    [] b < 16 -> Op("NamePB", 3, TRUE, Bit(b, 8))
DecoderOpcode(b) ==
  CASE b >= 128 -> Op("Ack", 7, FALSE, FALSE)
    [] b \in 64..127 -> Op("Cancel", 6, FALSE, FALSE)
    [] b < 64 -> Op("Increment", 6, FALSE, FALSE)

OnOpcode(kind, r, b) ==
  LET o == CASE kind = "encoder" -> EncoderOpcode(b)
             [] kind = "request" -> RequestOpcode(b)
             [] kind = "decoder" -> DecoderOpcode(b)
  IN  Goes([r EXCEPT !.op = o.op, !.prefix = o.prefix, !.dyn = o.dyn, !.never = o.never,
                     !.st = IF o.op \in {"Insert", "Literal"} THEN "CHECK_NAME" ELSE "READ_INDEX"], 0)

\* validate_index for the static table; the dynamic one is QpackDecoder's
ValidIndex(s) ==
  s.op \in {"Indexed", "Name", "InsertName"} /\ ~s.dyn => s.left < StaticLen
OnIndex(s, n) ==
  LET i == [s EXCEPT !.idx = s.left]
  IN  IF ~ValidIndex(s)
      THEN Stop(s, "malformed")
      ELSE IF s.op \in {"Name", "NamePB", "InsertName"}
      THEN Goes([i EXCEPT !.st = "CHECK_VALUE", !.prefix = 7], n)
      ELSE Emit(ResetState, n, Instruction(i))

\* the length of a name or of a value
OnLength(s, n, next, max) ==
  IF s.left > max \/ (s.huff /\ EstimateDecodeLength(s.left) > max) THEN Stop(s, "too large")
  ELSE [Goes([s EXCEPT !.st = next, !.path = Root], n) EXCEPT !.busy = (next = "READ_VALUE")]

\* qpack_read_string and qpack_read_huffman_string: the bytes that belong to it
Decoded(s, d) ==
  [r |-> [s EXCEPT !.path = d.path], text |-> d.out,
   bad |-> d.path = Failed \/ (s.left = 0 /\ ~Accepted(d.path))]
ReadText(r, p) ==
  LET bytes == SubSeq(p, 1, IF Len(p) < r.left THEN Len(p) ELSE r.left)
      s == [r EXCEPT !.left = @ - Len(bytes)]
  IN  IF r.huff THEN Decoded(s, HuffmanDecode(r.path, bytes))
      ELSE [r |-> s, text |-> bytes, bad |-> FALSE]

\* t is the text read by r
OnName(r, t) ==
  LET s == [t.r EXCEPT !.name = @ \o t.text]
      n == r.left - s.left
  IN  IF t.bad THEN Stop(r, "malformed")
      ELSE IF s.left > 0 THEN Goes(s, n)
      ELSE Goes([s EXCEPT !.st = "CHECK_VALUE", !.prefix = 7], n)

OnValue(r, t) ==
  LET s == [t.r EXCEPT !.value = @ \o t.text]
      n == r.left - s.left
  IN  IF t.bad THEN Stop(r, "malformed")
      ELSE IF s.left > 0 THEN Goes(s, n)
      ELSE Emit(ResetState, n, Instruction(s))

\* v of a number, and once it is complete what it means in this state
OnNumber(r, v) ==
  LET s == [r EXCEPT !.left = v.left, !.shift = v.shift]
  IN  IF v.bad THEN Stop(r, "malformed")
      ELSE IF ~v.fin THEN Goes(s, v.n)
      ELSE CASE s.st = "RICNT" -> Goes([s EXCEPT !.ricnt = s.left, !.st = "DBASE_SIGN"], v.n)
             [] s.st = "DBASE" -> Emit(ResetState, v.n, PrefixOf(s))
             [] s.st = "READ_INDEX" -> OnIndex(s, v.n)
             [] s.st = "READ_NAMELEN" -> OnLength(s, v.n, "READ_NAME", MaxNameLen)
             [] s.st = "READ_VALUELEN" -> OnLength(s, v.n, "READ_VALUE", MaxValueLen)

CheckHuffman(r, p, next) ==
  Goes([r EXCEPT !.huff = (p[1] \div 2 ^ r.prefix) % 2 = 1, !.st = next, !.left = 0, !.shift = 0], 0)

\* one turn of the loop of a reader
Turn(kind, r, p) ==
  CASE r.st \in {"RICNT", "DBASE", "READ_INDEX", "READ_NAMELEN", "READ_VALUELEN"} -> OnNumber(r, ReadVarint(r, p))
    [] r.st = "DBASE_SIGN" ->
         Goes([r EXCEPT !.sign = p[1] >= 128, !.st = "DBASE", !.left = 0, !.prefix = 7, !.shift = 0], 0)
    [] r.st = "OPCODE" -> OnOpcode(kind, r, p[1])
    [] r.st = "CHECK_NAME" -> CheckHuffman(r, p, "READ_NAMELEN")
    [] r.st = "CHECK_VALUE" -> CheckHuffman(r, p, "READ_VALUELEN")
    [] r.st = "READ_NAME" -> OnName(r, ReadText(r, p))
    [] r.st = "READ_VALUE" -> OnValue(r, ReadText(r, p))

\* nghttp3_qpack_decoder_read_encoder, nghttp3_qpack_encoder_read_decoder and
\* nghttp3_qpack_decoder_read_request, called again after every field
RECURSIVE ReadPiece(_, _, _, _, _)
\* after the turn t
GoOn(kind, r, p, out, t) ==
  IF t.err # "" THEN [r |-> r, out |-> out, err |-> t.err]
  ELSE ReadPiece(kind, t.r, SubSeq(p, t.n + 1, Len(p)), t.busy, out \o t.emit)
ReadPiece(kind, r, p, busy, out) ==
  IF p = <<>> /\ ~busy THEN [r |-> r, out |-> out, err |-> ""]
  ELSE GoOn(kind, r, p, out, Turn(kind, r, p))
=============================================================================
