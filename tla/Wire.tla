-------------------------------- MODULE Wire --------------------------------
(***************************************************************************)
(* A stream of bytes on its way to a reader: QPACK instructions, or the    *)
(* variable-length integers of HTTP/3 frames (lib/nghttp3_conv.c,          *)
(* nghttp3_read_varint of lib/nghttp3_stream.c).  A sender writes a list   *)
(* of them, and the bytes arrive in pieces of any size; junk stands for    *)
(* what a peer of another make may append.                                 *)
(***************************************************************************)
EXTENDS QpackWire

CONSTANT Messages   \* records [kind, list, junk]

VARIABLES
  msg,        \* the message
  wire,       \* its bytes
  pos,        \* bytes delivered
  reader,     \* the state of the reader
  got,        \* what it took out of them
  werr        \* the error it ended with, or ""
wire_vars == <<msg, wire, pos, reader, got, werr>>

\* An integer is its eight bytes, the most significant one first.
Uint(v) == [bytes |-> v]
Width(v) == CHOOSE w \in {1, 2, 4, 8} :
  /\ \A i \in 1..(8 - w) : v[i] = 0
  /\ v[9 - w] < 64
  /\ \A u \in {1, 2, 4} : u < w => ~(v[9 - u] < 64 /\ \A i \in 1..(8 - u) : v[i] = 0)
TwoBits(w) == CHOOSE b \in 0..3 : w = 2 ^ b

\* nghttp3_put_uvarint
PutUvarint(v) == [SubSeq(v, 9 - Width(v), 8) EXCEPT ![1] = @ + 64 * TwoBits(Width(v))]

\* nghttp3_varint_read_state: acc is kept in network byte order
Zeros(n) == [i \in 1..n |-> 0]
NewVarint == [acc |-> Zeros(8), left |-> 0]

\* copies bytes into the last n places of acc
PutAt(acc, n, bytes) == [i \in 1..8 |->
  IF i > 8 - n /\ i <= 8 - n + Len(bytes) THEN bytes[i - 8 + n] ELSE acc[i]]

\* nghttp3_read_varint
ReadUvarint(v, p, fin) ==
  LET vlen == 2 ^ (p[1] \div 64)
      least(a, b) == IF a < b THEN a ELSE b
      n == IF v.left = 0 THEN least(vlen, Len(p)) ELSE least(v.left, Len(p))
      first == [SubSeq(p, 1, n) EXCEPT ![1] = @ % 64]
      w == IF v.left = 0
           THEN [acc |-> PutAt(v.acc, vlen, first), left |-> vlen - n]
           ELSE [acc |-> PutAt(v.acc, v.left, SubSeq(p, 1, n)), left |-> v.left - n]
  IN  [v |-> w, n |-> n, err |-> IF fin /\ w.left > 0 THEN "malformed" ELSE ""]

RECURSIVE ReadUvarints(_, _, _, _)
\* after u was read from v
NextUvarint(v, p, fin, out, u) ==
  IF u.err # "" THEN [r |-> v, out |-> out, err |-> u.err]
  ELSE IF u.v.left > 0 THEN [r |-> u.v, out |-> out, err |-> ""]
  ELSE ReadUvarints(NewVarint, SubSeq(p, u.n + 1, Len(p)), fin, Append(out, Uint(u.v.acc)))
ReadUvarints(v, p, fin, out) ==
  IF p = <<>> THEN [r |-> v, out |-> out, err |-> ""]
  ELSE NextUvarint(v, p, fin, out, ReadUvarint(v, p, fin))

Bytes(m) ==
  FlattenSeq([i \in DOMAIN m.list |->
                IF m.kind = "uvarint" THEN PutUvarint(m.list[i].bytes) ELSE Write(m.list[i])]) \o m.junk

NewReaderOf(m) == IF m.kind = "uvarint" THEN NewVarint ELSE NewReader(m.kind)

\* the end of a request comes with its last piece
AtEnd(m, t, fin) ==
  IF fin /\ m.kind = "request" /\ t.err = "" /\ t.r.st # "OPCODE"
  THEN [t EXCEPT !.err = "malformed"] ELSE t

\* one piece
ReadBytes(m, r, p, out, fin) ==
  IF m.kind = "uvarint" THEN ReadUvarints(r, p, fin, out)
  ELSE AtEnd(m, ReadPiece(m.kind, r, p, FALSE, out), fin)

WireInit ==
  /\ msg \in Messages /\ wire = Bytes(msg)
  /\ pos = 0 /\ reader = NewReaderOf(msg) /\ got = <<>> /\ werr = ""

Deliver(n) ==
  /\ werr = "" /\ pos + n <= Len(wire) /\ pos' = pos + n
  /\ \E t \in {ReadBytes(msg, reader, SubSeq(wire, pos + 1, pos + n), got, pos + n = Len(wire))} :
       reader' = t.r /\ got' = t.out /\ werr' = t.err
  /\ UNCHANGED <<msg, wire>>

WireNext == \E n \in 1..(Len(wire) - pos) : Deliver(n)
-----------------------------------------------------------------------------

(* However the bytes are cut, the reader takes out exactly what was        *)
(* written, in the order in which it was written, and has nothing left     *)
(* over at the end; what follows from another sender is read, or refused,  *)
(* as if it had come in one piece.                                         *)
WireRoundTrip ==
  LET ended == pos = Len(wire) IN
  \E whole \in {ReadBytes(msg, NewReaderOf(msg), wire, <<>>, TRUE)} :
      /\ msg.junk = <<>> =>
           /\ werr = "" /\ IsPrefix(got, msg.list)
           /\ ended => got = msg.list /\ reader \in {ResetState, NewVarint}
      /\ ended \/ werr # "" => got = whole.out /\ werr = whole.err
      /\ werr = "" => IsPrefix(got, whole.out)

(* The room reserved for a number is the room it takes. *)
LengthsExact(numbers) ==
  \A n \in numbers, prefix \in 3..8 : PutVarintLen(n, prefix) = Len(PutVarint(0, n, prefix))
=============================================================================
