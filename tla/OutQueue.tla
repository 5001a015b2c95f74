------------------------------ MODULE OutQueue ------------------------------
(***************************************************************************)
(* The output queue of a stream, lib/nghttp3_stream.c: buffers in the      *)
(* order their bytes have in the stream, up to the one QUIC has not        *)
(* finished accepting (idx) and down to the last one not wholly            *)
(* acknowledged.  The bytes of a SHARED buffer lie in one of the stream's  *)
(* chunks, which are filled from the front and freed with their last       *)
(* buffer; those of an ALIEN buffer belong to the application, which is    *)
(* told when they are acknowledged.                                        *)
(*                                                                         *)
(* A buffer is [type, chunk, begin, pos, last], its pointers counted from  *)
(* the start of the memory it lies in; chunk is 0 unless it is SHARED.     *)
(* content is the history of the stream: whose each byte was.  Lengths     *)
(* never come near NGHTTP3_MAX_VARINT.                                     *)
(***************************************************************************)
EXTENDS Naturals, SequencesExt

CONSTANTS
  MIN_CHUNK_SIZE,  \* NGHTTP3_STREAM_MIN_CHUNK_SIZE
  VecCnt           \* veccnt, how many buffers the application takes at once

ASSUME OutQueueAssumption ==
  MIN_CHUNK_SIZE \in Nat \ {0} /\ VecCnt \in Nat \ {0}

EmptyTx ==
  [outq |-> <<>>, idx |-> 0,        \* outq, outq_idx
   chunks |-> <<>>, allocated |-> 0, \* chunks, how many there have been
   unsent |-> 0,                     \* unsent_bytes
   ackBase |-> 0, ackOff |-> 0,      \* ack_base, ack_offset
   content |-> <<>>]                 \* tx.offset is its length

BufLen(b) == b.last - b.pos
Held(b) == b.last - b.begin

\* The sum of the first n elements of f.
SumTo(f, n) ==
  LET sum[k \in Nat] == IF k = 0 THEN 0
                        ELSE IF k \in DOMAIN f THEN sum[k - 1] + f[k] ELSE sum[k - 1]
  IN sum[n]

HeldUpTo(tx, i) == SumTo([k \in DOMAIN tx.outq |-> Held(tx.outq[k])], i)
LenUpTo(tx, i) == SumTo([k \in DOMAIN tx.outq |-> BufLen(tx.outq[k])], i)
UnsentFrom(tx, i) == LenUpTo(tx, i) - LenUpTo(tx, tx.idx)
WriteDone(tx) == tx.idx >= Len(tx.outq)

Own(n) == [type |-> "PRIVATE", chunk |-> 0, begin |-> 0, pos |-> 0, last |-> n]
Alien(n) == [Own(n) EXCEPT !.type = "ALIEN"]

\* A buffer already written stays so when bytes are appended to it.
OutqAdd_Bug(tx, b) ==
  LET n == Len(tx.outq)
      extends == /\ n > 0
                 /\ b.type = "SHARED" /\ tx.outq[n].type = "SHARED"
                 /\ b.chunk = tx.outq[n].chunk /\ b.pos = tx.outq[n].last
      counted == [tx EXCEPT !.unsent = @ + BufLen(b),
                            !.content = @ \o [k \in 1..BufLen(b) |-> b.type = "ALIEN"]]
  IN IF extends
     THEN [counted EXCEPT !.outq[n].last = b.last]
     ELSE [counted EXCEPT !.outq = Append(@, b)]

OutqAdd(tx, b) ==
  LET n == Len(tx.outq)
      extends == /\ n > 0
                 /\ b.type = "SHARED" /\ tx.outq[n].type = "SHARED"
                 /\ b.chunk = tx.outq[n].chunk /\ b.pos = tx.outq[n].last
      counted == [tx EXCEPT !.unsent = @ + BufLen(b),
                            !.content = @ \o [k \in 1..BufLen(b) |-> b.type = "ALIEN"]]
  IN IF extends
     THEN [counted EXCEPT !.outq[n].last = b.last,
                          !.idx = IF @ = n THEN n - 1 ELSE @]
     ELSE [counted EXCEPT !.outq = Append(@, b)]

\* The smallest chunk, doubled until it has room for need.
ChunkCapacity(need) ==
  LET size[k \in Nat] == IF k = 0 THEN MIN_CHUNK_SIZE ELSE 2 * size[k - 1]
  IN Min({n \in {size[k] : k \in 0..need} : n >= need})

EnsureChunk(tx, need) ==
  LET n == Len(tx.chunks)
  IN IF n > 0 /\ tx.chunks[n].cap - tx.chunks[n].last >= need
     THEN tx
     ELSE [tx EXCEPT !.allocated = @ + 1,
                     !.chunks = Append(@, [id |-> tx.allocated + 1, last |-> 0,
                                           cap |-> ChunkCapacity(need)])]

\* n bytes at the end of the last chunk, which must have room for need.
FillChunk(tx, need, n) ==
  LET t == EnsureChunk(tx, need)
  IN [t EXCEPT !.chunks[Len(t.chunks)].last = @ + n]

\* The same as a new buffer of the queue.
AddShared(tx, n) ==
  LET t == FillChunk(tx, n, n)
      c == Last(t.chunks)
      start == c.last - n
  IN OutqAdd(t, [type |-> "SHARED", chunk |-> c.id,
                 begin |-> start, pos |-> start, last |-> c.last])

\* A buffer of the application for each vector; none of them merges.
AddAliens(tx, lens) ==
  LET n == SumTo(lens, Len(lens))
  IN [tx EXCEPT !.outq = @ \o [k \in DOMAIN lens |-> Alien(lens[k])],
                !.unsent = @ + n,
                !.content = @ \o [k \in 1..n |-> TRUE]]

\* What one call may offer: buffers up to the VecCnt-th that is not empty.
OfferEnd(tx) ==
  LET full == {i \in tx.idx..Len(tx.outq) :
                 Quantify((tx.idx + 1)..i, LAMBDA k : BufLen(tx.outq[k]) > 0) = VecCnt}
  IN IF full = {} THEN Len(tx.outq) ELSE Min(full)

AddOutqOffset(tx, n) ==
  LET i == Max({k \in tx.idx..Len(tx.outq) : UnsentFrom(tx, k) <= n})
      rest == n - UnsentFrom(tx, i)
  IN [tx EXCEPT
        !.unsent = @ - n,
        !.idx = i,
        !.outq = [k \in DOMAIN tx.outq |->
                    LET b == tx.outq[k]
                    IN CASE k \in (tx.idx + 1)..i -> [b EXCEPT !.pos = b.last]
                         [] k = i + 1 -> [b EXCEPT !.pos = @ + rest]
                         [] OTHER -> b]]

\* A chunk is freed with the first of its buffers.
Freed_Bug(tx, i) ==
  LET freed[k \in Nat] ==
        IF k = 0 THEN 0
        ELSE IF tx.outq[k].type = "SHARED" THEN freed[k - 1] + 1 ELSE freed[k - 1]
  IN freed[i]

\* How many chunks go with the first i buffers: a SHARED buffer takes the
\* first chunk along if it ends there.
Freed(tx, i) ==
  LET freed[k \in Nat] ==
        IF k = 0 THEN 0
        ELSE IF /\ tx.outq[k].type = "SHARED"
                /\ tx.chunks[freed[k - 1] + 1].last = tx.outq[k].last
             THEN freed[k - 1] + 1
             ELSE freed[k - 1]
  IN freed[i]

\* How many buffers an acknowledgment up to offset removes.
Popped(tx, offset) ==
  Max({i \in 0..tx.idx : tx.ackBase + HeldUpTo(tx, i) <= offset})

\* Every part of a buffer is reported from the start of the buffer.
AckedNow_Bug(tx, offset) ==
  LET visited == Min({Popped(tx, offset) + 1, Len(tx.outq)})
      from(i) == tx.ackBase + HeldUpTo(tx, i - 1)
      to(i) == Min({offset, tx.ackBase + HeldUpTo(tx, i)})
      part(i) == IF tx.outq[i].type = "ALIEN" /\ from(i) < offset THEN to(i) - from(i) ELSE 0
  IN SumTo([i \in 1..visited |-> part(i)], visited)

\* What it makes acked_data report, over the buffers removed and the next one.
AckedNow(tx, offset) ==
  LET visited == Min({Popped(tx, offset) + 1, Len(tx.outq)})
      from(i) == IF i = 1 THEN tx.ackOff ELSE tx.ackBase + HeldUpTo(tx, i - 1)
      to(i) == Min({offset, tx.ackBase + HeldUpTo(tx, i)})
      part(i) == IF tx.outq[i].type = "ALIEN" /\ from(i) < offset THEN to(i) - from(i) ELSE 0
  IN SumTo([i \in 1..visited |-> part(i)], visited)

\* stream_pop_outq_entry of each of them, nghttp3_stream_update_ack_offset
UpdateAckOffset(tx, offset) ==
  LET n == Popped(tx, offset)
  IN [tx EXCEPT !.outq = SubSeq(@, n + 1, Len(@)),
                !.idx = @ - n,
                !.chunks = SubSeq(@, Freed(tx, n) + 1, Len(@)),
                !.ackBase = @ + HeldUpTo(tx, n),
                !.ackOff = offset]
=============================================================================
