------------------------- MODULE QpackEncoderProps --------------------------
(***************************************************************************)
(* What the QPACK encoder must never get wrong, whatever its peer sends.   *)
(***************************************************************************)
EXTENDS QpackEncoder

Ref == [max_cnt : Nat, min_cnt : Nat]

\* A section under construction (the locals of nghttp3_qpack_encoder_encode).
IsSection(c) ==
  /\ c.stream \in Streams /\ c.base \in Nat /\ c.allow \in BOOLEAN
  /\ c.cnts \in SUBSET Nat
  /\ c = [stream |-> c.stream, base |-> c.base, allow |-> c.allow,
          cnts |-> c.cnts, lines |-> c.lines, ins |-> c.ins]

\* The type invariant of the encoder (struct nghttp3_qpack_encoder).
TypeOK ==
  /\ IsTable(tab)
  /\ cap \in 0 .. HardMax /\ maxBlocked \in Nat /\ krcnt \in Nat
  /\ refs \in [Streams -> Seq(Ref)]
  /\ blocked \subseteq [max_cnt : Nat, id : Streams]
  /\ pending \in BOOLEAN /\ minUpd \in 0 .. SizeMax /\ lastUpd \in 0 .. HardMax
  /\ declen \in Nat /\ ebad \in BOOLEAN
  /\ cur # NoSection => IsSection(cur)

\* An entry a section may still need is never evicted: every section not
\* yet acknowledged or cancelled refers to live entries only
\* (qpack_encoder_can_index and nghttp3_qpack_encoder_shrink_dtable).
ReferencedEntriesLive ==
  /\ \A s \in Streams : \A i \in DOMAIN refs[s] :
       /\ tab.first < refs[s][i].min_cnt
       /\ refs[s][i].min_cnt <= refs[s][i].max_cnt
       /\ refs[s][i].max_cnt <= tab.next
  /\ cur # NoSection => cur.cnts \subseteq tab.first + 1 .. tab.next

\* The skip list holds exactly one key for every stream with a section the
\* peer may not be able to decode yet, and that key carries the stream's
\* largest count: nghttp3_qpack_encoder_unblock_stream asserts to find it.
BlockedStreamsExact ==
  blocked = {Key(TopCnt(refs[s]), s) : s \in {x \in Streams : IsBlocked(x)}}

\* The peer cannot make the encoder believe in insertions it never made
\* (the check in nghttp3_qpack_encoder_add_icnt).
KnownReceivedSound == krcnt <= tab.next

\* A section encoded without leave to block refers only to entries the peer
\* is known to have (the krcnt test in encoder_qpack_map_find).
UnblockedSectionSafe ==
  cur # NoSection /\ ~cur.allow => \A c \in cur.cnts : c <= krcnt

\* The table outgrows its capacity only while a reduction waits for an
\* acknowledgment of its oldest entry, and then nothing is inserted
\* (nghttp3_qpack_encoder_process_dtable_update).
OverCapacityOnlyWhilePinned ==
  Size(tab) > cap =>
    /\ pending
    /\ cur # NoSection => MinCnts # {} /\ Min(MinCnts) = tab.first + 1

\* At most NGHTTP3_QPACK_MAX_QPACK_STREAMS streams hold references.
StreamLimit == Cardinality(KnownStreams) <= MaxQpackStreams

\* What makes the invariants above inductive.  A capacity that waits to be
\* announced is the smallest one asked for since the last announcement, and
\* the last one asked for is no smaller (min_dtable_update and
\* last_max_dtable_update in nghttp3_qpack_encoder_set_max_dtable_capacity);
\* a section refers to the table only while a stream may be added.
PendingCapacity ==
  IF pending THEN cap = minUpd /\ minUpd <= lastUpd ELSE minUpd = SizeMax
RoomForStream ==
  cur # NoSection /\ cur.cnts # {} => Cardinality(KnownStreams) < MaxQpackStreams

IInv ==
  /\ TypeOK /\ ReferencedEntriesLive /\ KnownReceivedSound
  /\ UnblockedSectionSafe /\ OverCapacityOnlyWhilePinned /\ PendingCapacity
  /\ StreamLimit /\ RoomForStream

\* A stream becomes blocked only while fewer than max_blocked_streams are.
BlockedLimitRespected ==
  [][Cardinality(blocked') > Cardinality(blocked)
       => Cardinality(blocked) < maxBlocked]_vars

\* The assertion of nghttp3_qpack_context_dtable_add: an insertion happens
\* only when evicting makes enough room for it.
InsertFits == [][tab'.next > tab.next => Size(tab') <= cap]_vars
=============================================================================
