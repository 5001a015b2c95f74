----------------------------- MODULE SchedProofs -----------------------------
(***************************************************************************)
(* What TLAPS proves of the scheduler, for any set of streams, urgencies   *)
(* and priorities, any sizes and any number of blocks and changes: its     *)
(* types, and that the heaps, the flags and queues of the streams and the  *)
(* priorities asked for stay in step.                                      *)
(***************************************************************************)
EXTENDS SchedProps, WellFoundedInduction, TLAPS

Pri == [urgency : Urgencies, inc : BOOLEAN]

TypeOK ==
  /\ status \in [Streams -> {"idle", "open", "answered", "closed"}]
  /\ pri \in [Streams -> Pri] /\ asked \in [Streams -> Pri]
  /\ updated \subseteq Streams /\ fixed \subseteq Streams /\ headed \subseteq Streams
  /\ head \subseteq Streams /\ more \subseteq Streams /\ fin \subseteq Streams
  /\ readBlocked \subseteq Streams /\ fc \subseteq Streams /\ shut \subseteq Streams
  /\ unsent \in [Streams -> Nat] /\ nwrite \in [Streams -> Nat]
  /\ cycle \in [Streams -> Nat]
  /\ heap \in [Urgencies -> SUBSET Streams]
  /\ offer \in [stream : Streams \cup {-1}, units : Nat]
  /\ answered \in BOOLEAN
  /\ stalls \in Nat /\ changes \in Nat

(* What was offered and is not answered is still in the queue of its       *)
(* stream: add_write_offset never takes more than there is.                *)
OfferHeld ==
  offer # Nothing =>
    /\ ~answered
    /\ offer.stream \in Streams /\ status[offer.stream] # "idle"
    /\ status[offer.stream] # "closed" => offer.units = unsent[offer.stream]

(* A stream is in no heap but its urgency's, and in none once deleted.     *)
InNoOtherHeap(s) ==
  \A u \in Urgencies : s \in heap[u] => Live(s) /\ pri[s].urgency = u

(* A stream that does not exist yet holds nothing, and of priorities only  *)
(* a PRIORITY_UPDATE may have come, which opens it.                        *)
EmptyIfIdle(s) ==
  status[s] = "idle" =>
    /\ unsent[s] = 0 /\ s \notin head \cup more \cup fin
    /\ s \notin fixed \cup updated \cup headed

StreamInv(s) ==
  /\ InNoOtherHeap(s) /\ EmptyIfIdle(s)
  /\ Live(s) /\ CanSend(s) => Scheduled(s)
  /\ status[s] # "closed" => pri[s] = asked[s]

IInv == TypeOK /\ OfferHeld /\ \A s \in Streams : StreamInv(s)
-----------------------------------------------------------------------------
(* The heaps *)

\* A set of natural numbers that is not empty has a least element.
LEMMA LeastNat ==
  ASSUME NEW S \in SUBSET Nat, S # {}
  PROVE  \E m \in S : \A n \in S : m <= n
<1>. DEFINE R == {ss \in Nat \X Nat : ss[1] < ss[2]}
<1>1. IsWellFoundedOn(R, Nat)
  BY NatLessThanWellFounded DEF OpToRel
<1>2. PICK m \in S : \A n \in S : ~ (<<n, m>> \in R)
  BY <1>1, WFMin, Zenon
<1>3. \A n \in S : ~ (n < m)
  BY <1>2
<1>. QED
  BY <1>3

\* A heap that holds a stream has a root.
LEMMA TopInHeap ==
  ASSUME NEW h, h # {}
  PROVE  Top(h) \in h
<1>1. \E s \in h : (\E t \in h : Least(h, t)) => Least(h, s)
  BY Zenon
<1>. QED
  BY <1>1, Zenon DEF Top

HeapsOK ==
  /\ nwrite \in [Streams -> Nat] /\ cycle \in [Streams -> Nat]
  /\ heap \in [Urgencies -> SUBSET Streams]

\* The cycle a stream gets is a number.
LEMMA CycleIsNat ==
  ASSUME cycle \in [Streams -> Nat], NEW h \in [Urgencies -> SUBSET Streams],
         NEW u \in Urgencies, NEW n \in Nat
  PROVE  /\ AtLeastOne(n \div MIN_WRITELEN) \in Nat
         /\ FirstCycle(h, u) \in Nat
         /\ \A c \in Nat : c % CycleMod \in Nat
<1>1. n \div MIN_WRITELEN \in Nat
  BY SchedAssumption
<1>2. AtLeastOne(n \div MIN_WRITELEN) \in Nat
  BY <1>1 DEF AtLeastOne
<1>3. FirstCycle(h, u) \in Nat
  <2>1. CASE h[u] = {}
    BY <2>1 DEF FirstCycle
  <2>2. CASE h[u] # {}
    <3>1. Top(h[u]) \in Streams
      BY <2>2, TopInHeap
    <3>. QED
      BY <2>2, <3>1 DEF FirstCycle
  <2>. QED
    BY <2>1, <2>2
<1>4. CycleMod \in Nat /\ CycleMod > 0
  BY SchedAssumption
<1>. QED
  BY <1>2, <1>3, <1>4

\* nghttp3_tnode_schedule puts the stream into the heap of its urgency,
\* whether it was there or not, and moves no other.
LEMMA ScheduleEffect ==
  ASSUME HeapsOK, NEW h \in [Urgencies -> SUBSET Streams],
         NEW s \in Streams, NEW p \in Pri, NEW n \in Nat, Schedule(h, s, p, n)
  PROVE  /\ HeapsOK'
         /\ heap' = [h EXCEPT ![p.urgency] = @ \cup {s}]
<1>. DEFINE u == p.urgency
            penalty == AtLeastOne(n \div MIN_WRITELEN)
            first == FirstCycle(h, u)
<1>1. u \in Urgencies /\ p.inc \in BOOLEAN
  BY DEF Pri
<1>2. penalty \in Nat /\ first \in Nat /\ \A c \in Nat : c % CycleMod \in Nat
  BY <1>1, CycleIsNat DEF HeapsOK
<1>3. nwrite' = [nwrite EXCEPT ![s] = 0]
  BY DEF Schedule
<1>. HIDE DEF penalty, first
<1>4. CASE s \notin h[u]
  <2>1. /\ cycle' = [cycle EXCEPT ![s] =
                       (first + (IF n = 0 \/ ~p.inc THEN 0 ELSE penalty)) % CycleMod]
        /\ heap' = [h EXCEPT ![u] = @ \cup {s}]
    BY <1>4, Zenon DEF Schedule, penalty, first
  <2>2. (first + (IF n = 0 \/ ~p.inc THEN 0 ELSE penalty)) % CycleMod \in Nat
    BY <1>2
  <2>. QED
    BY <1>1, <1>3, <2>1, <2>2 DEF HeapsOK
<1>5. CASE s \in h[u]
  <2>1. heap' = h /\ (\/ cycle' = cycle
                      \/ cycle' = [cycle EXCEPT ![s] = (@ + penalty) % CycleMod])
    BY <1>5 DEF Schedule, penalty
  <2>2. (cycle[s] + penalty) % CycleMod \in Nat
    BY <1>2 DEF HeapsOK
  <2>3. h = [h EXCEPT ![u] = @ \cup {s}]
    BY <1>1, <1>5
  <2>. QED
    BY <1>1, <1>3, <2>1, <2>2, <2>3 DEF HeapsOK
<1>. QED
  BY <1>4, <1>5

\* conn_ensure_stream_scheduled has the stream in its heap in the end.
LEMMA EnsureEffect ==
  ASSUME HeapsOK, pri \in [Streams -> Pri], NEW s \in Streams, EnsureScheduled(s)
  PROVE  /\ HeapsOK'
         /\ heap' = [heap EXCEPT ![pri[s].urgency] = @ \cup {s}]
<1>1. CASE Scheduled(s)
  <2>1. UNCHANGED schedVars
    BY <1>1 DEF EnsureScheduled
  <2>2. pri[s].urgency \in Urgencies
    BY DEF Pri
  <2>. QED
    BY <1>1, <2>1, <2>2 DEF schedVars, HeapsOK, Scheduled
<1>2. CASE ~Scheduled(s)
  <2>1. Schedule(heap, s, pri[s], nwrite[s])
    BY <1>2 DEF EnsureScheduled
  <2>2. pri[s] \in Pri /\ nwrite[s] \in Nat /\ heap \in [Urgencies -> SUBSET Streams]
    BY DEF HeapsOK
  <2>. QED
    BY <2>1, <2>2, ScheduleEffect
<1>. QED
  BY <1>1, <1>2

\* A stream leaves its heap.
LEMMA WithoutType ==
  ASSUME HeapsOK, NEW s \in Streams
  PROVE  Without(s) \in [Urgencies -> SUBSET Streams]
BY DEF HeapsOK, Without

\* conn_update_stream_priority takes the stream out of the heap of its old
\* urgency, and puts it into the new one if it has anything to send.
LEMMA UpdatePriorityEffect ==
  ASSUME HeapsOK, pri \in [Streams -> Pri], NEW s \in Streams, NEW p \in Pri,
         UpdatePriority(s, p)
  PROVE  /\ HeapsOK' /\ pri' = [pri EXCEPT ![s] = p]
         /\ \/ p = pri[s] /\ heap' = heap
            \/ p # pri[s] /\ RequireSchedule(s)
               /\ heap' = [Without(s) EXCEPT ![p.urgency] = @ \cup {s}]
            \/ p # pri[s] /\ ~RequireSchedule(s) /\ heap' = Without(s)
<1>. USE DEF UpdatePriority
<1>1. CASE p = pri[s]
  BY <1>1 DEF schedVars, HeapsOK
<1>2. CASE p # pri[s] /\ RequireSchedule(s)
  <2>1. nwrite[s] \in Nat
    BY DEF HeapsOK
  <2>2. Schedule(Without(s), s, p, nwrite[s])
    BY <1>2
  <2>. QED
    BY <1>2, <2>1, <2>2, WithoutType, ScheduleEffect
<1>3. CASE p # pri[s] /\ ~RequireSchedule(s)
  BY <1>3, WithoutType DEF Unschedule, HeapsOK
<1>. QED
  BY <1>1, <1>2, <1>3-----------------------------------------------------------------------------
(* The steps *)

\* Nothing the invariant says of the stream has changed.
Untouched(t) ==
  /\ status'[t] = status[t] /\ pri'[t] = pri[t] /\ asked'[t] = asked[t]
  /\ unsent'[t] = unsent[t]
  /\ \A u \in Urgencies : (t \in heap'[u]) = (t \in heap[u])
  /\ (t \in head') = (t \in head) /\ (t \in more') = (t \in more)
  /\ (t \in fin') = (t \in fin) /\ (t \in fc') = (t \in fc)
  /\ (t \in shut') = (t \in shut) /\ (t \in readBlocked') = (t \in readBlocked)
  /\ (t \in updated') = (t \in updated) /\ (t \in fixed') = (t \in fixed)
  /\ (t \in headed') = (t \in headed)

\* A step that leaves a stream alone keeps what is known of it.
LEMMA UntouchedKeeps ==
  ASSUME pri \in [Streams -> Pri], NEW t \in Streams, StreamInv(t), Untouched(t)
  PROVE  StreamInv(t)'
<1>. USE DEF Untouched, StreamInv
<1>1. pri[t].urgency \in Urgencies
  BY DEF Pri
<1>2. InNoOtherHeap(t)'
  BY DEF InNoOtherHeap, Live
<1>3. EmptyIfIdle(t)'
  BY DEF EmptyIfIdle
<1>4. (Live(t) /\ CanSend(t) => Scheduled(t))'
  BY <1>1 DEF Live, CanSend, Scheduled, WriteDone
<1>. QED
  BY <1>2, <1>3, <1>4

\* The first bytes of a request change its status only.
LEMMA OpenStreamKeepsIInv ==
  ASSUME IInv, NEW s \in Streams, OpenStream(s)
  PROVE  IInv'
<1>. USE DEF IInv, OpenStream, priVars, dataVars, flagVars, schedVars, offerVars
<1>1. TypeOK'
  BY DEF TypeOK
<1>2. OfferHeld'
  BY DEF TypeOK, OfferHeld
<1>3. ASSUME NEW t \in Streams PROVE StreamInv(t)'
  <2>1. CASE t # s
    BY <2>1, UntouchedKeeps DEF TypeOK, Untouched
  <2>2. CASE t = s
    BY <2>2 DEF TypeOK, StreamInv, EmptyIfIdle, InNoOtherHeap, Live, CanSend, Scheduled, WriteDone
  <2>. QED
    BY <2>1, <2>2
<1>. QED
  BY <1>1, <1>2, <1>3

\* A new priority: the stream moves to the heap of its new urgency if it has
\* anything to send, and is in none if not.
LEMMA UpdatePriorityKeeps ==
  ASSUME TypeOK, NEW s \in Streams, NEW p \in Pri, Live(s), StreamInv(s),
         UpdatePriority(s, p), UNCHANGED <<status, dataVars, flagVars>>
  PROVE  /\ HeapsOK' /\ pri' = [pri EXCEPT ![s] = p]
         /\ \A t \in Streams \ {s}, u \in Urgencies : (t \in heap'[u]) = (t \in heap[u])
         /\ InNoOtherHeap(s)'
         /\ (Live(s) /\ CanSend(s) => Scheduled(s))'
<1>. DEFINE o == pri[s].urgency
            n == p.urgency
<1>1. o \in Urgencies /\ n \in Urgencies
  BY DEF TypeOK, Pri
<1>2. HeapsOK /\ pri \in [Streams -> Pri] /\ heap \in [Urgencies -> SUBSET Streams]
  BY DEF TypeOK, HeapsOK
<1>3. /\ HeapsOK' /\ pri' = [pri EXCEPT ![s] = p]
      /\ \/ p = pri[s] /\ heap' = heap
         \/ p # pri[s] /\ RequireSchedule(s)
            /\ heap' = [Without(s) EXCEPT ![n] = @ \cup {s}]
         \/ p # pri[s] /\ ~RequireSchedule(s) /\ heap' = Without(s)
  BY <1>2, UpdatePriorityEffect
<1>4. pri'[s] = p
  BY <1>2, <1>3
<1>5. Live(s)' /\ (CanSend(s)' <=> CanSend(s)) /\ (CanSend(s) => RequireSchedule(s))
  BY DEF Live, dataVars, flagVars, CanSend, RequireSchedule, WriteDone
<1>6. \A u \in Urgencies : s \in heap[u] => u = o
  BY DEF StreamInv, InNoOtherHeap
<1>7. Live(s) /\ CanSend(s) => s \in heap[o]
  BY DEF StreamInv, Scheduled
<1>. HIDE DEF o
<1>8. Without(s) = [heap EXCEPT ![o] = @ \ {s}]
  BY DEF Without, o
<1>9. CASE p = pri[s] /\ heap' = heap
  <2>1. n = o
    BY <1>9 DEF o
  <2>. QED
    BY <1>1, <1>2, <1>3, <1>4, <1>5, <1>6, <1>7, <1>9, <2>1 DEF InNoOtherHeap, Scheduled
<1>10. CASE RequireSchedule(s) /\ heap' = [Without(s) EXCEPT ![n] = @ \cup {s}]
  BY <1>1, <1>2, <1>3, <1>4, <1>5, <1>6, <1>8, <1>10 DEF InNoOtherHeap, Scheduled
<1>11. CASE ~RequireSchedule(s) /\ heap' = Without(s)
  BY <1>1, <1>2, <1>3, <1>4, <1>5, <1>6, <1>8, <1>11 DEF InNoOtherHeap, Scheduled
<1>. QED
  BY <1>3, <1>9, <1>10, <1>11

\* The end of a header section changes the priority unless a PRIORITY_UPDATE
\* or the server did before.
LEMMA EndHeadersKeepsIInv ==
  ASSUME IInv, NEW s \in Streams, NEW p \in {{}} \cup {{q} : q \in Priorities},
         EndHeaders(s, p)
  PROVE  IInv'
<1>. USE DEF IInv, EndHeaders
<1>1. CASE s \notin updated /\ s \notin fixed /\ p # {}
  <2>1. PICK q \in p : UpdatePriority(s, q) /\ asked' = [asked EXCEPT ![s] = q]
    BY <1>1
  <2>2. q \in Pri
    BY SchedAssumption DEF Pri
  <2>3. /\ HeapsOK' /\ pri' = [pri EXCEPT ![s] = q]
        /\ \A t \in Streams \ {s}, u \in Urgencies : (t \in heap'[u]) = (t \in heap[u])
        /\ InNoOtherHeap(s)'
        /\ (Live(s) /\ CanSend(s) => Scheduled(s))'
    BY <2>1, <2>2, UpdatePriorityKeeps DEF flagVars, dataVars
  <2>4. TypeOK'
    BY <2>1, <2>2, <2>3 DEF TypeOK, HeapsOK, dataVars, flagVars, offerVars
  <2>5. OfferHeld'
    BY DEF TypeOK, OfferHeld, offerVars, dataVars
  <2>6. ASSUME NEW t \in Streams PROVE StreamInv(t)'
    <3>1. CASE t # s
      BY <3>1, <2>1, <2>3, UntouchedKeeps DEF TypeOK, Untouched, dataVars, flagVars
    <3>2. CASE t = s
      <4>1. EmptyIfIdle(s)' /\ pri'[s] = asked'[s]
        BY <2>1, <2>3 DEF TypeOK, EmptyIfIdle, Live, dataVars
      <4>. QED
        BY <3>2, <2>3, <4>1 DEF StreamInv
    <3>. QED
      BY <3>1, <3>2
  <2>. QED
    BY <2>4, <2>5, <2>6
<1>2. CASE ~(s \notin updated /\ s \notin fixed /\ p # {})
  <2>1. UNCHANGED <<pri, asked, schedVars>>
    BY <1>2
  <2>4. TypeOK'
    BY <2>1 DEF TypeOK, dataVars, flagVars, schedVars, offerVars
  <2>5. OfferHeld'
    BY DEF TypeOK, OfferHeld, offerVars, dataVars
  <2>6. ASSUME NEW t \in Streams PROVE StreamInv(t)'
    <3>1. CASE t # s
      BY <3>1, <2>1, UntouchedKeeps DEF TypeOK, Untouched, dataVars, flagVars, schedVars
    <3>2. CASE t = s
      BY <3>2, <2>1 DEF TypeOK, StreamInv, EmptyIfIdle, InNoOtherHeap, Live, CanSend,
         Scheduled, WriteDone, dataVars, flagVars, schedVars
    <3>. QED
      BY <3>1, <3>2
  <2>. QED
    BY <2>4, <2>5, <2>6
<1>. QED
  BY <1>1, <1>2
\* A PRIORITY_UPDATE opens the stream it is about, changes its priority, or
\* is ignored after the server's own.
LEMMA OnPriorityUpdateKeepsIInv ==
  ASSUME IInv, NEW s \in Streams, NEW p \in Priorities, OnPriorityUpdate(s, p)
  PROVE  IInv'
<1>. USE DEF IInv
<1>1. p \in Pri
  BY SchedAssumption DEF Pri
<1>2. /\ Change /\ asked' = IF s \in fixed THEN asked ELSE [asked EXCEPT ![s] = p]
      /\ UNCHANGED <<fixed, headed, dataVars, flagVars, offerVars, stalls>>
  BY DEF OnPriorityUpdate
<1>3. changes' \in Nat /\ stalls' = stalls
  BY <1>2 DEF Change, TypeOK
<1>4. status[s] = "idle" => s \notin fixed
  BY DEF StreamInv, EmptyIfIdle
<1>5. CASE status[s] = "idle"
  <2>1. /\ status' = [status EXCEPT ![s] = "open"] /\ pri' = [pri EXCEPT ![s] = p]
        /\ updated' = updated \cup {s} /\ UNCHANGED schedVars
    BY <1>5 DEF OnPriorityUpdate, Live
  <2>2. TypeOK'
    BY <1>1, <1>2, <1>3, <2>1 DEF TypeOK, dataVars, flagVars, schedVars, offerVars
  <2>3. OfferHeld'
    BY <1>2, <1>5, <2>1 DEF TypeOK, OfferHeld, dataVars, offerVars
  <2>4. ASSUME NEW t \in Streams PROVE StreamInv(t)'
    <3>1. CASE t # s
      BY <3>1, <1>2, <2>1, UntouchedKeeps DEF TypeOK, Untouched, dataVars, flagVars, schedVars
    <3>2. CASE t = s
      BY <3>2, <1>2, <1>4, <1>5, <2>1 DEF TypeOK, StreamInv, EmptyIfIdle, InNoOtherHeap,
         Live, CanSend, Scheduled, WriteDone, dataVars, flagVars, schedVars
    <3>. QED
      BY <3>1, <3>2
  <2>. QED
    BY <2>2, <2>3, <2>4
<1>6. CASE Live(s) /\ s \notin fixed
  <2>1. /\ updated' = updated \cup {s} /\ UpdatePriority(s, p) /\ UNCHANGED status
    BY <1>6 DEF OnPriorityUpdate, Live
  <2>2. /\ HeapsOK' /\ pri' = [pri EXCEPT ![s] = p]
        /\ \A t \in Streams \ {s}, u \in Urgencies : (t \in heap'[u]) = (t \in heap[u])
        /\ InNoOtherHeap(s)'
        /\ (Live(s) /\ CanSend(s) => Scheduled(s))'
    BY <1>1, <1>2, <1>6, <2>1, UpdatePriorityKeeps DEF flagVars, dataVars
  <2>3. TypeOK'
    BY <1>1, <1>2, <1>3, <2>1, <2>2 DEF TypeOK, HeapsOK, dataVars, flagVars, offerVars
  <2>4. OfferHeld'
    BY <1>2, <2>1 DEF TypeOK, OfferHeld, dataVars, offerVars
  <2>5. ASSUME NEW t \in Streams PROVE StreamInv(t)'
    <3>1. CASE t # s
      BY <3>1, <1>2, <2>1, <2>2, UntouchedKeeps DEF TypeOK, Untouched, dataVars, flagVars
    <3>2. CASE t = s
      <4>1. EmptyIfIdle(s)' /\ pri'[s] = asked'[s]
        BY <1>2, <1>6, <2>1, <2>2 DEF TypeOK, EmptyIfIdle, Live, dataVars
      <4>. QED
        BY <3>2, <2>2, <4>1 DEF StreamInv
    <3>. QED
      BY <3>1, <3>2
  <2>. QED
    BY <2>3, <2>4, <2>5
<1>7. CASE status[s] # "idle" /\ ~(Live(s) /\ s \notin fixed)
  <2>1. UNCHANGED <<status, pri, updated, schedVars>>
    BY <1>7 DEF OnPriorityUpdate
  <2>2. TypeOK'
    BY <1>1, <1>2, <1>3, <2>1 DEF TypeOK, dataVars, flagVars, schedVars, offerVars
  <2>3. OfferHeld'
    BY <1>2, <2>1 DEF TypeOK, OfferHeld, dataVars, offerVars
  <2>4. ASSUME NEW t \in Streams PROVE StreamInv(t)'
    <3>1. CASE t # s
      BY <3>1, <1>2, <2>1, UntouchedKeeps DEF TypeOK, Untouched, dataVars, flagVars, schedVars
    <3>2. CASE t = s
      BY <3>2, <1>2, <1>7, <2>1 DEF TypeOK, StreamInv, EmptyIfIdle, InNoOtherHeap,
         Live, CanSend, Scheduled, WriteDone, dataVars, flagVars, schedVars
    <3>. QED
      BY <3>1, <3>2
  <2>. QED
    BY <2>2, <2>3, <2>4
<1>. QED
  BY <1>5, <1>6, <1>7

\* The server's word on a priority is the last.
LEMMA SetServerStreamPriorityKeepsIInv ==
  ASSUME IInv, NEW s \in Streams, NEW p \in Priorities, SetServerStreamPriority(s, p)
  PROVE  IInv'
<1>. USE DEF IInv
<1>1. p \in Pri
  BY SchedAssumption DEF Pri
<1>2. /\ Live(s) /\ Change /\ fixed' = fixed \cup {s} /\ UpdatePriority(s, p)
      /\ asked' = [asked EXCEPT ![s] = p]
      /\ UNCHANGED <<status, updated, headed, dataVars, flagVars, offerVars, stalls>>
  BY DEF SetServerStreamPriority
<1>3. changes' \in Nat /\ stalls' = stalls
  BY <1>2 DEF Change, TypeOK
<1>4. /\ HeapsOK' /\ pri' = [pri EXCEPT ![s] = p]
      /\ \A t \in Streams \ {s}, u \in Urgencies : (t \in heap'[u]) = (t \in heap[u])
      /\ InNoOtherHeap(s)'
      /\ (Live(s) /\ CanSend(s) => Scheduled(s))'
  BY <1>1, <1>2, UpdatePriorityKeeps DEF flagVars, dataVars
<1>5. TypeOK'
  BY <1>1, <1>2, <1>3, <1>4 DEF TypeOK, HeapsOK, dataVars, flagVars, offerVars
<1>6. OfferHeld'
  BY <1>2 DEF TypeOK, OfferHeld, dataVars, offerVars
<1>7. ASSUME NEW t \in Streams PROVE StreamInv(t)'
  <2>1. CASE t # s
    BY <2>1, <1>2, <1>4, UntouchedKeeps DEF TypeOK, Untouched, dataVars, flagVars
  <2>2. CASE t = s
    <3>1. EmptyIfIdle(s)' /\ pri'[s] = asked'[s]
      BY <1>2, <1>4 DEF TypeOK, EmptyIfIdle, Live, dataVars
    <3>. QED
      BY <2>2, <1>4, <3>1 DEF StreamInv
  <2>. QED
    BY <2>1, <2>2
<1>. QED
  BY <1>5, <1>6, <1>7

\* A response has the stream scheduled.
LEMMA SubmitResponseKeepsIInv ==
  ASSUME IInv, NEW s \in Streams, SubmitResponse(s)
  PROVE  IInv'
<1>. USE DEF IInv
<1>1. /\ status[s] = "open" /\ status' = [status EXCEPT ![s] = "answered"]
      /\ more' = more \cup {s} /\ head' = head \cup {s}
      /\ Schedule(heap, s, pri[s], nwrite[s])
      /\ UNCHANGED <<priVars, unsent, fin, flagVars, offerVars, stalls>>
  BY DEF SubmitResponse
<1>2. HeapsOK' /\ heap' = [heap EXCEPT ![pri[s].urgency] = @ \cup {s}]
  <2>1. /\ HeapsOK /\ heap \in [Urgencies -> SUBSET Streams]
        /\ pri[s] \in Pri /\ nwrite[s] \in Nat
    BY DEF TypeOK, HeapsOK
  <2>. QED
    BY <1>1, <2>1, ScheduleEffect
<1>3. TypeOK'
  BY <1>1, <1>2 DEF TypeOK, HeapsOK, priVars, flagVars, offerVars
<1>4. OfferHeld'
  BY <1>1 DEF TypeOK, OfferHeld, offerVars
<1>5. pri[s].urgency \in Urgencies
  BY DEF TypeOK, Pri
<1>6. ASSUME NEW t \in Streams PROVE StreamInv(t)'
  <2>1. CASE t # s
    BY <2>1, <1>1, <1>2, <1>5, UntouchedKeeps DEF TypeOK, Untouched, priVars, flagVars
  <2>2. CASE t = s
    <3>1. EmptyIfIdle(s)' /\ pri'[s] = asked'[s]
      BY <1>1 DEF TypeOK, EmptyIfIdle, priVars, StreamInv
    <3>2. InNoOtherHeap(s)' /\ Scheduled(s)'
      BY <1>1, <1>2, <1>5 DEF TypeOK, StreamInv, InNoOtherHeap, Scheduled, Live, priVars
    <3>. QED
      BY <2>2, <3>1, <3>2 DEF StreamInv
  <2>. QED
    BY <2>1, <2>2
<1>. QED
  BY <1>3, <1>4, <1>6

\* conn_get_next_tx_stream returns the root of a heap.
LEMMA NextIsRoot ==
  ASSUME \E u \in Urgencies : heap[u] # {}
  PROVE  \E u \in Urgencies : heap[u] # {} /\ NextTxStream = Top(heap[u])
<1>. DEFINE Busy(x) == heap[x] # {} /\ \A y \in Urgencies : heap[y] # {} => x <= y
            u == CHOOSE x \in Urgencies : Busy(x)
<1>1. \E x \in Urgencies : Busy(x)
  <2>. DEFINE T == {x \in Urgencies : heap[x] # {}}
  <2>1. T \in SUBSET Nat /\ T # {}
    BY SchedAssumption
  <2>2. PICK x \in T : \A y \in T : x <= y
    BY <2>1, LeastNat
  <2>. QED
    BY <2>2
<1>2. u \in Urgencies /\ heap[u] # {}
  BY <1>1, Zenon
<1>3. NextTxStream = Top(heap[u])
  BY Zenon DEF NextTxStream
<1>. QED
  BY <1>2, <1>3, Zenon

\* So the stream it returns exists and is in its own heap.
LEMMA NextIsLive ==
  ASSUME TypeOK, \A s \in Streams : StreamInv(s), \E u \in Urgencies : heap[u] # {}
  PROVE  NextTxStream \in Streams /\ Live(NextTxStream) /\ Scheduled(NextTxStream)
<1>1. PICK u \in Urgencies : heap[u] # {} /\ NextTxStream = Top(heap[u])
  BY NextIsRoot
<1>2. Top(heap[u]) \in heap[u] /\ heap[u] \in SUBSET Streams
  BY <1>1, TopInHeap DEF TypeOK
<1>. QED
  BY <1>1, <1>2 DEF StreamInv, InNoOtherHeap, Scheduled

\* What is offered is all that conn_writev_stream left in the output queue.
LEMMA WritevStreamKeepsIInv ==
  ASSUME IInv, WritevStream
  PROVE  IInv'
<1>. USE DEF IInv
<1>1. PICK s \in {NextTxStream} :
        LET have == unsent[s] + (IF s \in head THEN 1 ELSE 0)
            reads == s \in more \ readBlocked /\ have < MIN_UNSENT_BYTES
        IN /\ head' = head \ {s}
           /\ \/ /\ ~reads
                 /\ unsent' = [unsent EXCEPT ![s] = have]
                 /\ UNCHANGED <<more, fin, readBlocked, stalls>>
              \/ /\ reads
                 /\ Stall
                 /\ readBlocked' = readBlocked \cup {s}
                 /\ unsent' = [unsent EXCEPT ![s] = have]
                 /\ UNCHANGED <<more, fin>>
              \/ /\ reads
                 /\ \E n \in Pieces \cup {0} :
                      /\ unsent' = [unsent EXCEPT ![s] = have + n]
                      /\ fin' = IF n + have = 0 THEN fin \cup {s} ELSE fin
                      /\ \/ n > 0 /\ more' = more
                         \/ more' = more \ {s}
                 /\ UNCHANGED <<readBlocked, stalls>>
           /\ Return(s)
  BY DEF WritevStream
<1>2. s \in Streams /\ Live(s) /\ Scheduled(s)
  BY <1>1, NextIsLive DEF WritevStream
<1>3. /\ head' = head \ {s} /\ fin' \in {fin, fin \cup {s}}
      /\ more' \in {more, more \ {s}}
      /\ readBlocked' \in {readBlocked, readBlocked \cup {s}}
      /\ \E n \in Nat : unsent' = [unsent EXCEPT ![s] = n]
      /\ stalls' \in Nat
  <2>1. unsent[s] \in Nat
    BY <1>2 DEF TypeOK
  <2>. QED
    BY <1>1, <2>1, SchedAssumption DEF TypeOK, Stall
<1>4. /\ UNCHANGED <<status, priVars, fc, shut>> /\ answered' = FALSE
      /\ offer' = IF WriteDone(s)' THEN Nothing ELSE [stream |-> s, units |-> unsent'[s]]
      /\ IF RequireSchedule(s)' THEN UNCHANGED schedVars ELSE Unschedule(s)
  BY <1>1 DEF Return
<1>5. unsent' \in [Streams -> Nat] /\ \A t \in Streams \ {s} : unsent'[t] = unsent[t]
  BY <1>2, <1>3 DEF TypeOK
<1>6. HeapsOK' /\ heap' = IF RequireSchedule(s)' THEN heap ELSE Without(s)
  BY <1>2, <1>4, WithoutType DEF TypeOK, HeapsOK, schedVars, Unschedule
<1>7. offer' \in [stream : Streams \cup {-1}, units : Nat]
  BY <1>2, <1>4, <1>5 DEF Nothing
<1>8. TypeOK'
  BY <1>2, <1>3, <1>4, <1>5, <1>6, <1>7 DEF TypeOK, HeapsOK, priVars
<1>9. OfferHeld'
  BY <1>2, <1>4 DEF OfferHeld, Nothing, Live
<1>10. ASSUME NEW t \in Streams PROVE StreamInv(t)'
  <2>. DEFINE o == pri[s].urgency
  <2>1. o \in Urgencies /\ Without(s) = [heap EXCEPT ![o] = @ \ {s}]
    BY <1>2 DEF TypeOK, Pri, Without
  <2>2. \A u \in Urgencies : s \in heap[u] => u = o
    BY <1>2 DEF StreamInv, InNoOtherHeap
  <2>3. CASE t # s
    <3>1. \A u \in Urgencies : (t \in heap'[u]) = (t \in heap[u])
      BY <1>6, <2>1, <2>3 DEF TypeOK
    <3>. QED
      BY <2>3, <1>2, <1>3, <1>4, <1>5, <3>1, UntouchedKeeps DEF TypeOK, Untouched, priVars
  <2>4. CASE t = s
    <3>1. EmptyIfIdle(s)' /\ (status'[s] # "closed" => pri'[s] = asked'[s]) /\ Live(s)'
      BY <1>2, <1>4 DEF EmptyIfIdle, Live, priVars, StreamInv
    <3>2. InNoOtherHeap(s)'
      BY <1>2, <1>4, <1>6, <2>1, <2>2, <3>1 DEF TypeOK, InNoOtherHeap, priVars
    <3>3. CanSend(s)' => RequireSchedule(s)'
      BY DEF CanSend, RequireSchedule
    <3>4. CanSend(s)' => Scheduled(s)'
      BY <1>2, <1>4, <1>6, <3>3 DEF Scheduled, priVars
    <3>. QED
      BY <2>4, <3>1, <3>2, <3>4 DEF StreamInv
  <2>. QED
    BY <2>3, <2>4
<1>. QED
  BY <1>8, <1>9, <1>10

\* What is written leaves the queue, and a stream with nothing more to send
\* leaves its heap.
LEMMA AddWriteOffsetKeepsIInv ==
  ASSUME IInv, NEW n \in 0..offer.units, AddWriteOffset(n)
  PROVE  IInv'
<1>. USE DEF IInv
<1>0. PICK s \in {offer.stream} :
        IF status[s] = "closed"
        THEN UNCHANGED <<dataVars, schedVars>>
        ELSE LET total == nwrite[s] + n IN
             /\ unsent' = [unsent EXCEPT ![s] = @ - n]
             /\ fin' = IF n = unsent[s] THEN fin \ {s} ELSE fin
             /\ UNCHANGED <<head, more>>
             /\ CASE ~RequireSchedule(s)' ->
                       /\ heap' = Without(s)
                       /\ nwrite' = [nwrite EXCEPT ![s] = total]
                       /\ UNCHANGED cycle
                  [] RequireSchedule(s)' /\ total < MIN_WRITELEN ->
                       /\ nwrite' = [nwrite EXCEPT ![s] = total]
                       /\ UNCHANGED <<cycle, heap>>
                  [] OTHER -> Schedule(heap, s, pri[s], total)
  BY DEF AddWriteOffset
<1>1. /\ ~answered /\ offer # Nothing /\ answered' = TRUE /\ offer' = Nothing
      /\ UNCHANGED <<status, priVars, flagVars, stalls>>
  BY DEF AddWriteOffset
<1>2. s \in Streams /\ status[s] # "idle" /\ n \in Nat
      /\ (status[s] # "closed" => n <= unsent[s])
  BY <1>0, <1>1 DEF OfferHeld, TypeOK
<1>3. OfferHeld'
  BY <1>1 DEF OfferHeld
<1>4. offer' \in [stream : Streams \cup {-1}, units : Nat]
  BY <1>1 DEF Nothing
<1>5. CASE status[s] = "closed"
  <2>1. UNCHANGED <<dataVars, schedVars>>
    BY <1>0, <1>5
  <2>2. TypeOK'
    BY <1>1, <1>4, <2>1 DEF TypeOK, dataVars, priVars, flagVars, schedVars
  <2>3. ASSUME NEW t \in Streams PROVE StreamInv(t)'
    BY <1>1, <2>1, UntouchedKeeps DEF TypeOK, Untouched, dataVars, priVars, flagVars, schedVars
  <2>. QED
    BY <1>3, <2>2, <2>3
<1>6. CASE status[s] # "closed"
  <2>. DEFINE total == nwrite[s] + n
              o == pri[s].urgency
  <2>1. /\ unsent' = [unsent EXCEPT ![s] = @ - n]
        /\ fin' = IF n = unsent[s] THEN fin \ {s} ELSE fin
        /\ UNCHANGED <<head, more>>
        /\ CASE ~RequireSchedule(s)' ->
                  /\ heap' = Without(s)
                  /\ nwrite' = [nwrite EXCEPT ![s] = total]
                  /\ UNCHANGED cycle
             [] RequireSchedule(s)' /\ total < MIN_WRITELEN ->
                  /\ nwrite' = [nwrite EXCEPT ![s] = total]
                  /\ UNCHANGED <<cycle, heap>>
             [] OTHER -> Schedule(heap, s, pri[s], total)
    BY <1>0, <1>6, Zenon
  <2>2. Live(s) /\ unsent[s] \in Nat /\ unsent[s] - n \in Nat /\ total \in Nat /\ pri[s] \in Pri
    BY <1>2, <1>6 DEF TypeOK, Live
  <2>3. o \in Urgencies /\ Without(s) = [heap EXCEPT ![o] = @ \ {s}]
    BY <2>2 DEF Pri, Without
  <2>. HIDE DEF total
  <2>4. HeapsOK /\ heap \in [Urgencies -> SUBSET Streams]
    BY DEF TypeOK, HeapsOK
  <2>5. /\ HeapsOK'
        /\ \/ ~RequireSchedule(s)' /\ heap' = Without(s)
           \/ RequireSchedule(s)' /\ heap' = heap
           \/ RequireSchedule(s)' /\ heap' = [heap EXCEPT ![o] = @ \cup {s}]
    <3>1. CASE ~RequireSchedule(s)'
      <4>1. heap' = Without(s) /\ nwrite' = [nwrite EXCEPT ![s] = total] /\ cycle' = cycle
        BY <2>1, <3>1
      <4>. QED
        BY <1>2, <2>2, <2>4, <3>1, <4>1, WithoutType DEF HeapsOK
    <3>2. CASE RequireSchedule(s)' /\ total < MIN_WRITELEN
      <4>1. heap' = heap /\ nwrite' = [nwrite EXCEPT ![s] = total] /\ cycle' = cycle
        BY <2>1, <3>2
      <4>. QED
        BY <1>2, <2>2, <2>4, <3>2, <4>1 DEF HeapsOK
    <3>3. CASE RequireSchedule(s)' /\ ~(total < MIN_WRITELEN)
      <4>1. Schedule(heap, s, pri[s], total)
        BY <2>1, <3>3
      <4>. QED
        BY <1>2, <2>2, <2>4, <3>3, <4>1, ScheduleEffect
    <3>. QED
      BY <3>1, <3>2, <3>3
  <2>6. unsent' \in [Streams -> Nat] /\ \A t \in Streams \ {s} : unsent'[t] = unsent[t]
    BY <1>2, <2>1, <2>2 DEF TypeOK
  <2>7. TypeOK'
    BY <1>1, <1>4, <2>1, <2>5, <2>6 DEF TypeOK, HeapsOK, priVars, flagVars
  <2>8. ASSUME NEW t \in Streams PROVE StreamInv(t)'
    <3>1. \A u \in Urgencies : s \in heap[u] => u = o
      BY <1>2 DEF StreamInv, InNoOtherHeap
    <3>2. CASE t # s
      <4>1. \A u \in Urgencies : (t \in heap'[u]) = (t \in heap[u])
        BY <2>3, <2>4, <2>5, <3>2
      <4>. QED
        BY <3>2, <1>1, <2>1, <2>6, <4>1, UntouchedKeeps DEF TypeOK, Untouched, priVars, flagVars
    <3>3. CASE t = s
      <4>1. EmptyIfIdle(s)' /\ (status'[s] # "closed" => pri'[s] = asked'[s]) /\ Live(s)'
        BY <1>1, <1>2, <2>2 DEF EmptyIfIdle, Live, priVars, StreamInv
      <4>2. InNoOtherHeap(s)'
        BY <1>1, <2>3, <2>4, <2>5, <3>1, <4>1 DEF InNoOtherHeap, priVars
      <4>3. CanSend(s) => s \in heap[o]
        BY <1>2, <2>2 DEF StreamInv, Scheduled
      <4>4. CanSend(s)' => RequireSchedule(s)' /\ CanSend(s)
        BY <1>1, <1>2, <2>1, <2>2 DEF CanSend, RequireSchedule, WriteDone, flagVars, TypeOK
      <4>5. CanSend(s)' => Scheduled(s)'
        BY <1>1, <2>3, <2>4, <2>5, <4>3, <4>4 DEF Scheduled, priVars
      <4>. QED
        BY <3>3, <4>1, <4>2, <4>5 DEF StreamInv
    <3>. QED
      BY <3>2, <3>3
  <2>. QED
    BY <1>3, <2>7, <2>8
<1>. QED
  BY <1>5, <1>6

\* An offer that is not taken changes nothing.
LEMMA TakeNothingKeepsIInv ==
  ASSUME IInv, TakeNothing
  PROVE  IInv'
<1>. USE DEF IInv
<1>1. /\ answered' = TRUE /\ offer' = Nothing /\ stalls' \in Nat
      /\ UNCHANGED <<status, priVars, dataVars, flagVars, schedVars>>
  BY DEF TakeNothing, Stall, TypeOK
<1>2. TypeOK'
  BY <1>1 DEF TypeOK, Nothing, priVars, dataVars, flagVars, schedVars
<1>3. OfferHeld'
  BY <1>1 DEF OfferHeld
<1>4. ASSUME NEW t \in Streams PROVE StreamInv(t)'
  BY <1>1, UntouchedKeeps DEF TypeOK, Untouched, priVars, dataVars, flagVars, schedVars
<1>. QED
  BY <1>2, <1>3, <1>4
\* A stream that cannot send may leave its heap.
LEMMA LeaveHeap ==
  ASSUME TypeOK, NEW s \in Streams, StreamInv(s), heap' = Without(s),
         status' = status, pri' = pri, ~CanSend(s)'
  PROVE  /\ \A t \in Streams \ {s}, u \in Urgencies : (t \in heap'[u]) = (t \in heap[u])
         /\ InNoOtherHeap(s)'
         /\ (Live(s) /\ CanSend(s) => Scheduled(s))'
<1>1. /\ pri[s].urgency \in Urgencies
      /\ heap' = [heap EXCEPT ![pri[s].urgency] = @ \ {s}]
  BY DEF TypeOK, Pri, Without
<1>2. \A t \in Streams \ {s}, u \in Urgencies : (t \in heap'[u]) = (t \in heap[u])
  BY <1>1 DEF TypeOK
<1>3. InNoOtherHeap(s)'
  BY <1>1 DEF TypeOK, StreamInv, InNoOtherHeap, Live
<1>. QED
  BY <1>2, <1>3

\* A stream that may send again joins its heap if it has anything to send.
LEMMA JoinHeap ==
  ASSUME TypeOK, NEW s \in Streams, StreamInv(s), Live(s), status' = status, pri' = pri,
         IF RequireSchedule(s)' THEN EnsureScheduled(s) ELSE UNCHANGED schedVars
  PROVE  /\ HeapsOK'
         /\ \A t \in Streams \ {s}, u \in Urgencies : (t \in heap'[u]) = (t \in heap[u])
         /\ InNoOtherHeap(s)'
         /\ (Live(s) /\ CanSend(s) => Scheduled(s))'
<1>1. HeapsOK /\ pri \in [Streams -> Pri] /\ pri[s].urgency \in Urgencies
  BY DEF TypeOK, HeapsOK, Pri
<1>2. CanSend(s)' => RequireSchedule(s)'
  BY DEF CanSend, RequireSchedule
<1>3. CASE RequireSchedule(s)'
  <2>1. EnsureScheduled(s)
    BY <1>3
  <2>2. HeapsOK' /\ heap' = [heap EXCEPT ![pri[s].urgency] = @ \cup {s}]
    BY <2>1, <1>1, EnsureEffect
  <2>. QED
    BY <1>1, <2>2 DEF HeapsOK, StreamInv, InNoOtherHeap, Scheduled, Live
<1>4. CASE ~RequireSchedule(s)'
  <2>1. UNCHANGED schedVars
    BY <1>4
  <2>. QED
    BY <1>1, <1>2, <1>4, <2>1 DEF HeapsOK, schedVars, StreamInv, InNoOtherHeap, Live
<1>. QED
  BY <1>3, <1>4

\* A stream QUIC blocks leaves its heap.
LEMMA BlockKeepsIInv ==
  ASSUME IInv, NEW s \in Streams, Block(s)
  PROVE  IInv'
<1>. USE DEF IInv
<1>1. /\ Live(s) /\ stalls' \in Nat /\ fc' = fc \cup {s}
      /\ nwrite' = [nwrite EXCEPT ![s] = 0] /\ heap' = Without(s)
      /\ UNCHANGED <<status, priVars, dataVars, readBlocked, shut, cycle, offerVars>>
  BY DEF Block, Stall, TypeOK
<1>2. HeapsOK'
  BY <1>1, WithoutType DEF TypeOK, HeapsOK
<1>3. TypeOK'
  BY <1>1, <1>2 DEF TypeOK, HeapsOK, priVars, dataVars, offerVars
<1>4. OfferHeld'
  BY <1>1 DEF TypeOK, OfferHeld, dataVars, offerVars
<1>5. ~CanSend(s)' /\ status' = status /\ pri' = pri
  BY <1>1 DEF CanSend, priVars
<1>6. /\ \A t \in Streams \ {s}, u \in Urgencies : (t \in heap'[u]) = (t \in heap[u])
      /\ InNoOtherHeap(s)' /\ (Live(s) /\ CanSend(s) => Scheduled(s))'
  BY <1>1, <1>5, LeaveHeap
<1>7. ASSUME NEW t \in Streams PROVE StreamInv(t)'
  <2>1. CASE t # s
    BY <2>1, <1>1, <1>6, UntouchedKeeps DEF TypeOK, Untouched, priVars, dataVars
  <2>2. CASE t = s
    <3>1. EmptyIfIdle(s)' /\ (status'[s] # "closed" => pri'[s] = asked'[s])
      BY <1>1 DEF EmptyIfIdle, Live, priVars, StreamInv
    <3>. QED
      BY <2>2, <1>6, <3>1 DEF StreamInv
  <2>. QED
    BY <2>1, <2>2
<1>. QED
  BY <1>3, <1>4, <1>7

\* So does one whose write side is shut.
LEMMA ShutdownWriteKeepsIInv ==
  ASSUME IInv, NEW s \in Streams, ShutdownWrite(s)
  PROVE  IInv'
<1>. USE DEF IInv
<1>1. /\ Live(s) /\ shut' = shut \cup {s}
      /\ nwrite' = [nwrite EXCEPT ![s] = 0] /\ heap' = Without(s)
      /\ UNCHANGED <<status, priVars, dataVars, readBlocked, fc, cycle, offerVars, stalls>>
  BY DEF ShutdownWrite
<1>2. HeapsOK'
  BY <1>1, WithoutType DEF TypeOK, HeapsOK
<1>3. TypeOK'
  BY <1>1, <1>2 DEF TypeOK, HeapsOK, priVars, dataVars, offerVars
<1>4. OfferHeld'
  BY <1>1 DEF TypeOK, OfferHeld, dataVars, offerVars
<1>5. ~CanSend(s)' /\ status' = status /\ pri' = pri
  BY <1>1 DEF CanSend, priVars
<1>6. /\ \A t \in Streams \ {s}, u \in Urgencies : (t \in heap'[u]) = (t \in heap[u])
      /\ InNoOtherHeap(s)' /\ (Live(s) /\ CanSend(s) => Scheduled(s))'
  BY <1>1, <1>5, LeaveHeap
<1>7. ASSUME NEW t \in Streams PROVE StreamInv(t)'
  <2>1. CASE t # s
    BY <2>1, <1>1, <1>6, UntouchedKeeps DEF TypeOK, Untouched, priVars, dataVars
  <2>2. CASE t = s
    <3>1. EmptyIfIdle(s)' /\ (status'[s] # "closed" => pri'[s] = asked'[s])
      BY <1>1 DEF EmptyIfIdle, Live, priVars, StreamInv
    <3>. QED
      BY <2>2, <1>6, <3>1 DEF StreamInv
  <2>. QED
    BY <2>1, <2>2
<1>. QED
  BY <1>3, <1>4, <1>7

\* A stream QUIC unblocks is scheduled if it has anything to send.
LEMMA UnblockKeepsIInv ==
  ASSUME IInv, NEW s \in Streams, Unblock(s)
  PROVE  IInv'
<1>. USE DEF IInv
<1>1. /\ Live(s) /\ fc' = fc \ {s}
      /\ UNCHANGED <<status, priVars, dataVars, readBlocked, shut, offerVars, stalls>>
      /\ IF RequireSchedule(s)' THEN EnsureScheduled(s) ELSE UNCHANGED schedVars
  BY DEF Unblock
<1>2. status' = status /\ pri' = pri
  BY <1>1 DEF priVars
<1>3. /\ HeapsOK'
      /\ \A t \in Streams \ {s}, u \in Urgencies : (t \in heap'[u]) = (t \in heap[u])
      /\ InNoOtherHeap(s)' /\ (Live(s) /\ CanSend(s) => Scheduled(s))'
  BY <1>1, <1>2, JoinHeap
<1>4. TypeOK'
  BY <1>1, <1>3 DEF TypeOK, HeapsOK, priVars, dataVars, offerVars
<1>5. OfferHeld'
  BY <1>1 DEF TypeOK, OfferHeld, dataVars, offerVars
<1>6. ASSUME NEW t \in Streams PROVE StreamInv(t)'
  <2>1. CASE t # s
    BY <2>1, <1>1, <1>3, UntouchedKeeps DEF TypeOK, Untouched, priVars, dataVars
  <2>2. CASE t = s
    <3>1. EmptyIfIdle(s)' /\ (status'[s] # "closed" => pri'[s] = asked'[s])
      BY <1>1 DEF EmptyIfIdle, Live, priVars, StreamInv
    <3>. QED
      BY <2>2, <1>3, <3>1 DEF StreamInv
  <2>. QED
    BY <2>1, <2>2
<1>. QED
  BY <1>4, <1>5, <1>6

\* So is one whose data reader has data again.
LEMMA ResumeKeepsIInv ==
  ASSUME IInv, NEW s \in Streams, Resume(s)
  PROVE  IInv'
<1>. USE DEF IInv
<1>1. /\ Live(s) /\ readBlocked' = readBlocked \ {s}
      /\ UNCHANGED <<status, priVars, dataVars, fc, shut, offerVars, stalls>>
      /\ IF RequireSchedule(s)' THEN EnsureScheduled(s) ELSE UNCHANGED schedVars
  BY DEF Resume
<1>2. status' = status /\ pri' = pri
  BY <1>1 DEF priVars
<1>3. /\ HeapsOK'
      /\ \A t \in Streams \ {s}, u \in Urgencies : (t \in heap'[u]) = (t \in heap[u])
      /\ InNoOtherHeap(s)' /\ (Live(s) /\ CanSend(s) => Scheduled(s))'
  BY <1>1, <1>2, JoinHeap
<1>4. TypeOK'
  BY <1>1, <1>3 DEF TypeOK, HeapsOK, priVars, dataVars, offerVars
<1>5. OfferHeld'
  BY <1>1 DEF TypeOK, OfferHeld, dataVars, offerVars
<1>6. ASSUME NEW t \in Streams PROVE StreamInv(t)'
  <2>1. CASE t # s
    BY <2>1, <1>1, <1>3, UntouchedKeeps DEF TypeOK, Untouched, priVars, dataVars
  <2>2. CASE t = s
    <3>1. EmptyIfIdle(s)' /\ (status'[s] # "closed" => pri'[s] = asked'[s])
      BY <1>1 DEF EmptyIfIdle, Live, priVars, StreamInv
    <3>. QED
      BY <2>2, <1>3, <3>1 DEF StreamInv
  <2>. QED
    BY <2>1, <2>2
<1>. QED
  BY <1>4, <1>5, <1>6

\* A stream that is deleted leaves no trace in the heaps.
LEMMA CloseStreamKeepsIInv ==
  ASSUME IInv, NEW s \in Streams, CloseStream(s)
  PROVE  IInv'
<1>. USE DEF IInv
<1>1. /\ Live(s) /\ status' = [status EXCEPT ![s] = "closed"] /\ heap' = Without(s)
      /\ head' = head \ {s} /\ more' = more \ {s} /\ fin' = fin \ {s}
      /\ unsent' = [unsent EXCEPT ![s] = 0]
      /\ readBlocked' = readBlocked \ {s} /\ fc' = fc \ {s} /\ shut' = shut \ {s}
      /\ nwrite' = [nwrite EXCEPT ![s] = 0] /\ cycle' = [cycle EXCEPT ![s] = 0]
      /\ UNCHANGED <<priVars, offerVars, stalls>>
  BY DEF CloseStream
<1>2. HeapsOK'
  BY <1>1, WithoutType DEF TypeOK, HeapsOK
<1>3. TypeOK'
  BY <1>1, <1>2 DEF TypeOK, HeapsOK, priVars, offerVars
<1>4. OfferHeld'
  BY <1>1 DEF TypeOK, OfferHeld, offerVars
<1>5. /\ pri[s].urgency \in Urgencies
      /\ heap' = [heap EXCEPT ![pri[s].urgency] = @ \ {s}]
  BY <1>1 DEF TypeOK, Pri, Without
<1>6. \A t \in Streams \ {s}, u \in Urgencies : (t \in heap'[u]) = (t \in heap[u])
  BY <1>5 DEF TypeOK
<1>7. \A u \in Urgencies : s \notin heap'[u]
  BY <1>5 DEF TypeOK, StreamInv, InNoOtherHeap
<1>8. ASSUME NEW t \in Streams PROVE StreamInv(t)'
  <2>1. CASE t # s
    BY <2>1, <1>1, <1>6, UntouchedKeeps DEF TypeOK, Untouched, priVars
  <2>2. CASE t = s
    BY <2>2, <1>1, <1>7 DEF TypeOK, StreamInv, InNoOtherHeap, EmptyIfIdle, Live
  <2>. QED
    BY <2>1, <2>2
<1>. QED
  BY <1>3, <1>4, <1>8

\* Before any request there is nothing to agree on.
LEMMA InitIInv ==
  ASSUME Init
  PROVE  IInv
<1>. USE DEF Init
<1>1. TypeOK
  BY SchedAssumption DEF TypeOK, Pri, Nothing
<1>2. OfferHeld
  BY DEF OfferHeld
<1>3. ASSUME NEW s \in Streams PROVE StreamInv(s)
  BY DEF StreamInv, InNoOtherHeap, EmptyIfIdle, Live
<1>. QED
  BY <1>1, <1>2, <1>3 DEF IInv

\* Every step keeps the invariant.
LEMMA NextKeepsIInv ==
  ASSUME IInv, [Next]_vars
  PROVE  IInv'
<1>1. CASE WritevStream
  BY <1>1, WritevStreamKeepsIInv
<1>2. CASE Answer
  BY <1>2, TakeNothingKeepsIInv, AddWriteOffsetKeepsIInv DEF Answer
<1>3. ASSUME NEW s \in Streams,
             \/ OpenStream(s) \/ SubmitResponse(s) \/ CloseStream(s)
             \/ Block(s) \/ Unblock(s) \/ Resume(s) \/ ShutdownWrite(s)
      PROVE  IInv'
  BY <1>3, OpenStreamKeepsIInv, SubmitResponseKeepsIInv, CloseStreamKeepsIInv,
     BlockKeepsIInv, UnblockKeepsIInv, ResumeKeepsIInv, ShutdownWriteKeepsIInv
<1>4. ASSUME NEW s \in Streams, NEW p \in {{}} \cup {{q} : q \in Priorities}, EndHeaders(s, p)
      PROVE  IInv'
  BY <1>4, EndHeadersKeepsIInv
<1>5. ASSUME NEW s \in Streams, NEW p \in Priorities,
             OnPriorityUpdate(s, p) \/ SetServerStreamPriority(s, p)
      PROVE  IInv'
  BY <1>5, OnPriorityUpdateKeepsIInv, SetServerStreamPriorityKeepsIInv
<1>6. CASE UNCHANGED vars
  <2>1. TypeOK' /\ OfferHeld'
    BY <1>6 DEF IInv, TypeOK, OfferHeld, Nothing, vars, priVars, dataVars, flagVars, schedVars, offerVars
  <2>2. ASSUME NEW t \in Streams PROVE StreamInv(t)'
    BY <1>6, UntouchedKeeps DEF IInv, TypeOK, Untouched,
       vars, priVars, dataVars, flagVars, schedVars, offerVars
  <2>. QED
    BY <2>1, <2>2 DEF IInv
<1>. QED
  BY <1>1, <1>2, <1>3, <1>4, <1>5, <1>6 DEF Next
-----------------------------------------------------------------------------
(* Cycles *)

\* What a turn may cost at most, if a stream never has more than k units to
\* offer: the penalty of nghttp3_tnode_schedule.
Turn(k) == (MIN_WRITELEN - 1 + k) \div MIN_WRITELEN

\* The cycles of the streams of a heap are at most two turns from some c,
\* and that of the stream on offer, which has its turn, at most one.
Window(k, h, cyc, o) ==
  \E c \in Nat : \E d \in [Streams -> 0..(2 * k)] :
    \A s \in h : cyc[s] = (c + d[s]) % CycleMod /\ (s = o => d[s] <= k)

\* What a stream may have to offer, and has had written since it was scheduled.
QueueBounded(k, s) ==
  /\ unsent[s] + (IF s \in head THEN 1 ELSE 0) <= k
  /\ nwrite[s] <= MIN_WRITELEN - 1 + k
  /\ offer.stream = s \/ (\E u \in Urgencies : s \in heap[u]) => nwrite[s] < MIN_WRITELEN
  /\ status[s] \in {"idle", "open"} =>
       /\ unsent[s] = 0 /\ s \notin head \cup more \cup fin
       /\ \A u \in Urgencies : s \notin heap[u]

Windows(k) == \A u \in Urgencies : Window(Turn(k), heap[u], cycle, offer.stream)

CyclesInv(k) == IInv /\ Windows(k) /\ \A s \in Streams : QueueBounded(k, s)
CyclesBound(k) ==
  /\ k \in Nat \ {0} /\ MIN_UNSENT_BYTES <= k + 1
  /\ \A n \in Pieces : MIN_UNSENT_BYTES + n <= k + 1
  /\ 2 * Turn(k) <= MAX_CYCLE_GAP

\* A multiple of a larger number is larger by at least the factor.
LEMMA MultiplesApart ==
  ASSUME NEW m \in Nat, m > 0
  PROVE  \A a, b \in Int : a > b => m * a >= m * b + m
<1>1. \A d \in Nat : d >= 1 => m * d >= m
  OBVIOUS
<1>2. SUFFICES ASSUME NEW a \in Int, NEW b \in Int, a > b
               PROVE  m * a >= m * b + m
  OBVIOUS
<1>3. a - b \in Nat /\ a - b >= 1
  BY <1>2
<1>4. m * (a - b) >= m /\ m * (a - b) = m * a - m * b
  BY <1>1, <1>3
<1>. DEFINE x == m * a
            y == m * b
<1>5. x \in Int /\ y \in Int /\ x - y >= m
  BY <1>4
<1>. HIDE DEF x, y
<1>6. x >= y + m
  BY <1>5
<1>. QED
  BY <1>6 DEF x, y

\* Quotient and remainder are the only ones.
LEMMA Remainder ==
  ASSUME NEW m \in Nat, m > 0, NEW q \in Int, NEW r \in 0..(m - 1), NEW x \in Int,
         x = m * q + r
  PROVE  x % m = r /\ x \div m = q
<1>. DEFINE p == x \div m
            s == x % m
<1>1. p \in Int /\ s \in 0..(m - 1) /\ x = m * p + s
  OBVIOUS
<1>. HIDE DEF p, s
<1>. DEFINE mp == m * p
            mq == m * q
<1>2. mp \in Int /\ mq \in Int
  BY <1>1
<1>3. p = q \/ mp >= mq + m \/ mq >= mp + m
  BY <1>1, MultiplesApart
<1>. HIDE DEF mp, mq
<1>4. mp + s = mq + r
  BY <1>1 DEF mp, mq
<1>5. p = q => mp = mq
  BY DEF mp, mq
<1>6. p = q /\ s = r
  BY <1>1, <1>2, <1>3, <1>4, <1>5
<1>. QED
  BY <1>6 DEF p, s

\* Adding to a cycle before or after it wraps is the same.
LEMMA AddCycles ==
  ASSUME NEW a \in Nat, NEW b \in Nat
  PROVE  ((a % CycleMod) + b) % CycleMod = (a + b) % CycleMod
<1>1. CycleMod \in Nat /\ CycleMod > 0
  BY SchedAssumption
<1>. DEFINE m == CycleMod
            r == a % m
            q == a \div m
            s == (r + b) % m
            p == (r + b) \div m
<1>2. r \in 0..(m - 1) /\ q \in Int /\ a = m * q + r
  BY <1>1
<1>3. s \in 0..(m - 1) /\ p \in Int /\ r + b = m * p + s
  BY <1>1, <1>2
<1>. HIDE DEF m, r, q, s, p
<1>4. m * (q + p) = m * q + m * p
  BY <1>1, <1>2, <1>3 DEF m
<1>. DEFINE mp == m * p
            mq == m * q
            mt == m * (q + p)
<1>5. mp \in Int /\ mq \in Int
  BY <1>1, <1>2, <1>3 DEF m
<1>. HIDE DEF mp, mq, mt
<1>6. mt = mq + mp /\ a = mq + r /\ r + b = mp + s
  BY <1>2, <1>3, <1>4 DEF mp, mq, mt
<1>7. a + b = mt + s
  BY <1>2, <1>3, <1>5, <1>6
<1>8. (a + b) % m = s
  <2>1. m \in Nat /\ m > 0 /\ q + p \in Int /\ a + b \in Int
    BY <1>1, <1>2, <1>3 DEF m
  <2>2. a + b = m * (q + p) + s
    BY <1>7 DEF mt
  <2>. QED
    BY <1>3, <2>1, <2>2, Remainder
<1>. QED
  BY <1>8 DEF s, r, m

\* Two cycles at most MAX_CYCLE_GAP after c are ordered by how far they are.
LEMMA LessByOffset ==
  ASSUME NEW c \in Nat, NEW d \in 0..MAX_CYCLE_GAP, NEW e \in 0..MAX_CYCLE_GAP,
         NEW a \in Nat, NEW b \in Nat,
         cycle[a] = (c + d) % CycleMod, cycle[b] = (c + e) % CycleMod
  PROVE  CycleLess(a, b) <=> d < e \/ (d = e /\ a < b)
<1>. DEFINE m == CycleMod
            g == MAX_CYCLE_GAP
            x == (c + d) % m
            y == (c + e) % m
            p == (c + d) \div m
            q == (c + e) \div m
<1>1. m \in Nat /\ m > 0 /\ g \in Nat /\ m > 2 * g
  BY SchedAssumption
<1>2. x \in 0..(m - 1) /\ p \in Int /\ c + d = m * p + x
  BY <1>1
<1>3. y \in 0..(m - 1) /\ q \in Int /\ c + e = m * q + y
  BY <1>1
<1>4. cycle[a] = x /\ cycle[b] = y /\ d \in 0..g /\ e \in 0..g
  OBVIOUS
<1>5. CycleLess(a, b) <=> IF x = y THEN a < b ELSE (y - x) % m <= g
  BY <1>4 DEF CycleLess
<1>. HIDE DEF m, g, x, y, p, q
<1>6. m * (p - q) = m * p - m * q /\ m * (p - q - 1) = m * p - m * q - m
  BY <1>1, <1>2, <1>3
<1>. DEFINE mp == m * p
            mq == m * q
<1>7. mp \in Int /\ mq \in Int /\ (p = q \/ mp >= mq + m \/ mq >= mp + m)
  BY <1>1, <1>2, <1>3, MultiplesApart
<1>8. p = q => mp = mq
  OBVIOUS
<1>. HIDE DEF mp, mq
<1>9. c + d = mp + x /\ c + e = mq + y
  BY <1>2, <1>3 DEF mp, mq
<1>10. x = y <=> d = e
  <2>1. e - d \in Int /\ -g <= e - d /\ e - d <= g
    BY <1>1, <1>4
  <2>. QED
    BY <1>1, <1>2, <1>3, <1>4, <1>7, <1>8, <2>1
<1>11. ASSUME d < e PROVE (y - x) % m = e - d
  <2>1. y - x = m * (p - q) + (e - d)
    <3>1. y - x = (mp - mq) + (e - d)
      BY <1>2, <1>3, <1>4, <1>7, <1>9
    <3>. QED
      BY <3>1, <1>6 DEF mp, mq
  <2>2. e - d \in 0..(m - 1) /\ p - q \in Int /\ y - x \in Int
    BY <1>1, <1>2, <1>3, <1>4, <1>11
  <2>. DEFINE z == y - x
              r == e - d
              t == p - q
  <2>3. m \in Nat /\ m > 0 /\ t \in Int /\ r \in 0..(m - 1) /\ z \in Int /\ z = m * t + r
    BY <1>1, <2>1, <2>2
  <2>. HIDE DEF z, r, t
  <2>4. z % m = r
    BY <2>3, Remainder
  <2>. QED
    BY <2>4 DEF z, r
<1>12. ASSUME e < d PROVE (y - x) % m = m - (d - e)
  <2>1. y - x = m * (p - q - 1) + (m - (d - e))
    <3>1. y - x = (mp - mq - m) + (m - (d - e))
      BY <1>1, <1>2, <1>3, <1>4, <1>7, <1>9
    <3>. QED
      BY <3>1, <1>6 DEF mp, mq
  <2>2. m - (d - e) \in 0..(m - 1) /\ p - q - 1 \in Int /\ y - x \in Int
    BY <1>1, <1>2, <1>3, <1>4, <1>12
  <2>. DEFINE z == y - x
              r == m - (d - e)
              t == p - q - 1
  <2>3. m \in Nat /\ m > 0 /\ t \in Int /\ r \in 0..(m - 1) /\ z \in Int /\ z = m * t + r
    BY <1>1, <2>1, <2>2
  <2>. HIDE DEF z, r, t
  <2>4. z % m = r
    BY <2>3, Remainder
  <2>. QED
    BY <2>4 DEF z, r
<1>13. d < e => (y - x) % m <= g
  BY <1>1, <1>4, <1>11
<1>14. e < d => ~((y - x) % m <= g)
  BY <1>1, <1>4, <1>12
<1>. QED
  BY <1>4, <1>5, <1>10, <1>13, <1>14
\* The root of a heap is the nearest to the c of its window.
LEMMA TopIsNearest ==
  ASSUME NEW h \in SUBSET Streams, h # {}, NEW c \in Nat,
         NEW d \in [Streams -> 0..MAX_CYCLE_GAP],
         \A s \in h : cycle[s] = (c + d[s]) % CycleMod
  PROVE  Top(h) \in h /\ \A s \in h : d[Top(h)] <= d[s]
<1>. DEFINE D == {d[s] : s \in h}
            T == {s \in h : \A t \in h : d[s] <= d[t]}
<1>0. MAX_CYCLE_GAP \in Nat /\ Streams \subseteq Nat
  BY SchedAssumption
<1>a. \A s \in Streams : d[s] \in Nat
  BY <1>0
<1>b. PICK s0 \in h : TRUE
  OBVIOUS
<1>1. D \in SUBSET Nat /\ D # {}
  <2>1. \A s \in h : d[s] \in Nat
    BY <1>a
  <2>2. d[s0] \in D
    OBVIOUS
  <2>. QED
    BY <2>1, <2>2
<1>2. PICK m \in D : \A n \in D : m <= n
  BY <1>1, LeastNat
<1>3. T \in SUBSET Nat /\ T # {}
  <2>1. PICK s \in h : m = d[s]
    BY <1>2
  <2>2. \A t \in h : d[t] \in D
    OBVIOUS
  <2>3. s \in T
    BY <1>2, <2>1, <2>2
  <2>. QED
    BY <1>0, <2>3
<1>4. PICK r \in T : \A t \in T : r <= t
  BY <1>3, LeastNat
<1>5. \A s, t \in h : CycleLess(s, t) <=> d[s] < d[t] \/ (d[s] = d[t] /\ s < t)
  <2>1. SUFFICES ASSUME NEW s \in h, NEW t \in h
                 PROVE  CycleLess(s, t) <=> d[s] < d[t] \/ (d[s] = d[t] /\ s < t)
    OBVIOUS
  <2>2. /\ s \in Nat /\ t \in Nat
        /\ d[s] \in 0..MAX_CYCLE_GAP /\ d[t] \in 0..MAX_CYCLE_GAP
        /\ cycle[s] = (c + d[s]) % CycleMod /\ cycle[t] = (c + d[t]) % CycleMod
    BY <1>0
  <2>. QED
    BY <2>2, LessByOffset
<1>6. Least(h, r)
  <2>1. SUFFICES ASSUME NEW t \in h \ {r} PROVE CycleLess(r, t)
    BY DEF Least
  <2>2. r \in h /\ r \in Nat /\ t \in Nat /\ d[r] \in Nat /\ d[t] \in Nat /\ d[r] <= d[t]
    BY <1>0, <1>4
  <2>3. d[r] = d[t] => t \in T
    OBVIOUS
  <2>4. d[r] < d[t] \/ (d[r] = d[t] /\ r < t)
    BY <1>4, <2>1, <2>2, <2>3
  <2>. QED
    BY <1>5, <2>2, <2>4
<1>7. Top(h) \in h /\ Least(h, Top(h))
  <2>1. r \in h /\ \E s \in h : (\E t \in h : Least(h, t)) => Least(h, s)
    BY <1>4, <1>6
  <2>2. Top(h) \in h /\ ((\E t \in h : Least(h, t)) => Least(h, Top(h)))
    BY <2>1, Zenon DEF Top
  <2>. QED
    BY <1>6, <2>1, <2>2
<1>8. ASSUME NEW s \in h PROVE d[Top(h)] <= d[s]
  <2>. DEFINE t == Top(h)
  <2>1. t \in h /\ d[t] \in Nat /\ d[s] \in Nat
    BY <1>a, <1>7, Zenon
  <2>. HIDE DEF t
  <2>2. s # t => CycleLess(t, s)
    BY <1>7 DEF Least, t
  <2>3. s # t => d[t] < d[s] \/ d[t] = d[s]
    BY <1>5, <2>1, <2>2
  <2>4. d[t] <= d[s]
    BY <2>1, <2>3
  <2>. QED
    BY <2>4 DEF t
<1>. QED
  BY <1>7, <1>8

\* Streams that leave a heap, or change elsewhere, leave its window alone.
LEMMA WindowShrinks ==
  ASSUME NEW k \in Nat, NEW h, NEW g \in SUBSET h, NEW y, NEW z, NEW o, NEW v,
         Window(k, h, y, o), \A s \in g : z[s] = y[s], v = o \/ v \notin g
  PROVE  Window(k, g, z, v)
<1>1. PICK c \in Nat, d \in [Streams -> 0..(2 * k)] :
        \A s \in h : y[s] = (c + d[s]) % CycleMod /\ (s = o => d[s] <= k)
  BY DEF Window
<1>2. \A s \in g : z[s] = (c + d[s]) % CycleMod /\ (s = v => d[s] <= k)
  BY <1>1
<1>. QED
  BY <1>1, <1>2, Zenon DEF Window

\* The window can start at the root.
LEMMA WindowFromTop ==
  ASSUME NEW k \in Nat, 2 * k <= MAX_CYCLE_GAP, NEW h \in SUBSET Streams, h # {}, NEW o,
         Window(k, h, cycle, o)
  PROVE  \E c \in Nat : \E d \in [Streams -> 0..(2 * k)] :
           /\ \A s \in h : cycle[s] = (c + d[s]) % CycleMod /\ (s = o => d[s] <= k)
           /\ Top(h) \in h /\ d[Top(h)] = 0 /\ cycle[Top(h)] = c % CycleMod
<1>1. PICK c \in Nat, d \in [Streams -> 0..(2 * k)] :
        \A s \in h : cycle[s] = (c + d[s]) % CycleMod /\ (s = o => d[s] <= k)
  BY DEF Window
<1>. DEFINE t == Top(h)
            e == [s \in Streams |-> IF s \in h THEN d[s] - d[t] ELSE 0]
<1>2. t \in h /\ \A s \in h : d[t] <= d[s]
  <2>1. MAX_CYCLE_GAP \in Nat /\ d \in [Streams -> 0..MAX_CYCLE_GAP]
    BY SchedAssumption
  <2>. QED
    BY <1>1, <2>1, TopIsNearest
<1>. HIDE DEF t
<1>3. /\ c + d[t] \in Nat /\ e \in [Streams -> 0..(2 * k)]
      /\ \A s \in h : c + d[t] + e[s] = c + d[s] /\ e[s] <= d[s]
  BY <1>2
<1>4. \A s \in h : cycle[s] = (c + d[t] + e[s]) % CycleMod
  BY <1>1, <1>3
<1>5. \A s \in h : s = o => e[s] <= k
  BY <1>1, <1>2
<1>6. e[t] = 0 /\ cycle[t] = (c + d[t]) % CycleMod
  BY <1>1, <1>2
<1>7. /\ \A s \in h : cycle[s] = ((c + d[t]) + e[s]) % CycleMod /\ (s = o => e[s] <= k)
      /\ t \in h /\ e[t] = 0 /\ cycle[t] = (c + d[t]) % CycleMod
  BY <1>2, <1>4, <1>5, <1>6
<1>. HIDE DEF e
<1>8. \E b \in Nat : \E f \in [Streams -> 0..(2 * k)] :
           /\ \A s \in h : cycle[s] = (b + f[s]) % CycleMod /\ (s = o => f[s] <= k)
           /\ t \in h /\ f[t] = 0 /\ cycle[t] = b % CycleMod
  BY <1>3, <1>7, Zenon
<1>. QED
  BY <1>8 DEF t

\* The root may be offered.
LEMMA WindowOffer ==
  ASSUME NEW k \in Nat, 2 * k <= MAX_CYCLE_GAP, NEW h \in SUBSET Streams, h # {}, NEW o,
         Window(k, h, cycle, o)
  PROVE  Window(k, h, cycle, Top(h))
<1>1. PICK c \in Nat, d \in [Streams -> 0..(2 * k)] :
           /\ \A s \in h : cycle[s] = (c + d[s]) % CycleMod /\ (s = o => d[s] <= k)
           /\ Top(h) \in h /\ d[Top(h)] = 0 /\ cycle[Top(h)] = c % CycleMod
  BY WindowFromTop
<1>2. \A s \in h : cycle[s] = (c + d[s]) % CycleMod /\ (s = Top(h) => d[s] <= k)
  BY <1>1
<1>. QED
  BY <1>2, Zenon DEF Window

\* A stream that joins a heap does so at most a turn behind the root.
LEMMA WindowJoin ==
  ASSUME NEW k \in Nat, 2 * k <= MAX_CYCLE_GAP, NEW h \in SUBSET Streams, NEW o,
         Window(k, h, cycle, o), NEW s \in Streams \ h, NEW p \in 0..k,
         NEW z, z[s] = ((IF h = {} THEN 0 ELSE cycle[Top(h)]) + p) % CycleMod,
         \A t \in h : z[t] = cycle[t]
  PROVE  Window(k, h \cup {s}, z, o)
<1>1. \E c \in Nat : \E d \in [Streams -> 0..(2 * k)] :
        /\ \A t \in h : cycle[t] = (c + d[t]) % CycleMod /\ (t = o => d[t] <= k)
        /\ z[s] = (c + p) % CycleMod
  <2>1. CASE h = {}
    <3>. DEFINE d == [t \in Streams |-> 0]
    <3>1. d \in [Streams -> 0..(2 * k)] /\ z[s] = (0 + p) % CycleMod
      BY <2>1
    <3>. HIDE DEF d
    <3>. QED
      BY <2>1, <3>1
  <2>2. CASE h # {}
    <3>1. PICK c \in Nat, d \in [Streams -> 0..(2 * k)] :
           /\ \A t \in h : cycle[t] = (c + d[t]) % CycleMod /\ (t = o => d[t] <= k)
           /\ Top(h) \in h /\ d[Top(h)] = 0 /\ cycle[Top(h)] = c % CycleMod
      BY <2>2, WindowFromTop
    <3>2. z[s] = ((c % CycleMod) + p) % CycleMod
      BY <2>2, <3>1
    <3>3. z[s] = (c + p) % CycleMod
      <4>1. p \in Nat
        OBVIOUS
      <4>. QED
        BY <3>2, <4>1, AddCycles
    <3>. QED
      BY <3>1, <3>3, Zenon
  <2>. QED
    BY <2>1, <2>2
<1>2. PICK c \in Nat, d \in [Streams -> 0..(2 * k)] :
        /\ \A t \in h : cycle[t] = (c + d[t]) % CycleMod /\ (t = o => d[t] <= k)
        /\ z[s] = (c + p) % CycleMod
  BY <1>1
<1>. DEFINE e == [d EXCEPT ![s] = p]
<1>3. e \in [Streams -> 0..(2 * k)]
  BY SMT
<1>4. \A t \in h \cup {s} : z[t] = (c + e[t]) % CycleMod /\ (t = o => e[t] <= k)
  BY <1>2
<1>. HIDE DEF e
<1>. QED
  BY <1>3, <1>4, Zenon DEF Window

\* The stream that had its turn is put back by its cost.
LEMMA WindowBump ==
  ASSUME NEW k \in Nat, NEW h \in SUBSET Streams, NEW s \in h,
         Window(k, h, cycle, s), NEW p \in 0..k, NEW v, v \notin h,
         NEW z, z[s] = (cycle[s] + p) % CycleMod, \A t \in h \ {s} : z[t] = cycle[t]
  PROVE  Window(k, h, z, v)
<1>1. PICK c \in Nat, d \in [Streams -> 0..(2 * k)] :
        \A t \in h : cycle[t] = (c + d[t]) % CycleMod /\ (t = s => d[t] <= k)
  BY DEF Window
<1>. DEFINE e == [d EXCEPT ![s] = @ + p]
<1>2. d[s] \in 0..k
  BY <1>1
<1>3. e \in [Streams -> 0..(2 * k)]
  BY <1>2
<1>4. z[s] = (c + e[s]) % CycleMod
  <2>1. c + d[s] \in Nat /\ p \in Nat
    BY <1>2
  <2>2. (((c + d[s]) % CycleMod) + p) % CycleMod = (c + d[s] + p) % CycleMod
    BY <2>1, AddCycles
  <2>. QED
    BY <1>1, <1>2, <2>2
<1>5. \A t \in h : z[t] = (c + e[t]) % CycleMod /\ (t = v => e[t] <= k)
  BY <1>1, <1>4
<1>. HIDE DEF e
<1>. QED
  BY <1>3, <1>5, Zenon DEF Window
\* A stream with at most k units to offer pays at most a turn.
LEMMA TurnCosts ==
  ASSUME NEW k, CyclesBound(k), NEW n \in Nat, n <= MIN_WRITELEN - 1 + k
  PROVE  /\ Turn(k) \in Nat /\ 2 * Turn(k) <= MAX_CYCLE_GAP
         /\ AtLeastOne(n \div MIN_WRITELEN) \in 0..Turn(k)
<1>. DEFINE m == MIN_WRITELEN
            b == m - 1 + k
            p == n \div m
            q == b \div m
<1>1. m \in Nat /\ m > 0 /\ k \in Nat /\ k > 0 /\ 2 * Turn(k) <= MAX_CYCLE_GAP
  BY SchedAssumption DEF CyclesBound
<1>2. b \in Nat /\ b >= m /\ n <= b
  BY <1>1
<1>3. p \in Nat /\ n = m * p + (n % m) /\ n % m \in 0..(m - 1)
  BY <1>1
<1>4. q \in Nat /\ b = m * q + (b % m) /\ b % m \in 0..(m - 1)
  BY <1>1, <1>2
<1>5. Turn(k) = q
  BY DEF Turn
<1>. HIDE DEF m, p, q, b
<1>6. p <= q /\ q >= 1
  <2>. DEFINE mp == m * p
              mq == m * q
              r == n % m
              t == b % m
  <2>1. /\ mp \in Int /\ mq \in Int /\ n = mp + r /\ b = mq + t
        /\ r \in 0..(m - 1) /\ t \in 0..(m - 1)
    BY <1>1, <1>3, <1>4
  <2>2. p > q => mp >= mq + m
    BY <1>1, <1>3, <1>4, MultiplesApart
  <2>3. q = 0 => mq = 0
    BY <1>1
  <2>. HIDE DEF mp, mq, r, t
  <2>. QED
    BY <1>1, <1>2, <1>3, <1>4, <2>1, <2>2, <2>3
<1>7. AtLeastOne(p) \in 0..q
  BY <1>3, <1>4, <1>6 DEF AtLeastOne
<1>. QED
  BY <1>1, <1>4, <1>5, <1>7 DEF m, p

\* Scheduling a stream that is in no heap.
LEMMA ScheduleKeepsWindows ==
  ASSUME NEW k, CyclesBound(k), TypeOK, Windows(k),
         NEW h \in [Urgencies -> SUBSET Streams], \A u \in Urgencies : h[u] \in SUBSET heap[u],
         NEW s \in Streams, \A u \in Urgencies : s \notin h[u], NEW p \in Pri,
         NEW n \in Nat, n <= MIN_WRITELEN - 1 + k, Schedule(h, s, p, n),
         offer'.stream = offer.stream \/ offer'.stream \notin Streams
  PROVE  Windows(k)'
<1>. DEFINE T == Turn(k)
            w == p.urgency
            cost == IF n = 0 \/ ~p.inc THEN 0 ELSE AtLeastOne(n \div MIN_WRITELEN)
            v == offer'.stream
<1>1. T \in Nat /\ 2 * T <= MAX_CYCLE_GAP /\ cost \in 0..T
  BY TurnCosts
<1>2. w \in Urgencies
  BY DEF Pri
<1>3. HeapsOK' /\ heap' = [h EXCEPT ![w] = @ \cup {s}]
  BY ScheduleEffect DEF TypeOK, HeapsOK
<1>4. cycle' = [cycle EXCEPT ![s] = (FirstCycle(h, w) + cost) % CycleMod]
  BY <1>2, Zenon DEF Schedule
<1>. HIDE DEF cost
<1>5. /\ cycle'[s] = ((IF h[w] = {} THEN 0 ELSE cycle[Top(h[w])]) + cost) % CycleMod
      /\ \A t \in Streams \ {s} : cycle'[t] = cycle[t]
  BY <1>4 DEF TypeOK, FirstCycle
<1>. HIDE DEF T, w
<1>6. \A u \in Urgencies : Window(T, heap[u], cycle, offer.stream)
  BY DEF Windows, T
<1>7. ASSUME NEW u \in Urgencies PROVE Window(T, h[u], cycle, v)
  <2>1. h[u] \in SUBSET heap[u] /\ h[u] \in SUBSET Streams
    OBVIOUS
  <2>2. v = offer.stream \/ v \notin h[u]
    BY <2>1
  <2>. HIDE DEF v
  <2>. QED
    BY <1>1, <1>6, <2>1, <2>2, WindowShrinks
<1>8. ASSUME NEW u \in Urgencies PROVE Window(T, heap'[u], cycle', v)
  <2>1. h[u] \in SUBSET Streams /\ s \in Streams \ h[u] /\ \A t \in h[u] : cycle'[t] = cycle[t]
    BY <1>5
  <2>2. CASE u = w
    <3>1. Window(T, h[w] \cup {s}, cycle', v)
      <4>1. h[w] \in SUBSET Streams /\ s \in Streams \ h[w] /\ \A t \in h[w] : cycle'[t] = cycle[t]
        BY <2>1, <2>2
      <4>2. Window(T, h[w], cycle, v)
        BY <1>2, <1>7
      <4>. HIDE DEF v
      <4>. QED
        BY <1>1, <1>5, <4>1, <4>2, WindowJoin
    <3>2. heap'[w] = h[w] \cup {s}
      BY <1>2, <1>3
    <3>. QED
      BY <2>2, <3>1, <3>2
  <2>3. CASE u # w
    <3>1. heap'[u] = h[u] /\ h[u] \in SUBSET h[u]
      BY <1>3, <2>3
    <3>2. Window(T, h[u], cycle, v)
      BY <1>7
    <3>. HIDE DEF v
    <3>3. Window(T, h[u], cycle', v)
      BY <1>1, <2>1, <3>1, <3>2, WindowShrinks
    <3>. QED
      BY <3>1, <3>3
  <2>. QED
    BY <2>2, <2>3
<1>. QED
  BY <1>8 DEF Windows, T

\* Streams that leave their heaps.
LEMMA LeavingKeepsWindows ==
  ASSUME NEW k, CyclesBound(k), TypeOK, Windows(k),
         \A u \in Urgencies : heap'[u] \in SUBSET heap[u],
         \A u \in Urgencies : \A t \in heap'[u] : cycle'[t] = cycle[t],
         offer'.stream = offer.stream \/ offer'.stream \notin Streams
  PROVE  Windows(k)'
<1>. DEFINE T == Turn(k)
            v == offer'.stream
<1>1. T \in Nat
  <2>1. 0 \in Nat /\ 0 <= MIN_WRITELEN - 1 + k
    BY SchedAssumption DEF CyclesBound
  <2>. QED
    BY <2>1, TurnCosts
<1>. HIDE DEF T
<1>2. ASSUME NEW u \in Urgencies PROVE Window(T, heap'[u], cycle', v)
  <2>1. heap'[u] \in SUBSET heap[u] /\ heap[u] \in SUBSET Streams
    BY DEF TypeOK
  <2>2. v = offer.stream \/ v \notin heap'[u]
    BY <2>1
  <2>3. Window(T, heap[u], cycle, offer.stream) /\ \A t \in heap'[u] : cycle'[t] = cycle[t]
    BY DEF Windows, T
  <2>. HIDE DEF v
  <2>. QED
    BY <1>1, <2>1, <2>2, <2>3, WindowShrinks
<1>. QED
  BY <1>2 DEF Windows, T
\* Nothing QueueBounded says of the stream has changed.
SameQueue(t) ==
  /\ status'[t] = status[t] /\ unsent'[t] = unsent[t] /\ nwrite'[t] = nwrite[t]
  /\ \A u \in Urgencies : (t \in heap'[u]) = (t \in heap[u])
  /\ (t \in head') = (t \in head) /\ (t \in more') = (t \in more)
  /\ (t \in fin') = (t \in fin)
  /\ offer'.stream = t => offer.stream = t

\* A step that leaves a stream alone keeps its bounds.
LEMMA SameQueueKeeps ==
  ASSUME NEW k, NEW t, QueueBounded(k, t), SameQueue(t)
  PROVE  QueueBounded(k, t)'
<1>. QED
  BY DEF QueueBounded, SameQueue

\* A stream that is not scheduled: its count stays within the bound.
LEMMA ScheduleKeepsQueues ==
  ASSUME NEW k, CyclesBound(k), TypeOK, NEW s \in Streams,
         \A t \in Streams : QueueBounded(k, t),
         NEW h \in [Urgencies -> SUBSET Streams],
         \A t \in Streams \ {s}, u \in Urgencies : (t \in h[u]) = (t \in heap[u]),
         NEW p \in Pri, NEW n \in Nat, Schedule(h, s, p, n), status[s] \notin {"idle", "open"},
         UNCHANGED <<status, dataVars, offer>>
  PROVE  \A t \in Streams : QueueBounded(k, t)'
<1>1. nwrite' = [nwrite EXCEPT ![s] = 0] /\ heap' = [h EXCEPT ![p.urgency] = @ \cup {s}]
  BY ScheduleEffect DEF TypeOK, HeapsOK, Schedule
<1>2. p.urgency \in Urgencies
  BY DEF Pri
<1>3. ASSUME NEW t \in Streams PROVE QueueBounded(k, t)'
  <2>1. CASE t # s
    <3>1. SameQueue(t)
      BY <1>1, <1>2, <2>1 DEF SameQueue, TypeOK, dataVars
    <3>. QED
      BY <3>1, SameQueueKeeps
  <2>2. CASE t = s
    <3>1. nwrite'[s] = 0 /\ status'[s] \notin {"idle", "open"}
      BY <1>1 DEF TypeOK
    <3>2. unsent'[s] + (IF s \in head' THEN 1 ELSE 0) <= k
      BY DEF QueueBounded, dataVars
    <3>3. 0 < MIN_WRITELEN /\ 0 <= MIN_WRITELEN - 1 + k
      BY SchedAssumption DEF CyclesBound
    <3>. QED
      BY <2>2, <3>1, <3>2, <3>3 DEF QueueBounded
  <2>. QED
    BY <2>1, <2>2
<1>. QED
  BY <1>3

\* A stream that leaves its heap keeps its count, or starts again from none.
LEMMA LeavingKeepsQueues ==
  ASSUME NEW k, CyclesBound(k), TypeOK, NEW s \in Streams,
         \A t \in Streams : QueueBounded(k, t),
         heap' = Without(s), nwrite' = nwrite \/ nwrite' = [nwrite EXCEPT ![s] = 0],
         UNCHANGED <<status, dataVars, offer>>
  PROVE  \A t \in Streams : QueueBounded(k, t)'
<1>1. pri[s].urgency \in Urgencies /\ heap' = [heap EXCEPT ![pri[s].urgency] = @ \ {s}]
  BY DEF TypeOK, Pri, Without
<1>2. ASSUME NEW t \in Streams PROVE QueueBounded(k, t)'
  <2>1. CASE t # s
    <3>1. SameQueue(t)
      BY <1>1, <2>1 DEF SameQueue, TypeOK, dataVars
    <3>. QED
      BY <3>1, SameQueueKeeps
  <2>2. CASE t = s
    <3>1. \A u \in Urgencies : s \in heap'[u] => s \in heap[u]
      BY <1>1 DEF TypeOK
    <3>2. nwrite'[s] = nwrite[s] \/ nwrite'[s] = 0
      BY DEF TypeOK
    <3>3. 0 < MIN_WRITELEN /\ 0 <= MIN_WRITELEN - 1 + k
      BY SchedAssumption DEF CyclesBound
    <3>4. QueueBounded(k, s)
      OBVIOUS
    <3>5. QueueBounded(k, s)'
      BY <3>1, <3>2, <3>3, <3>4 DEF QueueBounded, dataVars
    <3>. QED
      BY <2>2, <3>5
  <2>. QED
    BY <2>1, <2>2
<1>. QED
  BY <1>2

\* A change of priority keeps the windows of both heaps.
LEMMA UpdatePriorityKeepsCycles ==
  ASSUME NEW k, CyclesBound(k), CyclesInv(k), NEW s \in Streams, NEW p \in Pri, Live(s),
         UpdatePriority(s, p), UNCHANGED <<status, dataVars, offer>>
  PROVE  Windows(k)' /\ \A t \in Streams : QueueBounded(k, t)'
<1>0. TypeOK /\ StreamInv(s) /\ QueueBounded(k, s) /\ Windows(k)
      /\ \A t \in Streams : QueueBounded(k, t)
  BY DEF CyclesInv, IInv
<1>. DEFINE o == pri[s].urgency
<1>1. o \in Urgencies /\ Without(s) = [heap EXCEPT ![o] = @ \ {s}]
  BY <1>0 DEF TypeOK, Pri, Without
<1>2. \A u \in Urgencies : s \in heap[u] => u = o
  BY <1>0 DEF StreamInv, InNoOtherHeap
<1>. HIDE DEF o
<1>3. /\ \A u \in Urgencies : s \notin Without(s)[u] /\ Without(s)[u] \in SUBSET heap[u]
      /\ \A t \in Streams \ {s}, u \in Urgencies : (t \in Without(s)[u]) = (t \in heap[u])
      /\ Without(s) \in [Urgencies -> SUBSET Streams]
  BY <1>0, <1>1, <1>2 DEF TypeOK
<1>4. CASE p = pri[s]
  <2>1. UNCHANGED schedVars
    BY <1>4 DEF UpdatePriority
  <2>2. Windows(k)'
    BY <1>0, <2>1 DEF Windows, Window, schedVars, Turn
  <2>3. ASSUME NEW t \in Streams PROVE QueueBounded(k, t)'
    BY <1>0, <2>1, SameQueueKeeps DEF SameQueue, schedVars, dataVars
  <2>. QED
    BY <2>2, <2>3
<1>5. CASE p # pri[s] /\ RequireSchedule(s)
  <2>1. Schedule(Without(s), s, p, nwrite[s])
    BY <1>5 DEF UpdatePriority
  <2>2. nwrite[s] \in Nat /\ nwrite[s] <= MIN_WRITELEN - 1 + k /\ offer'.stream = offer.stream
    BY <1>0 DEF QueueBounded, TypeOK
  <2>3. status[s] \notin {"idle", "open"}
    BY <1>0, <1>5 DEF QueueBounded, RequireSchedule, WriteDone
  <2>4. Windows(k)'
    BY <1>0, <1>3, <2>1, <2>2, ScheduleKeepsWindows
  <2>5. \A t \in Streams : QueueBounded(k, t)'
    BY <1>0, <1>3, <2>1, <2>2, <2>3, ScheduleKeepsQueues
  <2>. QED
    BY <2>4, <2>5
<1>6. CASE p # pri[s] /\ ~RequireSchedule(s)
  <2>1. heap' = Without(s) /\ nwrite' = nwrite /\ cycle' = cycle
    BY <1>6 DEF UpdatePriority, Unschedule
  <2>2. Windows(k)'
    BY <1>0, <1>3, <2>1, LeavingKeepsWindows
  <2>3. \A t \in Streams : QueueBounded(k, t)'
    BY <1>0, <2>1, LeavingKeepsQueues
  <2>. QED
    BY <2>2, <2>3
<1>. QED
  BY <1>4, <1>5, <1>6

\* So does a stream that may send again.
LEMMA EnsureKeepsCycles ==
  ASSUME NEW k, CyclesBound(k), CyclesInv(k), NEW s \in Streams, Live(s),
         IF RequireSchedule(s)' THEN EnsureScheduled(s) ELSE UNCHANGED schedVars,
         UNCHANGED <<status, dataVars, offer>>
  PROVE  Windows(k)' /\ \A t \in Streams : QueueBounded(k, t)'
<1>0. TypeOK /\ StreamInv(s) /\ QueueBounded(k, s) /\ Windows(k)
      /\ \A t \in Streams : QueueBounded(k, t)
  BY DEF CyclesInv, IInv
<1>1. CASE RequireSchedule(s)' /\ ~Scheduled(s)
  <2>1. Schedule(heap, s, pri[s], nwrite[s])
    BY <1>1 DEF EnsureScheduled
  <2>2. /\ nwrite[s] \in Nat /\ nwrite[s] <= MIN_WRITELEN - 1 + k
        /\ offer'.stream = offer.stream /\ pri[s] \in Pri
        /\ heap \in [Urgencies -> SUBSET Streams]
    BY <1>0 DEF QueueBounded, TypeOK
  <2>3. \A u \in Urgencies : s \notin heap[u] /\ heap[u] \in SUBSET heap[u]
    BY <1>0, <1>1 DEF StreamInv, InNoOtherHeap, Scheduled
  <2>4. status[s] \notin {"idle", "open"}
    BY <1>0, <1>1 DEF QueueBounded, RequireSchedule, WriteDone, dataVars
  <2>5. Windows(k)'
    BY <1>0, <2>1, <2>2, <2>3, ScheduleKeepsWindows
  <2>6. \A t \in Streams : QueueBounded(k, t)'
    BY <1>0, <2>1, <2>2, <2>4, ScheduleKeepsQueues
  <2>. QED
    BY <2>5, <2>6
<1>2. CASE ~(RequireSchedule(s)' /\ ~Scheduled(s))
  <2>1. UNCHANGED schedVars
    BY <1>2 DEF EnsureScheduled
  <2>2. Windows(k)'
    BY <1>0, <2>1 DEF Windows, Window, schedVars, Turn
  <2>3. ASSUME NEW t \in Streams PROVE QueueBounded(k, t)'
    BY <1>0, <2>1, SameQueueKeeps DEF SameQueue, schedVars, dataVars
  <2>. QED
    BY <2>2, <2>3
<1>. QED
  BY <1>1, <1>2
\* Steps that schedule nothing and fill no queue keep the bounds.
LEMMA QuietKeepsCycles ==
  ASSUME NEW k, CyclesInv(k), UNCHANGED <<dataVars, schedVars>>,
         offer' = offer \/ offer' = Nothing,
         \A s \in Streams : status'[s] = status[s] \/ (status[s] = "idle" /\ status'[s] = "open")
  PROVE  Windows(k)' /\ \A t \in Streams : QueueBounded(k, t)'
<1>1. TypeOK /\ Windows(k) /\ \A t \in Streams : QueueBounded(k, t)
  BY DEF CyclesInv, IInv
<1>2. offer'.stream = offer.stream \/ offer'.stream \notin Streams
  BY SchedAssumption DEF Nothing
<1>3. Windows(k)'
  <2>1. Turn(k)' = Turn(k) /\ heap' = heap /\ cycle' = cycle
    BY DEF Turn, schedVars
  <2>2. ASSUME NEW u \in Urgencies PROVE Window(Turn(k), heap[u], cycle, offer'.stream)
    <3>1. heap[u] \in SUBSET Streams /\ Window(Turn(k), heap[u], cycle, offer.stream)
      BY <1>1 DEF TypeOK, Windows
    <3>. QED
      BY <1>2, <3>1 DEF Window
  <2>. QED
    BY <2>1, <2>2 DEF Windows
<1>4. ASSUME NEW t \in Streams PROVE QueueBounded(k, t)'
  <2>1. offer'.stream = t => offer.stream = t
    BY <1>2
  <2>2. QueueBounded(k, t)
    BY <1>1
  <2>. QED
    BY <2>1, <2>2 DEF QueueBounded, schedVars, dataVars
<1>. QED
  BY <1>3, <1>4

\* A response joins as far behind as it is owed, which is nothing yet.
LEMMA SubmitResponseKeepsCycles ==
  ASSUME NEW k, CyclesBound(k), CyclesInv(k), NEW s \in Streams, SubmitResponse(s)
  PROVE  Windows(k)' /\ \A t \in Streams : QueueBounded(k, t)'
<1>0. TypeOK /\ QueueBounded(k, s) /\ Windows(k) /\ \A t \in Streams : QueueBounded(k, t)
  BY DEF CyclesInv, IInv
<1>1. /\ status[s] = "open" /\ status' = [status EXCEPT ![s] = "answered"]
      /\ more' = more \cup {s} /\ head' = head \cup {s}
      /\ Schedule(heap, s, pri[s], nwrite[s])
      /\ UNCHANGED <<priVars, unsent, fin, flagVars, offerVars, stalls>>
  BY DEF SubmitResponse
<1>2. /\ nwrite[s] \in Nat /\ nwrite[s] <= MIN_WRITELEN - 1 + k /\ unsent[s] = 0
      /\ offer'.stream = offer.stream /\ pri[s] \in Pri
      /\ heap \in [Urgencies -> SUBSET Streams] /\ pri[s].urgency \in Urgencies
  BY <1>0, <1>1 DEF QueueBounded, TypeOK, offerVars, Pri
<1>3. \A u \in Urgencies : s \notin heap[u] /\ heap[u] \in SUBSET heap[u]
  BY <1>0, <1>1 DEF QueueBounded
<1>4. Windows(k)'
  BY <1>0, <1>1, <1>2, <1>3, ScheduleKeepsWindows
<1>5. nwrite' = [nwrite EXCEPT ![s] = 0] /\ heap' = [heap EXCEPT ![pri[s].urgency] = @ \cup {s}]
  BY <1>0, <1>1, <1>2, ScheduleEffect DEF TypeOK, HeapsOK, Schedule
<1>6. ASSUME NEW t \in Streams PROVE QueueBounded(k, t)'
  <2>1. CASE t # s
    <3>1. SameQueue(t)
      BY <1>0, <1>1, <1>2, <1>5, <2>1 DEF SameQueue, TypeOK
    <3>. QED
      BY <1>0, <3>1, SameQueueKeeps
  <2>2. CASE t = s
    <3>1. nwrite'[s] = 0 /\ status'[s] = "answered" /\ unsent'[s] = 0
      BY <1>0, <1>1, <1>2, <1>5 DEF TypeOK
    <3>2. 0 < MIN_WRITELEN /\ 0 <= MIN_WRITELEN - 1 + k /\ k \in Nat /\ k >= 1
      BY SchedAssumption DEF CyclesBound
    <3>. QED
      BY <2>2, <3>1, <3>2 DEF QueueBounded
  <2>. QED
    BY <2>1, <2>2
<1>. QED
  BY <1>4, <1>6

\* The stream offered is the root of its heap, and so has its turn.
LEMMA WritevStreamKeepsCycles ==
  ASSUME NEW k, CyclesBound(k), CyclesInv(k), WritevStream
  PROVE  Windows(k)' /\ \A t \in Streams : QueueBounded(k, t)'
<1>0. TypeOK /\ Windows(k) /\ (\A t \in Streams : QueueBounded(k, t))
      /\ OfferHeld /\ (\A t \in Streams : StreamInv(t))
  BY DEF CyclesInv, IInv
<1>1. PICK s \in {NextTxStream} :
        LET have == unsent[s] + (IF s \in head THEN 1 ELSE 0)
            reads == s \in more \ readBlocked /\ have < MIN_UNSENT_BYTES
        IN /\ head' = head \ {s}
           /\ \/ /\ ~reads
                 /\ unsent' = [unsent EXCEPT ![s] = have]
                 /\ UNCHANGED <<more, fin, readBlocked, stalls>>
              \/ /\ reads
                 /\ Stall
                 /\ readBlocked' = readBlocked \cup {s}
                 /\ unsent' = [unsent EXCEPT ![s] = have]
                 /\ UNCHANGED <<more, fin>>
              \/ /\ reads
                 /\ \E n \in Pieces \cup {0} :
                      /\ unsent' = [unsent EXCEPT ![s] = have + n]
                      /\ fin' = IF n + have = 0 THEN fin \cup {s} ELSE fin
                      /\ \/ n > 0 /\ more' = more
                         \/ more' = more \ {s}
                 /\ UNCHANGED <<readBlocked, stalls>>
           /\ Return(s)
  BY DEF WritevStream
<1>2. s \in Streams /\ Live(s) /\ Scheduled(s) /\ s = NextTxStream
  BY <1>0, <1>1, NextIsLive DEF WritevStream
<1>3. /\ UNCHANGED <<status, priVars, fc, shut>> /\ answered' = FALSE
      /\ offer' = IF WriteDone(s)' THEN Nothing ELSE [stream |-> s, units |-> unsent'[s]]
      /\ IF RequireSchedule(s)' THEN UNCHANGED schedVars ELSE Unschedule(s)
  BY <1>1 DEF Return
<1>4. unsent[s] + (IF s \in head THEN 1 ELSE 0) <= k /\ unsent[s] \in Nat
      /\ status[s] \notin {"idle", "open"} /\ pri[s].urgency \in Urgencies
      /\ nwrite[s] < MIN_WRITELEN /\ nwrite[s] <= MIN_WRITELEN - 1 + k
  BY <1>0, <1>2 DEF QueueBounded, TypeOK, Scheduled, Pri
<1>5. /\ head' = head \ {s} /\ fin' \in {fin, fin \cup {s}} /\ more' \in {more, more \ {s}}
      /\ \E n \in Nat : n <= k /\ unsent' = [unsent EXCEPT ![s] = n]
  <2>. DEFINE have == unsent[s] + (IF s \in head THEN 1 ELSE 0)
  <2>1. have \in Nat /\ have <= k /\ MIN_UNSENT_BYTES \in Nat /\ k \in Nat
    BY <1>4, SchedAssumption DEF CyclesBound
  <2>2. \A n \in Pieces \cup {0} : n \in Nat /\ (have < MIN_UNSENT_BYTES => have + n <= k)
    BY <2>1, SchedAssumption DEF CyclesBound
  <2>3. /\ head' = head \ {s} /\ fin' \in {fin, fin \cup {s}} /\ more' \in {more, more \ {s}}
        /\ \/ unsent' = [unsent EXCEPT ![s] = have]
           \/ /\ have < MIN_UNSENT_BYTES
              /\ \E n \in Pieces \cup {0} : unsent' = [unsent EXCEPT ![s] = have + n]
    BY <1>1
  <2>. HIDE DEF have
  <2>. QED
    BY <2>1, <2>2, <2>3
<1>6. /\ nwrite' = nwrite /\ cycle' = cycle
      /\ heap' = IF RequireSchedule(s)' THEN heap ELSE Without(s)
  BY <1>3 DEF schedVars, Unschedule
<1>7. offer'.stream \in {s, -1}
  BY <1>3 DEF Nothing
<1>8. offer = Nothing /\ offer.stream = -1 /\ -1 \notin Streams
  BY <1>0, SchedAssumption DEF OfferHeld, WritevStream, Nothing
<1>9. \A u \in Urgencies : heap'[u] \in SUBSET heap[u] /\ heap[u] \in SUBSET Streams
  BY <1>0, <1>4, <1>6 DEF TypeOK, Without
<1>10. ASSUME NEW t \in Streams PROVE QueueBounded(k, t)'
  <2>1. CASE t # s
    <3>1. \A u \in Urgencies : (t \in heap'[u]) = (t \in heap[u])
      BY <1>0, <1>4, <1>6, <2>1 DEF TypeOK, Without
    <3>2. SameQueue(t)
      BY <1>0, <1>2, <1>3, <1>5, <1>6, <1>7, <2>1, <3>1, SchedAssumption DEF SameQueue, TypeOK
    <3>. QED
      BY <1>0, <3>2, SameQueueKeeps
  <2>2. CASE t = s
    <3>1. unsent'[s] <= k /\ unsent'[s] \in Nat /\ s \notin head'
      BY <1>0, <1>2, <1>5 DEF TypeOK
    <3>. QED
      BY <1>3, <1>4, <1>6, <2>2, <3>1 DEF QueueBounded
  <2>. QED
    BY <2>1, <2>2
<1>. DEFINE T == Turn(k)
<1>11. T \in Nat /\ 2 * T <= MAX_CYCLE_GAP
  <2>1. 0 \in Nat /\ 0 <= MIN_WRITELEN - 1 + k
    BY SchedAssumption DEF CyclesBound
  <2>. QED
    BY <2>1, TurnCosts
<1>12. PICK w \in Urgencies : heap[w] # {} /\ s = Top(heap[w])
  BY <1>2, NextIsRoot DEF WritevStream
<1>13. \A u \in Urgencies : Window(T, heap[u], cycle, offer.stream)
  BY <1>0 DEF Windows
<1>. HIDE DEF T
<1>14. ASSUME NEW u \in Urgencies PROVE Window(T, heap[u], cycle, s)
  <2>1. heap[u] \in SUBSET Streams /\ heap[u] \in SUBSET heap[u]
    BY <1>9
  <2>2. CASE u = w
    <3>1. Window(T, heap[w], cycle, Top(heap[w]))
      BY <1>11, <1>12, <1>13, <2>1, <2>2, WindowOffer
    <3>. QED
      BY <1>12, <2>2, <3>1
  <2>3. CASE u # w
    <3>1. s \notin heap[u]
      <4>1. s \in heap[w]
        BY <1>12, TopInHeap
      <4>. QED
        BY <1>0, <1>2, <2>3, <4>1 DEF StreamInv, InNoOtherHeap
    <3>. QED
      BY <1>11, <1>13, <2>1, <3>1, WindowShrinks
  <2>. QED
    BY <2>2, <2>3
<1>15. ASSUME NEW u \in Urgencies PROVE Window(T, heap'[u], cycle', offer'.stream)
  <2>. DEFINE v == offer'.stream
              g == heap'[u]
  <2>1. g \in SUBSET heap[u] /\ (v = s \/ v \notin g) /\ \A t \in g : cycle'[t] = cycle[t]
    BY <1>6, <1>7, <1>8, <1>9
  <2>. HIDE DEF v, g
  <2>2. Window(T, g, cycle', v)
    BY <1>11, <1>14, <2>1, WindowShrinks
  <2>. QED
    BY <2>2 DEF v, g
<1>. QED
  BY <1>10, <1>15 DEF Windows, T
\* What was written puts the stream back by its cost, once.
LEMMA AddWriteOffsetKeepsCycles ==
  ASSUME NEW k, CyclesBound(k), CyclesInv(k), NEW n \in 0..offer.units, AddWriteOffset(n)
  PROVE  Windows(k)' /\ \A t \in Streams : QueueBounded(k, t)'
<1>0. TypeOK /\ Windows(k) /\ (\A t \in Streams : QueueBounded(k, t))
      /\ OfferHeld /\ (\A t \in Streams : StreamInv(t))
  BY DEF CyclesInv, IInv
<1>1. PICK s \in {offer.stream} :
        IF status[s] = "closed"
        THEN UNCHANGED <<dataVars, schedVars>>
        ELSE LET total == nwrite[s] + n IN
             /\ unsent' = [unsent EXCEPT ![s] = @ - n]
             /\ fin' = IF n = unsent[s] THEN fin \ {s} ELSE fin
             /\ UNCHANGED <<head, more>>
             /\ CASE ~RequireSchedule(s)' ->
                       /\ heap' = Without(s)
                       /\ nwrite' = [nwrite EXCEPT ![s] = total]
                       /\ UNCHANGED cycle
                  [] RequireSchedule(s)' /\ total < MIN_WRITELEN ->
                       /\ nwrite' = [nwrite EXCEPT ![s] = total]
                       /\ UNCHANGED <<cycle, heap>>
                  [] OTHER -> Schedule(heap, s, pri[s], total)
  BY DEF AddWriteOffset
<1>2. /\ ~answered /\ offer # Nothing /\ offer' = Nothing
      /\ UNCHANGED <<status, priVars, flagVars, stalls>>
  BY DEF AddWriteOffset
<1>3. s \in Streams /\ s = offer.stream /\ n \in Nat
      /\ (status[s] # "closed" => n <= unsent[s])
  BY <1>0, <1>1, <1>2 DEF OfferHeld, TypeOK
<1>4. offer'.stream = -1 /\ -1 \notin Streams
  BY <1>2, SchedAssumption DEF Nothing
<1>5. CASE status[s] = "closed"
  <2>1. UNCHANGED <<dataVars, schedVars>>
    BY <1>1, <1>5
  <2>2. \A t \in Streams : status'[t] = status[t]
    BY <1>2
  <2>. QED
    BY <1>2, <2>1, <2>2, QuietKeepsCycles
<1>6. CASE status[s] # "closed"
  <2>. DEFINE total == nwrite[s] + n
              o == pri[s].urgency
  <2>1. /\ unsent' = [unsent EXCEPT ![s] = @ - n]
        /\ fin' = IF n = unsent[s] THEN fin \ {s} ELSE fin
        /\ UNCHANGED <<head, more>>
        /\ CASE ~RequireSchedule(s)' ->
                  /\ heap' = Without(s)
                  /\ nwrite' = [nwrite EXCEPT ![s] = total]
                  /\ UNCHANGED cycle
             [] RequireSchedule(s)' /\ total < MIN_WRITELEN ->
                  /\ nwrite' = [nwrite EXCEPT ![s] = total]
                  /\ UNCHANGED <<cycle, heap>>
             [] OTHER -> Schedule(heap, s, pri[s], total)
    BY <1>1, <1>6, Zenon
  <2>2. /\ unsent[s] \in Nat /\ unsent[s] - n \in Nat /\ pri[s] \in Pri /\ o \in Urgencies
        /\ nwrite[s] \in Nat /\ nwrite[s] < MIN_WRITELEN /\ k \in Nat
        /\ unsent[s] + (IF s \in head THEN 1 ELSE 0) <= k
    BY <1>0, <1>3, <1>6 DEF TypeOK, Pri, QueueBounded, CyclesBound
  <2>3. total \in Nat /\ total <= MIN_WRITELEN - 1 + k
    BY <1>3, <1>6, <2>2, SchedAssumption
  <2>4. /\ HeapsOK /\ heap \in [Urgencies -> SUBSET Streams]
        /\ Without(s) = [heap EXCEPT ![o] = @ \ {s}]
        /\ \A u \in Urgencies : s \in heap[u] => u = o
    BY <1>0, <1>3 DEF TypeOK, HeapsOK, Without, StreamInv, InNoOtherHeap
  <2>. HIDE DEF total, o
  <2>5. status[s] \in {"idle", "open"} =>
          /\ unsent'[s] = 0 /\ s \notin head' \cup more' \cup fin' /\ ~RequireSchedule(s)'
    <3>1. status[s] \in {"idle", "open"} => unsent[s] = 0 /\ s \notin head \cup more \cup fin
      BY <1>0, <1>3 DEF QueueBounded
    <3>2. status[s] \in {"idle", "open"} => unsent'[s] = 0 /\ s \notin head' \cup more' \cup fin'
      BY <1>0, <1>3, <1>6, <2>1, <3>1 DEF TypeOK
    <3>. QED
      BY <3>2 DEF RequireSchedule, WriteDone
  <2>6. /\ nwrite' = [nwrite EXCEPT ![s] = total] \/ nwrite' = [nwrite EXCEPT ![s] = 0]
        /\ \A u \in Urgencies : s \in heap'[u] => RequireSchedule(s)' /\ nwrite'[s] < MIN_WRITELEN
        /\ \A t \in Streams \ {s}, u \in Urgencies : (t \in heap'[u]) = (t \in heap[u])
        /\ Windows(k)'
    <3>1. CASE ~RequireSchedule(s)'
      <4>1. /\ heap' = Without(s) /\ cycle' = cycle
            /\ nwrite' = [nwrite EXCEPT ![s] = total]
        BY <2>1, <3>1
      <4>2. \A u \in Urgencies : heap'[u] \in SUBSET heap[u] /\ s \notin heap'[u]
        BY <2>2, <2>4, <4>1
      <4>3. Windows(k)'
        BY <1>0, <1>4, <4>1, <4>2, LeavingKeepsWindows
      <4>4. \A t \in Streams \ {s}, u \in Urgencies : (t \in heap'[u]) = (t \in heap[u])
        BY <2>2, <2>4, <4>1
      <4>. QED
        BY <4>1, <4>2, <4>3, <4>4
    <3>2. CASE RequireSchedule(s)' /\ total < MIN_WRITELEN
      <4>1. /\ heap' = heap /\ cycle' = cycle
            /\ nwrite' = [nwrite EXCEPT ![s] = total]
        BY <2>1, <3>2
      <4>2. Windows(k)'
        BY <1>0, <1>4, <4>1, LeavingKeepsWindows
      <4>3. nwrite'[s] < MIN_WRITELEN
        BY <1>0, <1>3, <3>2, <4>1 DEF TypeOK
      <4>. QED
        BY <3>2, <4>1, <4>2, <4>3
    <3>3. CASE RequireSchedule(s)' /\ ~(total < MIN_WRITELEN)
      <4>1. Schedule(heap, s, pri[s], total)
        BY <2>1, <3>3
      <4>2. /\ heap' = [heap EXCEPT ![o] = @ \cup {s}]
            /\ nwrite' = [nwrite EXCEPT ![s] = 0]
        BY <1>3, <2>2, <2>3, <2>4, <4>1, ScheduleEffect DEF Schedule, o
      <4>3. nwrite'[s] < MIN_WRITELEN
        BY <1>0, <1>3, <4>2, SchedAssumption DEF TypeOK
      <4>4. \A t \in Streams \ {s}, u \in Urgencies : (t \in heap'[u]) = (t \in heap[u])
        BY <2>2, <2>4, <4>2
      <4>5. Windows(k)'
        <5>1. CASE s \notin heap[o]
          <6>1. \A u \in Urgencies : s \notin heap[u] /\ heap[u] \in SUBSET heap[u]
            BY <2>4, <5>1
          <6>. QED
            BY <1>0, <1>3, <1>4, <2>2, <2>3, <2>4, <4>1, <6>1, ScheduleKeepsWindows
        <5>2. CASE s \in heap[o]
          <6>. DEFINE T == Turn(k)
                      cost == AtLeastOne(total \div MIN_WRITELEN)
          <6>1. T \in Nat /\ 2 * T <= MAX_CYCLE_GAP /\ cost \in 0..T
            BY <2>3, TurnCosts
          <6>2. heap' = heap /\ (\/ cycle' = cycle
                                 \/ cycle' = [cycle EXCEPT ![s] = (@ + cost) % CycleMod])
            BY <5>2, <4>1 DEF Schedule, o
          <6>3. CASE cycle' = cycle
            BY <1>0, <1>4, <6>2, <6>3, LeavingKeepsWindows
          <6>4. CASE cycle' = [cycle EXCEPT ![s] = (@ + cost) % CycleMod]
            <7>1. /\ cycle'[s] = (cycle[s] + cost) % CycleMod
                  /\ \A t \in Streams \ {s} : cycle'[t] = cycle[t]
              BY <1>0, <1>3, <6>4 DEF TypeOK
            <7>. HIDE DEF T, cost
            <7>2. ASSUME NEW u \in Urgencies PROVE Window(T, heap'[u], cycle', -1)
              <8>. DEFINE h == heap[u]
              <8>1. /\ h \in SUBSET Streams /\ h \in SUBSET h /\ -1 \notin h
                    /\ Window(T, h, cycle, s)
                BY <1>0, <1>3, <1>4, <2>4 DEF Windows, T
              <8>. HIDE DEF h
              <8>2. CASE u = o
                <9>1. s \in h /\ \A t \in h \ {s} : cycle'[t] = cycle[t]
                  BY <5>2, <7>1, <8>1, <8>2 DEF h
                <9>2. Window(T, h, cycle', -1)
                  BY <6>1, <7>1, <8>1, <9>1, WindowBump
                <9>. QED
                  BY <6>2, <9>2 DEF h
              <8>3. CASE u # o
                <9>1. \A t \in h : cycle'[t] = cycle[t]
                  BY <2>4, <7>1, <8>1, <8>3 DEF h
                <9>2. Window(T, h, cycle', -1)
                  BY <6>1, <8>1, <9>1, WindowShrinks
                <9>. QED
                  BY <6>2, <9>2 DEF h
              <8>. QED
                BY <8>2, <8>3
            <7>. QED
              BY <1>4, <7>2 DEF Windows, T
          <6>. QED
            BY <6>2, <6>3, <6>4
        <5>. QED
          BY <5>1, <5>2
      <4>. QED
        BY <3>3, <4>2, <4>3, <4>4, <4>5
    <3>. QED
      BY <3>1, <3>2, <3>3
  <2>7. ASSUME NEW t \in Streams PROVE QueueBounded(k, t)'
    <3>1. CASE t # s
      <4>1. nwrite'[t] = nwrite[t] /\ unsent'[t] = unsent[t]
        BY <1>0, <1>3, <2>1, <2>6, <3>1 DEF TypeOK
      <4>2. SameQueue(t)
        BY <1>2, <1>3, <1>4, <2>1, <2>6, <3>1, <4>1 DEF SameQueue
      <4>. QED
        BY <1>0, <4>2, SameQueueKeeps
    <3>2. CASE t = s
      <4>1. nwrite'[s] \in {total, 0} /\ unsent'[s] = unsent[s] - n
        BY <1>0, <1>3, <2>1, <2>6 DEF TypeOK
      <4>2. nwrite'[s] <= MIN_WRITELEN - 1 + k
        BY <2>2, <2>3, <4>1, SchedAssumption
      <4>3. unsent'[s] + (IF s \in head' THEN 1 ELSE 0) <= k
        BY <1>3, <2>1, <2>2, <4>1
      <4>. QED
        BY <1>2, <1>3, <1>4, <2>5, <2>6, <3>2, <4>2, <4>3 DEF QueueBounded
    <3>. QED
      BY <3>1, <3>2
  <2>. QED
    BY <2>6, <2>7
<1>. QED
  BY <1>5, <1>6

\* A stream that leaves its heap, blocked or shut.
LEMMA LeaveKeepsCycles ==
  ASSUME NEW k, CyclesBound(k), CyclesInv(k), NEW s \in Streams,
         heap' = Without(s), nwrite' = [nwrite EXCEPT ![s] = 0], cycle' = cycle,
         UNCHANGED <<status, dataVars, offer>>
  PROVE  Windows(k)' /\ \A t \in Streams : QueueBounded(k, t)'
<1>1. TypeOK /\ Windows(k) /\ (\A t \in Streams : QueueBounded(k, t))
  BY DEF CyclesInv, IInv
<1>2. \A u \in Urgencies : heap'[u] \in SUBSET heap[u]
  BY <1>1 DEF TypeOK, Without, Pri
<1>3. Windows(k)'
  BY <1>1, <1>2, LeavingKeepsWindows
<1>4. \A t \in Streams : QueueBounded(k, t)'
  BY <1>1, LeavingKeepsQueues
<1>. QED
  BY <1>3, <1>4

\* A stream that is deleted leaves its heap and its count.
LEMMA CloseStreamKeepsCycles ==
  ASSUME NEW k, CyclesBound(k), CyclesInv(k), NEW s \in Streams, CloseStream(s)
  PROVE  Windows(k)' /\ \A t \in Streams : QueueBounded(k, t)'
<1>0. TypeOK /\ Windows(k) /\ (\A t \in Streams : QueueBounded(k, t)) /\ StreamInv(s)
  BY DEF CyclesInv, IInv
<1>1. /\ Live(s) /\ status' = [status EXCEPT ![s] = "closed"] /\ heap' = Without(s)
      /\ head' = head \ {s} /\ more' = more \ {s} /\ fin' = fin \ {s}
      /\ unsent' = [unsent EXCEPT ![s] = 0]
      /\ nwrite' = [nwrite EXCEPT ![s] = 0] /\ cycle' = [cycle EXCEPT ![s] = 0]
      /\ offer' = offer
  BY DEF CloseStream, offerVars
<1>2. /\ pri[s].urgency \in Urgencies
      /\ heap' = [heap EXCEPT ![pri[s].urgency] = @ \ {s}]
  BY <1>0, <1>1 DEF TypeOK, Pri, Without
<1>3. \A u \in Urgencies : heap'[u] \in SUBSET heap[u] /\ s \notin heap'[u]
  BY <1>0, <1>2 DEF TypeOK, StreamInv, InNoOtherHeap
<1>4. \A u \in Urgencies : \A t \in heap'[u] : cycle'[t] = cycle[t]
  BY <1>0, <1>1, <1>3 DEF TypeOK
<1>5. Windows(k)'
  BY <1>0, <1>1, <1>3, <1>4, LeavingKeepsWindows
<1>6. ASSUME NEW t \in Streams PROVE QueueBounded(k, t)'
  <2>1. CASE t # s
    <3>1. SameQueue(t)
      BY <1>0, <1>1, <1>2, <2>1 DEF SameQueue, TypeOK
    <3>. QED
      BY <1>0, <3>1, SameQueueKeeps
  <2>2. CASE t = s
    <3>1. nwrite'[s] = 0 /\ status'[s] = "closed" /\ unsent'[s] = 0 /\ s \notin head'
      BY <1>0, <1>1 DEF TypeOK
    <3>2. 0 < MIN_WRITELEN /\ 0 <= MIN_WRITELEN - 1 + k /\ 0 <= k
      BY SchedAssumption DEF CyclesBound
    <3>. QED
      BY <2>2, <3>1, <3>2 DEF QueueBounded
  <2>. QED
    BY <2>1, <2>2
<1>. QED
  BY <1>5, <1>6
\* Before any request every heap is empty.
LEMMA InitCycles ==
  ASSUME NEW k, CyclesBound(k), Init
  PROVE  CyclesInv(k)
<1>1. IInv
  BY InitIInv
<1>2. 0 < MIN_WRITELEN /\ 0 <= MIN_WRITELEN - 1 + k /\ 0 \in Nat /\ k \in Nat
  BY SchedAssumption DEF CyclesBound
<1>3. ASSUME NEW s \in Streams PROVE QueueBounded(k, s)
  BY <1>2 DEF QueueBounded, Init
<1>4. ASSUME NEW u \in Urgencies PROVE Window(Turn(k), heap[u], cycle, offer.stream)
  <2>. DEFINE d == [s \in Streams |-> 0]
  <2>1. Turn(k) \in Nat
    BY <1>2, TurnCosts
  <2>2. d \in [Streams -> 0..(2 * Turn(k))] /\ heap[u] = {}
    BY <2>1 DEF Init
  <2>. HIDE DEF d
  <2>. QED
    BY <1>2, <2>2 DEF Window
<1>. QED
  BY <1>1, <1>3, <1>4 DEF CyclesInv, Windows

\* Every step keeps the windows.
LEMMA NextKeepsCycles ==
  ASSUME NEW k, CyclesBound(k), CyclesInv(k), [Next]_vars
  PROVE  CyclesInv(k)'
<1>. DEFINE Kept == Windows(k)' /\ \A t \in Streams : QueueBounded(k, t)'
<1>1. IInv'
  BY NextKeepsIInv DEF CyclesInv
<1>2. CASE WritevStream
  <2>1. Kept
    BY <1>2, WritevStreamKeepsCycles
  <2>. QED
    BY <1>1, <2>1 DEF CyclesInv
<1>3. ASSUME NEW n \in 0..offer.units, AddWriteOffset(n) PROVE Kept
  BY <1>3, AddWriteOffsetKeepsCycles
<1>4. CASE TakeNothing \/ UNCHANGED vars
  <2>1. /\ UNCHANGED <<dataVars, schedVars>> /\ status' = status
        /\ offer' = offer \/ offer' = Nothing
    BY <1>4 DEF TakeNothing, vars, offerVars
  <2>2. Kept
    BY <2>1, QuietKeepsCycles
  <2>. QED
    BY <1>1, <2>2 DEF CyclesInv
<1>5. ASSUME NEW s \in Streams, OpenStream(s) PROVE Kept
  <2>1. TypeOK /\ status[s] = "idle" /\ status' = [status EXCEPT ![s] = "open"]
        /\ UNCHANGED <<dataVars, schedVars, offer>>
    BY <1>5 DEF OpenStream, offerVars, CyclesInv, IInv
  <2>2. \A t \in Streams : status'[t] = status[t] \/ (status[t] = "idle" /\ status'[t] = "open")
    BY <2>1 DEF TypeOK
  <2>. QED
    BY <2>1, <2>2, QuietKeepsCycles
<1>6. ASSUME NEW s \in Streams, SubmitResponse(s) \/ CloseStream(s) PROVE Kept
  BY <1>6, SubmitResponseKeepsCycles, CloseStreamKeepsCycles
<1>7. ASSUME NEW s \in Streams, Block(s) \/ ShutdownWrite(s) PROVE Kept
  <2>1. /\ heap' = Without(s) /\ nwrite' = [nwrite EXCEPT ![s] = 0] /\ cycle' = cycle
        /\ UNCHANGED <<status, dataVars, offer>>
    BY <1>7 DEF Block, ShutdownWrite, offerVars
  <2>. QED
    BY <2>1, LeaveKeepsCycles
<1>8. ASSUME NEW s \in Streams, Unblock(s) \/ Resume(s) PROVE Kept
  <2>1. /\ Live(s) /\ UNCHANGED <<status, dataVars, offer>>
        /\ IF RequireSchedule(s)' THEN EnsureScheduled(s) ELSE UNCHANGED schedVars
    BY <1>8 DEF Unblock, Resume, offerVars
  <2>. QED
    BY <2>1, EnsureKeepsCycles
<1>9. ASSUME NEW s \in Streams, NEW p \in {{}} \cup {{q} : q \in Priorities}, EndHeaders(s, p)
      PROVE  Kept
  <2>1. Live(s) /\ UNCHANGED <<status, dataVars, offer>>
    BY <1>9 DEF EndHeaders, offerVars
  <2>2. CASE UNCHANGED schedVars
    BY <2>1, <2>2, QuietKeepsCycles
  <2>3. ASSUME NEW q \in Pri, UpdatePriority(s, q) PROVE Kept
    BY <2>1, <2>3, UpdatePriorityKeepsCycles
  <2>4. p \in SUBSET Pri
    BY SchedAssumption DEF Pri
  <2>5. UNCHANGED schedVars \/ \E q \in p : UpdatePriority(s, q)
    BY <1>9 DEF EndHeaders
  <2>. QED
    BY <2>2, <2>3, <2>4, <2>5
<1>10. ASSUME NEW s \in Streams, NEW p \in Priorities, OnPriorityUpdate(s, p) PROVE Kept
  <2>1. UNCHANGED <<dataVars, offer>> /\ p \in Pri
    BY <1>10, SchedAssumption DEF OnPriorityUpdate, offerVars, Pri
  <2>2. CASE status[s] = "idle"
    <3>1. TypeOK /\ status' = [status EXCEPT ![s] = "open"] /\ UNCHANGED schedVars
      BY <1>10, <2>2 DEF OnPriorityUpdate, Live, CyclesInv, IInv
    <3>2. \A t \in Streams : status'[t] = status[t] \/ (status[t] = "idle" /\ status'[t] = "open")
      BY <2>2, <3>1 DEF TypeOK
    <3>. QED
      BY <2>1, <3>1, <3>2, QuietKeepsCycles
  <2>3. CASE Live(s) /\ s \notin fixed
    <3>1. UpdatePriority(s, p) /\ status' = status
      BY <1>10, <2>3 DEF OnPriorityUpdate, Live
    <3>. QED
      BY <2>1, <2>3, <3>1, UpdatePriorityKeepsCycles
  <2>4. CASE status[s] # "idle" /\ ~(Live(s) /\ s \notin fixed)
    <3>1. UNCHANGED <<status, schedVars>>
      BY <1>10, <2>4 DEF OnPriorityUpdate
    <3>. QED
      BY <2>1, <3>1, QuietKeepsCycles
  <2>. QED
    BY <2>2, <2>3, <2>4
<1>11. ASSUME NEW s \in Streams, NEW p \in Priorities, SetServerStreamPriority(s, p) PROVE Kept
  <2>1. Live(s) /\ UNCHANGED <<status, dataVars, offer>> /\ p \in Pri /\ UpdatePriority(s, p)
    BY <1>11, SchedAssumption DEF SetServerStreamPriority, offerVars, Pri
  <2>. QED
    BY <2>1, UpdatePriorityKeepsCycles
<1>12. Next \/ UNCHANGED vars
  OBVIOUS
<1>. HIDE DEF Kept
<1>13. WritevStream \/ TakeNothing \/ UNCHANGED vars \/ Kept
  BY <1>3, <1>5, <1>6, <1>7, <1>8, <1>9, <1>10, <1>11, <1>12 DEF Next, Answer
<1>14. CASE Kept
  BY <1>1, <1>14 DEF CyclesInv, Kept
<1>. QED
  BY <1>2, <1>4, <1>13, <1>14
-----------------------------------------------------------------------------
(* The theorems *)

(* The inductive invariant holds of every state the scheduler reaches.     *)
THEOREM SchedInvariant == Spec => []IInv
<1>1. Init => IInv
  BY InitIInv
<1>2. IInv /\ [Next]_vars => IInv'
  BY NextKeepsIInv
<1>. QED
  BY <1>1, <1>2, PTL DEF Spec

(* nghttp3_pq_remove never meets a stream of another heap, and no heap     *)
(* holds a stream that was deleted: nghttp3_tnode_unschedule,              *)
(* conn_update_stream_priority and conn_delete_stream see to it.           *)
THEOREM HeapsHoldTheirStreams == Spec => []HeapsAgree
<1>1. IInv => HeapsAgree
  BY DEF IInv, TypeOK, HeapsAgree, StreamInv, InNoOtherHeap
<1>. QED
  BY <1>1, SchedInvariant, PTL

(* No lost wakeup: whatever the order of submissions, priority changes,    *)
(* blocks, resumptions and answers, a stream that can send is in its heap. *)
THEOREM NoLostWakeup == Spec => []ReadyIsScheduled
<1>1. IInv => ReadyIsScheduled
  BY DEF IInv, ReadyIsScheduled, StreamInv
<1>. QED
  BY <1>1, SchedInvariant, PTL

(* The server's word on a priority, or else the client's last, is in force *)
(* (conn_on_priority_update_stream, conn_call_end_headers,                 *)
(* nghttp3_conn_set_server_stream_priority).                               *)
THEOREM PriorityIsAsAsked == Spec => []PriorityAsAsked
<1>1. IInv => PriorityAsAsked
  BY DEF IInv, PriorityAsAsked, StreamInv, Live
<1>. QED
  BY <1>1, SchedInvariant, PTL

(* The windows of the heaps hold wherever an offer is so small that two    *)
(* turns fit the window of cycle_less.                                     *)
THEOREM CyclesInvariant ==
  ASSUME NEW k, CyclesBound(k)
  PROVE  Spec => []CyclesInv(k)
<1>1. Init => CyclesInv(k)
  BY InitCycles
<1>2. CyclesInv(k) /\ [Next]_vars => CyclesInv(k)'
  BY NextKeepsCycles
<1>. QED
  BY <1>1, <1>2, PTL DEF Spec

(* cycle_less orders the streams of a heap, also where the counter wraps,  *)
(* as long as one write offers so few bytes that the penalty for it is at  *)
(* most half of NGHTTP3_TNODE_MAX_CYCLE_GAP: nghttp3_pq never sees two     *)
(* streams each of which is to go before the other, or neither.            *)
THEOREM CyclesAreComparable ==
  ASSUME NEW k, CyclesBound(k)
  PROVE  Spec => []CyclesComparable
<1>1. ASSUME CyclesInv(k) PROVE CyclesComparable
  <2>1. SUFFICES ASSUME NEW u \in Urgencies, NEW s \in heap[u], NEW t \in heap[u], s # t
                 PROVE  CycleLess(s, t) <=> ~CycleLess(t, s)
    BY DEF CyclesComparable
  <2>2. TypeOK /\ Window(Turn(k), heap[u], cycle, offer.stream)
    BY <1>1 DEF CyclesInv, IInv, Windows
  <2>3. PICK c \in Nat, d \in [Streams -> 0..(2 * Turn(k))] :
          \A r \in heap[u] : cycle[r] = (c + d[r]) % CycleMod
    BY <2>2 DEF Window
  <2>4. Turn(k) \in Nat /\ 2 * Turn(k) <= MAX_CYCLE_GAP /\ MAX_CYCLE_GAP \in Nat
    <3>1. 0 \in Nat /\ 0 <= MIN_WRITELEN - 1 + k
      BY SchedAssumption DEF CyclesBound
    <3>. QED
      BY <3>1, TurnCosts, SchedAssumption
  <2>5. /\ s \in Nat /\ t \in Nat /\ d[s] \in 0..MAX_CYCLE_GAP /\ d[t] \in 0..MAX_CYCLE_GAP
        /\ cycle[s] = (c + d[s]) % CycleMod /\ cycle[t] = (c + d[t]) % CycleMod
    BY <2>2, <2>3, <2>4, SchedAssumption DEF TypeOK
  <2>6. CycleLess(s, t) <=> d[s] < d[t] \/ (d[s] = d[t] /\ s < t)
    BY <2>5, LessByOffset
  <2>7. CycleLess(t, s) <=> d[t] < d[s] \/ (d[t] = d[s] /\ t < s)
    BY <2>5, LessByOffset
  <2>. QED
    BY <2>1, <2>5, <2>6, <2>7
<1>. QED
  BY <1>1, CyclesInvariant, PTL
=============================================================================
