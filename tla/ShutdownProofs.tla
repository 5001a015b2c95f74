--------------------------- MODULE ShutdownProofs ---------------------------
(***************************************************************************)
(* Proofs about a graceful shutdown, for any number of requests, priority  *)
(* updates, notices and gaps remembered, and any order of events.          *)
(***************************************************************************)
EXTENDS ShutdownProps, FiniteSetTheorems, SequenceTheorems, TLAPS

Ids == 0..NoGoaway

TypeOK ==
  /\ live \in SUBSET Streams /\ ignored \in SUBSET Streams
  /\ maxId \in -1..(Requests - 1)
  /\ goawayId \in Ids /\ goawayRecv \in Ids
  /\ commenced \in BOOLEAN /\ maxStreams \in Nat
  /\ ctrl \in [frq : Seq(Ids), outq : Seq(Ids)]
  /\ arriving \in SUBSET Streams
  /\ updates \in Seq(Streams) /\ goaways \in Seq(Ids)
  /\ asked \in [updates : Nat, notices : Nat, shutdowns : Nat]
  /\ failed \in {"none", "assert", "H3_ID_ERROR"}

\* QUIC opened the streams in order and within the limit.
RequestedInOrder ==
  /\ \E k \in 0..Requests : requested = 0..(k - 1)
  /\ \A n \in requested : n < maxStreams

\* What is known of a stream comes from its request; its first data arrives
\* once, or never if the stream was reset before.
StreamsRequested ==
  /\ arriving \cup arrived \cup gone \subseteq requested
  /\ arriving \cap (arrived \cup gone) = {}
  /\ \A i \in 1..Len(updates) : updates[i] \in requested

\* What the server keeps of the streams that arrived, so that a late
\* PRIORITY_UPDATE finds their number used.
ArrivedAreOpened ==
  /\ processed \subseteq arrived /\ ignored \subseteq arrived
  /\ live \cup arrived \subseteq opened
  /\ \A n \in live \cup arrived : n <= maxId

\* GOAWAY frames under way, the first to be read first: on the network, in
\* the output queue of the control stream and in its frame queue.
Flow == goaways \o (ctrl.outq \o ctrl.frq)

Descends(s) == \A i, j \in 1..Len(s) : i <= j => s[j] <= s[i]

\* The client sees identifiers that never grow, down to the server's own.
GoawaysDescend ==
  /\ Descends(Flow)
  /\ \A i \in 1..Len(Flow) : goawayId <= Flow[i] /\ Flow[i] <= goawayRecv
  /\ goawayId <= goawayRecv

\* The identifier divides the streams the server knows; before a shutdown
\* it is above all of them.
GoawayDivides ==
  /\ \A n \in processed \cup (live \ ignored) : n < goawayId
  /\ \A n \in ignored : goawayId <= n
  /\ ~commenced => NOTICE <= goawayId
  /\ commenced => asked.shutdowns > 0

IInv ==
  /\ TypeOK /\ RequestedInOrder /\ StreamsRequested /\ ArrivedAreOpened
  /\ GoneStaysGone /\ GoawaysDescend /\ GoawayDivides
  /\ failed # "H3_ID_ERROR"
  /\ asked.shutdowns <= MaxShutdowns
-----------------------------------------------------------------------------
(* The operators *)

\* The larger of two integers.
LEMMA MaxOfPair ==
  ASSUME NEW a \in Int, NEW b \in Int
  PROVE  Max({a, b}) = IF a >= b THEN a ELSE b
<1>. DEFINE m == IF a >= b THEN a ELSE b
<1>1. m \in {a, b} /\ \A y \in {a, b} : m >= y
  OBVIOUS
<1>2. \A x \in {a, b} : (\A y \in {a, b} : x >= y) => x = m
  OBVIOUS
<1>3. Max({a, b}) \in {a, b} /\ \A y \in {a, b} : Max({a, b}) >= y
  BY <1>1, Zenon DEF Max
<1>. HIDE DEF m
<1>4. Max({a, b}) = m
  BY <1>2, <1>3, Zenon
<1>. QED
  BY <1>4 DEF m

\* The smaller of two integers.
LEMMA MinOfPair ==
  ASSUME NEW a \in Int, NEW b \in Int
  PROVE  Min({a, b}) = IF a <= b THEN a ELSE b
<1>. DEFINE m == IF a <= b THEN a ELSE b
<1>1. m \in {a, b} /\ \A y \in {a, b} : m <= y
  OBVIOUS
<1>2. \A x \in {a, b} : (\A y \in {a, b} : x <= y) => x = m
  OBVIOUS
<1>3. Min({a, b}) \in {a, b} /\ \A y \in {a, b} : Min({a, b}) <= y
  BY <1>1, Zenon DEF Min
<1>. HIDE DEF m
<1>4. Min({a, b}) = m
  BY <1>2, <1>3, Zenon
<1>. QED
  BY <1>4 DEF m

\* conn_bidi_idtr_open enters the stream and forgets none, also where it
\* drops a gap.
LEMMA IdtrOpenGrows ==
  ASSUME NEW used, NEW n
  PROVE  used \cup {n} \subseteq IdtrOpen(used, n)
  BY Zenon DEF IdtrOpen, DropFirstGap

\* Three sequences joined: the head of the second moves to the first, ...
LEMMA JoinShift ==
  ASSUME NEW g \in Seq(Ids), NEW e \in Ids, NEW t \in Seq(Ids), NEW f \in Seq(Ids)
  PROVE  Append(g, e) \o (t \o f) = g \o ((<<e>> \o t) \o f)
<1>. DEFINE h == <<e>>
            r == t \o f
<1>a. \A x, y, z \in Seq(Ids) : (x \o y) \o z = x \o (y \o z)
  BY ConcatAssociative, SMTT(60)
<1>1. h \in Seq(Ids) /\ r \in Seq(Ids)
  BY ConcatProperties
<1>2. Append(g, e) = g \o h
  BY AppendIsConcat
<1>. HIDE DEF h
<1>3. h \o r = (h \o t) \o f
  BY <1>1, <1>a, Zenon
<1>. HIDE DEF r
<1>4. (g \o h) \o r = g \o (h \o r)
  BY <1>1, <1>a, Zenon
<1>. QED
  BY <1>2, <1>3, <1>4, Zenon DEF h, r

\* A sequence is its head followed by its tail.
LEMMA HeadThenTail ==
  ASSUME NEW o \in Seq(Ids)
  PROVE  o # <<>> => Head(o) \in Ids /\ Tail(o) \in Seq(Ids) /\ <<Head(o)>> \o Tail(o) = o
<1>. DEFINE h == <<Head(o)>>
            t == Tail(o)
<1>a. \A x, y \in Seq(Ids) :
        /\ x \o y \in Seq(Ids) /\ Len(x \o y) = Len(x) + Len(y)
        /\ \A i \in 1..Len(x) + Len(y) : (x \o y)[i] = IF i <= Len(x) THEN x[i] ELSE y[i - Len(x)]
  BY ConcatProperties
<1>1. ASSUME o # <<>>
      PROVE  /\ Head(o) \in Ids /\ t \in Seq(Ids) /\ Len(t) = Len(o) - 1
             /\ \A i \in 1..Len(t) : t[i] = o[i + 1]
             /\ h \in Seq(Ids) /\ Len(h) = 1 /\ h[1] = o[1] /\ Len(o) \in Nat
  <2>1. /\ Head(o) \in Ids /\ t \in Seq(Ids) /\ Len(t) = Len(o) - 1
        /\ \A i \in 1..Len(t) : t[i] = o[i + 1]
    BY <1>1, HeadTailProperties
  <2>. QED
    BY <1>1, <2>1
<1>. HIDE DEF h, t
<1>2. ASSUME o # <<>> PROVE h \o t = o
  <2>1. /\ h \o t \in Seq(Ids) /\ Len(h \o t) = Len(h) + Len(t)
        /\ \A i \in 1..Len(h) + Len(t) : (h \o t)[i] = IF i <= Len(h) THEN h[i] ELSE t[i - Len(h)]
    BY <1>1, <1>2, <1>a
  <2>2. Len(h \o t) = Len(o)
    <3>1. Len(h) = 1 /\ Len(t) = Len(o) - 1 /\ Len(o) \in Nat /\ Len(h \o t) = Len(h) + Len(t)
      BY <1>1, <1>2, <2>1, Zenon
    <3>. QED
      BY <3>1
  <2>3. ASSUME NEW i \in 1..Len(h \o t) PROVE (h \o t)[i] = o[i]
    BY <1>1, <1>2, <2>1, <2>2
  <2>. QED
    BY <2>1, <2>2, <2>3, SeqEqual
<1>. QED
  BY <1>1, <1>2 DEF h, t

\* ... the head of all is that of the first, ...
LEMMA JoinHead ==
  ASSUME NEW g \in Seq(Ids), NEW r \in Seq(Ids), g # <<>>
  PROVE  g \o r # <<>> /\ Head(g) = (g \o r)[1] /\ Tail(g) \o r = Tail(g \o r)
<1>. DEFINE w == g \o r
            t == Tail(g)
<1>1. /\ w \in Seq(Ids) /\ Len(w) = Len(g) + Len(r)
      /\ \A i \in 1..Len(g) + Len(r) : w[i] = IF i <= Len(g) THEN g[i] ELSE r[i - Len(g)]
  BY ConcatProperties
<1>2. Len(g) \in Nat /\ Len(g) > 0 /\ Len(r) \in Nat
  BY EmptySeq, LenProperties
<1>. HIDE DEF w, t
<1>3. w # <<>>
  BY <1>1, <1>2, EmptySeq
<1>4. Head(g) = w[1]
  BY <1>1, <1>2
<1>5. t \in Seq(Ids) /\ Len(t) = Len(g) - 1 /\ \A i \in 1..Len(t) : t[i] = g[i + 1]
  BY HeadTailProperties DEF t
<1>6. /\ Tail(w) \in Seq(Ids) /\ Len(Tail(w)) = Len(w) - 1
      /\ \A i \in 1..Len(Tail(w)) : Tail(w)[i] = w[i + 1]
  BY <1>1, <1>3, HeadTailProperties
<1>7. /\ t \o r \in Seq(Ids) /\ Len(t \o r) = Len(t) + Len(r)
      /\ \A i \in 1..Len(t) + Len(r) : (t \o r)[i] = IF i <= Len(t) THEN t[i] ELSE r[i - Len(t)]
  BY <1>5, ConcatProperties
<1>8. Len(t \o r) = Len(Tail(w))
  BY <1>1, <1>2, <1>5, <1>6, <1>7
<1>9. ASSUME NEW i \in 1..Len(t \o r) PROVE (t \o r)[i] = Tail(w)[i]
  BY <1>1, <1>2, <1>5, <1>6, <1>7, <1>8
<1>10. t \o r = Tail(w)
  BY <1>6, <1>7, <1>8, <1>9, SeqEqual
<1>. QED
  BY <1>3, <1>4, <1>10 DEF w, t

\* ... and what is appended to the last is appended to all.
LEMMA JoinAppend ==
  ASSUME NEW g \in Seq(Ids), NEW o \in Seq(Ids), NEW f \in Seq(Ids), NEW e \in Ids
  PROVE  g \o (o \o Append(f, e)) = Append(g \o (o \o f), e)
<1>. DEFINE l == <<e>>
<1>1. l \in Seq(Ids) /\ o \o f \in Seq(Ids)
  BY ConcatProperties
<1>2. Append(f, e) = f \o l
  BY AppendIsConcat
<1>3. g \o (o \o f) \in Seq(Ids)
  BY <1>1, ConcatProperties
<1>4. Append(g \o (o \o f), e) = (g \o (o \o f)) \o l
  BY <1>3, AppendIsConcat
<1>. HIDE DEF l
<1>5. o \o (f \o l) = (o \o f) \o l
  BY <1>1, ConcatAssociative, SMTT(60)
<1>6. g \o ((o \o f) \o l) = (g \o (o \o f)) \o l
  BY <1>1, ConcatAssociative, SMTT(60)
<1>. QED
  BY <1>2, <1>4, <1>5, <1>6, Zenon

\* The flow of GOAWAY frames: serialising and handing over moves it along,
\* the client takes its head, a frame that is queued joins at its end.
LEMMA FlowMoves ==
  ASSUME TypeOK
  PROVE  /\ Flow \in Seq(Ids)
         /\ FillControl => Flow' = Flow
         /\ AddWriteOffset => Flow' = Flow
         /\ goaways # <<>> => /\ Flow # <<>> /\ Head(goaways) = Flow[1]
                              /\ Tail(goaways) \o (ctrl.outq \o ctrl.frq) = Tail(Flow)
         /\ \A id \in Ids : goaways \o (ctrl.outq \o Append(ctrl.frq, id)) = Append(Flow, id)
<1>1. goaways \in Seq(Ids) /\ ctrl.outq \in Seq(Ids) /\ ctrl.frq \in Seq(Ids)
  BY DEF TypeOK
<1>2. ctrl.outq \o ctrl.frq \in Seq(Ids)
  BY <1>1, ConcatProperties
<1>3. Flow \in Seq(Ids)
  BY <1>1, <1>2, ConcatProperties DEF Flow
<1>4. ASSUME FillControl PROVE Flow' = Flow
  <2>1. goaways' = goaways /\ ctrl'.frq = <<>> /\ ctrl'.outq = ctrl.outq \o ctrl.frq
    BY <1>4 DEF FillControl, net_vars
  <2>2. (ctrl.outq \o ctrl.frq) \o <<>> = ctrl.outq \o ctrl.frq
    BY <1>2, ConcatEmptySeq
  <2>. QED
    BY <2>1, <2>2, Zenon DEF Flow
<1>5. ASSUME AddWriteOffset PROVE Flow' = Flow
  <2>1. /\ ctrl.outq # <<>> /\ goaways' = Append(goaways, Head(ctrl.outq))
        /\ ctrl'.outq = Tail(ctrl.outq) /\ ctrl'.frq = ctrl.frq
    BY <1>5 DEF AddWriteOffset, TypeOK
  <2>. DEFINE e == Head(ctrl.outq)
              t == Tail(ctrl.outq)
              o == ctrl.outq
              f == ctrl.frq
  <2>2. e \in Ids /\ t \in Seq(Ids) /\ <<e>> \o t = o
    BY <1>1, <2>1, HeadThenTail
  <2>3. Flow' = Append(goaways, e) \o (t \o f)
    BY <2>1 DEF Flow
  <2>4. Flow = goaways \o (o \o f) /\ f \in Seq(Ids)
    BY <1>1 DEF Flow
  <2>. HIDE DEF e, t, o, f
  <2>5. Append(goaways, e) \o (t \o f) = goaways \o ((<<e>> \o t) \o f)
    BY <1>1, <2>2, <2>4, JoinShift, ZenonT(60)
  <2>. QED
    BY <2>2, <2>3, <2>4, <2>5
<1>6. ASSUME goaways # <<>>
      PROVE  /\ Flow # <<>> /\ Head(goaways) = Flow[1]
             /\ Tail(goaways) \o (ctrl.outq \o ctrl.frq) = Tail(Flow)
  <2>1. \A g, r \in Seq(Ids) :
          g # <<>> => g \o r # <<>> /\ Head(g) = (g \o r)[1] /\ Tail(g) \o r = Tail(g \o r)
    BY JoinHead
  <2>. QED
    BY <1>1, <1>2, <1>6, <2>1, Zenon DEF Flow
<1>7. ASSUME NEW id \in Ids PROVE goaways \o (ctrl.outq \o Append(ctrl.frq, id)) = Append(Flow, id)
  <2>. DEFINE o == ctrl.outq
              f == ctrl.frq
  <2>1. o \in Seq(Ids) /\ f \in Seq(Ids) /\ Flow = goaways \o (o \o f)
    BY <1>1 DEF Flow
  <2>. HIDE DEF o, f
  <2>2. goaways \o (o \o Append(f, id)) = Append(goaways \o (o \o f), id)
    BY <1>1, <2>1, JoinAppend, ZenonT(60)
  <2>. QED
    BY <2>1, <2>2 DEF o, f
<1>. QED
  BY <1>3, <1>4, <1>5, <1>6, <1>7
-----------------------------------------------------------------------------
(* The actions: each of them keeps the invariant.                          *)

\* What is counted stays a count.
LEMMA CountType ==
  ASSUME asked \in [updates : Nat, notices : Nat, shutdowns : Nat], NEW b \in Nat
  PROVE  /\ Count("updates", b) => /\ asked' \in [updates : Nat, notices : Nat, shutdowns : Nat]
                                   /\ asked'.shutdowns = asked.shutdowns
         /\ Count("notices", b) => /\ asked' \in [updates : Nat, notices : Nat, shutdowns : Nat]
                                   /\ asked'.shutdowns = asked.shutdowns
         /\ Count("shutdowns", b) => /\ asked' \in [updates : Nat, notices : Nat, shutdowns : Nat]
                                     /\ asked'.shutdowns = asked.shutdowns + 1
                                     /\ asked'.shutdowns <= b
<1>1. ASSUME Count("updates", b)
      PROVE  /\ asked' \in [updates : Nat, notices : Nat, shutdowns : Nat]
             /\ asked'.shutdowns = asked.shutdowns
  <2>1. asked' = [asked EXCEPT !.updates = asked.updates + 1]
    BY <1>1 DEF Count
  <2>. QED
    BY <2>1
<1>2. ASSUME Count("notices", b)
      PROVE  /\ asked' \in [updates : Nat, notices : Nat, shutdowns : Nat]
             /\ asked'.shutdowns = asked.shutdowns
  <2>1. asked' = [asked EXCEPT !.notices = asked.notices + 1]
    BY <1>2 DEF Count
  <2>. QED
    BY <2>1
<1>3. ASSUME Count("shutdowns", b)
      PROVE  /\ asked' \in [updates : Nat, notices : Nat, shutdowns : Nat]
             /\ asked'.shutdowns = asked.shutdowns + 1 /\ asked'.shutdowns <= b
  <2>1. asked' = [asked EXCEPT !.shutdowns = asked.shutdowns + 1] /\ asked.shutdowns < b
    BY <1>3 DEF Count
  <2>. QED
    BY <2>1
<1>. QED
  BY <1>1, <1>2, <1>3

\* A frame whose identifier is no greater than the last one may join the flow.
LEMMA QueuedDescends ==
  ASSUME TypeOK, GoawaysDescend, goawayRecv' = goawayRecv, NEW id \in Ids,
         \/ id <= goawayId /\ goawayId' = id /\ Flow' = Append(Flow, id)
         \/ goawayId' = goawayId /\ Flow' = Flow
  PROVE  GoawaysDescend'
<1>1. CASE id <= goawayId /\ goawayId' = id /\ Flow' = Append(Flow, id)
  <2>1. Flow \in Seq(Ids) /\ \A i \in 1..Len(Flow) : Flow[i] \in Nat
    <3>1. Flow \in Seq(Ids)
      BY FlowMoves
    <3>2. \A i \in 1..Len(Flow) : Flow[i] \in Ids
      BY <3>1, ElementOfSeq
    <3>. QED
      BY <3>1, <3>2 DEF Ids
  <2>2. /\ Len(Flow') = Len(Flow) + 1 /\ Len(Flow) \in Nat
        /\ Flow'[Len(Flow) + 1] = id
        /\ \A i \in 1..Len(Flow) : Flow'[i] = Flow[i]
    BY <1>1, <2>1, AppendProperties, LenProperties
  <2>3. goawayId \in Nat /\ goawayRecv \in Nat /\ id \in Nat
    BY DEF TypeOK, Ids
  <2>4. ASSUME NEW i \in 1..Len(Flow'), NEW j \in 1..Len(Flow'), i <= j
        PROVE  Flow'[j] <= Flow'[i]
    <3>1. CASE j = Len(Flow) + 1
      BY <1>1, <2>1, <2>2, <2>3, <2>4, <3>1 DEF GoawaysDescend
    <3>2. CASE j \in 1..Len(Flow)
      BY <2>2, <2>4, <3>2 DEF GoawaysDescend, Descends
    <3>. QED
      BY <2>2, <3>1, <3>2
  <2>5. ASSUME NEW i \in 1..Len(Flow')
        PROVE  id <= Flow'[i] /\ Flow'[i] <= goawayRecv
    <3>1. CASE i = Len(Flow) + 1
      BY <1>1, <2>2, <2>3, <3>1 DEF GoawaysDescend
    <3>2. CASE i \in 1..Len(Flow)
      BY <1>1, <2>1, <2>2, <2>3, <3>2 DEF GoawaysDescend
    <3>. QED
      BY <2>2, <3>1, <3>2
  <2>6. id <= goawayRecv
    BY <1>1, <2>3 DEF GoawaysDescend
  <2>. QED
    BY <1>1, <2>4, <2>5, <2>6 DEF GoawaysDescend, Descends
<1>2. CASE goawayId' = goawayId /\ Flow' = Flow
  BY <1>2 DEF GoawaysDescend
<1>. QED
  BY <1>1, <1>2

\* A new request is the next stream.
LEMMA SubmitRequestKeeps ==
  ASSUME IInv, SubmitRequest
  PROVE  IInv'
<1>. USE ShutdownAssumption DEF IInv, SubmitRequest, stream_vars, goaway_vars, client_vars, net_vars, hist_vars
<1>0. PICK k \in 0..Requests : requested = 0..(k - 1)
  BY DEF RequestedInOrder
<1>n. /\ k \in 0..(Requests - 1) /\ k < maxStreams /\ k \notin requested
      /\ requested' = 0..k /\ arriving' = arriving \cup {k}
  <2>1. Cardinality(requested) = k
    BY <1>0, FS_Interval
  <2>2. k \in 0..(Requests - 1) /\ k < maxStreams /\ k \notin requested
        /\ requested' = requested \cup {k} /\ arriving' = arriving \cup {k}
    BY <1>0, <2>1 DEF Streams
  <2>3. 0..(k - 1) \cup {k} = 0..k
    BY <2>2
  <2>. QED
    BY <1>0, <2>2, <2>3
<1>1. TypeOK'
  BY <1>n DEF TypeOK, Streams
<1>2. RequestedInOrder'
  <2>1. k + 1 \in 0..Requests /\ requested' = 0..((k + 1) - 1)
    BY <1>n
  <2>2. \A n \in requested' : n < maxStreams'
    BY <1>0, <1>n DEF RequestedInOrder
  <2>. QED
    BY <2>1, <2>2 DEF RequestedInOrder
<1>3. StreamsRequested'
  <2>1. requested' = requested \cup {k}
    BY <1>0, <1>n
  <2>2. k \notin arriving \cup arrived \cup gone
    BY <1>n DEF StreamsRequested
  <2>. QED
    BY <1>n, <2>1, <2>2 DEF StreamsRequested
<1>4. ArrivedAreOpened'
  BY DEF ArrivedAreOpened, TypeOK
<1>5. GoneStaysGone'
  BY DEF GoneStaysGone, TypeOK
<1>6. GoawaysDescend'
  BY DEF GoawaysDescend, TypeOK, Flow
<1>7. GoawayDivides'
  BY DEF GoawayDivides, TypeOK, Count
<1>8. failed' # "H3_ID_ERROR" /\ asked'.shutdowns <= MaxShutdowns
  BY DEF TypeOK, Count
<1>. QED
  BY <1>1, <1>2, <1>3, <1>4, <1>5, <1>6, <1>7, <1>8

\* A PRIORITY_UPDATE names a stream that was opened.
LEMMA SetPriorityKeeps ==
  ASSUME IInv, NEW n \in Streams, SetClientStreamPriority(n)
  PROVE  IInv'
<1>. USE ShutdownAssumption DEF IInv, SetClientStreamPriority, stream_vars, goaway_vars, client_vars, net_vars, hist_vars
<1>1. TypeOK'
  <2>1. updates' \in Seq(Streams)
    BY DEF TypeOK
  <2>2. asked' \in [updates : Nat, notices : Nat, shutdowns : Nat]
    BY CountType DEF TypeOK
  <2>. QED
    BY <2>1, <2>2 DEF TypeOK
<1>2. RequestedInOrder'
  BY DEF RequestedInOrder, TypeOK
<1>3. StreamsRequested'
  <2>1. /\ Len(updates') = Len(updates) + 1 /\ Len(updates) \in Nat
        /\ updates'[Len(updates) + 1] = n
        /\ \A i \in 1..Len(updates) : updates'[i] = updates[i]
    BY DEF TypeOK
  <2>2. ASSUME NEW i \in 1..Len(updates') PROVE updates'[i] \in requested'
    BY <2>1, <2>2 DEF StreamsRequested
  <2>. QED
    BY <2>2 DEF StreamsRequested
<1>4. ArrivedAreOpened'
  BY DEF ArrivedAreOpened, TypeOK
<1>5. GoneStaysGone'
  BY DEF GoneStaysGone, TypeOK
<1>6. GoawaysDescend'
  BY DEF GoawaysDescend, TypeOK, Flow
<1>7. GoawayDivides'
  BY DEF GoawayDivides, TypeOK, Count
<1>8. failed' # "H3_ID_ERROR" /\ asked'.shutdowns <= MaxShutdowns
  BY DEF TypeOK, Count
<1>. QED
  BY <1>1, <1>2, <1>3, <1>4, <1>5, <1>6, <1>7, <1>8

\* A stream reset before its data never arrives.
LEMMA CancelKeeps ==
  ASSUME IInv, NEW n \in Streams, Cancel(n)
  PROVE  IInv'
<1>. USE ShutdownAssumption DEF IInv, Cancel, stream_vars, goaway_vars, client_vars, net_vars, hist_vars
<1>1. TypeOK'
  BY DEF TypeOK, Streams, Ids, NOTICE, NoGoaway, Count
<1>2. RequestedInOrder'
  BY DEF RequestedInOrder, TypeOK
<1>3. StreamsRequested'
  BY DEF StreamsRequested, TypeOK
<1>4. ArrivedAreOpened'
  BY DEF ArrivedAreOpened, TypeOK
<1>5. GoneStaysGone'
  BY DEF GoneStaysGone, TypeOK
<1>6. GoawaysDescend'
  BY DEF GoawaysDescend, TypeOK, Flow
<1>7. GoawayDivides'
  BY DEF GoawayDivides, TypeOK, Count
<1>8. failed' # "H3_ID_ERROR" /\ asked'.shutdowns <= MaxShutdowns
  BY DEF TypeOK, Count
<1>. QED
  BY <1>1, <1>2, <1>3, <1>4, <1>5, <1>6, <1>7, <1>8

\* The client reads the oldest frame, which is no greater than the last
\* one it read.
LEMMA ReadGoawayKeeps ==
  ASSUME IInv, ReadGoaway
  PROVE  IInv'
<1>. USE ShutdownAssumption DEF IInv, ReadGoaway, stream_vars, goaway_vars, client_vars, net_vars, hist_vars
<1>0. /\ Flow \in Seq(Ids) /\ Flow # <<>> /\ Head(goaways) = Flow[1]
      /\ Flow' = Tail(Flow)
  BY FlowMoves DEF Flow
<1>n. /\ goawayRecv' = Flow[1] /\ failed' = failed /\ goaways' = Tail(goaways)
      /\ Flow[1] \in Ids /\ 1 \in 1..Len(Flow) /\ Len(Flow) \in Nat
  <2>1. 1 \in 1..Len(Flow) /\ Len(Flow) \in Nat
    BY <1>0, EmptySeq, LenProperties
  <2>2. Flow[1] \in Ids
    BY <1>0, <2>1, ElementOfSeq
  <2>3. Flow[1] <= goawayRecv
    BY <2>1 DEF GoawaysDescend
  <2>4. ~(goawayRecv < Flow[1])
    BY <2>2, <2>3 DEF TypeOK, Ids
  <2>. QED
    BY <1>0, <2>1, <2>2, <2>4
<1>1. TypeOK'
  <2>1. goaways' \in Seq(Ids)
    BY <1>n, HeadTailProperties DEF TypeOK
  <2>. QED
    BY <1>n, <2>1 DEF TypeOK
<1>2. RequestedInOrder'
  BY DEF RequestedInOrder, TypeOK
<1>3. StreamsRequested'
  BY DEF StreamsRequested, TypeOK
<1>4. ArrivedAreOpened'
  BY DEF ArrivedAreOpened, TypeOK
<1>5. GoneStaysGone'
  BY DEF GoneStaysGone, TypeOK
<1>6. GoawaysDescend'
  <2>1. /\ Len(Flow') = Len(Flow) - 1 /\ Len(Flow) \in Nat
        /\ \A i \in 1..Len(Flow') : Flow'[i] = Flow[i + 1] /\ i + 1 \in 1..Len(Flow)
    BY <1>0, <1>n, HeadTailProperties
  <2>2. ASSUME NEW i \in 1..Len(Flow'), NEW j \in 1..Len(Flow'), i <= j
        PROVE  Flow'[j] <= Flow'[i]
    BY <2>1, <2>2 DEF GoawaysDescend, Descends
  <2>3. ASSUME NEW i \in 1..Len(Flow')
        PROVE  goawayId <= Flow'[i] /\ Flow'[i] <= Flow[1]
    BY <1>n, <2>1, <2>3, SMTT(60) DEF GoawaysDescend, Descends
  <2>4. goawayId <= Flow[1]
    BY <1>n DEF GoawaysDescend
  <2>. QED
    BY <1>n, <2>2, <2>3, <2>4 DEF GoawaysDescend, Descends
<1>7. GoawayDivides'
  BY DEF GoawayDivides, TypeOK, Count
<1>8. failed' # "H3_ID_ERROR" /\ asked'.shutdowns <= MaxShutdowns
  BY <1>n
<1>. QED
  BY <1>1, <1>2, <1>3, <1>4, <1>5, <1>6, <1>7, <1>8

\* The first data of a stream that is neither closed nor rejected.
LEMMA ReadStreamKeeps ==
  ASSUME IInv, NEW n \in Streams, ReadStream(n)
  PROVE  IInv'
<1>. USE ShutdownAssumption DEF IInv, ReadStream, stream_vars, goaway_vars, client_vars, net_vars, hist_vars
<1>0. /\ n \notin arrived \cup gone \cup ignored \cup processed /\ n \in 0..(Requests - 1)
      /\ arrived' = arrived \cup {n} /\ arriving' = arriving \ {n} /\ gone' = gone
  BY DEF StreamsRequested, ArrivedAreOpened, Streams
<1>m. /\ live' = live \cup {n} /\ opened \cup (IF n \in live THEN {} ELSE {n}) \subseteq opened'
      /\ maxId' \in -1..(Requests - 1) /\ maxId <= maxId' /\ n <= maxId'
  <2>1. CASE n \in live
    BY <1>0, <2>1 DEF ArrivedAreOpened, TypeOK
  <2>2. CASE n \notin live
    <3>1. maxId' = IF maxId >= n THEN maxId ELSE n
      BY <1>0, <2>2, MaxOfPair DEF TypeOK, CreateStream
    <3>2. opened \cup {n} \subseteq opened'
      BY <2>2, IdtrOpenGrows, Zenon
    <3>. QED
      BY <1>0, <2>2, <3>1, <3>2 DEF TypeOK, CreateStream
  <2>. QED
    BY <2>1, <2>2
<1>n. \/ processed' = processed \cup {n} /\ ignored' = ignored /\ n < goawayId
      \/ processed' = processed /\ ignored' = ignored \cup {n} /\ goawayId <= n
  <2>1. n < NoGoaway /\ goawayId \in Int
    BY <1>0 DEF TypeOK, NoGoaway, NOTICE, Ids
  <2>2. CASE n \in live
    BY <1>0, <2>2 DEF GoawayDivides
  <2>3. CASE n \notin live
    BY <1>0, <2>1, <2>3 DEF GoawayCovers
  <2>. QED
    BY <2>2, <2>3
<1>1. TypeOK'
  BY <1>0, <1>m, <1>n DEF TypeOK
<1>2. RequestedInOrder'
  BY DEF RequestedInOrder, TypeOK
<1>3. StreamsRequested'
  BY DEF StreamsRequested, TypeOK
<1>4. ArrivedAreOpened'
  <2>1. processed' \subseteq arrived' /\ ignored' \subseteq arrived'
    BY <1>0, <1>n DEF ArrivedAreOpened
  <2>3. live' \cup arrived' \subseteq opened'
    BY <1>0, <1>m DEF ArrivedAreOpened
  <2>4. \A k \in live' \cup arrived' : k <= maxId'
    BY <1>0, <1>m DEF ArrivedAreOpened, TypeOK, Streams
  <2>. QED
    BY <2>1, <2>3, <2>4 DEF ArrivedAreOpened
<1>5. GoneStaysGone'
  BY <1>0, <1>m DEF GoneStaysGone
<1>6. GoawaysDescend'
  BY DEF GoawaysDescend, TypeOK, Flow
<1>7. GoawayDivides'
  BY <1>0, <1>m, <1>n DEF GoawayDivides, TypeOK, Streams
<1>8. failed' # "H3_ID_ERROR" /\ asked'.shutdowns <= MaxShutdowns
  BY DEF TypeOK, Count
<1>. QED
  BY <1>1, <1>2, <1>3, <1>4, <1>5, <1>6, <1>7, <1>8

\* The end of a stream.
LEMMA CloseStreamKeeps ==
  ASSUME IInv, NEW n \in Streams, CloseStream(n)
  PROVE  IInv'
<1>. USE ShutdownAssumption DEF IInv, CloseStream, stream_vars, goaway_vars, client_vars, net_vars, hist_vars
<1>1. TypeOK'
  BY DEF TypeOK, Streams, Ids, NOTICE, NoGoaway, Count
<1>2. RequestedInOrder'
  BY DEF RequestedInOrder, TypeOK
<1>3. StreamsRequested'
  BY DEF StreamsRequested, TypeOK
<1>4. ArrivedAreOpened'
  BY DEF ArrivedAreOpened, TypeOK
<1>5. GoneStaysGone'
  BY DEF GoneStaysGone, TypeOK
<1>6. GoawaysDescend'
  BY DEF GoawaysDescend, TypeOK, Flow
<1>7. GoawayDivides'
  BY DEF GoawayDivides, TypeOK, Count
<1>8. failed' # "H3_ID_ERROR" /\ asked'.shutdowns <= MaxShutdowns
  BY DEF TypeOK, Count
<1>. QED
  BY <1>1, <1>2, <1>3, <1>4, <1>5, <1>6, <1>7, <1>8

\* A PRIORITY_UPDATE creates no stream that arrived before.
LEMMA OnPriorityUpdateKeeps ==
  ASSUME IInv, OnPriorityUpdate
  PROVE  IInv'
<1>. USE ShutdownAssumption DEF IInv, OnPriorityUpdate, stream_vars, goaway_vars, client_vars, net_vars, hist_vars
<1>. DEFINE n == Head(updates)
<1>0. /\ n \in Streams /\ n \in requested /\ n \in 0..(Requests - 1) /\ n < maxStreams
      /\ updates' \in Seq(Streams) /\ Len(updates') = Len(updates) - 1
      /\ \A i \in 1..Len(updates') : updates'[i] = updates[i + 1]
      /\ Len(updates) \in Nat
  <2>1. /\ n \in Streams /\ updates' \in Seq(Streams) /\ Len(updates') = Len(updates) - 1
        /\ \A i \in 1..Len(updates') : updates'[i] = updates[i + 1]
    BY HeadTailProperties DEF TypeOK
  <2>2. Len(updates) \in Nat /\ 1 \in 1..Len(updates) /\ n = updates[1]
    BY EmptySeq, LenProperties DEF TypeOK
  <2>3. n \in requested
    BY <2>2 DEF StreamsRequested
  <2>4. n < maxStreams
    BY <2>3 DEF RequestedInOrder
  <2>. QED
    BY <2>1, <2>2, <2>3, <2>4 DEF Streams
<1>m. /\ failed' = failed /\ ignored' = ignored
      /\ \/ live' = live /\ maxId' = maxId /\ opened \subseteq opened'
         \/ /\ live' = live \cup {n} /\ maxId' = Max({maxId, n}) /\ opened \cup {n} \subseteq opened'
            /\ n \notin arrived /\ ~GoawayCovers(n)
  <2>1. ~(n + 1 > maxStreams)
    BY <1>0 DEF TypeOK
  <2>2. opened \cup {n} \subseteq IdtrOpen(opened, n)
    BY IdtrOpenGrows, Zenon
  <2>. HIDE DEF n
  <2>3. CASE n \in live \/ GoawayCovers(n)
    BY <2>1, <2>3 DEF n
  <2>4. CASE ~(n \in live \/ GoawayCovers(n))
    <3>1. failed' = failed /\ ignored' = ignored /\ opened \cup {n} \subseteq opened'
      BY <2>1, <2>2, <2>4 DEF n
    <3>2. CASE n \in opened
      BY <2>1, <2>4, <3>1, <3>2 DEF n
    <3>3. CASE n \notin opened
      <4>1. live' = live \cup {n} /\ maxId' = Max({maxId, n})
        BY <2>1, <2>4, <3>3 DEF n, CreateStream
      <4>2. n \notin arrived
        BY <3>3 DEF ArrivedAreOpened
      <4>. QED
        BY <2>4, <3>1, <4>1, <4>2
    <3>. QED
      BY <3>2, <3>3
  <2>. QED
    BY <2>3, <2>4
<1>. HIDE DEF n
<1>n. /\ maxId' \in -1..(Requests - 1) /\ maxId <= maxId'
      /\ live' \subseteq live \cup {n}
      /\ \A k \in live' : k \in live \/ (k = n /\ n <= maxId' /\ n \notin arrived /\ n < goawayId)
  <2>1. Max({maxId, n}) = IF maxId >= n THEN maxId ELSE n
    BY <1>0, MaxOfPair DEF TypeOK
  <2>2. ~GoawayCovers(n) => n < goawayId
    BY <1>0 DEF GoawayCovers, TypeOK, Ids, NoGoaway, NOTICE
  <2>. QED
    BY <1>0, <1>m, <2>1, <2>2 DEF TypeOK
<1>1. TypeOK'
  BY <1>0, <1>m, <1>n DEF TypeOK
<1>2. RequestedInOrder'
  BY DEF RequestedInOrder
<1>3. StreamsRequested'
  <2>1. ASSUME NEW i \in 1..Len(updates') PROVE updates'[i] \in requested
    BY <1>0, <2>1 DEF StreamsRequested
  <2>. QED
    BY <2>1 DEF StreamsRequested
<1>4. ArrivedAreOpened'
  <2>1. processed' \subseteq arrived' /\ ignored' \subseteq arrived'
    BY <1>m DEF ArrivedAreOpened
  <2>2. \A k \in live' \cup arrived' : k <= maxId'
    <3>1. \A k \in live \cup arrived : k <= maxId /\ k \in Int
      <4>1. live \cup arrived \subseteq Int
        <5>1. requested \subseteq Int
          BY DEF RequestedInOrder
        <5>2. live \subseteq Int
          BY DEF TypeOK, Streams
        <5>. QED
          BY <5>1, <5>2 DEF StreamsRequested
      <4>. QED
        BY <4>1 DEF ArrivedAreOpened
    <3>. QED
      BY <1>n, <3>1 DEF TypeOK
  <2>3. live' \cup arrived' \subseteq opened'
    BY <1>m DEF ArrivedAreOpened
  <2>. QED
    BY <2>1, <2>2, <2>3 DEF ArrivedAreOpened
<1>5. GoneStaysGone'
  BY <1>m, <1>n DEF GoneStaysGone
<1>6. GoawaysDescend'
  BY DEF GoawaysDescend, Flow
<1>7. GoawayDivides'
  BY <1>m, <1>n DEF GoawayDivides
<1>8. failed' # "H3_ID_ERROR" /\ asked'.shutdowns <= MaxShutdowns
  BY <1>m
<1>. QED
  BY <1>1, <1>2, <1>3, <1>4, <1>5, <1>6, <1>7, <1>8

\* The limit on streams only grows.
LEMMA SetMaxKeeps ==
  ASSUME IInv, SetMaxClientStreams
  PROVE  IInv'
<1>. USE ShutdownAssumption DEF IInv, SetMaxClientStreams, stream_vars, goaway_vars, client_vars, net_vars, hist_vars
<1>1. TypeOK'
  BY DEF TypeOK, Streams, Ids, NOTICE, NoGoaway, Count
<1>2. RequestedInOrder'
  <2>1. \E k \in 0..Requests : requested' = 0..(k - 1)
    BY DEF RequestedInOrder
  <2>2. requested \subseteq Int
    BY DEF RequestedInOrder
  <2>3. ASSUME NEW n \in requested PROVE n < maxStreams + 1
    <3>1. n < maxStreams
      BY <2>3, Zenon DEF RequestedInOrder
    <3>2. maxStreams \in Nat
      BY Zenon DEF TypeOK
    <3>. QED
      BY <2>2, <3>1, <3>2
  <2>. QED
    BY <2>1, <2>3 DEF RequestedInOrder
<1>3. StreamsRequested'
  BY DEF StreamsRequested, TypeOK
<1>4. ArrivedAreOpened'
  BY DEF ArrivedAreOpened, TypeOK
<1>5. GoneStaysGone'
  BY DEF GoneStaysGone, TypeOK
<1>6. GoawaysDescend'
  BY DEF GoawaysDescend, TypeOK, Flow
<1>7. GoawayDivides'
  BY DEF GoawayDivides, TypeOK, Count
<1>8. failed' # "H3_ID_ERROR" /\ asked'.shutdowns <= MaxShutdowns
  BY DEF TypeOK, Count
<1>. QED
  BY <1>1, <1>2, <1>3, <1>4, <1>5, <1>6, <1>7, <1>8

\* A notice comes before the shutdown, and is above every stream.
LEMMA NoticeKeeps ==
  ASSUME IInv, SubmitShutdownNotice
  PROVE  IInv'
<1>. USE ShutdownAssumption DEF IInv, SubmitShutdownNotice, stream_vars, goaway_vars, client_vars, net_vars, hist_vars
<1>. DEFINE id == NOTICE
<1>0. id \in Ids /\ goawayId \in Ids /\ goawayId \in Nat /\ id \in Nat
  BY DEF TypeOK, Ids, NOTICE, NoGoaway
<1>m. /\ asked' \in [updates : Nat, notices : Nat, shutdowns : Nat]
      /\ asked'.shutdowns = asked.shutdowns
  BY CountType DEF TypeOK
<1>n. \/ /\ id <= goawayId /\ goawayId' = id /\ failed' = failed
         /\ ctrl' = [ctrl EXCEPT !.frq = Append(@, id)]
         /\ Flow' = Append(Flow, id)
      \/ failed' = "assert" /\ goawayId' = goawayId /\ ctrl' = ctrl /\ Flow' = Flow
  <2>1. QueueGoaway(id) /\ goaways' = goaways
    OBVIOUS
  <2>. HIDE DEF id, SubmitShutdownNotice
  <2>2. CASE id <= goawayId
    <3>1. goawayId' = id /\ ctrl' = [ctrl EXCEPT !.frq = Append(@, id)] /\ failed' = failed
      BY <2>1, <2>2 DEF QueueGoaway
    <3>2. ctrl'.frq = Append(ctrl.frq, id) /\ ctrl'.outq = ctrl.outq
      BY <3>1 DEF TypeOK
    <3>3. goaways \o (ctrl.outq \o Append(ctrl.frq, id)) = Append(Flow, id)
      BY <1>0, FlowMoves
    <3>4. Flow' = Append(Flow, id)
      BY <2>1, <3>2, <3>3, Zenon DEF Flow
    <3>. QED
      BY <2>2, <3>1, <3>4
  <2>3. CASE ~(id <= goawayId)
    BY <2>1, <2>3 DEF QueueGoaway, Flow
  <2>. QED
    BY <2>2, <2>3
<1>i. id = NOTICE /\ NOTICE = Requests + 1
  BY DEF NOTICE
<1>c. commenced' = commenced /\ ~commenced
  OBVIOUS
<1>u. UNCHANGED <<live, ignored, opened, maxId, maxStreams, requested, goawayRecv, arriving,
                  updates, goaways, processed, arrived, gone>>
  OBVIOUS
<1>. HIDE DEF id, SubmitShutdownNotice
<1>1. TypeOK'
  <2>1. Append(ctrl.frq, id) \in Seq(Ids) /\ ctrl \in [frq : Seq(Ids), outq : Seq(Ids)]
    BY <1>0 DEF TypeOK
  <2>2. [ctrl EXCEPT !.frq = Append(@, id)] \in [frq : Seq(Ids), outq : Seq(Ids)]
    BY <2>1
  <2>3. ctrl' \in [frq : Seq(Ids), outq : Seq(Ids)]
    BY <1>n, <2>1, <2>2
  <2>. QED
    BY <1>0, <1>c, <1>m, <1>n, <1>u, <2>3 DEF TypeOK
<1>2. RequestedInOrder'
  BY <1>u DEF RequestedInOrder
<1>3. StreamsRequested'
  BY <1>u DEF StreamsRequested
<1>4. ArrivedAreOpened'
  BY <1>u DEF ArrivedAreOpened
<1>5. GoneStaysGone'
  BY <1>u DEF GoneStaysGone
<1>6. GoawaysDescend'
  BY <1>0, <1>n, <1>u, QueuedDescends
<1>7. GoawayDivides'
  <2>1. \A n \in processed \cup (live \ ignored) : n < NOTICE
    BY <1>i DEF ArrivedAreOpened, TypeOK, Streams
  <2>2. \A n \in ignored : goawayId \in Int /\ n \in Int
    BY <1>0 DEF TypeOK, Streams
  <2>4. CASE id <= goawayId /\ goawayId' = id
    BY <1>0, <1>c, <1>i, <1>u, <2>1, <2>2, <2>4 DEF GoawayDivides
  <2>5. CASE goawayId' = goawayId
    BY <1>c, <1>u, <2>5 DEF GoawayDivides
  <2>. QED
    BY <1>n, <2>4, <2>5
<1>8. failed' # "H3_ID_ERROR" /\ asked'.shutdowns <= MaxShutdowns
  BY <1>m, <1>n
<1>. QED
  BY <1>1, <1>2, <1>3, <1>4, <1>5, <1>6, <1>7, <1>8

\* The identifier of the shutdown is above all streams accepted.
LEMMA ShutdownKeeps ==
  ASSUME IInv, Shutdown
  PROVE  IInv'
<1>. USE ShutdownAssumption DEF IInv, Shutdown, stream_vars, goaway_vars, client_vars, net_vars, hist_vars
<1>. DEFINE id == Min({NOTICE, maxId + 1})
<1>0. id \in Ids /\ goawayId \in Ids /\ goawayId \in Nat /\ id \in Nat
  <2>1. maxId + 1 \in Int /\ NOTICE \in Int
    BY DEF TypeOK, NOTICE
  <2>2. id = IF NOTICE <= maxId + 1 THEN NOTICE ELSE maxId + 1
    BY <2>1, MinOfPair
  <2>. QED
    BY <2>2 DEF TypeOK, Ids, NOTICE, NoGoaway
<1>m. /\ asked' \in [updates : Nat, notices : Nat, shutdowns : Nat]
      /\ asked'.shutdowns = asked.shutdowns + 1 /\ asked'.shutdowns <= MaxShutdowns
  BY CountType DEF TypeOK
<1>n. \/ /\ id <= goawayId /\ goawayId' = id /\ failed' = failed
         /\ ctrl' = [ctrl EXCEPT !.frq = Append(@, id)]
         /\ Flow' = Append(Flow, id)
      \/ failed' = "assert" /\ goawayId' = goawayId /\ ctrl' = ctrl /\ Flow' = Flow
  <2>1. QueueGoaway(id) /\ goaways' = goaways
    OBVIOUS
  <2>. HIDE DEF id, Shutdown
  <2>2. CASE id <= goawayId
    <3>1. goawayId' = id /\ ctrl' = [ctrl EXCEPT !.frq = Append(@, id)] /\ failed' = failed
      BY <2>1, <2>2 DEF QueueGoaway
    <3>2. ctrl'.frq = Append(ctrl.frq, id) /\ ctrl'.outq = ctrl.outq
      BY <3>1 DEF TypeOK
    <3>3. goaways \o (ctrl.outq \o Append(ctrl.frq, id)) = Append(Flow, id)
      BY <1>0, FlowMoves
    <3>4. Flow' = Append(Flow, id)
      BY <2>1, <3>2, <3>3, Zenon DEF Flow
    <3>. QED
      BY <2>2, <3>1, <3>4
  <2>3. CASE ~(id <= goawayId)
    BY <2>1, <2>3 DEF QueueGoaway, Flow
  <2>. QED
    BY <2>2, <2>3
<1>i. id = maxId + 1 /\ maxId \in -1..(Requests - 1)
  <2>1. maxId \in -1..(Requests - 1) /\ maxId + 1 \in Int /\ NOTICE \in Int /\ NOTICE > maxId + 1
    BY DEF TypeOK, NOTICE
  <2>. QED
    BY <2>1, MinOfPair
<1>c. commenced' = TRUE
  OBVIOUS
<1>u. UNCHANGED <<live, ignored, opened, maxId, maxStreams, requested, goawayRecv, arriving,
                  updates, goaways, processed, arrived, gone>>
  OBVIOUS
<1>. HIDE DEF id, Shutdown
<1>1. TypeOK'
  <2>1. Append(ctrl.frq, id) \in Seq(Ids) /\ ctrl \in [frq : Seq(Ids), outq : Seq(Ids)]
    BY <1>0 DEF TypeOK
  <2>2. [ctrl EXCEPT !.frq = Append(@, id)] \in [frq : Seq(Ids), outq : Seq(Ids)]
    BY <2>1
  <2>3. ctrl' \in [frq : Seq(Ids), outq : Seq(Ids)]
    BY <1>n, <2>1, <2>2
  <2>. QED
    BY <1>0, <1>c, <1>m, <1>n, <1>u, <2>3 DEF TypeOK
<1>2. RequestedInOrder'
  BY <1>u DEF RequestedInOrder
<1>3. StreamsRequested'
  BY <1>u DEF StreamsRequested
<1>4. ArrivedAreOpened'
  BY <1>u DEF ArrivedAreOpened
<1>5. GoneStaysGone'
  BY <1>u DEF GoneStaysGone
<1>6. GoawaysDescend'
  BY <1>0, <1>n, <1>u, QueuedDescends
<1>7. GoawayDivides'
  <2>1. \A n \in processed \cup (live \ ignored) : n < maxId + 1
    BY <1>i DEF ArrivedAreOpened, TypeOK, Streams
  <2>2. \A n \in ignored : goawayId \in Int /\ n \in Int
    BY <1>0 DEF TypeOK, Streams
  <2>3. asked'.shutdowns > 0
    BY <1>m DEF TypeOK
  <2>4. CASE id <= goawayId /\ goawayId' = id
    BY <1>0, <1>c, <1>i, <1>u, <2>1, <2>2, <2>3, <2>4 DEF GoawayDivides
  <2>5. CASE goawayId' = goawayId
    BY <1>c, <1>u, <2>3, <2>5 DEF GoawayDivides
  <2>. QED
    BY <1>n, <2>4, <2>5
<1>8. failed' # "H3_ID_ERROR" /\ asked'.shutdowns <= MaxShutdowns
  BY <1>m, <1>n
<1>. QED
  BY <1>1, <1>2, <1>3, <1>4, <1>5, <1>6, <1>7, <1>8

\* Serialising moves no frame past another.
LEMMA FillControlKeeps ==
  ASSUME IInv, FillControl
  PROVE  IInv'
<1>. USE ShutdownAssumption DEF IInv, FillControl, stream_vars, goaway_vars, client_vars, net_vars, hist_vars
<1>0. Flow' = Flow
  BY FlowMoves
<1>1. TypeOK'
  BY DEF TypeOK, Streams, Ids, NOTICE, NoGoaway, Count
<1>2. RequestedInOrder'
  BY DEF RequestedInOrder, TypeOK
<1>3. StreamsRequested'
  BY DEF StreamsRequested, TypeOK
<1>4. ArrivedAreOpened'
  BY DEF ArrivedAreOpened, TypeOK
<1>5. GoneStaysGone'
  BY DEF GoneStaysGone, TypeOK
<1>6. GoawaysDescend'
  BY <1>0 DEF GoawaysDescend
<1>7. GoawayDivides'
  BY DEF GoawayDivides, TypeOK, Count
<1>8. failed' # "H3_ID_ERROR" /\ asked'.shutdowns <= MaxShutdowns
  BY DEF TypeOK, Count
<1>. QED
  BY <1>1, <1>2, <1>3, <1>4, <1>5, <1>6, <1>7, <1>8

\* Neither does handing bytes to QUIC.
LEMMA AddWriteOffsetKeeps ==
  ASSUME IInv, AddWriteOffset
  PROVE  IInv'
<1>. USE ShutdownAssumption DEF IInv, AddWriteOffset, stream_vars, goaway_vars, client_vars, net_vars, hist_vars
<1>0. Flow' = Flow
  BY FlowMoves
<1>1. TypeOK'
  <2>1. Head(ctrl.outq) \in Ids /\ Tail(ctrl.outq) \in Seq(Ids)
    BY HeadTailProperties DEF TypeOK
  <2>2. goaways' \in Seq(Ids)
    BY <2>1 DEF TypeOK
  <2>. QED
    BY <2>1, <2>2 DEF TypeOK
<1>2. RequestedInOrder'
  BY DEF RequestedInOrder, TypeOK
<1>3. StreamsRequested'
  BY DEF StreamsRequested, TypeOK
<1>4. ArrivedAreOpened'
  BY DEF ArrivedAreOpened, TypeOK
<1>5. GoneStaysGone'
  BY DEF GoneStaysGone, TypeOK
<1>6. GoawaysDescend'
  BY <1>0 DEF GoawaysDescend
<1>7. GoawayDivides'
  BY DEF GoawayDivides, TypeOK, Count
<1>8. failed' # "H3_ID_ERROR" /\ asked'.shutdowns <= MaxShutdowns
  BY DEF TypeOK, Count
<1>. QED
  BY <1>1, <1>2, <1>3, <1>4, <1>5, <1>6, <1>7, <1>8
-----------------------------------------------------------------------------
(* The theorems                                                            *)

\* A connection begins without streams and without GOAWAY.
LEMMA InitIInv == Init => IInv
<1>. SUFFICES ASSUME Init PROVE IInv
  OBVIOUS
<1>. USE ShutdownAssumption DEF Init
<1>1. TypeOK
  <2>1. maxId \in -1..(Requests - 1) /\ goawayId \in Ids /\ goawayRecv \in Ids
    BY DEF Ids, NoGoaway, NOTICE
  <2>2. ctrl \in [frq : Seq(Ids), outq : Seq(Ids)]
    BY EmptySeq
  <2>3. asked \in [updates : Nat, notices : Nat, shutdowns : Nat]
    OBVIOUS
  <2>4. updates \in Seq(Streams) /\ goaways \in Seq(Ids)
    BY EmptySeq
  <2>. QED
    BY <2>1, <2>2, <2>3, <2>4 DEF TypeOK
<1>2. RequestedInOrder
  <2>1. requested = 0..(0 - 1) /\ 0 \in 0..Requests
    OBVIOUS
  <2>. QED
    BY <2>1, Zenon DEF RequestedInOrder
<1>3. StreamsRequested /\ ArrivedAreOpened /\ GoneStaysGone
  BY DEF StreamsRequested, ArrivedAreOpened, GoneStaysGone
<1>4. Flow = <<>>
  BY DEF Flow
<1>5. GoawaysDescend
  BY <1>4 DEF GoawaysDescend, Descends, NoGoaway, NOTICE
<1>6. GoawayDivides
  BY DEF GoawayDivides, NoGoaway, NOTICE
<1>7. failed # "H3_ID_ERROR" /\ asked.shutdowns <= MaxShutdowns
  OBVIOUS
<1>. QED
  BY <1>1, <1>2, <1>3, <1>5, <1>6, <1>7 DEF IInv

\* Every step keeps the invariant.
LEMMA StepIInv == IInv /\ [Next]_vars => IInv'
<1>. SUFFICES ASSUME IInv, [Next]_vars PROVE IInv'
  OBVIOUS
<1>1. CASE UNCHANGED vars
  BY <1>1 DEF vars, stream_vars, goaway_vars, client_vars, net_vars, hist_vars, IInv, TypeOK,
     RequestedInOrder, StreamsRequested, ArrivedAreOpened, GoneStaysGone, GoawaysDescend, Flow,
     GoawayDivides
<1>2. CASE Next
  BY <1>2, SubmitRequestKeeps, SetPriorityKeeps, CancelKeeps, ReadGoawayKeeps, ReadStreamKeeps,
     CloseStreamKeeps, OnPriorityUpdateKeeps, SetMaxKeeps, NoticeKeeps, ShutdownKeeps,
     FillControlKeeps, AddWriteOffsetKeeps DEF Next
<1>. QED
  BY <1>1, <1>2

\* The inductive invariant holds of every behaviour.
THEOREM ShutdownInvariant == Spec => []IInv
<1>. QED
  BY InitIInv, StepIInv, PTL DEF Spec

\* A GOAWAY tells the truth: what it covers was not and will not be handed
\* to the application, and nothing else is rejected (tx.goaway_id of
\* nghttp3_conn_shutdown against the streams of nghttp3_conn_read_stream2).
THEOREM GoawayExact == Spec => []GoawayIsExact
<1>1. IInv => GoawayIsExact
  BY DEF IInv, GoawayDivides, GoawayIsExact
<1>. QED
  BY <1>1, ShutdownInvariant, PTL

\* A late PRIORITY_UPDATE never revives a stream that had data and was
\* closed, however many gaps the tracker of identifiers has dropped
\* (conn_on_priority_update_stream and conn_bidi_idtr_open).
THEOREM ClosedStaysClosed == Spec => []GoneStaysGone
<1>1. IInv => GoneStaysGone
  BY DEF IInv
<1>. QED
  BY <1>1, ShutdownInvariant, PTL

\* Neither side finds an H3_ID_ERROR in what the other one sends: GOAWAY
\* identifiers never grow on the way to the client, and every
\* PRIORITY_UPDATE names a stream within the limit.
THEOREM NoIdError == Spec => [](failed # "H3_ID_ERROR")
<1>1. IInv => failed # "H3_ID_ERROR"
  BY DEF IInv
<1>. QED
  BY <1>1, ShutdownInvariant, PTL

\* The assertions on GOAWAY identifiers hold too, with any number of
\* notices, if nghttp3_conn_shutdown is called at most once.
THEOREM AssertionsHold ==
  ASSUME MaxShutdowns <= 1
  PROVE  Spec => []NoFailure
<1>1. Init => NoFailure
  BY DEF Init, NoFailure
<1>2. IInv /\ NoFailure /\ [Next]_vars => NoFailure'
  <2>. SUFFICES ASSUME IInv, NoFailure, [Next]_vars PROVE failed' = "none"
    BY DEF NoFailure
  <2>1. IInv'
    BY StepIInv
  <2>2. failed' \in {"none", "assert", "H3_ID_ERROR"} /\ failed' # "H3_ID_ERROR"
    BY <2>1 DEF IInv, TypeOK
  <2>3. failed = "none" /\ goawayId \in Int
    BY DEF NoFailure, IInv, TypeOK, Ids
  <2>4. CASE SubmitShutdownNotice
    BY <2>3, <2>4 DEF SubmitShutdownNotice, QueueGoaway, IInv, GoawayDivides
  <2>5. CASE Shutdown
    <3>. DEFINE id == Min({NOTICE, maxId + 1})
    <3>1. asked.shutdowns < MaxShutdowns /\ asked.shutdowns \in Nat
      BY <2>5 DEF Shutdown, Count, IInv, TypeOK
    <3>2. ~commenced
      BY <3>1, ShutdownAssumption DEF IInv, GoawayDivides
    <3>3. NOTICE <= goawayId /\ NOTICE \in Int /\ maxId + 1 \in Int
      BY <3>2, ShutdownAssumption DEF IInv, GoawayDivides, NOTICE, TypeOK
    <3>4. id <= NOTICE /\ id \in Int
      BY <3>3, MinOfPair
    <3>. HIDE DEF id
    <3>5. id <= goawayId
      BY <2>3, <3>3, <3>4
    <3>6. QueueGoaway(id)
      BY <2>5 DEF Shutdown, id
    <3>. QED
      BY <2>3, <3>5, <3>6 DEF QueueGoaway
  <2>6. CASE ~SubmitShutdownNotice /\ ~Shutdown
    <3>1. failed' = failed \/ failed' = "H3_ID_ERROR"
      BY <2>6 DEF Next, vars, SubmitRequest, SetClientStreamPriority, Cancel, ReadGoaway, ReadStream,
         CloseStream, OnPriorityUpdate, SetMaxClientStreams, FillControl, AddWriteOffset
    <3>. QED
      BY <2>2, <2>3, <3>1
  <2>. QED
    BY <2>4, <2>5, <2>6
<1>. QED
  BY <1>1, <1>2, ShutdownInvariant, PTL DEF Spec
=============================================================================
