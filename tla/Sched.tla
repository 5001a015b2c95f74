------------------------------- MODULE Sched -------------------------------
(***************************************************************************)
(* Which stream of a server writes next: lib/nghttp3_tnode.c and the calls *)
(* of lib/nghttp3_conn.c that schedule and unschedule request streams and  *)
(* change their priorities.                                                *)
(*                                                                         *)
(* What a stream holds is reduced to what the scheduler sees: head and     *)
(* more, its header section and a body not yet read to its end in the      *)
(* frame queue; unsent, the units in the output queue, one of them for the *)
(* header section; fin, an empty buffer there that only carries the end.   *)
(* Module StreamTx has the rest.  The heap of an urgency (nghttp3_pq) is   *)
(* the set of its streams, its top the least by cycle_less.  Cycles are    *)
(* counted modulo CycleMod in place of 2^64.  No GOAWAY has been sent.     *)
(***************************************************************************)
EXTENDS Integers, FiniteSets

CONSTANTS
  Streams,           \* request streams, by identifier
  Urgencies,         \* 0 is the most urgent
  DefaultPri,        \* [urgency, inc] of a new stream
  Priorities,        \* what client and server may set
  Pieces,            \* units one call of the data reader may supply
  MIN_WRITELEN,      \* NGHTTP3_STREAM_MIN_WRITELEN, in units
  MIN_UNSENT_BYTES,  \* NGHTTP3_MIN_UNSENT_BYTES, in units
  CycleMod,          \* 2^64
  MAX_CYCLE_GAP,     \* NGHTTP3_TNODE_MAX_CYCLE_GAP
  MaxStalls,         \* bound: blocks, refusals and calls that would block
  MaxChanges         \* bound: changes of priorities, and those stalls with them

ASSUME SchedAssumption ==
  /\ Streams \subseteq Nat /\ Urgencies \subseteq Nat
  /\ Priorities \subseteq [urgency : Urgencies, inc : BOOLEAN]
  /\ DefaultPri \in [urgency : Urgencies, inc : BOOLEAN]
  /\ Pieces \subseteq Nat \ {0} /\ MIN_WRITELEN \in Nat \ {0} /\ MIN_UNSENT_BYTES \in Nat \ {0}
  /\ MAX_CYCLE_GAP \in Nat /\ CycleMod \in Nat /\ CycleMod > 2 * MAX_CYCLE_GAP
  /\ MaxStalls \in Nat /\ MaxChanges \in Nat

VARIABLES
  status,   \* per stream: "idle", "open", "answered" or "closed"
  pri,      \* node.pri
  updated,  \* streams with NGHTTP3_STREAM_FLAG_PRIORITY_UPDATE_RECVED
  fixed,    \* streams with NGHTTP3_STREAM_FLAG_SERVER_PRIORITY_SET
  headed,   \* streams whose request header section has been read
  head, more, unsent, fin,     \* see above
  readBlocked, fc, shut,       \* streams with these flags
  nwrite,   \* unscheduled_nwrite
  cycle,    \* node.cycle
  heap,     \* per urgency: the streams scheduled
  offer,    \* [stream, units], what writev_stream returned; stream -1 if nothing
  answered, \* has the application dealt with it?
  asked,    \* history: the last priority the server, or else the client, asked for
  stalls, changes

priVars == <<pri, updated, fixed, headed, asked, changes>>
dataVars == <<head, more, unsent, fin>>
flagVars == <<readBlocked, fc, shut>>
schedVars == <<nwrite, cycle, heap>>
offerVars == <<offer, answered>>
vars == <<status, priVars, dataVars, flagVars, schedVars, offerVars, stalls>>

Nothing == [stream |-> -1, units |-> 0]

Init ==
  /\ status = [s \in Streams |-> "idle"]
  /\ pri = [s \in Streams |-> DefaultPri] /\ asked = [s \in Streams |-> DefaultPri]
  /\ updated = {} /\ fixed = {} /\ headed = {}
  /\ head = {} /\ more = {} /\ unsent = [s \in Streams |-> 0] /\ fin = {}
  /\ readBlocked = {} /\ fc = {} /\ shut = {}
  /\ nwrite = [s \in Streams |-> 0] /\ cycle = [s \in Streams |-> 0]
  /\ heap = [u \in Urgencies |-> {}]
  /\ offer = Nothing /\ answered = TRUE
  /\ stalls = 0 /\ changes = 0

Live(s) == status[s] \in {"open", "answered"}
Stall == stalls < MaxStalls /\ changes + stalls < MaxChanges /\ stalls' = stalls + 1
Change == changes + stalls < MaxChanges /\ changes' = changes + 1

-----------------------------------------------------------------------------
(* nghttp3_tnode.c *)

CycleLess(a, b) ==
  IF cycle[a] = cycle[b] THEN a < b
  ELSE (cycle[b] - cycle[a]) % CycleMod <= MAX_CYCLE_GAP

Least(h, s) == \A t \in h \ {s} : CycleLess(s, t)

\* The root of the heap: its least stream, as long as there is one.
Top(h) == CHOOSE s \in h : (\E t \in h : Least(h, t)) => Least(h, s)

\* Mistake: a stream that joins starts from zero.
FirstCycle_Bug(h, u) == 0

FirstCycle(h, u) == IF h[u] = {} THEN 0 ELSE cycle[Top(h[u])]

Scheduled(s) == s \in heap[pri[s].urgency]

AtLeastOne(n) == IF n = 0 THEN 1 ELSE n

\* Mistake: a turn costs nothing below twice MIN_WRITELEN.
Schedule_Bug(h, s, p, n) ==
  LET penalty == AtLeastOne(n \div MIN_WRITELEN)
      u == p.urgency
  IN /\ nwrite' = [nwrite EXCEPT ![s] = 0]
     /\ CASE s \notin h[u] ->
               /\ cycle' = [cycle EXCEPT ![s] =
                    (FirstCycle(h, u) + (IF n = 0 \/ ~p.inc THEN 0 ELSE penalty)) % CycleMod]
               /\ heap' = [h EXCEPT ![u] = @ \cup {s}]
          [] s \in h[u] /\ n > 0 /\ p.inc /\ n >= 2 * MIN_WRITELEN ->
               /\ cycle' = [cycle EXCEPT ![s] = (@ + penalty) % CycleMod]
               /\ heap' = h
          [] OTHER -> cycle' = cycle /\ heap' = h

\* nghttp3_tnode_schedule of s in the heaps h, with priority p, after n units
\* written; conn_schedule_stream resets the count.
Schedule(h, s, p, n) ==
  LET penalty == AtLeastOne(n \div MIN_WRITELEN)
      u == p.urgency
  IN /\ nwrite' = [nwrite EXCEPT ![s] = 0]
     /\ CASE s \notin h[u] ->
               /\ cycle' = [cycle EXCEPT ![s] =
                    (FirstCycle(h, u) + (IF n = 0 \/ ~p.inc THEN 0 ELSE penalty)) % CycleMod]
               /\ heap' = [h EXCEPT ![u] = @ \cup {s}]
          [] s \in h[u] /\ n > 0 /\ p.inc /\ h[u] # {s} ->
               /\ cycle' = [cycle EXCEPT ![s] = (@ + penalty) % CycleMod]
               /\ heap' = h
          [] OTHER -> cycle' = cycle /\ heap' = h

Without(s) == [heap EXCEPT ![pri[s].urgency] = @ \ {s}]

Unschedule(s) == heap' = Without(s) /\ UNCHANGED <<nwrite, cycle>>

-----------------------------------------------------------------------------
(* lib/nghttp3_conn.c *)

WriteDone(s) == unsent[s] = 0 /\ s \notin fin

RequireSchedule(s) ==
  \/ ~WriteDone(s) /\ s \notin fc /\ s \notin shut
  \/ s \in head \cup more /\ s \notin readBlocked

EnsureScheduled(s) ==
  IF Scheduled(s) THEN UNCHANGED schedVars ELSE Schedule(heap, s, pri[s], nwrite[s])

\* Mistake: the stream is left in the heap of its old urgency.
UpdatePriority_Bug(s, p) ==
  /\ pri' = [pri EXCEPT ![s] = p]
  /\ IF p # pri[s] /\ RequireSchedule(s)
     THEN Schedule(heap, s, p, nwrite[s])
     ELSE UNCHANGED schedVars

\* Mistake: only a stream with buffers to send is scheduled again.
UpdatePriority_BugLost(s, p) ==
  /\ pri' = [pri EXCEPT ![s] = p]
  /\ IF p = pri[s]
     THEN UNCHANGED schedVars
     ELSE IF ~WriteDone(s)
          THEN Schedule(Without(s), s, p, nwrite[s])
          ELSE Unschedule(s)

\* conn_update_stream_priority
UpdatePriority(s, p) ==
  /\ pri' = [pri EXCEPT ![s] = p]
  /\ IF p = pri[s]
     THEN UNCHANGED schedVars
     ELSE IF RequireSchedule(s)
          THEN Schedule(Without(s), s, p, nwrite[s])
          ELSE Unschedule(s)

\* The first bytes of a request (nghttp3_conn_read_stream2).
OpenStream(s) ==
  /\ status[s] = "idle"
  /\ status' = [status EXCEPT ![s] = "open"]
  /\ UNCHANGED <<priVars, dataVars, flagVars, schedVars, offerVars, stalls>>

\* Mistake: an earlier PRIORITY_UPDATE does not count.
EndHeaders_Bug(s, p) ==
  /\ Live(s) /\ s \notin headed
  /\ headed' = headed \cup {s}
  /\ IF s \notin fixed /\ p # {}
     THEN \E q \in p : UpdatePriority(s, q)
     ELSE UNCHANGED <<pri, schedVars>>
  /\ asked' = IF s \in updated \cup fixed \/ p = {} THEN asked ELSE [asked EXCEPT ![s] = CHOOSE q \in p : TRUE]
  /\ UNCHANGED <<status, updated, fixed, dataVars, flagVars, offerVars, stalls, changes>>

\* The end of its header section, with a priority field or without.
EndHeaders(s, p) ==
  /\ Live(s) /\ s \notin headed
  /\ headed' = headed \cup {s}
  /\ IF s \notin updated /\ s \notin fixed /\ p # {}
     THEN \E q \in p : /\ UpdatePriority(s, q)
                       /\ asked' = [asked EXCEPT ![s] = q]
     ELSE UNCHANGED <<pri, asked, schedVars>>
  /\ UNCHANGED <<status, updated, fixed, dataVars, flagVars, offerVars, stalls, changes>>

\* conn_on_priority_update_stream
OnPriorityUpdate(s, p) ==
  /\ Change
  /\ CASE status[s] = "idle" ->
            /\ status' = [status EXCEPT ![s] = "open"]
            /\ pri' = [pri EXCEPT ![s] = p]
            /\ updated' = updated \cup {s}
            /\ UNCHANGED schedVars
       [] Live(s) /\ s \notin fixed ->
            /\ updated' = updated \cup {s}
            /\ UpdatePriority(s, p)
            /\ UNCHANGED status
       [] OTHER -> UNCHANGED <<status, pri, updated, schedVars>>
  /\ asked' = IF s \in fixed THEN asked ELSE [asked EXCEPT ![s] = p]
  /\ UNCHANGED <<fixed, headed, dataVars, flagVars, offerVars, stalls>>

\* nghttp3_conn_set_server_stream_priority
SetServerStreamPriority(s, p) ==
  /\ Live(s)
  /\ Change
  /\ fixed' = fixed \cup {s}
  /\ UpdatePriority(s, p)
  /\ asked' = [asked EXCEPT ![s] = p]
  /\ UNCHANGED <<status, updated, headed, dataVars, flagVars, offerVars, stalls>>

\* nghttp3_conn_submit_response with a data reader
SubmitResponse(s) ==
  /\ status[s] = "open"
  /\ status' = [status EXCEPT ![s] = "answered"]
  /\ more' = more \cup {s}
  /\ head' = head \cup {s}
  /\ Schedule(heap, s, pri[s], nwrite[s])
  /\ UNCHANGED <<priVars, unsent, fin, flagVars, offerVars, stalls>>

\* nghttp3_conn_get_next_tx_stream
NextTxStream ==
  LET u == CHOOSE x \in Urgencies : heap[x] # {} /\ \A y \in Urgencies : heap[y] # {} => x <= y
  IN Top(heap[u])

\* What conn_writev_stream offers once the queue is filled, and unscheduling.
Return(s) ==
  /\ UNCHANGED <<status, priVars, fc, shut>>
  /\ answered' = FALSE
  /\ offer' = IF WriteDone(s)' THEN Nothing ELSE [stream |-> s, units |-> unsent'[s]]
  /\ IF RequireSchedule(s)' THEN UNCHANGED schedVars ELSE Unschedule(s)

\* nghttp3_conn_writev_stream.  The data reader is called once, unless it is
\* known to block or enough is buffered, and ends the body or does not.
WritevStream ==
  /\ answered
  /\ \E u \in Urgencies : heap[u] # {}
  /\ \E s \in {NextTxStream} :
     LET have == unsent[s] + (IF s \in head THEN 1 ELSE 0)
         reads == s \in more \ readBlocked /\ have < MIN_UNSENT_BYTES
     IN /\ head' = head \ {s}
        /\ \/ /\ ~reads
              /\ unsent' = [unsent EXCEPT ![s] = have]
              /\ UNCHANGED <<more, fin, readBlocked, stalls>>
           \/ /\ reads
              /\ Stall
              /\ readBlocked' = readBlocked \cup {s}
              /\ unsent' = [unsent EXCEPT ![s] = have]
              /\ UNCHANGED <<more, fin>>
           \/ /\ reads
              /\ \E n \in Pieces \cup {0} :
                   /\ unsent' = [unsent EXCEPT ![s] = have + n]
                   /\ fin' = IF n + have = 0 THEN fin \cup {s} ELSE fin
                   /\ \/ n > 0 /\ more' = more
                      \/ more' = more \ {s}
              /\ UNCHANGED <<readBlocked, stalls>>
        /\ Return(s)

\* nghttp3_conn_add_write_offset
AddWriteOffset(n) ==
  /\ ~answered /\ offer # Nothing
  /\ n \in 0..offer.units /\ (n = 0 => offer.units = 0)
  /\ answered' = TRUE /\ offer' = Nothing
  /\ UNCHANGED <<status, priVars, flagVars, stalls>>
  /\ \E s \in {offer.stream} :
     IF status[s] = "closed"
     THEN UNCHANGED <<dataVars, schedVars>>
     ELSE LET total == nwrite[s] + n IN
          /\ unsent' = [unsent EXCEPT ![s] = @ - n]
          /\ fin' = IF n = unsent[s] THEN fin \ {s} ELSE fin
          /\ UNCHANGED <<head, more>>
          /\ CASE ~RequireSchedule(s)' ->
                    /\ heap' = Without(s)
                    /\ nwrite' = [nwrite EXCEPT ![s] = total]
                    /\ UNCHANGED cycle
               [] RequireSchedule(s)' /\ total < MIN_WRITELEN ->
                    /\ nwrite' = [nwrite EXCEPT ![s] = total]
                    /\ UNCHANGED <<cycle, heap>>
               [] OTHER -> Schedule(heap, s, pri[s], total)

\* The application sees that there is nothing to write, or QUIC takes nothing.
TakeNothing ==
  /\ ~answered
  /\ IF offer = Nothing THEN UNCHANGED stalls ELSE Stall
  /\ answered' = TRUE /\ offer' = Nothing
  /\ UNCHANGED <<status, priVars, dataVars, flagVars, schedVars>>

Block(s) ==
  /\ Live(s) /\ s \notin fc
  /\ Stall
  /\ fc' = fc \cup {s}
  /\ nwrite' = [nwrite EXCEPT ![s] = 0]
  /\ heap' = Without(s)
  /\ UNCHANGED <<status, priVars, dataVars, readBlocked, shut, cycle, offerVars>>

ShutdownWrite(s) ==
  /\ Live(s) /\ s \notin shut
  /\ shut' = shut \cup {s}
  /\ nwrite' = [nwrite EXCEPT ![s] = 0]
  /\ heap' = Without(s)
  /\ UNCHANGED <<status, priVars, dataVars, readBlocked, fc, cycle, offerVars, stalls>>

Unblock(s) ==
  /\ Live(s)
  /\ fc' = fc \ {s}
  /\ UNCHANGED <<status, priVars, dataVars, readBlocked, shut, offerVars, stalls>>
  /\ IF RequireSchedule(s)' THEN EnsureScheduled(s) ELSE UNCHANGED schedVars

Resume(s) ==
  /\ Live(s)
  /\ readBlocked' = readBlocked \ {s}
  /\ UNCHANGED <<status, priVars, dataVars, fc, shut, offerVars, stalls>>
  /\ IF RequireSchedule(s)' THEN EnsureScheduled(s) ELSE UNCHANGED schedVars

\* nghttp3_conn_close_stream2: the stream and all it holds is gone.
CloseStream(s) ==
  /\ Live(s)
  /\ status' = [status EXCEPT ![s] = "closed"]
  /\ heap' = Without(s)
  /\ head' = head \ {s} /\ more' = more \ {s} /\ fin' = fin \ {s} /\ unsent' = [unsent EXCEPT ![s] = 0]
  /\ readBlocked' = readBlocked \ {s} /\ fc' = fc \ {s} /\ shut' = shut \ {s}
  /\ nwrite' = [nwrite EXCEPT ![s] = 0] /\ cycle' = [cycle EXCEPT ![s] = 0]
  /\ UNCHANGED <<priVars, offerVars, stalls>>

Answer == TakeNothing \/ \E n \in 0..offer.units : AddWriteOffset(n)

Next ==
  \/ WritevStream \/ Answer
  \/ \E s \in Streams :
       \/ OpenStream(s) \/ SubmitResponse(s) \/ CloseStream(s)
       \/ Block(s) \/ Unblock(s) \/ Resume(s) \/ ShutdownWrite(s)
       \/ \E p \in {{}} \cup {{q} : q \in Priorities} : EndHeaders(s, p)
       \/ \E p \in Priorities : OnPriorityUpdate(s, p) \/ SetServerStreamPriority(s, p)

Spec == Init /\ [][Next]_vars

\* The application writes as long as there is something to write, answers,
\* and resumes a stream that has data again; QUIC unblocks what it blocked.
FairSpec ==
  /\ Spec
  /\ WF_vars(WritevStream) /\ WF_vars(Answer)
  /\ \A s \in Streams : /\ WF_vars(s \in fc /\ Unblock(s))
                        /\ WF_vars(s \in readBlocked /\ Resume(s))
=============================================================================
