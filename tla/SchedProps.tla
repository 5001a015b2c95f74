----------------------------- MODULE SchedProps -----------------------------
(* What must hold of the scheduler. *)
EXTENDS Sched

-----------------------------------------------------------------------------

CanSend(s) ==
  /\ s \notin fc \cup shut \cup readBlocked
  /\ ~WriteDone(s) \/ s \in head \cup more

(* A stream is in no heap but that of its urgency, and no deleted stream   *)
(* is in any: nghttp3_pq_remove asserts the first, and the next            *)
(* writev_stream would follow a dangling pointer without the second.       *)
HeapsAgree ==
  \A u \in Urgencies : \A s \in heap[u] : Live(s) /\ pri[s].urgency = u

(* No lost wakeup: between calls a stream that can send is in its heap,    *)
(* whatever changed its priority, flags or queues.                         *)
ReadyIsScheduled ==
  \A s \in Streams : Live(s) /\ CanSend(s) => Scheduled(s)

(* Cycles in one heap stay within the window in which cycle_less is an     *)
(* order, across the wrap of the counter.                                  *)
CyclesComparable ==
  \A u \in Urgencies : \A s, t \in heap[u] :
    s # t => (CycleLess(s, t) <=> ~CycleLess(t, s))

(* The last word on a priority: the server's if it ever set one, else the  *)
(* last PRIORITY_UPDATE, else the header field, in whatever order they     *)
(* arrive and whether before or after the request (nghttp3.h on            *)
(* nghttp3_conn_set_server_stream_priority: "any attempts to update        *)
(* priority by client are ignored").                                       *)
PriorityAsAsked == \A s \in Streams : Live(s) => pri[s] = asked[s]

(* A stream that may go before s whenever it is scheduled: a more urgent   *)
(* one, or one of the same urgency that takes no turns.                    *)
GoesBefore(t, s) ==
  /\ t \in heap[pri[t].urgency]
  /\ \/ pri[t].urgency < pri[s].urgency
     \/ pri[t].urgency = pri[s].urgency /\ ~pri[t].inc
(* A stream that can send is served: again and again it is offered, or     *)
(* loses the ability to send, or gives way to one that goes before it.     *)
NoStarvation ==
  \A s \in Streams :
    []<>(\/ offer.stream = s
         \/ ~(Live(s) /\ CanSend(s))
         \/ \E t \in Streams \ {s} : GoesBefore(t, s))
=============================================================================
