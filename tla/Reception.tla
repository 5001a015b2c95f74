------------------------------ MODULE Reception ------------------------------
(***************************************************************************)
(* The request streams of a connection as they arrive: in pieces of any    *)
(* size, with FIN anywhere, while insertions into the dynamic table come   *)
(* on another stream.  lib/nghttp3_conn.c: nghttp3_conn_read_stream2,      *)
(* nghttp3_conn_read_qpack_encoder, shutdown_stream_read, close_stream2.   *)
(***************************************************************************)
EXTENDS BidiRx

CONSTANTS
  Ids,          \* request streams
  Scripts,      \* Scripts[end, s]: what the peer of an end may send on s, sequences of frames
  MayReject,    \* streams that a GOAWAY of this end may have excluded
  Sides,        \* [side, method]: "REQ" on a server, "RESP" on a client
  MaxInserts,   \* bound: insertions into the dynamic table
  MaxBlocked,   \* local.settings.qpack_blocked_streams
  MaxShut       \* bound: streams shut for reading

VARIABLES
  side,         \* the end of the connection that is modelled
  wire,         \* wire[s]: the units the peer sends on s
  at,           \* at[s]: how many of them were delivered
  fin,          \* fin[s]: FIN was delivered after them
  alone,        \* alone[s], a history: it came without data, and s was not parked
  stream,       \* stream[s]: the library's stream
  closed,       \* streams closed by the application
  icnt,         \* the decoder's Insert Count
  failed        \* failed[s]: the error that reading s returned, or "none"
vars == <<side, wire, at, fin, alone, stream, closed, icnt, failed>>

NoFields == <<>>
Unit(k, type, n) == [k |-> k, type |-> type, n |-> n, fields |-> NoFields]
Integer(unit, wide) == IF wide THEN <<Unit("half", "", 0), unit>> ELSE <<unit>>
\* the units of a frame [type, wide, payload]
Frame(f) ==
  Integer(Unit("type", f.type, 0), f.wide) \o
  Integer(Unit("length", "", Len(f.payload)), f.wide) \o f.payload

First(rejected) ==
  LET st == NewStream(side.side, side.method)
  IN  IF rejected THEN [st EXCEPT !.rstate.state = "IGN_REST"] ELSE st

Init ==
  /\ side \in Sides
  /\ \E script \in [Ids -> UNION {Scripts[side.side, s] : s \in Ids}] :
       /\ \A s \in Ids : script[s] \in Scripts[side.side, s]
       /\ wire = [s \in Ids |-> FlattenSeq([i \in DOMAIN script[s] |-> Frame(script[s][i])])]
  /\ at = [s \in Ids |-> 0] /\ fin = [s \in Ids |-> FALSE] /\ alone = [s \in Ids |-> FALSE]
  /\ \E rejected \in SUBSET MayReject :
       stream = [s \in Ids |-> First(s \in rejected)]
  /\ closed = {} /\ icnt = 0
  /\ failed = [s \in Ids |-> "none"]

Running == \A s \in Ids : failed[s] = "none"
Parked == {s \in Ids \ closed : stream[s].blocked}
Env == [icnt |-> icnt, parked |-> Cardinality(Parked), limit |-> MaxBlocked]

\* what a call that read s, and returned c, leaves
Settle(s, c) ==
  /\ stream' = [stream EXCEPT ![s] = c.st]
  /\ failed' = [failed EXCEPT ![s] = IF Failed(c) THEN c.rv ELSE "none"]

Read(s, k, last) ==
  /\ s \notin closed /\ ~fin[s]
  /\ k > 0 \/ last
  /\ at[s] + k <= Len(wire[s])
  /\ at' = [at EXCEPT ![s] = @ + k] /\ fin' = [fin EXCEPT ![s] = last]
  /\ alone' = [alone EXCEPT ![s] = k = 0 /\ ~stream[s].blocked]
  /\ Settle(s, ReadStream(stream[s], SubSeq(wire[s], at[s] + 1, at[s] + k), last, Env))
  /\ UNCHANGED <<side, wire, closed, icnt>>

\* the loop of nghttp3_conn_read_qpack_encoder: the stream that waits for
\* the least goes first, until one fails or still has to wait
RECURSIVE ResumeAll(_, _, _)
\* c is what resuming s came to
Resumed(streams, failures, count, s, c) ==
  LET next == [streams EXCEPT ![s] = c.st]
  IN  IF Failed(c) THEN [streams |-> next, failures |-> [failures EXCEPT ![s] = c.rv]]
      ELSE ResumeAll(next, failures, count)
ResumeAll(streams, failures, count) ==
  LET waiting == {s \in Ids \ closed : streams[s].blocked}
      ready == {s \in waiting : streams[s].sctx.ricnt <= count}
      s == CHOOSE x \in ready : \A y \in ready : streams[x].sctx.ricnt <= streams[y].sctx.ricnt
  IN  IF ready = {} THEN [streams |-> streams, failures |-> failures]
      ELSE Resumed(streams, failures, count, s,
             ProcessBlocked([streams[s] EXCEPT !.blocked = FALSE],
               [icnt |-> count, parked |-> Cardinality(waiting) - 1, limit |-> MaxBlocked]))

ReadEncoder(n) ==
  /\ icnt + n <= MaxInserts
  /\ icnt' = icnt + n
  /\ \E r \in {ResumeAll(stream, failed, icnt + n)} : stream' = r.streams /\ failed' = r.failures
  /\ UNCHANGED <<side, wire, at, fin, alone, closed>>

ShutdownStreamRead(s) ==
  /\ s \notin closed /\ ~stream[s].shutRd
  /\ Cardinality({x \in Ids : stream[x].shutRd}) < MaxShut
  /\ stream' = [stream EXCEPT ![s] = ShutRead(@)]
  /\ UNCHANGED <<side, wire, at, fin, alone, closed, icnt, failed>>

CloseStream(s) ==
  /\ s \notin closed
  /\ closed' = closed \cup {s}
  /\ stream' = [stream EXCEPT ![s] = DeleteCredit(@)]
  /\ UNCHANGED <<side, wire, at, fin, alone, icnt, failed>>

Next ==
  /\ Running
  /\ \/ \E s \in Ids : \/ \E k \in 0..(Len(wire[s]) - at[s]), last \in BOOLEAN : Read(s, k, last)
                       \/ ShutdownStreamRead(s) \/ CloseStream(s)
     \/ \E n \in 1..MaxInserts : ReadEncoder(n)

Spec == Init /\ [][Next]_vars
=============================================================================
