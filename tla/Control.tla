------------------------------- MODULE Control -------------------------------
(***************************************************************************)
(* The unidirectional streams a peer opens, which arrive in pieces of any  *)
(* size and in any order.  lib/nghttp3_conn.c: nghttp3_conn_read_stream2.  *)
(***************************************************************************)
EXTENDS ControlTx

CONSTANTS
  Peers,     \* what any peer may send: the units of each of its streams
  Locals     \* control streams of this library: [server, settings, frames]

VARIABLES
  conn,      \* what the connection keeps
  uni,       \* uni[s]: the library's stream
  bytes,     \* bytes[s]: the units the peer sends on s
  said,      \* what the peer put into them, if it uses this library
  read,      \* read[s]: how many of them were delivered
  ended,     \* ended[s]: and FIN
  ok         \* ok[s]: "none", or the error that reading s returned
control_vars == <<conn, uni, bytes, said, read, ended, ok>>

ControlInit ==
  /\ \E server \in BOOLEAN : conn = NewConn(server)
  /\ \/ bytes \in Peers /\ said = {}
     \/ \E l \in Locals : l.server # conn.server /\ said = {l} /\ bytes = <<WriteControl(l)>> \o WriteQpackStreams
  /\ uni = [s \in DOMAIN bytes |-> NewUni]
  /\ read = [s \in DOMAIN bytes |-> 0] /\ ended = [s \in DOMAIN bytes |-> FALSE]
  /\ ok = [s \in DOMAIN bytes |-> "none"]

ReadUniStream(s, k, fin) ==
  LET c == ReadUni(conn, uni[s], SubSeq(bytes[s], read[s] + 1, read[s] + k), fin)
  IN  /\ \A x \in DOMAIN bytes : ok[x] = "none"
      /\ ~ended[s] /\ (k > 0 \/ fin)
      /\ read' = [read EXCEPT ![s] = @ + k] /\ ended' = [ended EXCEPT ![s] = fin]
      /\ conn' = c.conn /\ uni' = [uni EXCEPT ![s] = c.st]
      /\ ok' = [ok EXCEPT ![s] = IF c.rv = "more" THEN "none" ELSE c.rv]
      /\ UNCHANGED <<bytes, said>>

ControlNext ==
  \E s \in DOMAIN bytes, fin \in BOOLEAN :
    \E k \in 0..(Len(bytes[s]) - read[s]) : ReadUniStream(s, k, fin)
-----------------------------------------------------------------------------

\* s alone, in one piece; stop_sending depends on whether FIN is known by then
Alone(s) == ReadUni(NewConn(conn.server), NewUni, SubSeq(bytes[s], 1, read[s]), FALSE)
CallsBut(what, ev) == SelectSeq(ev, LAMBDA e : e[1] \notin what)
IsControl(s) == uni[s].type = "CONTROL"

(* What a control stream makes the connection believe and do, and the      *)
(* error it ends with, depend on its bytes alone and not on the pieces     *)
(* they come in.  Not so FIN: together with the type of a critical stream  *)
(* it is not noticed (lib/nghttp3_conn.c:685).                             *)
ControlSameAsWhole ==
  \A s \in DOMAIN bytes :
    LET a == Alone(s) IN
    IsControl(s) =>
      IF ok[s] = "none"
      THEN /\ a.rv = "more" /\ a.conn.remote = conn.remote /\ a.conn.goaway = conn.goaway
           /\ a.conn.pushes = conn.pushes
           /\ CallsBut({"stop_sending"}, conn.ev) = a.conn.ev
      ELSE ok[s] = a.rv \/ (ended[s] /\ ok[s] = "CLOSED_CRITICAL_STREAM")

(* The peer's settings, and what the QPACK encoder and the application     *)
(* were told, are what one SETTINGS frame says, told once and before       *)
(* anything else; GOAWAY identifiers never grow.                           *)
SettingsTakenOnce ==
  LET told(what) == {i \in DOMAIN conn.ev : conn.ev[i][1] = what}
      settings == {"max_dtable_capacity", "max_blocked_streams"}
  IN  /\ \A what \in settings \cup {"recv_settings"} : Cardinality(told(what)) <= 1
      /\ \A i \in told("max_dtable_capacity") : conn.ev[i][2] = conn.remote.capacity
      /\ \A i \in told("max_blocked_streams") :
           conn.ev[i][2] = Smaller(100, conn.remote.blocked) /\ conn.ev[i][2] > 0
      /\ \A i \in DOMAIN conn.ev :
           conn.ev[i][1] \notin settings \cup {"recv_settings", "stop_sending"} =>
             \E j \in told("recv_settings") : j < i
      /\ \A i, j \in told("shutdown") : i < j => conn.ev[j][2] <= conn.ev[i][2]

(* What this library writes on its unidirectional streams another end of   *)
(* it reads without an error, in any order, and hears exactly that.        *)
SaidIsHeard ==
  \A l \in said :
    /\ \A s \in DOMAIN bytes : ok[s] \in {"none", "CLOSED_CRITICAL_STREAM"}
    /\ IsPrefix(conn.ev, Heard(l).ev)
    /\ read[1] = Len(bytes[1]) /\ ok[1] = "none" => conn.remote = Heard(l).remote /\ conn.ev = Heard(l).ev

(* A control stream is understood as it was meant, whoever wrote it, in    *)
(* whatever pieces it comes and whatever streams come next to it.          *)
ControlAsSent == ControlSameAsWhole /\ SettingsTakenOnce /\ SaidIsHeard
=============================================================================
