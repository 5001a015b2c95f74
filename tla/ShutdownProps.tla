---------------------------- MODULE ShutdownProps ---------------------------
(* What must hold of a graceful shutdown. *)
EXTENDS Shutdown

(* A GOAWAY tells the truth: no request it covers was or will be handed to *)
(* the application, so that the client may repeat it elsewhere, and none   *)
(* is rejected that the last GOAWAY does not cover.  It must hold although *)
(* streams and their priorities arrive in any order around it.             *)
GoawayIsExact ==
  /\ \A n \in processed : n < goawayId
  /\ \A n \in ignored : goawayId <= n

(* Identifiers of GOAWAY frames never grow and PRIORITY_UPDATE frames stay *)
(* within the limit on streams: neither the assertions of                  *)
(* nghttp3_conn_shutdown and nghttp3_conn_submit_shutdown_notice fail, nor *)
(* does either side find an H3_ID_ERROR in what the other one sends.       *)
NoFailure == failed = "none"

(* A stream that was closed does not come back with a late PRIORITY_UPDATE *)
(* ("The stream is gone.  Just ignore." in                                 *)
(* conn_on_priority_update_stream), also if the tracker of identifiers has *)
(* dropped gaps meanwhile.                                                 *)
GoneStaysGone == arrived \cap gone \cap live = {}

(* A stream the client reset before any of its data arrived, and which a   *)
(* PRIORITY_UPDATE that came later created: nothing will close it.         *)
Orphan(n) == n \in live \cap (gone \ arrived)

(* After nghttp3_conn_shutdown the connection drains: from some time on    *)
(* nghttp3_conn_is_drained2 holds, whatever was accepted, rejected, or     *)
(* created by its priority before.  Only an orphan can prevent it.         *)
EventuallyDrained ==
  <>[](commenced => IsDrained \/ \E n \in Streams : Orphan(n) /\ live = {n})
=============================================================================
