------------------------------ MODULE MCSched ------------------------------
(***************************************************************************)
(* Two urgencies; header fields and updates choose among these.            *)
(***************************************************************************)
EXTENDS SchedProps

Low == [urgency |-> 1, inc |-> TRUE]
MCPriorities == {Low, [urgency |-> 0, inc |-> FALSE]}
=============================================================================
