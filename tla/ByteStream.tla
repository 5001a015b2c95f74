----------------------------- MODULE ByteStream -----------------------------
(***************************************************************************)
(* What the write side of a stream promises: its bytes are fixed when they *)
(* are written, accepted by QUIC in order and once, acknowledged in order; *)
(* the application is told exactly how many of ITS bytes (those marked     *)
(* TRUE) are acknowledged; and nothing follows the end of the stream.      *)
(***************************************************************************)
EXTENDS Naturals, Sequences, FiniteSetsExt

VARIABLES
  content,   \* per byte: does it belong to the application?
  accepted,  \* bytes QUIC accepted
  acked,     \* bytes acknowledged
  reported,  \* bytes of its own the application was told are acknowledged
  fin        \* QUIC accepted the end of the stream

vars == <<content, accepted, acked, reported, fin>>

Init == content = <<>> /\ accepted = 0 /\ acked = 0 /\ reported = 0 /\ fin = FALSE

Own(c, n) == Quantify(1..n, LAMBDA k : c[k])

Write ==
  /\ ~fin
  /\ Len(content') > Len(content)
  /\ SubSeq(content', 1, Len(content)) = content
  /\ UNCHANGED <<accepted, acked, reported, fin>>

Accept ==
  /\ ~fin
  /\ accepted' \in accepted..Len(content)
  /\ fin' => accepted' = Len(content)
  /\ UNCHANGED <<content, acked, reported>>

Acknowledge ==
  /\ acked' \in acked..accepted
  /\ reported' = Own(content, acked')
  /\ UNCHANGED <<content, accepted, fin>>

Next == Write \/ Accept \/ Acknowledge

Spec == Init /\ [][Next]_vars
=============================================================================
