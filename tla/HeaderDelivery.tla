--------------------------- MODULE HeaderDelivery ---------------------------
(***************************************************************************)
(* What header compression promises the two applications: on every stream  *)
(* the fields handed to one side come out of the other side, unchanged, in *)
(* order and once.  This is the contract of nghttp3_qpack_encoder_encode   *)
(* and nghttp3_qpack_decoder_read_request taken together; the streams that *)
(* carry table updates and acknowledgments do not show in it.              *)
(***************************************************************************)
EXTENDS Naturals, Sequences

CONSTANTS
  Streams,   \* request streams
  Lines      \* header fields, as the receiving application sees them

VARIABLES
  sent,      \* per stream: the fields submitted
  received   \* per stream: the fields delivered

Init ==
  /\ sent = [s \in Streams |-> <<>>]
  /\ received = [s \in Streams |-> <<>>]

Submit(s, l) ==
  /\ sent' = [sent EXCEPT ![s] = Append(@, l)]
  /\ UNCHANGED received

Deliver(s) ==
  /\ Len(received[s]) < Len(sent[s])
  /\ received' = [received EXCEPT ![s] = Append(@, sent[s][Len(@) + 1])]
  /\ UNCHANGED sent

Next == \E s \in Streams : Deliver(s) \/ \E l \in Lines : Submit(s, l)

Spec == Init /\ [][Next]_<<sent, received>>
=============================================================================
