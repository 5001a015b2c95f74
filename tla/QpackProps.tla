----------------------------- MODULE QpackProps -----------------------------
(***************************************************************************)
(* What the encoder and the decoder of nghttp3 achieve together.           *)
(***************************************************************************)
EXTENDS Qpack

\* Header compression is invisible: every stream delivers the fields that
\* were submitted on it, in order, none lost, invented or swapped with the
\* contents of another table entry.
Delivery == INSTANCE HeaderDelivery WITH
              Lines <- [name : Names, value : Values],
              sent <- want, received <- got
DeliversHeaders == Delivery!Spec

\* Neither side ever fails the connection: no instruction, section or
\* acknowledgment of this encoder and this decoder is an error to the other.
NoConnectionError == derr = "none" /\ ~ebad /\ declen <= MaxDecoderLen

\* Every section of this encoder can be decoded by this decoder: the Required
\* Insert Count survives its conversion and no reference misses
\* (nghttp3_qpack_decoder_reconstruct_ricnt, rel2abs, brel2abs, pbrel2abs).
SectionsDecodable == derr # "DECOMPRESSION_FAILED"

\* Both tables hold the same entry under an absolute index both still have.
TablesAgree ==
  \A a \in Enc!Live(tab) \cap Enc!Live(dtab) :
    /\ tab.ent[a].name = dtab.ent[a].name
    /\ tab.ent[a].value = dtab.ent[a].value

\* The encoder's view of what arrived never runs ahead of the decoder.
CountsOrdered == krcnt <= written /\ written <= dtab.next /\ dtab.next <= tab.next

\* The entries of a section that may still be read are in the decoder's
\* table: what the encoder pins the decoder keeps.
DecoderKeepsReferenced ==
  \A s \in Streams \ (shut \cup closed) : \A i \in DOMAIN refs[s] :
    dtab.first < refs[s][i].min_cnt

\* Every stream parked at the decoder counts as blocked at the encoder, so
\* that the two sides agree on who uses up SETTINGS_QPACK_BLOCKED_STREAMS.
ParkedStreamsCounted ==
  \A s \in bq : Enc!IsBlocked(s)

\* Everything submitted is delivered, and no stream stays parked.
EventuallyDelivered == <>[](\A s \in Streams : got[s] = want[s])

\* The encoder hears of every insertion and of every section, so that it
\* ends up with nothing blocked and no entry pinned.
EventuallyAcknowledged ==
  <>[](krcnt = tab.next /\ blocked = {} /\ \A s \in Streams : refs[s] = <<>>)
=============================================================================
