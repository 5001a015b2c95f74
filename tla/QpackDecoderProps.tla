------------------------- MODULE QpackDecoderProps --------------------------
(***************************************************************************)
(* What the QPACK decoder and the connection around it must never get      *)
(* wrong, whatever the peer sends and in whatever pieces it arrives.       *)
(***************************************************************************)
EXTENDS QpackDecoder

\* No lost wakeup: between calls every parked stream waits for an insertion
\* that has not arrived, although the loop of nghttp3_conn_read_qpack_encoder
\* stops at the first stream of the queue that must go on waiting.  At no
\* time do more wait than SETTINGS_QPACK_BLOCKED_STREAMS allowed.
ParkedStreamsMustWait ==
  /\ Cardinality(bq) <= BlockedStreams
  /\ \A s \in bq : sctx[s].state = "BLOCKED"
  /\ mode = "idle" /\ derr = "none" => \A s \in bq : sctx[s].ricnt > dtab.next

\* A section whose fields are being read has all its insertions, so that
\* nghttp3_qpack_decoder_read_request never finds a resumed stream blocked,
\* and the peer is not told of an insertion before it is here.
ReadingImpliesReceived ==
  /\ \A s \in Streams :
       sctx[s].state = "OPCODE" \/ (sctx[s].state = "BLOCKED" /\ s \notin bq)
         => sctx[s].ricnt <= dtab.next
  /\ written <= dtab.next

\* Data buffered while a stream is parked is read before anything that
\* arrives later: outside its own turn only a parked stream has any.
BufferReadFirst ==
  \A s \in Streams : inq[s] # <<>> => s \in bq \/ mode = s \/ derr # "none"

=============================================================================
