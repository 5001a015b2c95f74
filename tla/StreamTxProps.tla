---------------------------- MODULE StreamTxProps ----------------------------
(* What must hold of the write side of a stream. *)
EXTENDS StreamTx

-----------------------------------------------------------------------------

(* Every byte not yet acknowledged is still held, each once, and the       *)
(* position in the queue is where QUIC stopped: write and acknowledgment   *)
(* offsets, moved by unrelated calls and by the merging of adjacent        *)
(* buffers, tell the same story (nghttp3_stream_add_outq_offset,           *)
(* nghttp3_stream_update_ack_offset, the merge in nghttp3_stream_outq_add).*)
OffsetsAgree ==
  \A s \in TxStreams :
    LET t == tx[s] IN
      /\ t.ackBase <= t.ackOff /\ t.ackOff <= accepted[s]
      /\ t.ackBase + HeldUpTo(t, Len(t.outq)) = Len(t.content)
      /\ accepted[s] + t.unsent = Len(t.content)
      /\ t.unsent = UnsentFrom(t, Len(t.outq))
      /\ \A k \in 1..t.idx : BufLen(t.outq[k]) = 0
      /\ \A k \in (t.idx + 2)..Len(t.outq) : t.outq[k].pos = t.outq[k].begin

(* A chunk lives exactly as long as a buffer lies in it: the next SHARED   *)
(* buffer to be removed lies in the first chunk (the assertion of          *)
(* stream_pop_outq_entry), no queued byte lies in a chunk already freed,   *)
(* and no chunk is left that nothing would free.                           *)
ChunksLive ==
  \A s \in TxStreams :
    LET outq == tx[s].outq
        chunks == tx[s].chunks
        in(c) == {k \in DOMAIN outq : /\ outq[k].type = "SHARED"
                                      /\ outq[k].chunk = chunks[c].id}
    IN /\ \A k \in DOMAIN outq :
            outq[k].type = "SHARED" => \E c \in DOMAIN chunks : k \in in(c)
       /\ \A c \in DOMAIN chunks :
            /\ chunks[c].last <= chunks[c].cap
            /\ in(c) # {} /\ outq[Max(in(c))].last = chunks[c].last
            /\ \A k, l \in in(c) : k < l => outq[k].last <= outq[l].begin
            /\ c > 1 => Max(in(c - 1)) < Min(in(c))

(* No lost wakeup: between calls, a stream that has anything to send, or   *)
(* frames to serialise, and is not blocked for any reason, is scheduled.   *)
(* The bit is set and cleared in seven places, each looking at some of     *)
(* the flags.                                                              *)
WritableIsScheduled ==
  /\ call = "idle" /\ REQ \notin fc /\ ~shut /\ ~readBlocked
  /\ ~WriteDone(tx[REQ]) \/ frq # <<>>
  => scheduled

(* The end of the stream is offered until QUIC takes it, and then never    *)
(* again.  A stream whose last frame is serialised and whose end QUIC has  *)
(* not taken is on offer, blocked, or still scheduled, although nothing    *)
(* but a flag may remain of it; when QUIC has the end, it has every byte,  *)
(* no frame is left and the stream is not scheduled.                       *)
FinExactlyOnce ==
  /\ call = "idle" /\ endStream /\ frq = <<>> /\ ~finSent
       => scheduled \/ offer.fin \/ REQ \in fc \/ shut
  /\ finSent => /\ tx[REQ].unsent = 0 /\ frq = <<>> /\ endStream
                /\ offer.stream # REQ
                /\ call = "idle" => ~scheduled

(* A stream whose write side is shut is never offered again: "any further  *)
(* write operation to stream identified by |stream_id| is prohibited ...   *)
(* it cannot be unblocked by nghttp3_conn_unblock_stream" (nghttp3.h).     *)
ShutIsFinal == [][shut /\ offer' # offer => offer'.stream # REQ]_vars

(* A stream the application has finished is sent to its end, and all of    *)
(* the application's memory is given back.                                 *)
EventuallyFinished ==
  endStream ~> \/ shut
               \/ /\ finSent
                  /\ reported = Quantify(DOMAIN tx[REQ].content,
                                         LAMBDA k : tx[REQ].content[k])

(* The request stream is a ByteStream: written once, accepted and          *)
(* acknowledged in order, reported exactly, ended once.                    *)
Request == INSTANCE ByteStream WITH
  content <- tx[REQ].content, accepted <- accepted[REQ], acked <- tx[REQ].ackOff,
  reported <- reported, fin <- finSent

RequestIsByteStream == Request!Spec
=============================================================================
