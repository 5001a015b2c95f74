------------------------------ MODULE StreamTx ------------------------------
(***************************************************************************)
(* The write side of a request stream, with the QPACK encoder stream that  *)
(* goes before it: lib/nghttp3_stream.c (frame queue, output queue) and    *)
(* the calls of lib/nghttp3_conn.c that drive it.  The application submits *)
(* messages, supplies the body through its data reader, hands what         *)
(* nghttp3_conn_writev_stream offers to QUIC, and reports what QUIC        *)
(* accepts, acknowledges, blocks and unblocks, in any order.               *)
(*                                                                         *)
(* nghttp3_conn_writev_stream takes several steps, as it calls the data    *)
(* reader: call is "idle" outside, "fill" in nghttp3_stream_fill_outq and  *)
(* "write" after it.  No other call is made in between.                    *)
(*                                                                         *)
(* With one request stream its place in the scheduler is one bit.  The     *)
(* control and decoder streams carry buffers of the same kinds and are     *)
(* left out.  A field section has at least one field.                      *)
(***************************************************************************)
EXTENDS OutQueue

CONSTANTS
  MAX_COPY_THRES,    \* NGHTTP3_STREAM_MAX_COPY_THRES
  MIN_UNSENT_BYTES,  \* NGHTTP3_MIN_UNSENT_BYTES
  HeadersLen,        \* length of a HEADERS frame header and section prefix
  DataLen,           \* length of a DATA frame header
  FieldSizes,        \* lengths a field section may have after its prefix
  EncSizes,          \* lengths its encoder instructions may have
  Bodies,            \* what one call of the data reader may supply, by vector
  MaxInfo,           \* bound: interim responses
  MaxReads,          \* bound: calls of the data reader that do not end the body
  MaxStalls          \* bound: refused offers, blocks and calls that would block

ASSUME StreamTxAssumption ==
  /\ MAX_COPY_THRES \in Nat /\ MIN_UNSENT_BYTES \in Nat \ {0}
  /\ HeadersLen \in Nat \ {0} /\ DataLen \in Nat \ {0}
  /\ FieldSizes \subseteq Nat \ {0} /\ EncSizes \subseteq Nat
  /\ Bodies \subseteq Seq(Nat \ {0})
  /\ MaxInfo \in Nat /\ MaxReads \in Nat /\ MaxStalls \in Nat

REQ == "request"
QENC == "encoder"
TxStreams == {REQ, QENC}

VARIABLES
  frq,          \* frames not yet serialised (stream->frq)
  tx,           \* per stream: its output queue
  endStream,    \* NGHTTP3_STREAM_FLAG_WRITE_END_STREAM
  readBlocked,  \* NGHTTP3_STREAM_FLAG_READ_DATA_BLOCKED
  shut,         \* NGHTTP3_STREAM_FLAG_SHUT_WR
  fc,           \* streams with NGHTTP3_STREAM_FLAG_FC_BLOCKED
  scheduled,    \* is the request stream in its urgency's heap?
  call,         \* see above
  offer,        \* what the last writev_stream returned and QUIC has not answered
  accepted,     \* per stream: bytes QUIC accepted
  finSent,      \* QUIC accepted the end of the request stream
  reported,     \* total passed to acked_stream_data
  submitted,    \* history of the messages submitted
  reads,        \* calls of the data reader that supplied data and no end
  stalls        \* refused offers, blocks and calls that would block

flags == <<endStream, readBlocked, shut>>
answers == <<offer, accepted, finSent, reported>>
counts == <<submitted, reads, stalls>>
vars == <<frq, tx, flags, fc, scheduled, call, answers, counts>>

NoOffer == [stream |-> "none", bytes |-> 0, fin |-> FALSE]

Init ==
  /\ frq = <<>> /\ tx = [s \in TxStreams |-> EmptyTx]
  /\ endStream = FALSE /\ readBlocked = FALSE /\ shut = FALSE
  /\ fc = {} /\ scheduled = FALSE /\ call = "idle"
  /\ offer = NoOffer /\ accepted = [s \in TxStreams |-> 0]
  /\ finSent = FALSE /\ reported = 0
  /\ submitted = <<>> /\ reads = 0 /\ stalls = 0

Stall == stalls < MaxStalls /\ stalls' = stalls + 1

\* nghttp3_stream_require_schedule of the request stream
RequireSchedule ==
  \/ ~WriteDone(tx[REQ]) /\ REQ \notin fc /\ ~shut
  \/ frq # <<>> /\ ~readBlocked

-----------------------------------------------------------------------------
(* Submission *)

SubmitHeadersData(what, frames) ==
  /\ call = "idle"
  /\ frq' = frq \o frames
  /\ submitted' = Append(submitted, what)
  /\ UNCHANGED <<tx, readBlocked, shut, fc, call, answers, reads, stalls>>
  /\ scheduled' = (scheduled \/ RequireSchedule')

Headers == "HEADERS"
Data == "DATA"

SubmitInfo ==
  /\ Len(submitted) < MaxInfo
  /\ \A k \in DOMAIN submitted : submitted[k] = "info"
  /\ SubmitHeadersData("info", <<Headers>>)
  /\ UNCHANGED endStream

\* nghttp3_conn_submit_request and nghttp3_conn_submit_response
SubmitResponse(body) ==
  /\ \A k \in DOMAIN submitted : submitted[k] = "info"
  /\ SubmitHeadersData("response", IF body THEN <<Headers, Data>> ELSE <<Headers>>)
  /\ endStream' = (endStream \/ ~body)

\* After the end of the stream the call fails with NGHTTP3_ERR_INVALID_STATE.
SubmitTrailers ==
  /\ \E k \in DOMAIN submitted : submitted[k] = "response"
  /\ ~endStream
  /\ SubmitHeadersData("trailers", <<Headers>>)
  /\ endStream' = TRUE

-----------------------------------------------------------------------------
(* nghttp3_conn_writev_stream *)

EncoderHasBytes == QENC \notin fc /\ tx[QENC].unsent > 0

Offer(s, fin) ==
  LET n == UnsentFrom(tx[s], OfferEnd(tx[s]))
  IN IF n = 0 /\ ~fin THEN NoOffer ELSE [stream |-> s, bytes |-> n, fin |-> fin]

WritevEncoder ==
  /\ call = "idle" /\ offer = NoOffer
  /\ EncoderHasBytes
  /\ offer' = Offer(QENC, FALSE)
  /\ UNCHANGED <<frq, tx, flags, fc, scheduled, call, accepted, finSent,
                 reported, counts>>

WritevBegin ==
  /\ call = "idle" /\ offer = NoOffer
  /\ ~EncoderHasBytes
  /\ scheduled
  /\ call' = IF readBlocked THEN "write" ELSE "fill"
  /\ UNCHANGED <<frq, tx, flags, fc, scheduled, answers, counts>>

Filling == call = "fill" /\ frq # <<>> /\ tx[REQ].unsent < MIN_UNSENT_BYTES

\* The queue of the request stream with a field section of r bytes.
AddSection(t, r) ==
  IF r > MAX_COPY_THRES
  THEN OutqAdd(AddShared(t, HeadersLen), Own(r))
  ELSE AddShared(t, HeadersLen + r)

\* The queue of the encoder stream with e bytes of instructions.
AddInstructions(t, e) ==
  CASE e > MAX_COPY_THRES -> OutqAdd(t, Own(e))
    [] e \in 1..MAX_COPY_THRES -> AddShared(t, e)
    [] OTHER -> t

FillHeaders ==
  /\ Filling /\ Head(frq) = Headers
  /\ \E r \in FieldSizes, e \in EncSizes :
       tx' = [tx EXCEPT ![REQ] = AddSection(@, r), ![QENC] = AddInstructions(@, e)]
  /\ frq' = Tail(frq)
  /\ UNCHANGED <<flags, fc, scheduled, call, answers, counts>>

\* The data reader returns NGHTTP3_ERR_WOULDBLOCK.
FillWouldBlock ==
  /\ Filling /\ Head(frq) = Data
  /\ Stall
  /\ readBlocked' = TRUE
  /\ call' = "write"
  /\ UNCHANGED <<frq, tx, endStream, shut, fc, scheduled, answers, submitted, reads>>

\* An empty last piece of the body adds nothing.
AddBody_Bug(t, lens, last) ==
  IF lens # <<>> THEN AddAliens(AddShared(t, DataLen), lens) ELSE t

AddBody(t, lens, last) ==
  CASE lens # <<>> -> AddAliens(AddShared(t, DataLen), lens)
    [] lens = <<>> /\ last /\ WriteDone(t) -> OutqAdd(t, Own(0))
    [] OTHER -> t

\* It returns vectors, and possibly NGHTTP3_DATA_FLAG_EOF, with or without
\* NGHTTP3_DATA_FLAG_NO_END_STREAM.
FillData(lens, eof, noEnd) ==
  LET last == eof /\ ~noEnd
  IN /\ Filling /\ Head(frq) = Data
     /\ lens # <<>> \/ eof
     /\ eof \/ reads < MaxReads
     /\ tx' = [tx EXCEPT ![REQ] = AddBody(@, lens, last)]
     /\ endStream' = (endStream \/ last)
     /\ frq' = IF eof THEN Tail(frq) ELSE frq
     /\ call' = IF eof THEN "fill" ELSE "write"
     /\ reads' = IF eof THEN reads ELSE reads + 1
     /\ UNCHANGED <<readBlocked, shut, fc, scheduled, answers, submitted, stalls>>

FinishWritev ==
  /\ call # "idle" /\ ~Filling
  /\ offer' = IF EncoderHasBytes
              THEN Offer(QENC, FALSE)
              ELSE Offer(REQ, /\ frq = <<>> /\ endStream
                              /\ OfferEnd(tx[REQ]) = Len(tx[REQ].outq))
  /\ scheduled' = (scheduled /\ RequireSchedule)
  /\ call' = "idle"
  /\ UNCHANGED <<frq, tx, flags, fc, accepted, finSent, reported, counts>>

-----------------------------------------------------------------------------
(* QUIC's answers *)

\* nghttp3_conn_add_write_offset; how much has been written since the stream
\* was last scheduled is left open.
AddWriteOffset(n) ==
  LET s == offer.stream
  IN /\ call = "idle"
     /\ offer # NoOffer /\ n \in 0..offer.bytes
     /\ n = 0 => offer.bytes = 0
     /\ tx' = [tx EXCEPT ![s] = AddOutqOffset(@, n)]
     /\ accepted' = [accepted EXCEPT ![s] = @ + n]
     /\ finSent' = (finSent \/ (offer.fin /\ n = offer.bytes))
     /\ offer' = NoOffer
     /\ UNCHANGED <<frq, flags, fc, call, reported, counts>>
     /\ CASE s = QENC -> scheduled' = scheduled
          [] s = REQ /\ ~RequireSchedule' -> scheduled' = FALSE
          [] OTHER -> scheduled' \in {scheduled, TRUE}

\* QUIC takes nothing now, so there is nothing to report.
Refuse ==
  /\ call = "idle" /\ offer # NoOffer
  /\ Stall
  /\ offer' = NoOffer
  /\ UNCHANGED <<frq, tx, flags, fc, scheduled, call, accepted, finSent,
                 reported, submitted, reads>>

\* nghttp3_conn_add_ack_offset, nghttp3_conn_update_ack_offset
AckOffset(s, offset) ==
  /\ call = "idle"
  /\ offset \in tx[s].ackOff..accepted[s]
  /\ tx' = [tx EXCEPT ![s] = UpdateAckOffset(@, offset)]
  /\ reported' = reported + (IF s = REQ THEN AckedNow(tx[s], offset) ELSE 0)
  /\ UNCHANGED <<frq, flags, fc, scheduled, call, offer, accepted, finSent, counts>>

Block(s) ==
  /\ call = "idle" /\ s \notin fc
  /\ Stall
  /\ fc' = fc \cup {s}
  /\ scheduled' = (scheduled /\ s # REQ)
  /\ UNCHANGED <<frq, tx, flags, call, answers, submitted, reads>>

\* Unblocked streams wait for the next event.
Unblock_Bug(s) ==
  /\ call = "idle"
  /\ fc' = fc \ {s}
  /\ UNCHANGED <<frq, tx, flags, scheduled, call, answers, counts>>

Unblock(s) ==
  /\ call = "idle"
  /\ fc' = fc \ {s}
  /\ UNCHANGED <<frq, tx, flags, call, answers, counts>>
  /\ scheduled' = (scheduled \/ (s = REQ /\ RequireSchedule'))

ShutdownWrite ==
  /\ call = "idle" /\ ~shut
  /\ shut' = TRUE
  /\ scheduled' = FALSE
  /\ UNCHANGED <<frq, tx, endStream, readBlocked, fc, call, answers, counts>>

Resume ==
  /\ call = "idle"
  /\ readBlocked' = FALSE
  /\ UNCHANGED <<frq, tx, endStream, shut, fc, call, answers, counts>>
  /\ scheduled' = (scheduled \/ RequireSchedule')

Submit ==
  \/ SubmitInfo
  \/ \E body \in BOOLEAN : SubmitResponse(body)
  \/ SubmitTrailers
ReadBody == \E lens \in Bodies, eof, noEnd \in BOOLEAN : FillData(lens, eof, noEnd)
Fill == FillHeaders \/ FillWouldBlock \/ ReadBody
Accept == offer # NoOffer /\ \E n \in 0..offer.bytes : AddWriteOffset(n)
Acknowledge(s) == \E offset \in tx[s].ackOff..accepted[s] : AckOffset(s, offset)

Next ==
  \/ Submit \/ WritevEncoder \/ WritevBegin \/ Fill \/ FinishWritev
  \/ Accept \/ Refuse
  \/ \E s \in TxStreams : Acknowledge(s) \/ Block(s) \/ Unblock(s)
  \/ ShutdownWrite \/ Resume

Spec == Init /\ [][Next]_vars

\* The application goes on writing and answering, QUIC unblocks what it has
\* blocked and acknowledges what it has accepted, the application resumes a
\* stream once it has data.
FairSpec ==
  /\ Spec
  /\ WF_vars(WritevEncoder \/ WritevBegin) /\ WF_vars(Fill \/ FinishWritev)
  /\ WF_vars(Accept)
  /\ WF_vars(readBlocked /\ Resume)
  /\ \A s \in TxStreams :
       /\ WF_vars(s \in fc /\ Unblock(s))
       /\ WF_vars(AckOffset(s, accepted[s]))
=============================================================================
