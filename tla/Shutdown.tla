------------------------------ MODULE Shutdown ------------------------------
(***************************************************************************)
(* Graceful shutdown of a server: GOAWAY in lib/nghttp3_conn.c, and what   *)
(* it does to request streams, which arrive in any order, and to           *)
(* PRIORITY_UPDATE frames, which may arrive before, after or instead of    *)
(* their stream.  A client of the same library is at the other end.        *)
(*                                                                         *)
(* A client-initiated bidirectional stream 4n is named by n; a GOAWAY      *)
(* identifier 4n by n as well.                                             *)
(***************************************************************************)
EXTENDS Integers, FiniteSets, Sequences, FiniteSetsExt

CONSTANTS
  Requests,      \* bound: requests the client makes
  MaxUpdates,    \* bound: PRIORITY_UPDATE frames
  MaxNotices,    \* bound: shutdown notices
  MaxShutdowns,  \* bound: calls of nghttp3_conn_shutdown
  MaxGaps,       \* gaps in the stream numbers the server remembers (32)
  MayCancel      \* streams the client may reset before the server has data

ASSUME ShutdownAssumption ==
  /\ Requests \in Nat /\ MaxUpdates \in Nat
  /\ MaxNotices \in Nat /\ MaxShutdowns \in Nat /\ MaxGaps \in Nat \ {0}
  /\ MayCancel \subseteq Nat

Streams == 0..(Requests - 1)
NOTICE == Requests + 1       \* NGHTTP3_SHUTDOWN_NOTICE_STREAM_ID, above all
NoGoaway == NOTICE + 1       \* NGHTTP3_VARINT_MAX + 1

VARIABLES
  \* the server's library
  live,        \* conn->streams; remote.bidi.num_streams counts them
  ignored,     \* streams in NGHTTP3_REQ_STREAM_STATE_IGN_REST
  opened,      \* stream numbers remote.bidi.idtr takes for used
  maxId,       \* rx.max_stream_id_bidi
  goawayId,    \* tx.goaway_id
  commenced,   \* NGHTTP3_CONN_FLAG_SHUTDOWN_COMMENCED
  maxStreams,  \* remote.bidi.max_client_streams
  ctrl,        \* the control stream: [frq, outq], identifiers of GOAWAY frames
  \* the client's library
  requested,   \* streams of submit_request
  goawayRecv,  \* rx.goaway_id; NGHTTP3_CONN_FLAG_GOAWAY_RECVED if below NoGoaway
  \* the network
  arriving,    \* streams whose first data is under way
  updates,     \* PRIORITY_UPDATE frames under way, in order
  goaways,     \* GOAWAY frames under way, in order
  \* histories
  processed,   \* requests handed to the server's application
  arrived,     \* streams of which the server was given data
  gone,        \* streams QUIC is done with
  asked,       \* numbers of updates, notices and calls of shutdown
  failed       \* the first error: "none", "assert" or "H3_ID_ERROR"

stream_vars == <<live, ignored, opened, maxId>>
goaway_vars == <<goawayId, commenced, ctrl>>
client_vars == <<requested, goawayRecv>>
net_vars == <<arriving, updates, goaways>>
hist_vars == <<processed, arrived, gone>>
vars == <<stream_vars, goaway_vars, maxStreams, client_vars, net_vars,
          hist_vars, asked, failed>>

Init ==
  /\ live = {} /\ ignored = {} /\ opened = {} /\ maxId = -1
  /\ goawayId = NoGoaway /\ commenced = FALSE /\ ctrl = [frq |-> <<>>, outq |-> <<>>]
  /\ maxStreams = 1
  /\ requested = {} /\ goawayRecv = NoGoaway
  /\ arriving = {} /\ updates = <<>> /\ goaways = <<>>
  /\ processed = {} /\ arrived = {} /\ gone = {}
  /\ asked = [updates |-> 0, notices |-> 0, shutdowns |-> 0] /\ failed = "none"

Running == failed = "none"

Count(what, bound) ==
  asked[what] < bound /\ asked' = [asked EXCEPT ![what] = @ + 1]

-----------------------------------------------------------------------------
(* The client.                                                             *)

\* QUIC opens streams in order and within the limit; a limit the server
\* grants is known to the server's library before it reaches the client.
SubmitRequest ==
  LET n == Cardinality(requested) IN
  /\ goawayRecv = NoGoaway
  /\ n \in Streams /\ n < maxStreams
  /\ requested' = requested \cup {n} /\ arriving' = arriving \cup {n}
  /\ UNCHANGED <<stream_vars, goaway_vars, maxStreams, goawayRecv, updates,
                 goaways, hist_vars, asked, failed>>

SetClientStreamPriority(n) ==
  /\ n \in requested \ gone
  /\ Count("updates", MaxUpdates)
  /\ updates' = Append(updates, n)
  /\ UNCHANGED <<stream_vars, goaway_vars, maxStreams, client_vars, arriving,
                 goaways, hist_vars, failed>>

\* The client resets a stream of which nothing has arrived; QUIC then closes
\* it at the server, whose library has never heard of it.
Cancel(n) ==
  /\ n \in MayCancel \cap arriving
  /\ arriving' = arriving \ {n} /\ gone' = gone \cup {n}
  /\ live' = live \ {n}
  /\ UNCHANGED <<ignored, opened, maxId, goaway_vars, maxStreams, client_vars,
                 updates, goaways, processed, arrived, asked, failed>>

\* NGHTTP3_CTRL_STREAM_STATE_GOAWAY
ReadGoaway ==
  LET id == Head(goaways) IN
  /\ goaways # <<>>
  /\ goaways' = Tail(goaways)
  /\ IF goawayRecv < id
     THEN failed' = "H3_ID_ERROR" /\ UNCHANGED goawayRecv
     ELSE goawayRecv' = id /\ UNCHANGED failed
  /\ UNCHANGED <<stream_vars, goaway_vars, maxStreams, requested, arriving,
                 updates, hist_vars, asked>>

-----------------------------------------------------------------------------
(* The server's streams.                                                   *)

FirstGap(used) == Min({n \in 0..Requests : n \notin used})
Gaps(used) ==
  {n \in 0..Requests : n \notin used /\ (n = 0 \/ n - 1 \in used)}
\* nghttp3_gaptr_drop_first_gap: the numbers of the gap count as used
DropFirstGap(used) ==
  LET end == Min({n \in used : n > FirstGap(used)})
  IN  used \cup FirstGap(used)..(end - 1)

\* as if only streams with data were entered in order
IdtrOpen_Bug(used, n) == IF n = 0 \/ n - 1 \in used THEN used \cup {n} ELSE used
\* what conn_bidi_idtr_open leaves
IdtrOpen(used, n) ==
  LET more == used \cup {n}
  IN  IF n \in used THEN used
      ELSE IF Cardinality(Gaps(more)) > MaxGaps THEN DropFirstGap(more)
      ELSE more

CreateStream(n) ==
  live' = live \cup {n} /\ maxId' = Max({maxId, n})

GoawayCovers(n) == goawayId # NoGoaway /\ goawayId <= n

\* the first data of a stream: nghttp3_conn_read_stream2
ReadStream(n) ==
  /\ n \in arriving
  /\ arriving' = arriving \ {n} /\ arrived' = arrived \cup {n}
  /\ IF n \in live
     THEN UNCHANGED stream_vars /\ processed' = processed \cup {n}
     ELSE /\ opened' = IdtrOpen(opened, n)
          /\ CreateStream(n)
          /\ IF GoawayCovers(n)
             THEN ignored' = ignored \cup {n} /\ UNCHANGED processed
             ELSE processed' = processed \cup {n} /\ UNCHANGED ignored
  /\ UNCHANGED <<goaway_vars, maxStreams, client_vars, updates, goaways, gone,
                 asked, failed>>

\* without the update of rx.max_stream_id_bidi
OnPriorityUpdate_Bug ==
  LET n == Head(updates) IN
  /\ updates # <<>>
  /\ updates' = Tail(updates)
  /\ IF n \in live \/ GoawayCovers(n) THEN UNCHANGED stream_vars
     ELSE /\ opened' = IdtrOpen(opened, n)
          /\ live' = IF n \in opened THEN live ELSE live \cup {n}
          /\ UNCHANGED <<ignored, maxId>>
  /\ UNCHANGED <<goaway_vars, maxStreams, client_vars, arriving, goaways,
                 hist_vars, asked, failed>>
\* conn_on_priority_update_stream.  Priorities themselves are in Sched.
OnPriorityUpdate ==
  LET n == Head(updates) IN
  /\ updates # <<>>
  /\ updates' = Tail(updates)
  /\ IF n + 1 > maxStreams
     THEN failed' = "H3_ID_ERROR" /\ UNCHANGED stream_vars
     ELSE /\ IF n \in live \/ GoawayCovers(n) THEN UNCHANGED stream_vars
             ELSE /\ opened' = IdtrOpen(opened, n)
                  /\ IF n \in opened THEN UNCHANGED <<live, maxId>>
                     ELSE CreateStream(n)
                  /\ UNCHANGED ignored
          /\ UNCHANGED failed
  /\ UNCHANGED <<goaway_vars, maxStreams, client_vars, arriving, goaways,
                 hist_vars, asked>>

\* a rejected stream is not counted down
CloseStream_Bug(n) ==
  /\ n \in arrived \ gone
  /\ gone' = gone \cup {n} /\ live' = IF n \in ignored THEN live ELSE live \ {n}
  /\ UNCHANGED <<ignored, opened, maxId, goaway_vars, maxStreams, client_vars,
                 net_vars, processed, arrived, asked, failed>>
\* nghttp3_conn_close_stream2, when QUIC is done with a stream that had data
CloseStream(n) ==
  /\ n \in arrived \ gone
  /\ gone' = gone \cup {n} /\ live' = live \ {n}
  /\ UNCHANGED <<ignored, opened, maxId, goaway_vars, maxStreams, client_vars,
                 net_vars, processed, arrived, asked, failed>>

SetMaxClientStreams ==
  /\ maxStreams < Requests
  /\ maxStreams' = maxStreams + 1
  /\ UNCHANGED <<stream_vars, goaway_vars, client_vars, net_vars, hist_vars,
                 asked, failed>>

-----------------------------------------------------------------------------
(* The server's GOAWAY.                                                    *)

\* assert(fr->goaway.id <= conn->tx.goaway_id), then the frame is queued
QueueGoaway(id) ==
  IF id <= goawayId
  THEN /\ goawayId' = id
       /\ ctrl' = [ctrl EXCEPT !.frq = Append(@, id)]
       /\ UNCHANGED failed
  ELSE failed' = "assert" /\ UNCHANGED <<goawayId, ctrl>>

\* a notice that already names the next stream
SubmitShutdownNotice_Bug ==
  /\ ~commenced
  /\ Count("notices", MaxNotices)
  /\ QueueGoaway(maxId + 1)
  /\ UNCHANGED <<stream_vars, commenced, maxStreams, client_vars, net_vars, hist_vars>>
SubmitShutdownNotice ==
  /\ ~commenced
  /\ Count("notices", MaxNotices)
  /\ QueueGoaway(NOTICE)
  /\ UNCHANGED <<stream_vars, commenced, maxStreams, client_vars, net_vars, hist_vars>>

Shutdown ==
  /\ Count("shutdowns", MaxShutdowns)
  /\ QueueGoaway(Min({NOTICE, maxId + 1}))
  /\ commenced' = TRUE
  /\ UNCHANGED <<stream_vars, maxStreams, client_vars, net_vars, hist_vars>>

\* nghttp3_conn_writev_stream serialises and offers the control stream ...
FillControl ==
  /\ ctrl.frq # <<>>
  /\ ctrl' = [frq |-> <<>>, outq |-> ctrl.outq \o ctrl.frq]
  /\ UNCHANGED <<stream_vars, goawayId, commenced, maxStreams, client_vars, net_vars,
                 hist_vars, asked, failed>>

\* ... and nghttp3_conn_add_write_offset reports what QUIC took
AddWriteOffset ==
  /\ ctrl.outq # <<>>
  /\ ctrl' = [ctrl EXCEPT !.outq = Tail(@)]
  /\ goaways' = Append(goaways, Head(ctrl.outq))
  /\ UNCHANGED <<stream_vars, goawayId, commenced, maxStreams, client_vars, arriving,
                 updates, hist_vars, asked, failed>>

IsDrained == commenced /\ live = {} /\ ctrl.outq = <<>> /\ ctrl.frq = <<>>

-----------------------------------------------------------------------------

Next ==
  /\ Running
  /\ \/ SubmitRequest
     \/ \E n \in Streams : SetClientStreamPriority(n) \/ Cancel(n)
     \/ ReadGoaway
     \/ \E n \in Streams : ReadStream(n) \/ CloseStream(n)
     \/ OnPriorityUpdate
     \/ SetMaxClientStreams
     \/ SubmitShutdownNotice \/ Shutdown
     \/ FillControl \/ AddWriteOffset

Spec == Init /\ [][Next]_vars

(* QUIC delivers each stream, the application writes the control stream    *)
(* and closes the streams that are done.                                   *)
FairSpec ==
  /\ Spec
  /\ WF_vars(Running /\ ReadGoaway) /\ WF_vars(Running /\ OnPriorityUpdate)
  /\ WF_vars(Running /\ FillControl) /\ WF_vars(Running /\ AddWriteOffset)
  /\ \A n \in Streams : /\ WF_vars(Running /\ ReadStream(n))
                        /\ WF_vars(Running /\ CloseStream(n))
=============================================================================
