------------------------------- MODULE BidiRx -------------------------------
(***************************************************************************)
(* Reading a request stream: nghttp3_conn_read_bidi of lib/nghttp3_conn.c, *)
(* its frames, its parking on QPACK, and the buffers in which a parked     *)
(* stream keeps what arrives.                                              *)
(*                                                                         *)
(* The bytes of a stream are units [k, type, n, fields]:                   *)
(*   "half"    the first part of a variable-length integer                 *)
(*   "type"    the (rest of the) type of a frame, "length" of its length n *)
(*   "prefix"  a field section prefix, with Required Insert Count n        *)
(*   "lines"   bytes of field lines that complete fields, maybe none       *)
(*   "bytes"   payload that is not interpreted                             *)
(* The length of a frame is the number of units of its payload.            *)
(***************************************************************************)
EXTENDS HttpMsg, SequencesExt

CONSTANTS
  BufferSize,        \* units of a chunk of inq (16384 bytes)
  ConnectProtocol    \* local.settings.enable_connect_protocol

ASSUME BidiAssumption == BufferSize \in Nat \ {0} /\ ConnectProtocol \in BOOLEAN

\* frames that never come on a request stream
Forbidden == {"PUSH_PROMISE", "CANCEL_PUSH", "SETTINGS", "GOAWAY", "MAX_PUSH_ID",
              "PRIORITY_UPDATE", "PRIORITY_UPDATE_PUSH_ID", "H2_PRIORITY", "H2_PING",
              "H2_WINDOW_UPDATE", "H2_CONTINUATION"}

(* A stream: rstate is [state, half, type, left], sctx the field section   *)
(* being decoded, [prefix, ricnt]; inq holds buffers [data, room]; ev the  *)
(* callbacks made, credit the bytes given back to flow control.            *)
StartFrame == [state |-> "FRAME_TYPE", half |-> FALSE, type |-> "", left |-> 0]
NewSctx == [prefix |-> FALSE, ricnt |-> 0]
NewStream(side, method) ==
  [rstate |-> StartFrame, sctx |-> NewSctx,
   rx |-> [side |-> side, hstate |-> "INITIAL", http |-> RecordRequestMethod(NewHttp, method)],
   blocked |-> FALSE, eof |-> FALSE, shutRd |-> FALSE, inq |-> <<>>,
   ev |-> <<>>, credit |-> 0]

Call(st, e, v) == [st EXCEPT !.ev = Append(@, <<e, v>>)]
InTrailers(st) == st.rx.hstate = "TRAILERS_BEGIN"
Callback(st, what) == what \o IF InTrailers(st) THEN "_trailers" ELSE "_headers"

-----------------------------------------------------------------------------
(* Buffering.                                                              *)

Buffered(st) == FoldLeft(LAMBDA n, b : n + Len(b.data), 0, st.inq)

\* the buffers that hold u, in new chunks
RECURSIVE Chunks(_)
Chunks(u) ==
  IF u = <<>> THEN <<>>
  ELSE LET n == IF Len(u) < BufferSize THEN Len(u) ELSE BufferSize
       IN  <<[data |-> SubSeq(u, 1, n), room |-> BufferSize - n]>>
             \o Chunks(SubSeq(u, n + 1, Len(u)))

\* nghttp3_stream_buffer_data: the last chunk is filled up first
BufferData(st, u) ==
  LET k == Len(st.inq)
      b == st.inq[k]
      n == IF k = 0 THEN 0 ELSE IF Len(u) < b.room THEN Len(u) ELSE b.room
      filled == IF k = 0 THEN <<>>
                ELSE [st.inq EXCEPT ![k] = [data |-> b.data \o SubSeq(u, 1, n), room |-> b.room - n]]
  IN  [st EXCEPT !.inq = filled \o Chunks(SubSeq(u, n + 1, Len(u)))]

-----------------------------------------------------------------------------
(* One pass of the loop of nghttp3_conn_read_bidi.  c is [st, p, n, rv]:   *)
(* p units are processed, n of them consumed, and rv is "more", "parked",  *)
(* "done" or an error; env is [icnt, parked], the decoder's Insert Count   *)
(* and the number of parked streams, and limit.                            *)

Fail(c, rv) == [c EXCEPT !.rv = rv]
EndFrame(st) == [st EXCEPT !.rstate = StartFrame]
Advance(c, st, k) == [c EXCEPT !.st = st, !.p = @ + k, !.n = @ + k]
Smaller(a, b) == IF a < b THEN a ELSE b

\* transit that an assertion says cannot fail
After(c, st, event) ==
  LET t == Transit(st.rx, event)
  IN  IF t.rv # "ok" THEN Fail(c, "assert") ELSE [c EXCEPT !.st = EndFrame([st EXCEPT !.rx = t.rx])]

ReadFrameType(c, u, fin) ==
  LET unit == u[c.p + 1]
      st == [c.st EXCEPT !.rstate = [@ EXCEPT !.half = unit.k = "half", !.type = unit.type,
                 !.state = IF unit.k = "half" THEN @ ELSE "FRAME_LENGTH"]]
  IN  IF unit.k = "half" /\ fin /\ c.p + 1 = Len(u) THEN Fail(c, "GENERAL_PROTOCOL_ERROR")
      ELSE Advance(c, st, 1)

\* what a frame of this length does, before its payload
BeginFrame(c, st) ==
  LET left == st.rstate.left
      In(state) == [st EXCEPT !.rstate.state = state]
      data == Transit(st.rx, "DATA_BEGIN")
      headers == Transit(st.rx, "HEADERS_BEGIN")
      section == [In("HEADERS") EXCEPT !.rx = headers.rx]
  IN  CASE st.rstate.type = "DATA" ->
             IF data.rv # "ok" THEN Fail(c, data.rv)
             ELSE IF left = 0 THEN After(c, [st EXCEPT !.rx = data.rx], "DATA_END")
             ELSE [c EXCEPT !.st = [In("DATA") EXCEPT !.rx = data.rx]]
        [] st.rstate.type = "HEADERS" ->
             IF headers.rv # "ok" THEN Fail(c, headers.rv)
             ELSE IF left > 0 THEN [c EXCEPT !.st = Call(section, Callback(section, "begin"), "")]
             ELSE IF EmptyHeadersAllowed(headers.rx) THEN After(c, section, "HEADERS_END")
             ELSE Fail(c, "MALFORMED_MESSAGING")
        [] st.rstate.type \in Forbidden -> Fail(c, "FRAME_UNEXPECTED")
        [] OTHER -> \* an unknown frame, which busy ends in this call if it is empty
             [c EXCEPT !.st = IF left = 0 THEN EndFrame(st) ELSE In("IGN_FRAME")]

ReadFrameLength(c, u, fin) ==
  LET unit == u[c.p + 1]
      half == [c.st EXCEPT !.rstate.half = TRUE]
      full == [c.st EXCEPT !.rstate = [@ EXCEPT !.half = FALSE, !.left = unit.n]]
  IN  IF unit.k # "half" THEN LET a == Advance(c, full, 1) IN BeginFrame(a, full)
      ELSE IF fin /\ c.p + 1 = Len(u) THEN Fail(c, "FRAME_ERROR")
      ELSE Advance(c, half, 1)

\* nghttp3_conn_on_data: one callback, seen here as one for each unit
OnData(st, len) ==
  [st EXCEPT !.rx.http = Received(@, len), !.ev = @ \o [i \in 1..len |-> <<"data", "">>]]

\* the payload counted as consumed as well
ReadData_Bug(c, u) ==
  LET left == c.st.rstate.left
      len == Smaller(left, Len(u) - c.p)
      st == OnData([c.st EXCEPT !.rstate.left = @ - len], len)
      d == Advance(c, st, len)
  IN  IF ~DataChunkFits(c.st.rx.http, len) THEN Fail(c, "MALFORMED_MESSAGING")
      ELSE IF len < left THEN d ELSE After(d, st, "DATA_END")
\* the payload is consumed by the application, later
ReadData(c, u) ==
  LET left == c.st.rstate.left
      len == Smaller(left, Len(u) - c.p)
      st == OnData([c.st EXCEPT !.rstate.left = @ - len], len)
      d == [c EXCEPT !.st = st, !.p = @ + len]
  IN  IF ~DataChunkFits(c.st.rx.http, len) THEN Fail(c, "MALFORMED_MESSAGING")
      ELSE IF len < left THEN d ELSE After(d, st, "DATA_END")

\* the fields of conn_decode_headers, one after the other
DecodeFields(st, fs) ==
  LET Emit(a, f) ==
        LET r == OnHeader(a.st.rx.http, f, a.st.rx.side = "REQ", InTrailers(a.st),
                          a.st.rx.side = "REQ" /\ ConnectProtocol)
            next == [a.st EXCEPT !.rx.http = r.http]
        IN  IF a.rv # "ok" THEN a
            ELSE IF r.rv = "malformed" THEN [a EXCEPT !.rv = "MALFORMED_HEADER"]
            ELSE [a EXCEPT !.st = IF r.rv = "ok" THEN Call(next, "field", f.name) ELSE next]
  IN  FoldLeft(Emit, [st |-> st, rv |-> "ok"], fs)

\* begun from the end of a section that was decoded: p is at the unit after
\* it, and the callback is told whether that is the end and FIN came with it
EndHeaders(c, u, fin, st) ==
  LET r == IF InTrailers(st) THEN Ok(st.rx.http)
           ELSE IF st.rx.side = "REQ" THEN OnRequestHeaders(st.rx.http)
           ELSE OnResponseHeaders(st.rx.http)
      last == IF fin /\ c.p = Len(u) THEN "fin" ELSE ""
      done == Call([st EXCEPT !.rx.http = r.http, !.sctx = NewSctx], Callback(st, "end"), last)
  IN  IF r.rv # "ok" THEN Fail(c, "MALFORMED_HEADER") ELSE After(c, done, "HEADERS_END")

\* buffered once more while the stream is being resumed
Park_Bug(c, u, st, env) ==
  LET parked == [st EXCEPT !.blocked = TRUE]
  IN  IF env.limit <= env.parked THEN Fail(c, "DECOMPRESSION_FAILED")
      ELSE [c EXCEPT !.rv = "parked", !.st = BufferData(parked, SubSeq(u, c.p + 1, Len(u)))]
Park(c, u, st, env) ==
  LET rest == SubSeq(u, c.p + 1, Len(u))
      parked == [st EXCEPT !.blocked = TRUE]
  IN  IF env.limit <= env.parked THEN Fail(c, "DECOMPRESSION_FAILED")
      ELSE [c EXCEPT !.rv = "parked",
                     !.st = IF Buffered(parked) = 0 THEN BufferData(parked, rest) ELSE parked]

\* len units gave d
FieldsRead(c, u, fin, d, len) ==
  LET read == Advance(c, d.st, len)
  IN  IF d.rv # "ok" THEN Fail(c, d.rv)
      ELSE IF d.st.rstate.left > 0 THEN read ELSE EndHeaders(read, u, fin, d.st)

ReadHeaders(c, u, fin, env) ==
  LET left == c.st.rstate.left
      len == Smaller(left, Len(u) - c.p)
      piece == SubSeq(u, c.p + 1, c.p + len)
      prefix == ~c.st.sctx.prefix
      sctx == IF prefix THEN [prefix |-> TRUE, ricnt |-> piece[1].n] ELSE c.st.sctx
      wait == [c.st EXCEPT !.sctx = sctx, !.rstate.left = IF prefix THEN @ - 1 ELSE @]
  IN  IF sctx.ricnt > env.icnt
      THEN Park(Advance(c, wait, IF prefix THEN 1 ELSE 0), u, wait, env)
      ELSE FieldsRead(c, u, fin,
             DecodeFields([c.st EXCEPT !.sctx = sctx, !.rstate.left = @ - len],
                          FlattenSeq([i \in 1..len |-> piece[i].fields])), len)

IgnoreFrame(c, u) ==
  LET len == Smaller(c.st.rstate.left, Len(u) - c.p)
      st == [c.st EXCEPT !.rstate.left = @ - len]
  IN  Advance(c, IF st.rstate.left = 0 THEN EndFrame(st) ELSE st, len)

\* NGHTTP3_REQ_STREAM_STATE_IGN_REST
IgnoreRest(c, u) == [c EXCEPT !.p = Len(u), !.n = @ + Len(u) - c.p, !.rv = "done"]

Pass(c, u, fin, env) ==
  CASE c.st.rstate.state = "FRAME_TYPE" -> ReadFrameType(c, u, fin)
    [] c.st.rstate.state = "FRAME_LENGTH" -> ReadFrameLength(c, u, fin)
    [] c.st.rstate.state = "DATA" -> ReadData(c, u)
    [] c.st.rstate.state = "HEADERS" -> ReadHeaders(c, u, fin, env)
    [] c.st.rstate.state = "IGN_FRAME" -> IgnoreFrame(c, u)
    [] c.st.rstate.state = "IGN_REST" -> IgnoreRest(c, u)

RECURSIVE Loop(_, _, _, _)
Loop(c, u, fin, env) ==
  IF c.rv # "more" \/ c.p = Len(u) THEN c ELSE Loop(Pass(c, u, fin, env), u, fin, env)

\* almost_done
AtEnd(c, fin) ==
  LET t == Transit(c.st.rx, "MSG_END")
  IN  CASE c.rv # "more" \/ ~fin \/ c.st.rstate.state = "IGN_REST" -> c
        [] c.st.rstate.state # "FRAME_TYPE" -> Fail(c, "FRAME_ERROR")
        [] c.st.rstate.half -> Fail(c, "GENERAL_PROTOCOL_ERROR")
        [] t.rv # "ok" -> Fail(c, t.rv)
        [] OTHER -> [c EXCEPT !.st = Call([c.st EXCEPT !.rx = t.rx], "end_stream", "")]

\* nghttp3_conn_read_bidi: p is *pnproc, n what it returns
ReadBidi(st, u, fin, env) ==
  LET start == [st |-> st, p |-> 0, n |-> 0, rv |-> "more"]
  IN  IF st.shutRd THEN [start EXCEPT !.p = Len(u), !.n = Len(u)]
      ELSE IF st.blocked THEN [start EXCEPT !.st = BufferData(st, u)]
      ELSE AtEnd(Loop(start, u, fin, env), fin)

Failed(c) == c.rv \notin {"more", "parked", "done"}

Credited(c) == [c EXCEPT !.st.credit = @ + c.n]
\* nghttp3_conn_read_stream2 on a stream that is known
ReadStream(st, u, fin, env) ==
  Credited(ReadBidi([st EXCEPT !.eof = @ \/ fin], u, fin, env))

\* conn_process_blocked_stream_data
RECURSIVE ProcessBlocked(_, _)
NextChunk(c, env) ==
  IF Failed(c) \/ c.st.blocked THEN c ELSE ProcessBlocked(c.st, env)
\* c read the first buffer of inq
TakeChunk(c) ==
  LET rest == SubSeq(c.st.inq[1].data, c.p + 1, Len(c.st.inq[1].data))
  IN  [c EXCEPT !.st.inq = IF rest = <<>> THEN Tail(@) ELSE [@ EXCEPT ![1].data = rest]]
ProcessBlocked(st, env) ==
  IF st.inq = <<>> THEN [st |-> st, p |-> 0, n |-> 0, rv |-> "more"]
  ELSE NextChunk(TakeChunk(Credited(
         ReadBidi(st, st.inq[1].data, Len(st.inq) = 1 /\ st.eof, env))), env)

\* nghttp3_conn_shutdown_stream_read, and what conn_delete_stream consumes
ShutRead(st) == [st EXCEPT !.shutRd = TRUE]
DeleteCredit(st) == [st EXCEPT !.credit = @ + Buffered(st), !.inq = <<>>, !.blocked = FALSE]
=============================================================================
