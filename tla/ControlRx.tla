------------------------------ MODULE ControlRx ------------------------------
(***************************************************************************)
(* Unidirectional streams as they arrive: lib/nghttp3_conn.c,              *)
(* nghttp3_conn_read_uni, conn_read_type, nghttp3_conn_read_control and    *)
(* nghttp3_conn_on_settings_entry_received.                                *)
(*                                                                         *)
(* The bytes of a stream are units [k, type, n]: "half" and "int" are the  *)
(* two parts of a variable-length integer (small ones have no "half"),     *)
(* type the stream type, frame type or setting it stands for; "byte" is    *)
(* any other byte: of a priority, which names the urgency n, of an Origin- *)
(* Len (two bytes) or of an ASCII-Origin.                                  *)
(***************************************************************************)
EXTENDS HttpMsg, SequencesExt

CONSTANTS
  PriBufferSize,     \* bytes of a Priority Field Value that are kept
  MaxClientStreams   \* remote.bidi.max_client_streams

ASSUME ControlAssumption == PriBufferSize \in Nat /\ MaxClientStreams \in Nat

Critical == {"CONTROL", "QPACK_ENCODER", "QPACK_DECODER"}
NotOnControl == {"CANCEL_PUSH", "DATA", "HEADERS", "PUSH_PROMISE", "H2_PRIORITY",
                 "H2_PING", "H2_WINDOW_UPDATE", "H2_CONTINUATION"}
H2Settings == {"ENABLE_PUSH", "MAX_CONCURRENT_STREAMS", "INITIAL_WINDOW_SIZE", "MAX_FRAME_SIZE"}

\* a stream: rstate, what is known of its type, and the setting being read
Start == [state |-> "FRAME_TYPE", half |-> FALSE, type |-> "", left |-> 0, id |-> ""]
NewUni == [rstate |-> Start, type |-> "", gone |-> FALSE]

\* what a connection remembers of them; ev are the callbacks made and the
\* calls into the QPACK encoder, the scheduler and the application
NewConn(server) ==
  [server |-> server, opened |-> {}, settingsRecved |-> FALSE,
   remote |-> [field |-> -1, capacity |-> 0, blocked |-> 0, connect |-> 0, datagram |-> 0],
   goaway |-> MAX_VARINT + 1, pushes |-> 0, pri |-> <<>>, elem |-> 0,
   origin |-> [offset |-> 0, len |-> 0, kept |-> 0], ev |-> <<>>]

\* c is [conn, st, p, n, rv]: p units are read, n consumed
Fail(c, rv) == [c EXCEPT !.rv = rv]
Call(c, e, v) == [c EXCEPT !.conn.ev = Append(@, <<e, v>>)]
To(c, state) == [c EXCEPT !.st.rstate.state = state]
EndFrame(c) == [c EXCEPT !.st.rstate = Start]
Smaller(a, b) == IF a < b THEN a ELSE b
Available(c, u) == Smaller(c.st.rstate.left, Len(u) - c.p)
Take(c, k) == [c EXCEPT !.p = @ + k, !.n = @ + k, !.st.rstate.left = @ - k]

-----------------------------------------------------------------------------
(* SETTINGS.                                                               *)

\* without the test for a second entry
OnSettingsEntry_Bug(c, id, v) ==
  IF id \in H2Settings \/ (id = "H3_DATAGRAM" /\ v \notin {0, 1}) THEN Fail(c, "SETTINGS_ERROR")
  ELSE CASE id = "MAX_TABLE_CAPACITY" /\ v # 0 ->
              Call([c EXCEPT !.conn.remote.capacity = v], "max_dtable_capacity", v)
         [] id = "BLOCKED_STREAMS" /\ v # 0 ->
              Call([c EXCEPT !.conn.remote.blocked = v], "max_blocked_streams", Smaller(100, v))
         [] OTHER -> c
OnSettingsEntry(c, id, v) ==
  LET r == c.conn.remote
      error == \/ id = "MAX_TABLE_CAPACITY" /\ r.capacity # 0
               \/ id = "BLOCKED_STREAMS" /\ r.blocked # 0
               \/ /\ id = "ENABLE_CONNECT_PROTOCOL" /\ ~c.conn.server
                  /\ v \notin {0, 1} \/ (v = 0 /\ r.connect = 1)
               \/ id = "H3_DATAGRAM" /\ v \notin {0, 1}
               \/ id \in H2Settings
  IN  IF error THEN Fail(c, "SETTINGS_ERROR")
      ELSE CASE id = "MAX_FIELD_SECTION_SIZE" -> [c EXCEPT !.conn.remote.field = v]
             [] id = "MAX_TABLE_CAPACITY" /\ v # 0 ->
                  Call([c EXCEPT !.conn.remote.capacity = v], "max_dtable_capacity", v)
             [] id = "BLOCKED_STREAMS" /\ v # 0 ->
                  Call([c EXCEPT !.conn.remote.blocked = v], "max_blocked_streams", Smaller(100, v))
             [] id = "ENABLE_CONNECT_PROTOCOL" /\ ~c.conn.server ->
                  [c EXCEPT !.conn.remote.connect = v]
             [] id = "H3_DATAGRAM" -> [c EXCEPT !.conn.remote.datagram = v]
             [] OTHER -> c

SettingsId(c, unit) ==
  IF c.st.rstate.left = 0 THEN Fail(c, "FRAME_ERROR")
  ELSE To([c EXCEPT !.st.rstate.id = unit.type], "SETTINGS_VALUE")

SettingsValue(c, unit) ==
  LET d == OnSettingsEntry(c, c.st.rstate.id, unit.n)
  IN  IF d.rv # "more" THEN d
      ELSE IF d.st.rstate.left > 0 THEN To(d, "SETTINGS")
      ELSE EndFrame(Call(d, "recv_settings", 0))

-----------------------------------------------------------------------------
(* The other frames.                                                       *)

Goaway(c, unit) ==
  IF (~c.conn.server /\ unit.n % 4 # 0) \/ c.conn.goaway < unit.n THEN Fail(c, "ID_ERROR")
  ELSE EndFrame(Call([c EXCEPT !.conn.goaway = unit.n], "shutdown", unit.n))

MaxPushId(c, unit) ==
  IF c.conn.pushes > unit.n + 1 THEN Fail(c, "FRAME_ERROR")
  ELSE EndFrame([c EXCEPT !.conn.pushes = unit.n + 1])

\* the beginning of conn_on_priority_update_stream; Shutdown and Sched have the rest
OnPriorityUpdate(c, pri) ==
  LET id == c.conn.elem
  IN  IF id % 4 # 0 \/ id \div 4 + 1 > MaxClientStreams THEN Fail(c, "ID_ERROR")
      ELSE EndFrame(Call(c, "priority_update", <<id, pri.urgency>>))

PriElemId(c, unit) ==
  LET d == [c EXCEPT !.conn.elem = unit.n, !.conn.pri = <<>>]
  IN  IF d.st.rstate.left = 0 THEN OnPriorityUpdate(d, NewHttp.pri)
      ELSE To(d, "PRIORITY_UPDATE")

\* a value in one piece is parsed where it is, others are put together
PriorityUpdate(c, u) ==
  LET len == Available(c, u)
      value == c.conn.pri \o SubSeq(u, c.p + 1, c.p + len)
      d == [Take(c, len) EXCEPT !.conn.pri = value]
      pri == ParsePriority(NewHttp.pri, [i \in DOMAIN value |->
               [key |-> "u", type |-> "integer", num |-> value[i].n]])
  IN  IF Len(value) > PriBufferSize THEN To(c, "IGN_FRAME")
      ELSE IF len < c.st.rstate.left THEN d
      ELSE IF pri = BadPri THEN Fail(c, "GENERAL_PROTOCOL_ERROR")
      ELSE OnPriorityUpdate(d, pri)

NoOrigin == [offset |-> 0, len |-> 0, kept |-> 0]
RecvOrigin(c) ==
  LET d == Call(c, "recv_origin", c.conn.origin.len)
  IN  IF d.st.rstate.left = 0 THEN EndFrame(Call(d, "end_origin", 0))
      ELSE To([d EXCEPT !.conn.origin = NoOrigin], "ORIGIN_LEN")

\* one byte of Origin-Len; after the second the origin follows
OriginLen(c, u) ==
  LET d == [Take(c, 1) EXCEPT !.conn.origin.offset = @ + 1,
                              !.conn.origin.len = 256 * @ + u[c.p + 1].n]
      o == d.conn.origin
  IN  IF o.offset < 2
      THEN IF d.st.rstate.left = 0 THEN Fail(c, "FRAME_ERROR") ELSE d
      ELSE IF o.len = 0 \/ d.st.rstate.left < o.len THEN Fail(c, "FRAME_ERROR")
      ELSE To(d, "ORIGIN_ASCII")

OriginAscii(c, u) ==
  LET o == c.conn.origin
      len == Smaller(o.len - o.kept, Len(u) - c.p)
      d == [Take(c, len) EXCEPT !.conn.origin.kept = @ + len]
  IN  IF o.kept + len < o.len THEN d ELSE RecvOrigin(d)

IgnoreFrame(c, u) ==
  LET d == Take(c, Available(c, u)) IN IF d.st.rstate.left = 0 THEN EndFrame(d) ELSE d

-----------------------------------------------------------------------------
(* nghttp3_conn_read_control.                                              *)

BeginFrame(c) ==
  LET type == c.st.rstate.type
      empty == c.st.rstate.left = 0
      d == [c EXCEPT !.conn.settingsRecved = TRUE]
      Payload(state) == IF empty THEN Fail(c, "FRAME_ERROR") ELSE To(d, state)
      Ignored == IF empty THEN EndFrame(d) ELSE To(d, "IGN_FRAME")
  IN  IF ~c.conn.settingsRecved /\ type # "SETTINGS" THEN Fail(c, "MISSING_SETTINGS")
      ELSE IF c.conn.settingsRecved /\ type = "SETTINGS" THEN Fail(c, "FRAME_UNEXPECTED")
      ELSE CASE type = "SETTINGS" ->
                  IF empty THEN EndFrame(Call(d, "recv_settings", 0)) ELSE To(d, "SETTINGS")
             [] type = "GOAWAY" -> Payload("GOAWAY")
             [] type \in {"MAX_PUSH_ID", "PRIORITY_UPDATE"} ->
                  IF ~c.conn.server THEN Fail(c, "FRAME_UNEXPECTED") ELSE Payload(type \o "_ID")
             [] type = "PRIORITY_UPDATE_PUSH_ID" -> Fail(c, "ID_ERROR")
             [] type = "ORIGIN" ->
                  IF c.conn.server THEN Ignored
                  ELSE IF empty THEN EndFrame(Call(d, "end_origin", 0))
                  ELSE To([d EXCEPT !.conn.origin = NoOrigin], "ORIGIN_LEN")
             [] type \in NotOnControl -> Fail(c, "FRAME_UNEXPECTED")
             [] OTHER -> Ignored

ReadHead(c, u) ==
  LET unit == u[c.p + 1]
      d == [c EXCEPT !.p = @ + 1, !.n = @ + 1, !.st.rstate.half = unit.k = "half"]
  IN  IF unit.k = "half" THEN d
      ELSE IF c.st.rstate.state = "FRAME_TYPE"
      THEN To([d EXCEPT !.st.rstate.type = unit.type], "FRAME_LENGTH")
      ELSE BeginFrame([d EXCEPT !.st.rstate.left = unit.n])

\* an integer of a payload, then what it is for
ReadInt(c, u) ==
  LET unit == u[c.p + 1]
      d == [Take(c, 1) EXCEPT !.st.rstate.half = unit.k = "half"]
      state == c.st.rstate.state
  IN  IF unit.k = "half" THEN IF c.st.rstate.left = 1 THEN Fail(c, "FRAME_ERROR") ELSE d
      ELSE CASE state = "SETTINGS" -> SettingsId(d, unit)
             [] state = "SETTINGS_VALUE" -> SettingsValue(d, unit)
             [] state = "GOAWAY" -> Goaway(d, unit)
             [] state = "MAX_PUSH_ID_ID" -> MaxPushId(d, unit)
             [] state = "PRIORITY_UPDATE_ID" -> PriElemId(d, unit)

Pass(c, u) ==
  CASE c.st.rstate.state \in {"FRAME_TYPE", "FRAME_LENGTH"} -> ReadHead(c, u)
    [] c.st.rstate.state = "PRIORITY_UPDATE" -> PriorityUpdate(c, u)
    [] c.st.rstate.state = "ORIGIN_LEN" -> OriginLen(c, u)
    [] c.st.rstate.state = "ORIGIN_ASCII" -> OriginAscii(c, u)
    [] c.st.rstate.state = "IGN_FRAME" -> IgnoreFrame(c, u)
    [] OTHER -> ReadInt(c, u)

RECURSIVE ReadControl(_, _)
ReadControl(c, u) ==
  IF c.rv # "more" \/ c.p = Len(u) THEN c ELSE ReadControl(Pass(c, u), u)

-----------------------------------------------------------------------------
(* nghttp3_conn_read_uni.                                                  *)

\* conn_read_type
ReadType(c, u, fin) ==
  LET unit == u[1]
      d == [c EXCEPT !.p = 1, !.n = 1, !.st.rstate.half = unit.k = "half"]
      known == [d EXCEPT !.st.type = IF unit.type \in Critical THEN unit.type ELSE "UNKNOWN",
                         !.conn.opened = IF unit.type \in Critical THEN @ \cup {unit.type} ELSE @]
  IN  IF unit.k = "half" THEN IF fin /\ Len(u) = 1 THEN Fail(c, "GENERAL_PROTOCOL_ERROR") ELSE d
      ELSE IF unit.type \in c.conn.opened \cup {"PUSH"} THEN Fail(c, "STREAM_CREATION_ERROR")
      ELSE IF known.st.type = "UNKNOWN" /\ ~fin THEN Call(known, "stop_sending", 0) ELSE known

ReadPayload(c, u, fin) ==
  CASE c.st.type \in Critical /\ fin -> Fail(c, "CLOSED_CRITICAL_STREAM")
    [] c.st.type = "CONTROL" -> ReadControl(c, u)
    [] OTHER -> [c EXCEPT !.p = Len(u), !.n = @ + Len(u) - c.p]

ReadUni(conn, st, u, fin) ==
  LET c == [conn |-> conn, st |-> st, p |-> 0, n |-> 0, rv |-> "more"]
      t == ReadType(c, u, fin)
      \* the type takes one or two units
      typed == IF t.rv = "more" /\ t.st.type = "" /\ Len(u) > 1
               THEN LET r == ReadType(t, Tail(u), fin) IN [r EXCEPT !.p = 2, !.n = 2]
               ELSE t
  IN  IF st.type # "" THEN ReadPayload(c, u, fin)
      ELSE IF u = <<>>
      THEN IF st.rstate.half THEN Fail(c, "GENERAL_PROTOCOL_ERROR") ELSE [c EXCEPT !.st.gone = TRUE]
      ELSE IF typed.rv # "more" \/ typed.st.type = "" \/ typed.p = Len(u) THEN typed
      ELSE ReadPayload([typed EXCEPT !.st.rstate = Start], u, fin)
=============================================================================
