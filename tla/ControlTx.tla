------------------------------ MODULE ControlTx ------------------------------
(***************************************************************************)
(* The control stream as this library writes it, in the units of           *)
(* ControlRx: its type, SETTINGS, an ORIGIN frame if a server has origins, *)
(* then the GOAWAY and PRIORITY_UPDATE frames that were queued.            *)
(* lib/nghttp3_conn.c: nghttp3_conn_bind_control_stream;                   *)
(* lib/nghttp3_stream.c: nghttp3_stream_fill_outq; lib/nghttp3_frame.c.    *)
(***************************************************************************)
EXTENDS ControlRx

\* nghttp3_put_uvarint: one byte, or several, of which the last is told apart
PutInt(type, n) ==
  LET last == [k |-> "int", type |-> type, n |-> n]
      long == n >= 64 \/ type = "PRIORITY_UPDATE"
  IN  IF long THEN <<[k |-> "half", type |-> "", n |-> 0], last>> ELSE <<last>>

\* nghttp3_frame_write_hd, with the length of the payload
Frame(type, payload) == PutInt(type, 0) \o PutInt("", Len(payload)) \o payload

\* nghttp3_stream_write_settings: a default is written too, a switch only if on
Entries(settings) ==
  <<<<"MAX_FIELD_SECTION_SIZE", settings.field>>, <<"MAX_TABLE_CAPACITY", settings.capacity>>,
    <<"BLOCKED_STREAMS", settings.blocked>>>>
  \o (IF settings.datagram = 1 THEN <<<<"H3_DATAGRAM", 1>>>> ELSE <<>>)
  \o (IF settings.connect = 1 THEN <<<<"ENABLE_CONNECT_PROTOCOL", 1>>>> ELSE <<>>)

\* nghttp3_frame_write_settings
WriteSettings(settings) ==
  Frame("SETTINGS", FlattenSeq([i \in DOMAIN Entries(settings) |->
    PutInt(Entries(settings)[i][1], 0) \o PutInt("", Entries(settings)[i][2])]))

\* nghttp3_frame_write_goaway, ..._priority_update and ..._origin, whose list
\* is the application's
WriteGoaway(fr) == Frame("GOAWAY", PutInt("", fr.id))
WritePriorityUpdate(fr) == Frame("PRIORITY_UPDATE", PutInt("", fr.id) \o fr.data)
WriteOrigin(fr) == Frame("ORIGIN", fr.data)

\* nghttp3_stream_write_goaway, ..._priority_update and ..._origin
WriteFrame(fr) ==
  CASE fr.type = "GOAWAY" -> WriteGoaway(fr)
    [] fr.type = "PRIORITY_UPDATE" -> WritePriorityUpdate(fr)
    [] fr.type = "ORIGIN" -> WriteOrigin(fr)

\* nghttp3_stream_write_stream_type
WriteType(type) == PutInt(type, 0)

\* nghttp3_conn_bind_control_stream, then what was queued on the stream
WriteControl(l) ==
  WriteType("CONTROL") \o WriteSettings(l.settings)
  \o FlattenSeq([i \in DOMAIN l.frames |-> WriteFrame(l.frames[i])])

\* nghttp3_conn_bind_qpack_streams; QpackWire has what follows on them
WriteQpackStreams == <<WriteType("QPACK_ENCODER"), WriteType("QPACK_DECODER")>>

\* what the other end is to make of it
Heard(l) ==
  LET s == l.settings
      call(fr) == CASE fr.type = "GOAWAY" -> <<<<"shutdown", fr.id>>>>
                    [] fr.type = "PRIORITY_UPDATE" -> <<<<"priority_update", <<fr.id, fr.urgency>>>>>>
                    [] fr.type = "ORIGIN" -> [i \in DOMAIN fr.lens |-> <<"recv_origin", fr.lens[i]>>]
                                             \o <<<<"end_origin", 0>>>>
  IN  [remote |-> [s EXCEPT !.connect = IF l.server THEN @ ELSE 0],
       ev |-> (IF s.capacity > 0 THEN <<<<"max_dtable_capacity", s.capacity>>>> ELSE <<>>)
              \o (IF s.blocked > 0 THEN <<<<"max_blocked_streams", Smaller(100, s.blocked)>>>> ELSE <<>>)
              \o <<<<"recv_settings", 0>>>>
              \o FlattenSeq([i \in DOMAIN l.frames |-> call(l.frames[i])])]
=============================================================================
