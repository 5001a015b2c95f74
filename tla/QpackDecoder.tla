---------------------------- MODULE QpackDecoder ----------------------------
(***************************************************************************)
(* The QPACK decoder of lib/nghttp3_qpack.c with the part of               *)
(* lib/nghttp3_conn.c that parks, resumes, shuts and closes the request    *)
(* streams it decodes, against an arbitrary peer.                          *)
(*                                                                         *)
(* A field section arrives as a sequence of tokens, in any pieces: the     *)
(* encoded Required Insert Count, the base, and one token per field line;  *)
(* fin marks the last one.  A token is the smallest piece of a section     *)
(* whose interpretation reads or changes shared state.                     *)
(*                                                                         *)
(* nghttp3_conn_read_qpack_encoder interprets a run of instructions and    *)
(* then resumes the streams they unblock, in one call.  mode says where in *)
(* that call the connection is: "idle" outside, "encoder" while it reads   *)
(* instructions, "unblock" at the head of the loop over the blocked        *)
(* streams, or the stream whose buffered data it is reading.  Callbacks    *)
(* run in between, and may shut a stream for reading.                      *)
(***************************************************************************)
EXTENDS QpackTable, Sequences

CONSTANTS
  Streams,            \* request streams
  DecHardMax,         \* hard_max_dtable_capacity of the decoder
  BlockedStreams,     \* local.settings.qpack_blocked_streams
  MaxDbuf,            \* limit of qpack_decoder_dbuf_overflow, in instructions
  MaxEncoderLen,      \* NGHTTP3_QPACK_MAX_ENCODERLEN, in instructions
  MaxInsertsReceived, \* bound: insertions interpreted in a behaviour
  MaxBuffered,        \* bound: tokens buffered on a stream
  MaxFields,          \* bound: fields emitted on a stream
  Instructions,       \* encoder stream instructions the peer may send
  Tokens              \* section tokens the peer may send

ASSUME DecoderAssumption ==
  /\ DecHardMax \in Nat /\ BlockedStreams \in Nat
  /\ MaxDbuf \in Nat /\ MaxEncoderLen \in Nat
  /\ MaxInsertsReceived \in Nat /\ MaxBuffered \in Nat /\ MaxFields \in Nat
  /\ Streams \cap {"idle", "encoder", "unblock"} = {}   \* values of mode
  /\ Instructions \subseteq
       [op : {"SetCap"}, cap : Nat]
         \cup [op : {"InsertStatic", "InsertLiteral"}, name : Names, value : Values]
         \cup [op : {"InsertDynamic"}, idx : Nat, value : Values]
         \cup [op : {"Duplicate"}, idx : Nat]
  /\ Tokens \subseteq
       [op : {"Ricnt"}, encricnt : Nat]
         \cup [op : {"Base"}, sign : BOOLEAN, delta : Nat, fin : BOOLEAN]
         \cup [op : {"Indexed", "IndexedPB"}, idx : Nat, fin : BOOLEAN]
         \cup [op : {"Name", "NamePB"}, idx : Nat, value : Values, fin : BOOLEAN]
         \cup [op : {"StaticIndexed", "StaticName", "Literal"}, name : Names,
               value : Values, fin : BOOLEAN]

VARIABLES
  dtab,     \* ctx.dtable, dtable_sum, next_absidx
  dcap,     \* ctx.max_dtable_capacity
  written,  \* written_icnt: insertions the peer was told of
  dbuf,     \* acknowledgments and cancellations not yet written
  elen,     \* uninterrupted_encoderlen
  sctx,     \* per stream: the section being read (stream->qpack_sctx)
  bq,       \* streams in conn->qpack_blocked_streams, which are the ones
            \* with NGHTTP3_STREAM_FLAG_QPACK_DECODE_BLOCKED
  inq,      \* per stream: tokens buffered while it is blocked (stream->inq)
  shut,     \* streams with NGHTTP3_STREAM_FLAG_SHUT_RD
  closed,   \* streams deleted by nghttp3_conn_close_stream
  got,      \* per stream: the fields passed to recv_header, in order
  mode,     \* see above
  derr      \* the error the connection failed with, or "none"

tableVars == <<dtab, dcap>>
ackVars == <<written, dbuf>>
streamVars == <<sctx, bq, inq, shut, closed, got>>
vars == <<tableVars, ackVars, elen, streamVars, mode, derr>>

\* nghttp3_qpack_stream_context_init
FreshContext == [state |-> "RICNT", ricnt |-> 0, base |-> 0]

Init ==
  /\ dtab = EmptyTable /\ dcap = 0
  /\ written = 0 /\ dbuf = <<>> /\ elen = 0
  /\ sctx = [s \in Streams |-> FreshContext]
  /\ bq = {} /\ inq = [s \in Streams |-> <<>>]
  /\ shut = {} /\ closed = {}
  /\ got = [s \in Streams |-> <<>>]
  /\ mode = "idle" /\ derr = "none"

Fail(e) ==
  /\ derr' = e
  /\ UNCHANGED <<tableVars, ackVars, elen, streamVars, mode>>

-----------------------------------------------------------------------------
(* The encoder stream *)

\* The relative index is taken for an absolute one.
RelToAbs_Bug(idx) == IF idx \in Live(dtab) THEN idx ELSE -1

\* nghttp3_qpack_decoder_rel2abs on a dynamic index; -1 when there is none
RelToAbs(idx) ==
  IF dtab.next - idx - 1 \in Live(dtab) THEN dtab.next - idx - 1 ELSE -1

\* The entry an instruction asks for; NoEntry if it names no live entry.
NoEntry == [name |-> "none"]
NewEntry(i) ==
  CASE i.op \in {"InsertStatic", "InsertLiteral"} ->
         [name |-> i.name, value |-> i.value]
    [] i.op = "InsertDynamic" ->
         IF RelToAbs(i.idx) = -1 THEN NoEntry
         ELSE [name |-> dtab.ent[RelToAbs(i.idx)].name, value |-> i.value]
    [] i.op = "Duplicate" ->
         IF RelToAbs(i.idx) = -1 THEN NoEntry
         ELSE [name  |-> dtab.ent[RelToAbs(i.idx)].name,
               value |-> dtab.ent[RelToAbs(i.idx)].value]

\* An instruction was carried out; the call may read another one.
Interpreted ==
  /\ elen' = elen + 1 /\ mode' = "encoder"
  /\ UNCHANGED <<ackVars, streamVars, derr>>

\* nghttp3_qpack_decoder_set_max_dtable_capacity
SetCapacity(c) ==
  IF c > DecHardMax THEN Fail("ENCODER_STREAM")
  ELSE /\ dcap' = c
       /\ dtab' = EvictToFit(dtab, 0, c)
       /\ Interpreted

\* nghttp3_qpack_decoder_dtable_{static,dynamic,duplicate,literal}_add
AddEntry(e) ==
  IF e = NoEntry THEN Fail("ENCODER_STREAM")
  ELSE IF TableSpace(e.name, e.value) > dcap THEN Fail("ENCODER_STREAM")
  ELSE /\ dtab' = TableAdd(dtab, e.name, e.value, dcap)
       /\ UNCHANGED dcap
       /\ Interpreted

ReadEncoder(i) ==
  /\ derr = "none" /\ mode \in {"idle", "encoder"}
  /\ i.op # "SetCap" => dtab.next < MaxInsertsReceived
  /\ IF elen >= MaxEncoderLen THEN Fail("ENCODER_STREAM")
     ELSE IF i.op = "SetCap" THEN SetCapacity(i.cap) ELSE AddEntry(NewEntry(i))

-----------------------------------------------------------------------------
(* A request stream *)

\* brel2abs and pbrel2abs: the absolute index a line refers to, or -1
AbsIndex(l, c) ==
  LET a == IF l.op \in {"Indexed", "Name"} THEN c.base - l.idx - 1
                                           ELSE c.base + l.idx
  IN  IF a >= 0 /\ a < c.ricnt /\ a \in Live(dtab) THEN a ELSE -1

IsDynamic(l) == l.op \in {"Indexed", "Name", "IndexedPB", "NamePB"}

LineField(l, c) ==
  IF ~IsDynamic(l) THEN [name |-> l.name, value |-> l.value]
  ELSE LET e == dtab.ent[AbsIndex(l, c)] IN
       [name  |-> e.name,
        value |-> IF l.op \in {"Name", "NamePB"} THEN l.value ELSE e.value]

\* qpack_decoder_dbuf_overflow
DbufOverflow == Len(dbuf) > MaxDbuf

\* The insertions a section proves are not counted as acknowledged.
EndSection_Bug(s) ==
  LET r == sctx[s].ricnt IN
  /\ IF r # 0 THEN /\ dbuf' = Append(dbuf, [op |-> "Ack", stream |-> s])
                   /\ UNCHANGED written
              ELSE UNCHANGED ackVars
  /\ elen' = 0
  /\ sctx' = [sctx EXCEPT ![s] = FreshContext]

\* The end of a section: write_section_ack if it used the table.
EndSection(s) ==
  LET r == sctx[s].ricnt IN
  /\ IF r # 0 THEN /\ dbuf' = Append(dbuf, [op |-> "Ack", stream |-> s])
                   /\ written' = Max({written, r})
              ELSE UNCHANGED ackVars
  /\ elen' = 0
  /\ sctx' = [sctx EXCEPT ![s] = FreshContext]

MayEndSection(s, tok) == tok.fin /\ sctx[s].ricnt # 0 => ~DbufOverflow

ReadRicnt(s, tok) ==
  LET r == ReconstructRicnt(tok.encricnt, dtab.next, DecHardMax) IN
  IF r = NoRicnt THEN Fail("DECOMPRESSION_FAILED")
  ELSE /\ sctx' = [sctx EXCEPT ![s] = [state |-> "DBASE", ricnt |-> r, base |-> 0]]
       /\ UNCHANGED <<tableVars, ackVars, elen, bq, got, derr>>

\* A section is read one insertion early.
MustWait_Bug(r) == r > dtab.next + 1

MustWait(r) == r > dtab.next

NoRoomToPark == BlockedStreams <= Cardinality(bq)

\* conn_decode_headers refuses to park one stream too many.
ReadBase(s, tok) ==
  LET r == sctx[s].ricnt
      b == DecodeBase(r, tok)
  IN
  IF b = NoRicnt THEN Fail("DECOMPRESSION_FAILED")
  ELSE IF MustWait(r)
       THEN IF NoRoomToPark THEN Fail("DECOMPRESSION_FAILED")
            ELSE /\ sctx' = [sctx EXCEPT ![s].state = "BLOCKED", ![s].base = b]
                 /\ bq' = bq \cup {s}
                 /\ UNCHANGED <<tableVars, ackVars, elen, got, derr>>
       ELSE IF ~MayEndSection(s, tok) THEN Fail("FATAL")
            ELSE /\ IF tok.fin THEN EndSection(s)
                    ELSE /\ sctx' = [sctx EXCEPT ![s].state = "OPCODE", ![s].base = b]
                         /\ UNCHANGED <<ackVars, elen>>
                 /\ UNCHANGED <<tableVars, bq, got, derr>>

ReadLine(s, tok) ==
  IF IsDynamic(tok) /\ AbsIndex(tok, sctx[s]) = -1 THEN Fail("DECOMPRESSION_FAILED")
  ELSE IF ~MayEndSection(s, tok) THEN Fail("FATAL")
  ELSE /\ got' = [got EXCEPT ![s] = Append(@, LineField(tok, sctx[s]))]
       /\ IF tok.fin THEN EndSection(s)
          ELSE /\ sctx' = [sctx EXCEPT ![s].state = "OPCODE"]
               /\ UNCHANGED <<ackVars, elen>>
       /\ UNCHANGED <<tableVars, bq, derr>>

\* nghttp3_qpack_decoder_read_request as driven by conn_decode_headers
ReadToken(s, tok) ==
  CASE sctx[s].state = "RICNT" -> ReadRicnt(s, tok)
    [] sctx[s].state = "DBASE" -> ReadBase(s, tok)
    [] OTHER                   -> ReadLine(s, tok)

\* The tokens that make sense where the stream stands: at what has been read
\* of it or, behind buffered data, after the last token of that.  A peer that
\* sends other bytes is understood as sending the tokens they encode.  Only a
\* section that refers to nothing comes without field lines.
RicntTokens == {t \in Tokens : t.op = "Ricnt"}
BaseTokens(r) == {t \in Tokens : t.op = "Base" /\ (t.fin => r = 0)}
LineTokens == {t \in Tokens : t.op \notin {"Ricnt", "Base"}}

Awaited(c) ==
  CASE c.state = "RICNT" -> RicntTokens
    [] c.state = "DBASE" -> BaseTokens(c.ricnt)
    [] OTHER             -> LineTokens

After(tok) ==
  CASE tok.op = "Ricnt"              -> BaseTokens(tok.encricnt)
    [] tok.op # "Ricnt" /\ tok.fin  -> RicntTokens
    [] tok.op # "Ricnt" /\ ~tok.fin -> LineTokens

Expected(s) == IF inq[s] = <<>> THEN Awaited(sctx[s]) ELSE After(inq[s][Len(inq[s])])

\* nghttp3_conn_read_bidi on the next piece of a stream
ReadStream(s, tok) ==
  /\ derr = "none" /\ mode = "idle" /\ s \notin closed
  /\ IF s \in shut THEN UNCHANGED vars
     ELSE IF s \in bq
     THEN /\ Len(inq[s]) < MaxBuffered
          /\ inq' = [inq EXCEPT ![s] = Append(@, tok)]
          /\ UNCHANGED <<tableVars, ackVars, elen, sctx, bq, shut, closed, got,
                         mode, derr>>
     ELSE /\ ReadToken(s, tok)
          /\ UNCHANGED <<inq, shut, closed, mode>>

\* The loop of nghttp3_conn_read_qpack_encoder over the blocked streams,
\* the one with the smallest Required Insert Count first.

\* A stream whose last insertion has just arrived is passed over.
Unblockable_Bug ==
  {s \in bq : /\ sctx[s].ricnt < dtab.next
              /\ \A x \in bq : sctx[s].ricnt <= sctx[x].ricnt}

Unblockable ==
  {s \in bq : /\ sctx[s].ricnt <= dtab.next
              /\ \A x \in bq : sctx[s].ricnt <= sctx[x].ricnt}

\* A stream is taken from the queue and its buffered data left alone.
UnblockNext_Bug ==
  /\ derr = "none" /\ mode \in {"encoder", "unblock"}
  /\ IF Unblockable = {} THEN mode' = "idle" /\ UNCHANGED bq
     ELSE mode' = "unblock" /\ \E s \in Unblockable : bq' = bq \ {s}
  /\ UNCHANGED <<tableVars, ackVars, elen, sctx, inq, shut, closed, got, derr>>

UnblockNext ==
  /\ derr = "none" /\ mode \in {"encoder", "unblock"}
  /\ IF Unblockable = {} THEN mode' = "idle" /\ UNCHANGED bq
     ELSE \E s \in Unblockable : mode' = s /\ bq' = bq \ {s}
  /\ UNCHANGED <<tableVars, ackVars, elen, sctx, inq, shut, closed, got, derr>>

\* conn_process_blocked_stream_data
ProcessBuffered(s) ==
  /\ derr = "none" /\ mode = s
  /\ IF inq[s] = <<>> \/ s \in bq
     THEN /\ mode' = "unblock"
          /\ UNCHANGED <<tableVars, ackVars, elen, streamVars, derr>>
     ELSE IF s \in shut
     THEN /\ inq' = [inq EXCEPT ![s] = Tail(@)]
          /\ UNCHANGED <<tableVars, ackVars, elen, sctx, bq, shut, closed, got,
                         mode, derr>>
     ELSE /\ ReadToken(s, Head(inq[s]))
          /\ inq' = IF derr' = "none" THEN [inq EXCEPT ![s] = Tail(@)] ELSE inq
          /\ UNCHANGED <<shut, closed, mode>>

-----------------------------------------------------------------------------
(* Calls of the application *)

Cancel(s) == Append(dbuf, [op |-> "Cancel", stream |-> s])

\* nghttp3_conn_shutdown_stream_read; a stream the connection does not know
\* any more is cancelled as well.
ShutdownStreamRead(s) ==
  /\ derr = "none" /\ s \notin shut
  /\ IF DbufOverflow THEN Fail("FATAL")
     ELSE /\ dbuf' = Cancel(s)
          /\ shut' = IF s \in closed THEN shut ELSE shut \cup {s}
          /\ UNCHANGED <<tableVars, written, elen, sctx, bq, inq, closed, got,
                         mode, derr>>

\* A closed stream stays in the queue.
BlockedStreamsRemove_Bug(s) == bq

\* nghttp3_conn_qpack_blocked_streams_remove
BlockedStreamsRemove(s) == bq \ {s}

\* nghttp3_conn_close_stream and conn_delete_stream: a blocked stream is
\* cancelled.
CloseStream(s) ==
  /\ derr = "none" /\ mode = "idle" /\ s \notin closed
  /\ IF s \in bq /\ DbufOverflow THEN Fail("FATAL")
     ELSE /\ dbuf' = IF s \in bq THEN Cancel(s) ELSE dbuf
          /\ bq' = BlockedStreamsRemove(s) /\ closed' = closed \cup {s}
          /\ inq' = [inq EXCEPT ![s] = <<>>]
          /\ sctx' = [sctx EXCEPT ![s] = FreshContext]
          /\ shut' = shut \ {s}
          /\ UNCHANGED <<tableVars, written, elen, got, mode, derr>>

\* nghttp3_qpack_decoder_write_decoder; DecoderStream is what it writes.
Increment == dtab.next - written
DecoderStream ==
  dbuf \o IF written < dtab.next THEN <<[op |-> "Inc", n |-> Increment]>> ELSE <<>>

WriteDecoder ==
  /\ derr = "none" /\ mode = "idle" /\ DecoderStream # <<>>
  /\ dbuf' = <<>> /\ written' = Max({written, dtab.next})
  /\ UNCHANGED <<tableVars, elen, streamVars, mode, derr>>

Next ==
  \/ \E i \in Instructions : ReadEncoder(i)
  \/ \E s \in Streams : \E tok \in Expected(s) :
       Len(got[s]) < MaxFields /\ ReadStream(s, tok)
  \/ UnblockNext
  \/ \E s \in Streams : ProcessBuffered(s)
  \/ \E s \in Streams : Len(dbuf) <= MaxDbuf + 1 /\ ShutdownStreamRead(s)
  \/ \E s \in Streams : CloseStream(s)
  \/ WriteDecoder

Spec == Init /\ [][Next]_vars
=============================================================================
