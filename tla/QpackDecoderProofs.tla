------------------------- MODULE QpackDecoderProofs -------------------------
(***************************************************************************)
(* Proofs about the QPACK decoder and the streams parked for it, for any   *)
(* streams, instructions, section tokens and limits.                       *)
(***************************************************************************)
EXTENDS QpackDecoderProps, QpackTableProofs, FiniteSetTheorems

States == {"RICNT", "DBASE", "BLOCKED", "OPCODE"}
Context == [state : States, ricnt : Nat, base : Nat]
Errors == {"none", "ENCODER_STREAM", "DECOMPRESSION_FAILED", "FATAL"}
Modes == {"idle", "encoder", "unblock"}

\* The type invariant of the decoder (struct nghttp3_qpack_decoder, and what
\* nghttp3_conn and nghttp3_stream keep for it).
TypeOK ==
  /\ IsTable(dtab) /\ dcap \in 0 .. DecHardMax
  /\ written \in Nat /\ elen \in Nat
  /\ dbuf \in Seq([op : {"Ack", "Cancel"}, stream : Streams])
  /\ sctx \in [Streams -> Context]
  /\ bq \in SUBSET Streams
  /\ inq \in [Streams -> Seq(Tokens)]
  /\ shut \in SUBSET Streams /\ closed \in SUBSET Streams
  /\ got \in [Streams -> Seq([name : Names, value : Values])]
  /\ mode \in Modes \cup Streams
  /\ derr \in Errors

\* The table fits the capacity the peer set.
TableFits == Size(dtab) <= dcap

\* The buffer of the decoder stream grows by one beyond its limit at most
\* (qpack_decoder_dbuf_overflow).
DbufBounded == Len(dbuf) <= MaxDbuf + 1

\* What is buffered continues what was read: its first token is one the
\* stream waits for, each other one follows the one before.  Nothing is said
\* of a stream shut for reading, whose data is dropped unread.
Continues(q, c) ==
  /\ q # <<>> => q[1] \in Awaited(c)
  /\ \A i \in 1 .. Len(q) - 1 : q[i + 1] \in After(q[i])
TokensInOrder ==
  derr = "none" => \A s \in Streams \ shut : Continues(inq[s], sctx[s])

IInv ==
  /\ TypeOK /\ TableFits /\ DbufBounded /\ IsFiniteSet(bq)
  /\ ParkedStreamsMustWait /\ ReadingImpliesReceived /\ BufferReadFirst
  /\ TokensInOrder

-----------------------------------------------------------------------------
(* Operators *)

\* Evicting to a capacity leaves a table of the same insertions that fits it.
LEMMA EvictToCapacity ==
  ASSUME NEW t, IsTable(t), NEW max \in Nat
  PROVE  LET u == EvictToFit(t, 0, max) IN
         IsTable(u) /\ u.next = t.next /\ Size(u) <= max
<1>. DEFINE F == FitPoints(t, 0, max)
            m == Min(F)
<1>1. t.first \in Nat /\ t.next \in Nat /\ F \in SUBSET Nat
  BY DEF IsTable, FitPoints
<1>2. t.next \in F
  BY EmptyFits
<1>3. m \in F
  BY <1>1, <1>2, MinIsLeast
<1>4. m \in t.first .. t.next /\ SizeFrom(t, m) + 0 <= max
  BY <1>3 DEF FitPoints
<1>. HIDE DEF m
<1>5. SizeFrom(t, m) \in Int
  BY <1>1, <1>4 DEF SizeFrom, IsTable, Live, Entry
<1>6. EvictToFit(t, 0, max) = DropTo(t, m)
  BY DEF EvictToFit, m
<1>. QED
  BY <1>4, <1>5, <1>6, DropToTable

\* nghttp3_qpack_decoder_reconstruct_ricnt returns a count or fails, and
\* takes no section that refers to insertions for one that does not.
LEMMA ReconstructType ==
  ASSUME NEW e \in Nat, NEW icnt \in Nat, NEW h \in Nat
  PROVE  LET r == ReconstructRicnt(e, icnt, h) IN
         r # NoRicnt => r \in Nat /\ (r = 0 <=> e = 0)
<1>. DEFINE r == ReconstructRicnt(e, icnt, h)
            full == 2 * MaxEnts(h)
            max == icnt + MaxEnts(h)
            k == (max \div full) * full
            wrapped == k + e - 1
<1>1. CASE e = 0
  BY <1>1 DEF ReconstructRicnt
<1>2. CASE e # 0 /\ e > full
  BY <1>2 DEF ReconstructRicnt
<1>3. CASE e # 0 /\ ~(e > full)
  <2>1. MaxEnts(h) \in Nat
    BY DEF MaxEnts, ENTRY_OVERHEAD
  <2>2. full \in Nat /\ max \in Nat
    BY <2>1
  <2>. HIDE DEF full, max
  <2>3. full > 0
    BY <1>3, <2>2
  <2>4. max \div full \in Nat
    BY <2>2, <2>3
  <2>5. \A x, y \in Nat : x * y \in Nat
    OBVIOUS
  <2>6. k \in Nat
    BY <2>2, <2>4, <2>5
  <2>. HIDE DEF k
  <2>7. wrapped \in Nat
    BY <1>3, <2>6
  <2>8. r = IF wrapped > max /\ wrapped <= full THEN NoRicnt
            ELSE IF (IF wrapped > max THEN wrapped - full ELSE wrapped) = 0
                 THEN NoRicnt
                 ELSE IF wrapped > max THEN wrapped - full ELSE wrapped
    BY <1>3, Zenon DEF ReconstructRicnt, full, max, k
  <2>. HIDE DEF wrapped, r
  <2>9. r # NoRicnt => r \in Nat /\ r # 0
    BY <2>2, <2>7, <2>8
  <2>. QED
    BY <1>3, <2>9 DEF r
<1>. QED
  BY <1>1, <1>2, <1>3

\* The base of a section is an index or refused.
LEMMA DecodeBaseType ==
  ASSUME NEW r \in Nat, NEW tok, tok.sign \in BOOLEAN, tok.delta \in Nat
  PROVE  DecodeBase(r, tok) # NoRicnt => DecodeBase(r, tok) \in Nat
  BY DEF DecodeBase, NoRicnt

\* What the tokens carry.
LEMMA TokenType ==
  ASSUME NEW tok \in Tokens
  PROVE  /\ tok.op = "Ricnt" => tok.encricnt \in Nat
         /\ tok.op # "Ricnt" => tok.fin \in BOOLEAN
         /\ tok.op = "Base" => tok.sign \in BOOLEAN /\ tok.delta \in Nat
         /\ tok.op \notin {"Ricnt", "Base"} =>
              /\ IsDynamic(tok) => tok.idx \in Nat
              /\ ~IsDynamic(tok) => tok.name \in Names
              /\ tok.op \in {"Name", "NamePB"} \/ ~IsDynamic(tok)
                   => tok.value \in Values
  BY DecoderAssumption DEF IsDynamic

\* A line that is not refused names a field.
LEMMA LineFieldType ==
  ASSUME IsTable(dtab), NEW tok \in LineTokens, NEW c \in Context,
         ~(IsDynamic(tok) /\ AbsIndex(tok, c) = -1)
  PROVE  LineField(tok, c) \in [name : Names, value : Values]
<1>1. tok \in Tokens /\ tok.op \notin {"Ricnt", "Base"}
  BY DEF LineTokens
<1>2. CASE ~IsDynamic(tok)
  BY <1>1, <1>2, TokenType DEF LineField
<1>3. CASE IsDynamic(tok)
  <2>. DEFINE a == AbsIndex(tok, c)
  <2>1. a \in Live(dtab)
    BY <1>3 DEF AbsIndex
  <2>. HIDE DEF a
  <2>2. dtab.ent[a].name \in Names /\ dtab.ent[a].value \in Values
    BY <2>1 DEF IsTable, Entry
  <2>3. LineField(tok, c) =
          [name  |-> dtab.ent[a].name,
           value |-> IF tok.op \in {"Name", "NamePB"} THEN tok.value
                     ELSE dtab.ent[a].value]
    BY <1>3 DEF LineField, a
  <2>4. tok.op \in {"Name", "NamePB"} => tok.value \in Values
    BY <1>1, TokenType
  <2>. QED
    BY <2>2, <2>3, <2>4
<1>. QED
  BY <1>2, <1>3
-----------------------------------------------------------------------------
(* Reading a token *)

\* What reading one token of stream s does to everything but the buffered
\* data, when the stream may be read.
TokenRead(s, tok) ==
  /\ UNCHANGED <<tableVars, shut, closed>>
  /\ written' \in Nat /\ written' <= dtab.next /\ elen' \in Nat
  /\ dbuf' \in Seq([op : {"Ack", "Cancel"}, stream : Streams])
  /\ Len(dbuf') <= MaxDbuf + 1
  /\ sctx' \in [Streams -> Context]
  /\ \A x \in Streams \ {s} : sctx'[x] = sctx[x]
  /\ got' \in [Streams -> Seq([name : Names, value : Values])]
  /\ bq' \in {bq, bq \cup {s}}
  /\ IsFiniteSet(bq') /\ Cardinality(bq') <= BlockedStreams
  /\ s \in bq' => sctx'[s].state = "BLOCKED" /\ sctx'[s].ricnt > dtab.next
  /\ s \notin bq' /\ sctx'[s].state \in {"OPCODE", "BLOCKED"}
       => sctx'[s].ricnt <= dtab.next
  /\ derr' \in Errors \ {"ENCODER_STREAM"}
  /\ derr' = "none" => After(tok) \subseteq Awaited(sctx'[s])

\* A failed call changes nothing but the error.
LEMMA FailReads ==
  ASSUME IInv, NEW s \in Streams, s \notin bq, NEW tok,
         NEW e \in Errors \ {"none", "ENCODER_STREAM"}, Fail(e)
  PROVE  TokenRead(s, tok)
<1>1. /\ UNCHANGED <<tableVars, shut, closed>> /\ written' = written
      /\ elen' = elen /\ dbuf' = dbuf /\ sctx' = sctx /\ got' = got
      /\ bq' = bq /\ derr' = e
  BY DEF Fail, ackVars, streamVars
<1>2. /\ written \in Nat /\ written <= dtab.next /\ elen \in Nat
      /\ dbuf \in Seq([op : {"Ack", "Cancel"}, stream : Streams])
      /\ Len(dbuf) <= MaxDbuf + 1 /\ sctx \in [Streams -> Context]
      /\ got \in [Streams -> Seq([name : Names, value : Values])]
      /\ IsFiniteSet(bq) /\ Cardinality(bq) <= BlockedStreams
  BY DEF IInv, TypeOK, DbufBounded, ParkedStreamsMustWait, ReadingImpliesReceived
<1>3. sctx[s].state \in {"OPCODE", "BLOCKED"} => sctx[s].ricnt <= dtab.next
  BY DEF IInv, ReadingImpliesReceived
<1>. QED
  BY <1>1, <1>2, <1>3 DEF TokenRead

\* The parts of a step that every successful reading shares.
LEMMA TokenReadBy ==
  ASSUME IInv, NEW s \in Streams, NEW tok, NEW c \in Context,
         sctx' = [sctx EXCEPT ![s] = c],
         derr = "none", UNCHANGED <<tableVars, shut, closed, derr>>,
         written' \in Nat, written' <= dtab.next, elen' \in Nat,
         dbuf' \in Seq([op : {"Ack", "Cancel"}, stream : Streams]),
         Len(dbuf') <= MaxDbuf + 1,
         got' \in [Streams -> Seq([name : Names, value : Values])],
         bq' \in {bq, bq \cup {s}}, Cardinality(bq') <= BlockedStreams,
         s \in bq' => c.state = "BLOCKED" /\ c.ricnt > dtab.next,
         s \notin bq' /\ c.state \in {"OPCODE", "BLOCKED"} => c.ricnt <= dtab.next,
         After(tok) \subseteq Awaited(c)
  PROVE  TokenRead(s, tok)
<1>1. /\ sctx \in [Streams -> Context] /\ IsFiniteSet(bq)
      /\ derr \in Errors \ {"ENCODER_STREAM"}
  BY DEF IInv, TypeOK
<1>2. /\ sctx' \in [Streams -> Context] /\ sctx'[s] = c
      /\ \A x \in Streams \ {s} : sctx'[x] = sctx[x]
  BY <1>1
<1>3. IsFiniteSet(bq')
  BY <1>1, FS_AddElement, ZenonT(60)
<1>. QED
  BY <1>1, <1>2, <1>3 DEF TokenRead

\* The end of a section whose insertions have all arrived.
LEMMA EndSectionReads ==
  ASSUME IInv, NEW s \in Streams, NEW tok,
         ~DbufOverflow \/ sctx[s].ricnt = 0, EndSection(s),
         sctx[s].ricnt <= dtab.next
  PROVE  /\ sctx' = [sctx EXCEPT ![s] = FreshContext] /\ FreshContext \in Context
         /\ written' \in Nat /\ written' <= dtab.next /\ elen' \in Nat
         /\ dbuf' \in Seq([op : {"Ack", "Cancel"}, stream : Streams])
         /\ Len(dbuf') <= MaxDbuf + 1
<1>. DEFINE r == sctx[s].ricnt
            ack == [op |-> "Ack", stream |-> s]
            Acks == [op : {"Ack", "Cancel"}, stream : Streams]
<1>1. /\ r \in Nat /\ written \in Nat /\ dtab.next \in Nat /\ MaxDbuf \in Nat
      /\ dbuf \in Seq(Acks) /\ Len(dbuf) <= MaxDbuf + 1 /\ written <= dtab.next
  BY DecoderAssumption
  DEF IInv, TypeOK, Context, IsTable, DbufBounded, ReadingImpliesReceived
<1>2. sctx' = [sctx EXCEPT ![s] = FreshContext] /\ elen' = 0
  BY DEF EndSection
<1>3. FreshContext \in Context
  BY DEF FreshContext, Context, States
<1>4. CASE r = 0
  BY <1>1, <1>2, <1>3, <1>4 DEF EndSection, ackVars
<1>5. CASE r # 0
  <2>1. dbuf' = Append(dbuf, ack) /\ written' = Max({written, r})
    BY <1>5 DEF EndSection
  <2>2. ack \in Acks
    OBVIOUS
  <2>3. ~(Len(dbuf) > MaxDbuf)
    BY <1>5 DEF DbufOverflow
  <2>. HIDE DEF ack, Acks
  <2>4. dbuf' \in Seq(Acks) /\ Len(dbuf') = Len(dbuf) + 1
    BY <1>1, <2>1, <2>2
  <2>5. Len(dbuf) \in Nat
    BY <1>1
  <2>6. Max({written, r}) \in {written, r}
    <3>. DEFINE S == {written, r}
    <3>1. S \in SUBSET Nat /\ S # {} /\ \A n \in S : n <= dtab.next
      BY <1>1
    <3>. HIDE DEF S
    <3>2. Max(S) \in S
      BY <1>1, <3>1, MaxIsGreatest
    <3>. QED
      BY <3>2 DEF S
  <2>7. written' \in Nat /\ written' <= dtab.next
    BY <1>1, <2>1, <2>6
  <2>8. Len(dbuf') <= MaxDbuf + 1
    BY <1>1, <2>3, <2>4, <2>5
  <2>. QED
    BY <1>2, <1>3, <2>4, <2>7, <2>8 DEF Acks
<1>. QED
  BY <1>4, <1>5
\* What is known of the stream whose token is read.
LEMMA AboutStream ==
  ASSUME IInv, NEW s \in Streams, s \notin bq
  PROVE  /\ sctx[s] \in Context /\ sctx[s].ricnt \in Nat /\ dtab.next \in Nat
         /\ sctx[s].state \in {"OPCODE", "BLOCKED"} => sctx[s].ricnt <= dtab.next
         /\ written \in Nat /\ written <= dtab.next /\ elen \in Nat
         /\ dbuf \in Seq([op : {"Ack", "Cancel"}, stream : Streams])
         /\ Len(dbuf) <= MaxDbuf + 1
         /\ got \in [Streams -> Seq([name : Names, value : Values])]
         /\ IsFiniteSet(bq) /\ Cardinality(bq) <= BlockedStreams
         /\ Cardinality(bq) \in Nat /\ BlockedStreams \in Nat
  BY DecoderAssumption, FS_CardinalityType
  DEF IInv, TypeOK, Context, IsTable, DbufBounded, ParkedStreamsMustWait,
      ReadingImpliesReceived

\* The encoded Required Insert Count
LEMMA ReadRicntReads ==
  ASSUME IInv, NEW s \in Streams, s \notin bq, NEW tok \in RicntTokens,
         derr = "none", ReadRicnt(s, tok), UNCHANGED <<shut, closed>>
  PROVE  TokenRead(s, tok)
<1>. DEFINE r == ReconstructRicnt(tok.encricnt, dtab.next, DecHardMax)
            c == [state |-> "DBASE", ricnt |-> r, base |-> 0]
<1>1. tok \in Tokens /\ tok.op = "Ricnt" /\ tok.encricnt \in Nat
  BY TokenType DEF RicntTokens
<1>2. dtab.next \in Nat /\ DecHardMax \in Nat
  BY AboutStream, DecoderAssumption
<1>3. r # NoRicnt => r \in Nat /\ (r = 0 <=> tok.encricnt = 0)
  BY <1>1, <1>2, ReconstructType
<1>4. CASE r = NoRicnt
  <2>1. Fail("DECOMPRESSION_FAILED")
    BY <1>4 DEF ReadRicnt
  <2>. QED
    BY <2>1, FailReads DEF Errors
<1>5. CASE r # NoRicnt
  <2>1. /\ sctx' = [sctx EXCEPT ![s] = c]
        /\ UNCHANGED <<tableVars, ackVars, elen, bq, got, derr>>
    BY <1>5 DEF ReadRicnt
  <2>. HIDE DEF r
  <2>2. c \in Context
    BY <1>3, <1>5 DEF Context, States
  <2>3. After(tok) \subseteq Awaited(c)
    <3>1. After(tok) = BaseTokens(tok.encricnt) /\ Awaited(c) = BaseTokens(r)
      BY <1>1 DEF After, Awaited
    <3>. QED
      BY <1>3, <1>5, <3>1 DEF BaseTokens
  <2>4. /\ written' = written /\ dbuf' = dbuf /\ elen' = elen /\ bq' = bq
        /\ got' = got /\ c.state = "DBASE"
    BY <2>1 DEF ackVars
  <2>. HIDE DEF c
  <2>. QED
    BY <2>1, <2>2, <2>3, <2>4, AboutStream, TokenReadBy
<1>. QED
  BY <1>4, <1>5

\* The base, after which the section waits or is read.
LEMMA ReadBaseReads ==
  ASSUME IInv, NEW s \in Streams, s \notin bq, sctx[s].state = "DBASE",
         NEW tok \in BaseTokens(sctx[s].ricnt),
         derr = "none", ReadBase(s, tok), UNCHANGED <<shut, closed>>
  PROVE  TokenRead(s, tok)
<1>. DEFINE r == sctx[s].ricnt
            b == DecodeBase(r, tok)
<1>1. /\ tok \in Tokens /\ tok.op = "Base" /\ tok.sign \in BOOLEAN
      /\ tok.delta \in Nat /\ tok.fin \in BOOLEAN /\ (tok.fin => r = 0)
  BY TokenType DEF BaseTokens
<1>2. r \in Nat /\ dtab.next \in Nat
  BY AboutStream
<1>3. b # NoRicnt => b \in Nat
  BY <1>1, <1>2, DecodeBaseType
<1>4. ASSUME NEW e \in {"DECOMPRESSION_FAILED", "FATAL"}, Fail(e)
      PROVE  TokenRead(s, tok)
  BY <1>4, FailReads DEF Errors
<1>5. sctx \in [Streams -> Context]
  BY DEF IInv, TypeOK
<1>. HIDE DEF b
<1>6. CASE b # NoRicnt /\ MustWait(r) /\ ~NoRoomToPark
  <2>. DEFINE c == [sctx[s] EXCEPT !.state = "BLOCKED", !.base = b]
  <2>1. /\ sctx' = [sctx EXCEPT ![s] = c] /\ bq' = bq \cup {s}
        /\ UNCHANGED <<tableVars, ackVars, elen, got, derr>>
    BY <1>5, <1>6 DEF ReadBase, b
  <2>2. c \in Context /\ c.state = "BLOCKED" /\ c.ricnt = r
    BY <1>3, <1>5, <1>6 DEF Context, States
  <2>3. r > dtab.next /\ ~(BlockedStreams <= Cardinality(bq))
    BY <1>6 DEF MustWait, NoRoomToPark
  <2>4. Cardinality(bq') <= BlockedStreams
    <3>1. /\ Cardinality(bq) \in Nat /\ BlockedStreams \in Nat
          /\ IsFiniteSet(bq)
      BY AboutStream
    <3>2. Cardinality(bq') = Cardinality(bq) + 1
      BY <2>1, <3>1, FS_AddElement
    <3>. QED
      BY <2>3, <3>1, <3>2
  <2>. HIDE DEF c
  <2>5. After(tok) \subseteq Awaited(c)
    <3>1. ~tok.fin
      BY <1>1, <1>2, <2>3
    <3>. QED
      BY <1>1, <2>2, <3>1 DEF After, Awaited
  <2>6. written' = written /\ dbuf' = dbuf /\ elen' = elen /\ got' = got
    BY <2>1 DEF ackVars
  <2>7. s \in bq'
    BY <2>1
  <2>. QED
    BY <2>1, <2>2, <2>3, <2>4, <2>5, <2>6, <2>7, AboutStream, TokenReadBy
<1>7. CASE b # NoRicnt /\ ~MustWait(r) /\ MayEndSection(s, tok) /\ tok.fin
  <2>1. EndSection(s) /\ UNCHANGED <<tableVars, bq, got, derr>>
    BY <1>7 DEF ReadBase, b
  <2>2. r <= dtab.next /\ (~DbufOverflow \/ r = 0)
    BY <1>2, <1>7 DEF MustWait, MayEndSection
  <2>3. After(tok) \subseteq Awaited(FreshContext)
    BY <1>1, <1>7 DEF After, Awaited, FreshContext
  <2>4. FreshContext.state = "RICNT" /\ bq' = bq /\ got' = got
    BY <2>1 DEF FreshContext
  <2>. QED
    BY <2>1, <2>2, <2>3, <2>4, EndSectionReads, AboutStream, TokenReadBy
<1>8. CASE b # NoRicnt /\ ~MustWait(r) /\ MayEndSection(s, tok) /\ ~tok.fin
  <2>. DEFINE c == [sctx[s] EXCEPT !.state = "OPCODE", !.base = b]
  <2>1. /\ sctx' = [sctx EXCEPT ![s] = c]
        /\ UNCHANGED <<ackVars, elen, tableVars, bq, got, derr>>
    BY <1>5, <1>8 DEF ReadBase, b
  <2>2. c \in Context /\ c.state = "OPCODE" /\ c.ricnt = r
    BY <1>3, <1>5, <1>8 DEF Context, States
  <2>. HIDE DEF c
  <2>3. r <= dtab.next
    BY <1>2, <1>8 DEF MustWait
  <2>4. After(tok) \subseteq Awaited(c)
    BY <1>1, <1>8, <2>2 DEF After, Awaited
  <2>5. /\ written' = written /\ dbuf' = dbuf /\ elen' = elen /\ got' = got
        /\ bq' = bq
    BY <2>1 DEF ackVars
  <2>. QED
    BY <2>1, <2>2, <2>3, <2>4, <2>5, AboutStream, TokenReadBy
<1>9. \/ \E e \in {"DECOMPRESSION_FAILED", "FATAL"} : Fail(e)
      \/ b # NoRicnt /\ MustWait(r) /\ ~NoRoomToPark
      \/ b # NoRicnt /\ ~MustWait(r) /\ MayEndSection(s, tok)
  BY DEF ReadBase, b
<1>. QED
  BY <1>4, <1>6, <1>7, <1>8, <1>9

\* A field line
LEMMA ReadLineReads ==
  ASSUME IInv, NEW s \in Streams, s \notin bq,
         sctx[s].state \in {"OPCODE", "BLOCKED"}, NEW tok \in LineTokens,
         derr = "none", ReadLine(s, tok), UNCHANGED <<shut, closed>>
  PROVE  TokenRead(s, tok)
<1>. DEFINE r == sctx[s].ricnt
            f == LineField(tok, sctx[s])
<1>1. tok \in Tokens /\ tok.op \notin {"Ricnt", "Base"} /\ tok.fin \in BOOLEAN
  BY TokenType DEF LineTokens
<1>2. r \in Nat /\ dtab.next \in Nat /\ r <= dtab.next /\ sctx[s] \in Context
  BY AboutStream
<1>3. ASSUME NEW e \in {"DECOMPRESSION_FAILED", "FATAL"}, Fail(e)
      PROVE  TokenRead(s, tok)
  BY <1>3, FailReads DEF Errors
<1>4. CASE ~(IsDynamic(tok) /\ AbsIndex(tok, sctx[s]) = -1) /\ MayEndSection(s, tok)
  <2>1. /\ got' = [got EXCEPT ![s] = Append(@, f)]
        /\ UNCHANGED <<tableVars, bq, derr>>
    BY <1>4 DEF ReadLine
  <2>2. f \in [name : Names, value : Values]
    BY <1>2, <1>4, LineFieldType DEF IInv, TypeOK
  <2>. HIDE DEF f
  <2>3. got' \in [Streams -> Seq([name : Names, value : Values])]
    <3>. DEFINE Out == [name : Names, value : Values]
    <3>1. got \in [Streams -> Seq(Out)] /\ f \in Out
      BY <2>2, AboutStream
    <3>. HIDE DEF Out
    <3>2. got' \in [Streams -> Seq(Out)]
      BY <2>1, <3>1
    <3>. QED
      BY <3>2 DEF Out
  <2>4. CASE tok.fin
    <3>1. EndSection(s)
      BY <1>4, <2>4 DEF ReadLine
    <3>2. ~DbufOverflow \/ r = 0
      BY <1>4, <2>4 DEF MayEndSection
    <3>3. After(tok) \subseteq Awaited(FreshContext)
      BY <1>1, <2>4 DEF After, Awaited, FreshContext
    <3>4. FreshContext.state = "RICNT" /\ bq' = bq
      BY <2>1 DEF FreshContext
    <3>. QED
      BY <1>2, <2>1, <2>3, <3>1, <3>2, <3>3, <3>4, EndSectionReads,
         AboutStream, TokenReadBy
  <2>5. CASE ~tok.fin
    <3>. DEFINE c == [sctx[s] EXCEPT !.state = "OPCODE"]
    <3>1. sctx' = [sctx EXCEPT ![s] = c] /\ UNCHANGED <<ackVars, elen>>
      <4>1. sctx' = [sctx EXCEPT ![s].state = "OPCODE"] /\ UNCHANGED <<ackVars, elen>>
        BY <1>4, <2>5 DEF ReadLine
      <4>. QED
        BY <4>1
    <3>2. c \in Context /\ c.state = "OPCODE" /\ c.ricnt = r
      BY <1>2 DEF Context, States
    <3>. HIDE DEF c
    <3>3. After(tok) \subseteq Awaited(c)
      BY <1>1, <2>5, <3>2 DEF After, Awaited
    <3>4. written' = written /\ dbuf' = dbuf /\ elen' = elen /\ bq' = bq
      BY <2>1, <3>1 DEF ackVars
    <3>. QED
      BY <1>2, <2>1, <2>3, <3>1, <3>2, <3>3, <3>4, AboutStream, TokenReadBy
  <2>. QED
    BY <1>1, <2>4, <2>5
<1>5. \/ \E e \in {"DECOMPRESSION_FAILED", "FATAL"} : Fail(e)
      \/ ~(IsDynamic(tok) /\ AbsIndex(tok, sctx[s]) = -1) /\ MayEndSection(s, tok)
  BY DEF ReadLine
<1>. QED
  BY <1>3, <1>4, <1>5

\* nghttp3_qpack_decoder_read_request and conn_decode_headers on one token
LEMMA ReadTokenReads ==
  ASSUME IInv, NEW s \in Streams, s \notin bq, NEW tok \in Awaited(sctx[s]),
         derr = "none", ReadToken(s, tok), UNCHANGED <<shut, closed>>
  PROVE  TokenRead(s, tok)
<1>1. sctx[s].state \in States
  BY AboutStream DEF Context
<1>2. CASE sctx[s].state = "RICNT"
  <2>1. tok \in RicntTokens /\ ReadRicnt(s, tok)
    BY <1>2 DEF Awaited, ReadToken
  <2>. QED
    BY <2>1, ReadRicntReads
<1>3. CASE sctx[s].state = "DBASE"
  <2>1. tok \in BaseTokens(sctx[s].ricnt) /\ ReadBase(s, tok)
    BY <1>3 DEF Awaited, ReadToken
  <2>. QED
    BY <1>3, <2>1, ReadBaseReads
<1>4. CASE sctx[s].state \in {"OPCODE", "BLOCKED"}
  <2>1. tok \in LineTokens /\ ReadLine(s, tok)
    BY <1>4 DEF Awaited, ReadToken
  <2>. QED
    BY <1>4, <2>1, ReadLineReads
<1>. QED
  BY <1>1, <1>2, <1>3, <1>4 DEF States
-----------------------------------------------------------------------------
(* The steps *)

\* A token read from a stream, the buffered data being what it is afterwards.
LEMMA TokenKeepsIInv ==
  ASSUME IInv, NEW s \in Streams \ shut, s \notin bq, NEW tok, TokenRead(s, tok),
         inq' \in [Streams -> Seq(Tokens)],
         \A x \in Streams \ {s} : inq'[x] = inq[x],
         derr' = "none" => Continues(inq'[s], sctx'[s]),
         derr = "none", mode' = mode,
         mode = s \/ inq'[s] = <<>> \/ derr' # "none"
  PROVE  IInv'
<1>1. /\ dtab' = dtab /\ dcap' = dcap /\ shut' = shut /\ closed' = closed
      /\ written' \in Nat /\ written' <= dtab.next /\ elen' \in Nat
      /\ dbuf' \in Seq([op : {"Ack", "Cancel"}, stream : Streams])
      /\ Len(dbuf') <= MaxDbuf + 1
      /\ sctx' \in [Streams -> Context]
      /\ \A x \in Streams \ {s} : sctx'[x] = sctx[x]
      /\ got' \in [Streams -> Seq([name : Names, value : Values])]
      /\ bq' \in {bq, bq \cup {s}}
      /\ IsFiniteSet(bq') /\ Cardinality(bq') <= BlockedStreams
      /\ s \in bq' => sctx'[s].state = "BLOCKED" /\ sctx'[s].ricnt > dtab.next
      /\ s \notin bq' /\ sctx'[s].state \in {"OPCODE", "BLOCKED"}
           => sctx'[s].ricnt <= dtab.next
      /\ derr' \in Errors
  BY DEF TokenRead, tableVars
<1>2. TypeOK'
  BY <1>1 DEF IInv, TypeOK
<1>3. TableFits' /\ DbufBounded'
  BY <1>1 DEF IInv, TableFits, DbufBounded
<1>4. ParkedStreamsMustWait'
  <2>1. \A x \in bq' : sctx'[x].state = "BLOCKED"
    BY <1>1 DEF IInv, TypeOK, ParkedStreamsMustWait
  <2>2. ASSUME mode' = "idle", derr' = "none", NEW x \in bq'
        PROVE  sctx'[x].ricnt > dtab'.next
    <3>1. CASE x = s
      BY <1>1, <3>1
    <3>2. CASE x # s
      <4>1. x \in bq /\ sctx'[x] = sctx[x]
        BY <1>1, <3>2 DEF IInv, TypeOK
      <4>. QED
        BY <1>1, <2>2, <4>1 DEF IInv, ParkedStreamsMustWait
    <3>. QED
      BY <3>1, <3>2
  <2>. QED
    BY <1>1, <2>1, <2>2 DEF ParkedStreamsMustWait
<1>5. ReadingImpliesReceived'
  <2>1. ASSUME NEW x \in Streams,
               sctx'[x].state = "OPCODE" \/ (sctx'[x].state = "BLOCKED" /\ x \notin bq')
        PROVE  sctx'[x].ricnt <= dtab'.next
    <3>1. CASE x = s
      <4>1. s \notin bq' \/ sctx'[s].state = "BLOCKED"
        BY <1>1
      <4>. QED
        BY <1>1, <2>1, <3>1, <4>1
    <3>2. CASE x # s
      <4>1. sctx'[x] = sctx[x] /\ (x \in bq' <=> x \in bq)
        BY <1>1, <3>2
      <4>. QED
        BY <1>1, <2>1, <4>1 DEF IInv, ReadingImpliesReceived
    <3>. QED
      BY <3>1, <3>2
  <2>. QED
    BY <1>1, <2>1 DEF ReadingImpliesReceived
<1>6. BufferReadFirst'
  BY <1>1 DEF IInv, BufferReadFirst
<1>7. TokensInOrder'
  BY <1>1 DEF IInv, TokensInOrder
<1>. QED
  BY <1>1, <1>2, <1>3, <1>4, <1>5, <1>6, <1>7 DEF IInv
\* A step that fails the connection or writes to the decoder stream leaves
\* the streams alone.
LEMMA StreamsUntouched ==
  ASSUME IInv, UNCHANGED <<tableVars, sctx, bq, inq, got>>,
         shut' \in SUBSET Streams, shut \subseteq shut', closed' = closed,
         written' \in Nat, written' <= dtab.next, elen' \in Nat,
         dbuf' \in Seq([op : {"Ack", "Cancel"}, stream : Streams]),
         Len(dbuf') <= MaxDbuf + 1,
         mode' = mode, derr' \in Errors, derr' = "none" => derr = "none"
  PROVE  IInv'
<1>1. /\ dtab' = dtab /\ dcap' = dcap /\ sctx' = sctx /\ bq' = bq
      /\ inq' = inq /\ got' = got
  BY DEF tableVars
<1>2. TypeOK'
  BY <1>1 DEF IInv, TypeOK
<1>3. TableFits' /\ DbufBounded' /\ ParkedStreamsMustWait'
  BY <1>1 DEF IInv, TableFits, DbufBounded, ParkedStreamsMustWait
<1>4. ReadingImpliesReceived' /\ BufferReadFirst' /\ TokensInOrder'
  BY <1>1 DEF IInv, ReadingImpliesReceived, BufferReadFirst, TokensInOrder
<1>. QED
  BY <1>1, <1>2, <1>3, <1>4 DEF IInv

\* A failed call
LEMMA FailKeepsIInv ==
  ASSUME IInv, NEW e \in Errors \ {"none"}, Fail(e)
  PROVE  IInv'
<1>1. /\ UNCHANGED <<tableVars, sctx, bq, inq, got>> /\ shut' = shut
      /\ closed' = closed /\ written' = written /\ dbuf' = dbuf /\ elen' = elen
      /\ mode' = mode /\ derr' = e
  BY DEF Fail, ackVars, streamVars
<1>2. /\ written \in Nat /\ written <= dtab.next /\ elen \in Nat
      /\ dbuf \in Seq([op : {"Ack", "Cancel"}, stream : Streams])
      /\ Len(dbuf) <= MaxDbuf + 1 /\ shut \in SUBSET Streams
  BY DEF IInv, TypeOK, DbufBounded, ReadingImpliesReceived
<1>. QED
  BY <1>1, <1>2, StreamsUntouched

\* nghttp3_qpack_decoder_read_encoder: the table changes, and the streams
\* that wait for it will be looked at in the same call.
LEMMA ReadEncoderKeepsIInv ==
  ASSUME IInv, NEW i \in Instructions, ReadEncoder(i)
  PROVE  IInv'
<1>. DEFINE e == NewEntry(i)
<1>1. /\ IsTable(dtab) /\ dtab.next \in Nat /\ dcap \in Nat /\ dcap <= DecHardMax
      /\ DecHardMax \in Nat /\ elen \in Nat
  BY DecoderAssumption DEF IInv, TypeOK, IsTable
<1>2. CASE Fail("ENCODER_STREAM")
  BY <1>2, FailKeepsIInv DEF Errors
<1>3. ASSUME Interpreted, IsTable(dtab'), dtab'.next >= dtab.next,
             dcap' \in 0 .. DecHardMax, Size(dtab') <= dcap', derr = "none"
      PROVE  IInv'
  <2>1. /\ elen' = elen + 1 /\ mode' = "encoder" /\ written' = written
        /\ dbuf' = dbuf /\ sctx' = sctx /\ bq' = bq /\ inq' = inq
        /\ shut' = shut /\ closed' = closed /\ got' = got /\ derr' = derr
    BY <1>3 DEF Interpreted, ackVars, streamVars
  <2>2. TypeOK'
    <3>1. elen' \in Nat /\ mode' \in Modes
      BY <1>1, <2>1 DEF Modes
    <3>. QED
      BY <1>3, <2>1, <3>1 DEF IInv, TypeOK
  <2>3. TableFits' /\ DbufBounded' /\ TokensInOrder'
    BY <1>3, <2>1 DEF IInv, TableFits, DbufBounded, TokensInOrder
  <2>4. ParkedStreamsMustWait'
    BY <2>1 DEF IInv, ParkedStreamsMustWait
  <2>5. ReadingImpliesReceived'
    <3>1. dtab'.next \in Nat
      BY <1>3 DEF IsTable
    <3>2. \A x \in Streams : sctx[x].ricnt \in Nat
      BY DEF IInv, TypeOK, Context
    <3>3. written \in Nat
      BY DEF IInv, TypeOK
    <3>. QED
      BY <1>1, <1>3, <2>1, <3>1, <3>2, <3>3 DEF IInv, ReadingImpliesReceived
  <2>6. BufferReadFirst'
    <3>1. mode \in {"idle", "encoder"}
      BY DEF ReadEncoder
    <3>2. mode \notin Streams
      BY <3>1, DecoderAssumption
    <3>. QED
      BY <1>3, <2>1, <3>2 DEF IInv, BufferReadFirst
  <2>. QED
    BY <2>1, <2>2, <2>3, <2>4, <2>5, <2>6 DEF IInv
<1>4. CASE i.op = "SetCap" /\ SetCapacity(i.cap) /\ ~(i.cap > DecHardMax)
  <2>1. i.cap \in Nat
    BY <1>4, DecoderAssumption
  <2>2. dcap' = i.cap /\ dtab' = EvictToFit(dtab, 0, i.cap) /\ Interpreted
    BY <1>4 DEF SetCapacity
  <2>3. IsTable(dtab') /\ dtab'.next = dtab.next /\ Size(dtab') <= i.cap
    BY <1>1, <2>1, <2>2, EvictToCapacity
  <2>4. i.cap \in 0 .. DecHardMax /\ derr = "none"
    BY <1>1, <1>4, <2>1 DEF ReadEncoder
  <2>. QED
    BY <1>1, <1>3, <2>2, <2>3, <2>4
<1>5. CASE /\ i.op # "SetCap" /\ AddEntry(e) /\ e # NoEntry
           /\ ~(TableSpace(e.name, e.value) > dcap)
  <2>1. i.op \in {"InsertStatic", "InsertLiteral", "InsertDynamic", "Duplicate"}
    BY <1>5, DecoderAssumption
  <2>2. /\ i.op \in {"InsertStatic", "InsertLiteral"} => i.name \in Names
        /\ i.op \in {"InsertStatic", "InsertLiteral", "InsertDynamic"}
             => i.value \in Values
    BY DecoderAssumption
  <2>3. e.name \in Names /\ e.value \in Values
    <3>1. CASE i.op \in {"InsertStatic", "InsertLiteral"}
      BY <2>2, <3>1 DEF NewEntry
    <3>2. CASE i.op \in {"InsertDynamic", "Duplicate"}
      <4>. DEFINE a == RelToAbs(i.idx)
      <4>1. a # -1
        BY <1>5, <3>2 DEF NewEntry
      <4>2. a \in Live(dtab)
        BY <4>1 DEF RelToAbs
      <4>. HIDE DEF a
      <4>3. dtab.ent[a].name \in Names /\ dtab.ent[a].value \in Values
        BY <1>1, <4>2 DEF IsTable, Entry
      <4>4. e = [name  |-> dtab.ent[a].name,
                 value |-> IF i.op = "InsertDynamic" THEN i.value
                           ELSE dtab.ent[a].value]
        BY <3>2, <4>1 DEF NewEntry, a
      <4>. QED
        BY <2>2, <4>3, <4>4
    <3>. QED
      BY <2>1, <3>1, <3>2
  <2>. HIDE DEF e
  <2>4. TableSpace(e.name, e.value) \in Nat
    BY <2>3, LenAssumption DEF TableSpace, ENTRY_OVERHEAD
  <2>5. dtab' = TableAdd(dtab, e.name, e.value, dcap) /\ dcap' = dcap /\ Interpreted
    BY <1>5 DEF AddEntry
  <2>6. TableSpace(e.name, e.value) <= dcap
    BY <1>1, <1>5, <2>4
  <2>7. IsTable(dtab') /\ dtab'.next = dtab.next + 1 /\ Size(dtab') <= dcap
    BY <1>1, <2>3, <2>4, <2>5, <2>6, TableAddTable
  <2>8. derr = "none"
    BY DEF ReadEncoder
  <2>. QED
    BY <1>1, <1>3, <2>5, <2>7, <2>8
<1>6. \/ Fail("ENCODER_STREAM")
      \/ i.op = "SetCap" /\ SetCapacity(i.cap) /\ ~(i.cap > DecHardMax)
      \/ /\ i.op # "SetCap" /\ AddEntry(e) /\ e # NoEntry
         /\ ~(TableSpace(e.name, e.value) > dcap)
  BY DEF ReadEncoder, SetCapacity, AddEntry
<1>. QED
  BY <1>2, <1>4, <1>5, <1>6

\* nghttp3_conn_read_bidi: a parked stream buffers, another one is read, and
\* it has nothing buffered that should be read before.
LEMMA ReadStreamKeepsIInv ==
  ASSUME IInv, NEW s \in Streams, NEW tok \in Expected(s), ReadStream(s, tok)
  PROVE  IInv'
<1>1. /\ derr = "none" /\ mode = "idle" /\ s # "idle"
      /\ inq \in [Streams -> Seq(Tokens)] /\ shut \in SUBSET Streams
  BY DecoderAssumption DEF ReadStream, IInv, TypeOK
<1>2. tok \in Tokens
  BY DEF Expected, Awaited, After, RicntTokens, BaseTokens, LineTokens
<1>3. CASE s \in shut
  <2>1. UNCHANGED vars
    BY <1>3 DEF ReadStream
  <2>. QED
    BY <2>1, StreamsUntouched
    DEF vars, streamVars, ackVars, IInv, TypeOK, DbufBounded, ReadingImpliesReceived
<1>4. CASE s \notin shut /\ s \in bq
  <2>1. /\ inq' = [inq EXCEPT ![s] = Append(inq[s], tok)]
        /\ UNCHANGED <<tableVars, ackVars, elen, sctx, bq, shut, closed, got,
                       mode, derr>>
    BY <1>4 DEF ReadStream
  <2>2. /\ dtab' = dtab /\ dcap' = dcap /\ written' = written /\ dbuf' = dbuf
        /\ elen' = elen /\ sctx' = sctx /\ bq' = bq /\ shut' = shut
        /\ closed' = closed /\ got' = got /\ mode' = mode /\ derr' = derr
    BY <2>1 DEF tableVars, ackVars
  <2>3. /\ inq' \in [Streams -> Seq(Tokens)] /\ inq'[s] = Append(inq[s], tok)
        /\ \A x \in Streams \ {s} : inq'[x] = inq[x]
    BY <1>1, <1>2, <2>1
  <2>4. TypeOK'
    BY <2>2, <2>3 DEF IInv, TypeOK
  <2>5. TableFits' /\ DbufBounded' /\ ParkedStreamsMustWait' /\ ReadingImpliesReceived'
    BY <2>2
    DEF IInv, TableFits, DbufBounded, ParkedStreamsMustWait, ReadingImpliesReceived
  <2>6. BufferReadFirst'
    BY <1>4, <2>2, <2>3 DEF IInv, BufferReadFirst
  <2>7. Continues(inq'[s], sctx[s])
    <3>. DEFINE q == inq[s]
                c == sctx[s]
    <3>1. Continues(q, c) /\ q \in Seq(Tokens)
      BY <1>1, <1>4 DEF IInv, TokensInOrder
    <3>2. tok \in IF q = <<>> THEN Awaited(c) ELSE After(q[Len(q)])
      BY DEF Expected
    <3>. HIDE DEF q, c
    <3>3. Continues(Append(q, tok), c)
      <4>1. /\ Len(Append(q, tok)) = Len(q) + 1 /\ Append(q, tok)[Len(q) + 1] = tok
            /\ \A i \in 1 .. Len(q) : Append(q, tok)[i] = q[i]
            /\ Len(q) \in Nat /\ (q = <<>> <=> Len(q) = 0)
        BY <1>2, <3>1
      <4>. DEFINE p == Append(q, tok)
      <4>. HIDE DEF p
      <4>2. p # <<>> => p[1] \in Awaited(c)
        BY <3>1, <3>2, <4>1 DEF Continues, p
      <4>3. ASSUME NEW i \in 1 .. Len(p) - 1 PROVE p[i + 1] \in After(p[i])
        <5>1. CASE i = Len(q)
          BY <3>2, <4>1, <5>1 DEF p
        <5>2. CASE i # Len(q)
          <6>1. i \in 1 .. Len(q) - 1 /\ i + 1 \in 1 .. Len(q) /\ i \in 1 .. Len(q)
            BY <4>1, <4>3, <5>2 DEF p
          <6>2. q[i + 1] \in After(q[i])
            BY <3>1, <6>1 DEF Continues
          <6>. QED
            BY <4>1, <6>1, <6>2 DEF p
        <5>. QED
          BY <5>1, <5>2
      <4>. QED
        BY <4>2, <4>3 DEF Continues, p
    <3>. QED
      BY <2>3, <3>3 DEF q, c
  <2>8. TokensInOrder'
    BY <2>2, <2>3, <2>7 DEF IInv, TokensInOrder
  <2>. QED
    BY <2>2, <2>4, <2>5, <2>6, <2>8 DEF IInv
<1>5. CASE s \notin shut /\ s \notin bq
  <2>1. ReadToken(s, tok) /\ UNCHANGED <<inq, shut, closed, mode>>
    BY <1>5 DEF ReadStream
  <2>2. inq[s] = <<>>
    BY <1>1, <1>5 DEF IInv, BufferReadFirst
  <2>3. tok \in Awaited(sctx[s])
    BY <2>2 DEF Expected
  <2>4. TokenRead(s, tok)
    BY <1>1, <1>5, <2>1, <2>3, ReadTokenReads
  <2>5. Continues(inq'[s], sctx'[s])
    BY <2>1, <2>2 DEF Continues
  <2>. QED
    BY <1>1, <1>5, <2>1, <2>2, <2>4, <2>5, TokenKeepsIInv
<1>. QED
  BY <1>3, <1>4, <1>5
\* The loop of nghttp3_conn_read_qpack_encoder stops only when the insertions
\* of no parked stream have arrived: the least count is looked at first.
LEMMA UnblockNextKeepsIInv ==
  ASSUME IInv, UnblockNext
  PROVE  IInv'
<1>1. /\ derr = "none" /\ derr' = derr /\ dtab' = dtab /\ dcap' = dcap
      /\ written' = written /\ dbuf' = dbuf /\ elen' = elen /\ sctx' = sctx
      /\ inq' = inq /\ shut' = shut /\ closed' = closed /\ got' = got
      /\ mode \in {"encoder", "unblock"}
  BY DEF UnblockNext, tableVars, ackVars
<1>2. /\ sctx \in [Streams -> Context] /\ bq \in SUBSET Streams
      /\ dtab.next \in Nat /\ IsFiniteSet(bq) /\ mode \notin Streams
      /\ Cardinality(bq) <= BlockedStreams /\ BlockedStreams \in Nat
  BY <1>1, DecoderAssumption DEF IInv, TypeOK, IsTable, ParkedStreamsMustWait
<1>3. TableFits' /\ DbufBounded' /\ TokensInOrder'
  BY <1>1 DEF IInv, TableFits, DbufBounded, TokensInOrder
<1>4. CASE Unblockable = {}
  <2>1. mode' = "idle" /\ bq' = bq
    BY <1>4 DEF UnblockNext
  <2>2. ASSUME NEW s \in bq PROVE sctx[s].ricnt > dtab.next
    <3>. DEFINE N == {sctx[x].ricnt : x \in bq}
    <3>1. \A x \in bq : sctx[x].ricnt \in Nat
      BY <1>2 DEF Context
    <3>2. N \in SUBSET Nat /\ sctx[s].ricnt \in N
      BY <3>1
    <3>3. PICK m \in N : \A n \in N : m <= n
      BY <3>2, MinExists
    <3>4. PICK t \in bq : m = sctx[t].ricnt
      BY <3>3
    <3>5. \A x \in bq : sctx[t].ricnt <= sctx[x].ricnt
      BY <3>3, <3>4
    <3>6. ~(sctx[t].ricnt <= dtab.next)
      BY <1>4, <3>5 DEF Unblockable
    <3>. QED
      BY <1>2, <3>1, <3>5, <3>6
  <2>3. TypeOK'
    BY <1>1, <2>1 DEF IInv, TypeOK, Modes
  <2>4. ParkedStreamsMustWait'
    BY <1>1, <2>1, <2>2 DEF IInv, ParkedStreamsMustWait
  <2>5. ReadingImpliesReceived'
    BY <1>1, <2>1 DEF IInv, ReadingImpliesReceived
  <2>6. BufferReadFirst'
    BY <1>1, <1>2, <2>1 DEF IInv, BufferReadFirst
  <2>. QED
    BY <1>1, <1>2, <1>3, <2>1, <2>3, <2>4, <2>5, <2>6 DEF IInv
<1>5. ASSUME NEW s \in Unblockable, mode' = s, bq' = bq \ {s} PROVE IInv'
  <2>1. s \in bq /\ s \in Streams /\ sctx[s].ricnt <= dtab.next
    BY <1>2, <1>5 DEF Unblockable
  <2>2. TypeOK'
    BY <1>1, <1>5, <2>1 DEF IInv, TypeOK
  <2>3. IsFiniteSet(bq') /\ Cardinality(bq') <= BlockedStreams
    <3>1. IsFiniteSet(bq') /\ Cardinality(bq') <= Cardinality(bq)
      BY <1>2, <1>5, FS_Subset
    <3>2. Cardinality(bq') \in Nat /\ Cardinality(bq) \in Nat
      BY <1>2, <3>1, FS_CardinalityType
    <3>. QED
      BY <1>2, <3>1, <3>2
  <2>4. ParkedStreamsMustWait'
    <3>1. mode' # "idle"
      BY <1>5, <2>1, DecoderAssumption
    <3>. QED
      BY <1>1, <1>5, <2>3, <3>1 DEF IInv, ParkedStreamsMustWait
  <2>5. ReadingImpliesReceived'
    BY <1>1, <1>5, <2>1 DEF IInv, ReadingImpliesReceived
  <2>6. BufferReadFirst'
    BY <1>1, <1>2, <1>5 DEF IInv, BufferReadFirst
  <2>. QED
    BY <1>1, <1>3, <2>2, <2>3, <2>4, <2>5, <2>6 DEF IInv
<1>. QED
  BY <1>4, <1>5 DEF UnblockNext

\* What is left of a buffer continues what its first token led to.
LEMMA RestContinues ==
  ASSUME NEW q \in Seq(Tokens), q # <<>>, NEW c, NEW d, Continues(q, c),
         After(q[1]) \subseteq Awaited(d)
  PROVE  Continues(Tail(q), d)
<1>. DEFINE p == Tail(q)
<1>1. /\ p \in Seq(Tokens) /\ Len(p) = Len(q) - 1 /\ Len(q) \in Nat
      /\ \A i \in 1 .. Len(p) : p[i] = q[i + 1]
      /\ p # <<>> => Len(p) >= 1
  OBVIOUS
<1>. HIDE DEF p
<1>2. p # <<>> => p[1] \in Awaited(d)
  <2>1. ASSUME p # <<>> PROVE p[1] \in Awaited(d)
    <3>1. p[1] = q[2] /\ 1 \in 1 .. Len(q) - 1
      BY <1>1, <2>1
    <3>2. q[1 + 1] \in After(q[1])
      BY <3>1 DEF Continues
    <3>. QED
      BY <3>1, <3>2
  <2>. QED
    BY <2>1
<1>3. ASSUME NEW i \in 1 .. Len(p) - 1 PROVE p[i + 1] \in After(p[i])
  <2>1. /\ i + 1 \in 1 .. Len(q) - 1 /\ p[i] = q[i + 1]
        /\ p[i + 1] = q[(i + 1) + 1]
    BY <1>1
  <2>. QED
    BY <2>1 DEF Continues
<1>. QED
  BY <1>2, <1>3 DEF Continues, p

\* conn_process_blocked_stream_data reads what is buffered in its order.
LEMMA ProcessBufferedKeepsIInv ==
  ASSUME IInv, NEW s \in Streams, ProcessBuffered(s)
  PROVE  IInv'
<1>. DEFINE q == inq[s]
<1>1. /\ derr = "none" /\ mode = s /\ s \notin Modes
      /\ inq \in [Streams -> Seq(Tokens)] /\ shut \in SUBSET Streams
      /\ q \in Seq(Tokens)
  BY DecoderAssumption DEF ProcessBuffered, IInv, TypeOK, Modes
<1>2. CASE q = <<>> \/ s \in bq
  <2>1. /\ mode' = "unblock" /\ dtab' = dtab /\ dcap' = dcap
        /\ written' = written /\ dbuf' = dbuf /\ elen' = elen /\ sctx' = sctx
        /\ bq' = bq /\ inq' = inq /\ shut' = shut /\ closed' = closed
        /\ got' = got /\ derr' = derr
    BY <1>2 DEF ProcessBuffered, tableVars, ackVars, streamVars
  <2>2. TypeOK'
    BY <2>1 DEF IInv, TypeOK, Modes
  <2>3. TableFits' /\ DbufBounded' /\ TokensInOrder' /\ ReadingImpliesReceived'
    BY <2>1 DEF IInv, TableFits, DbufBounded, TokensInOrder, ReadingImpliesReceived
  <2>4. ParkedStreamsMustWait'
    BY <2>1 DEF IInv, ParkedStreamsMustWait
  <2>5. BufferReadFirst'
    BY <1>1, <1>2, <2>1 DEF IInv, BufferReadFirst
  <2>. QED
    BY <2>1, <2>2, <2>3, <2>4, <2>5 DEF IInv
<1>3. CASE q # <<>> /\ s \notin bq /\ s \in shut
  <2>1. /\ inq' = [inq EXCEPT ![s] = Tail(q)] /\ dtab' = dtab /\ dcap' = dcap
        /\ written' = written /\ dbuf' = dbuf /\ elen' = elen /\ sctx' = sctx
        /\ bq' = bq /\ shut' = shut /\ closed' = closed
        /\ got' = got /\ derr' = derr /\ mode' = mode
    BY <1>3 DEF ProcessBuffered, tableVars, ackVars
  <2>2. inq' \in [Streams -> Seq(Tokens)] /\ \A x \in Streams \ {s} : inq'[x] = inq[x]
    BY <1>1, <1>3, <2>1
  <2>3. TypeOK'
    BY <2>1, <2>2 DEF IInv, TypeOK
  <2>4. /\ TableFits' /\ DbufBounded' /\ ReadingImpliesReceived'
        /\ ParkedStreamsMustWait'
    BY <2>1
    DEF IInv, TableFits, DbufBounded, ReadingImpliesReceived, ParkedStreamsMustWait
  <2>5. BufferReadFirst' /\ TokensInOrder'
    BY <1>1, <1>3, <2>1, <2>2 DEF IInv, BufferReadFirst, TokensInOrder
  <2>. QED
    BY <2>1, <2>3, <2>4, <2>5 DEF IInv
<1>4. CASE q # <<>> /\ s \notin bq /\ s \notin shut
  <2>1. /\ ReadToken(s, Head(q)) /\ UNCHANGED <<shut, closed, mode>>
        /\ inq' = IF derr' = "none" THEN [inq EXCEPT ![s] = Tail(q)] ELSE inq
    BY <1>4 DEF ProcessBuffered
  <2>2. /\ Head(q) = q[1] /\ Tail(q) \in Seq(Tokens)
        /\ Continues(q, sctx[s]) /\ q[1] \in Awaited(sctx[s])
    BY <1>1, <1>4 DEF IInv, TokensInOrder, Continues
  <2>3. TokenRead(s, q[1])
    BY <1>1, <1>4, <2>1, <2>2, ReadTokenReads
  <2>4. inq' \in [Streams -> Seq(Tokens)] /\ \A x \in Streams \ {s} : inq'[x] = inq[x]
    BY <1>1, <2>1, <2>2
  <2>5. derr' = "none" => Continues(inq'[s], sctx'[s])
    <3>1. ASSUME derr' = "none" PROVE Continues(inq'[s], sctx'[s])
      <4>1. inq'[s] = Tail(q)
        BY <1>1, <2>1, <3>1
      <4>2. After(q[1]) \subseteq Awaited(sctx'[s])
        BY <2>3, <3>1 DEF TokenRead
      <4>. HIDE DEF q
      <4>3. Continues(Tail(q), sctx'[s])
        BY <1>1, <1>4, <2>2, <4>2, RestContinues
      <4>. QED
        BY <4>1, <4>3
    <3>. QED
      BY <3>1
  <2>6. s \in Streams \ shut /\ mode' = mode
    BY <1>4, <2>1
  <2>. HIDE DEF q
  <2>. QED
    BY <1>1, <1>4, <2>3, <2>4, <2>5, <2>6, TokenKeepsIInv
<1>. QED
  BY <1>2, <1>3, <1>4

-----------------------------------------------------------------------------
(* What reading does to the streams *)

\* A token that arrives is buffered behind the others of a parked stream, or
\* read at once, when nothing is buffered; the table stays as it is.
LEMMA StreamReads ==
  ASSUME IInv, NEW s \in Streams \ shut, NEW tok \in Expected(s), ReadStream(s, tok)
  PROVE  /\ UNCHANGED <<tableVars, shut, closed>> /\ derr' # "ENCODER_STREAM"
         /\ \A x \in Streams \ {s} : inq'[x] = inq[x] /\ sctx'[x] = sctx[x]
         /\ \/ inq'[s] = Append(inq[s], tok) /\ sctx'[s] = sctx[s]
            \/ /\ inq[s] = <<>> /\ inq'[s] = <<>>
               /\ derr' = "none" => After(tok) \subseteq Awaited(sctx'[s])
<1>1. /\ derr = "none" /\ mode = "idle" /\ s # "idle"
      /\ inq \in [Streams -> Seq(Tokens)]
  BY DecoderAssumption DEF ReadStream, IInv, TypeOK
<1>2. CASE s \in bq
  BY <1>1, <1>2 DEF ReadStream
<1>3. CASE s \notin bq
  <2>1. ReadToken(s, tok) /\ inq' = inq /\ UNCHANGED <<shut, closed>>
    BY <1>3 DEF ReadStream
  <2>2. inq[s] = <<>>
    BY <1>1, <1>3 DEF IInv, BufferReadFirst
  <2>3. tok \in Awaited(sctx[s])
    BY <2>2 DEF Expected
  <2>4. TokenRead(s, tok)
    BY <1>1, <1>3, <2>1, <2>3, ReadTokenReads
  <2>. QED
    BY <2>1, <2>2, <2>4 DEF TokenRead
<1>. QED
  BY <1>2, <1>3

\* Of the buffered tokens the first is read, or none.
LEMMA BufferReads ==
  ASSUME IInv, NEW s \in Streams \ shut, ProcessBuffered(s)
  PROVE  /\ UNCHANGED <<tableVars, shut, closed>> /\ derr' # "ENCODER_STREAM"
         /\ \A x \in Streams \ {s} : inq'[x] = inq[x] /\ sctx'[x] = sctx[x]
         /\ \/ inq'[s] = inq[s] /\ sctx'[s] = sctx[s]
            \/ /\ inq[s] # <<>>
               /\ derr' = "none" => /\ inq'[s] = Tail(inq[s])
                                    /\ After(inq[s][1]) \subseteq Awaited(sctx'[s])
<1>. DEFINE q == inq[s]
<1>1. /\ derr = "none" /\ inq \in [Streams -> Seq(Tokens)] /\ q \in Seq(Tokens)
  BY DEF ProcessBuffered, IInv, TypeOK
<1>2. CASE q = <<>> \/ s \in bq
  BY <1>1, <1>2 DEF ProcessBuffered, streamVars, ackVars
<1>3. CASE q # <<>> /\ s \notin bq
  <2>1. /\ ReadToken(s, Head(q)) /\ UNCHANGED <<shut, closed>>
        /\ inq' = IF derr' = "none" THEN [inq EXCEPT ![s] = Tail(q)] ELSE inq
    BY <1>3 DEF ProcessBuffered
  <2>2. Head(q) = q[1] /\ q[1] \in Awaited(sctx[s])
    BY <1>1, <1>3 DEF IInv, TokensInOrder, Continues
  <2>3. TokenRead(s, q[1])
    BY <1>1, <1>3, <2>1, <2>2, ReadTokenReads
  <2>4. \A x \in Streams \ {s} : inq'[x] = inq[x]
    BY <1>1, <2>1
  <2>. QED
    BY <1>1, <1>3, <2>1, <2>3, <2>4 DEF TokenRead
<1>. QED
  BY <1>2, <1>3

\* nghttp3_conn_shutdown_stream_read
LEMMA ShutdownStreamReadKeepsIInv ==
  ASSUME IInv, NEW s \in Streams, ShutdownStreamRead(s)
  PROVE  IInv'
<1>. DEFINE Acks == [op : {"Ack", "Cancel"}, stream : Streams]
            ack == [op |-> "Cancel", stream |-> s]
<1>1. /\ written \in Nat /\ written <= dtab.next /\ elen \in Nat
      /\ dbuf \in Seq(Acks) /\ MaxDbuf \in Nat /\ shut \in SUBSET Streams
  BY DecoderAssumption DEF IInv, TypeOK, ReadingImpliesReceived
<1>2. CASE DbufOverflow
  BY <1>2, FailKeepsIInv DEF ShutdownStreamRead, Errors
<1>3. CASE ~DbufOverflow
  <2>1. /\ UNCHANGED <<tableVars, sctx, bq, inq, got>>
        /\ dbuf' = Append(dbuf, ack) /\ shut' \in {shut, shut \cup {s}}
        /\ written' = written /\ elen' = elen /\ closed' = closed
        /\ mode' = mode /\ derr' = derr /\ derr = "none"
    BY <1>3 DEF ShutdownStreamRead, Cancel
  <2>2. ack \in Acks /\ ~(Len(dbuf) > MaxDbuf)
    BY <1>3 DEF DbufOverflow
  <2>. HIDE DEF ack, Acks
  <2>3. dbuf' \in Seq(Acks) /\ Len(dbuf') <= MaxDbuf + 1
    BY <1>1, <2>1, <2>2
  <2>. QED
    BY <1>1, <2>1, <2>3, StreamsUntouched DEF Acks, Errors
<1>. QED
  BY <1>2, <1>3

\* nghttp3_conn_close_stream: nothing of the stream is left behind.
LEMMA CloseStreamKeepsIInv ==
  ASSUME IInv, NEW s \in Streams, CloseStream(s)
  PROVE  IInv'
<1>. DEFINE Acks == [op : {"Ack", "Cancel"}, stream : Streams]
            ack == [op |-> "Cancel", stream |-> s]
<1>1. /\ dbuf \in Seq(Acks) /\ MaxDbuf \in Nat /\ shut \in SUBSET Streams
      /\ closed \in SUBSET Streams /\ bq \in SUBSET Streams
      /\ inq \in [Streams -> Seq(Tokens)] /\ sctx \in [Streams -> Context]
      /\ IsFiniteSet(bq) /\ Cardinality(bq) <= BlockedStreams
      /\ BlockedStreams \in Nat /\ Len(dbuf) <= MaxDbuf + 1
  BY DecoderAssumption DEF IInv, TypeOK, ParkedStreamsMustWait, DbufBounded
<1>2. CASE s \in bq /\ DbufOverflow
  BY <1>2, FailKeepsIInv DEF CloseStream, Errors
<1>3. CASE ~(s \in bq /\ DbufOverflow)
  <2>1. /\ dbuf' = IF s \in bq THEN Append(dbuf, ack) ELSE dbuf
        /\ bq' = bq \ {s} /\ closed' = closed \cup {s}
        /\ inq' = [inq EXCEPT ![s] = <<>>]
        /\ sctx' = [sctx EXCEPT ![s] = FreshContext] /\ shut' = shut \ {s}
        /\ dtab' = dtab /\ dcap' = dcap /\ written' = written /\ elen' = elen
        /\ got' = got /\ mode' = mode /\ derr' = derr
    BY <1>3 DEF CloseStream, Cancel, BlockedStreamsRemove, tableVars
  <2>2. ack \in Acks /\ (s \in bq => ~(Len(dbuf) > MaxDbuf))
    BY <1>3 DEF DbufOverflow
  <2>. HIDE DEF ack, Acks
  <2>3. dbuf' \in Seq(Acks) /\ Len(dbuf') <= MaxDbuf + 1
    BY <1>1, <2>1, <2>2
  <2>4. FreshContext \in Context /\ FreshContext.state = "RICNT"
    BY DEF FreshContext, Context, States
  <2>5. /\ inq' \in [Streams -> Seq(Tokens)] /\ inq'[s] = <<>>
        /\ sctx' \in [Streams -> Context] /\ sctx'[s] = FreshContext
        /\ \A x \in Streams \ {s} : inq'[x] = inq[x] /\ sctx'[x] = sctx[x]
    BY <1>1, <2>1, <2>4
  <2>6. IsFiniteSet(bq') /\ Cardinality(bq') <= BlockedStreams
    <3>1. IsFiniteSet(bq') /\ Cardinality(bq') <= Cardinality(bq)
      BY <1>1, <2>1, FS_Subset
    <3>2. Cardinality(bq') \in Nat /\ Cardinality(bq) \in Nat
      BY <1>1, <3>1, FS_CardinalityType
    <3>. QED
      BY <1>1, <3>1, <3>2
  <2>7. TypeOK'
    BY <1>1, <2>1, <2>3, <2>5 DEF IInv, TypeOK, Acks
  <2>8. TableFits' /\ DbufBounded'
    BY <2>1, <2>3 DEF IInv, TableFits, DbufBounded
  <2>9. ParkedStreamsMustWait'
    BY <1>1, <2>1, <2>5, <2>6 DEF IInv, ParkedStreamsMustWait
  <2>10. ReadingImpliesReceived'
    BY <2>1, <2>4, <2>5 DEF IInv, ReadingImpliesReceived
  <2>11. BufferReadFirst'
    BY <2>1, <2>5 DEF IInv, BufferReadFirst
  <2>12. TokensInOrder'
    <3>1. Continues(<<>>, FreshContext)
      BY DEF Continues
    <3>. QED
      BY <2>1, <2>5, <3>1 DEF IInv, TokensInOrder
  <2>. QED
    BY <2>6, <2>7, <2>8, <2>9, <2>10, <2>11, <2>12 DEF IInv
<1>. QED
  BY <1>2, <1>3

\* nghttp3_qpack_decoder_write_decoder
LEMMA WriteDecoderKeepsIInv ==
  ASSUME IInv, WriteDecoder
  PROVE  IInv'
<1>1. /\ UNCHANGED <<tableVars, sctx, bq, inq, got>> /\ shut' = shut
      /\ closed' = closed /\ written' = Max({written, dtab.next})
      /\ dbuf' = <<>> /\ elen' = elen /\ mode' = mode /\ derr' = derr
  BY DEF WriteDecoder, streamVars
<1>2. /\ written \in Nat /\ dtab.next \in Nat /\ written <= dtab.next
      /\ elen \in Nat /\ MaxDbuf \in Nat /\ shut \in SUBSET Streams
      /\ derr \in Errors
  BY DecoderAssumption DEF IInv, TypeOK, IsTable, ReadingImpliesReceived
<1>3. written' \in Nat /\ written' <= dtab.next
  <2>. DEFINE S == {written, dtab.next}
  <2>1. S \in SUBSET Nat /\ S # {} /\ \A n \in S : n <= dtab.next
    BY <1>2
  <2>. HIDE DEF S
  <2>2. Max(S) \in S
    BY <1>2, <2>1, MaxIsGreatest
  <2>. QED
    BY <1>1, <1>2, <2>2 DEF S
<1>4. /\ dbuf' \in Seq([op : {"Ack", "Cancel"}, stream : Streams])
      /\ Len(dbuf') <= MaxDbuf + 1
  BY <1>1, <1>2
<1>. QED
  BY <1>1, <1>2, <1>3, <1>4, StreamsUntouched

-----------------------------------------------------------------------------
(* The theorems *)

\* The decoder starts with an empty table and nothing buffered.
LEMMA InitIInv == Init => IInv
<1>. SUFFICES ASSUME Init PROVE IInv
  OBVIOUS
<1>1. /\ dtab = EmptyTable /\ dcap = 0 /\ written = 0 /\ dbuf = <<>> /\ elen = 0
      /\ sctx = [s \in Streams |-> FreshContext] /\ bq = {}
      /\ inq = [s \in Streams |-> <<>>] /\ shut = {} /\ closed = {}
      /\ got = [s \in Streams |-> <<>>] /\ mode = "idle" /\ derr = "none"
  BY DEF Init
<1>2. /\ IsTable(EmptyTable) /\ EmptyTable.next = 0 /\ Size(EmptyTable) = 0
  BY DEF IsTable, EmptyTable, Live, Size, SizeFrom, Entry
<1>3. FreshContext \in Context /\ FreshContext.state = "RICNT"
  BY DEF FreshContext, Context, States
<1>4. IsFiniteSet(bq) /\ Cardinality(bq) = 0
  BY <1>1, FS_EmptySet
<1>5. TypeOK
  <2>1. DecHardMax \in Nat /\ 0 \in 0 .. DecHardMax
    BY DecoderAssumption
  <2>. QED
    BY <1>1, <1>2, <1>3, <2>1 DEF TypeOK, Modes, Errors
<1>6. TableFits /\ DbufBounded
  BY <1>1, <1>2, DecoderAssumption DEF TableFits, DbufBounded
<1>7. ParkedStreamsMustWait /\ ReadingImpliesReceived /\ BufferReadFirst
  BY <1>1, <1>2, <1>3, <1>4, DecoderAssumption
  DEF ParkedStreamsMustWait, ReadingImpliesReceived, BufferReadFirst
<1>8. TokensInOrder
  BY <1>1 DEF TokensInOrder, Continues
<1>. QED
  BY <1>4, <1>5, <1>6, <1>7, <1>8 DEF IInv

\* Every step keeps the invariant.
LEMMA NextKeepsIInv ==
  ASSUME IInv, [Next]_vars
  PROVE  IInv'
<1>1. CASE UNCHANGED vars
  BY <1>1, StreamsUntouched
  DEF vars, streamVars, ackVars, IInv, TypeOK, DbufBounded, ReadingImpliesReceived
<1>. QED
  BY <1>1, ReadEncoderKeepsIInv, ReadStreamKeepsIInv, UnblockNextKeepsIInv,
     ProcessBufferedKeepsIInv, ShutdownStreamReadKeepsIInv, CloseStreamKeepsIInv,
     WriteDecoderKeepsIInv
  DEF Next

\* The decoder and the parked streams never leave the invariant, whatever
\* instructions and sections the peer sends and in whatever pieces.
THEOREM DecoderInvariant == Spec => []IInv
  BY InitIInv, NextKeepsIInv, PTL DEF Spec

\* No wakeup is lost: when no call is under way, every parked stream waits
\* for an insertion that has not arrived, and no more streams wait than the
\* local SETTINGS_QPACK_BLOCKED_STREAMS allows.
THEOREM DecoderParkedStreamsMustWait == Spec => []ParkedStreamsMustWait
  BY DecoderInvariant, PTL DEF IInv

\* The lines of a section are read only when its insertions are here, and an
\* insertion is acknowledged only after it has arrived.
THEOREM DecoderReadingImpliesReceived == Spec => []ReadingImpliesReceived
  BY DecoderInvariant, PTL DEF IInv

\* What was buffered for a parked stream is read before what comes later.
THEOREM DecoderBufferReadFirst == Spec => []BufferReadFirst
  BY DecoderInvariant, PTL DEF IInv

\* The decoder's table stays within the capacity the peer set, that capacity
\* within the limit announced, and the buffer for the decoder stream within
\* one instruction of its own limit.
THEOREM DecoderBounded ==
  Spec => [](Size(dtab) <= dcap /\ dcap <= DecHardMax /\ Len(dbuf) <= MaxDbuf + 1)
<1>1. IInv => Size(dtab) <= dcap /\ dcap <= DecHardMax /\ Len(dbuf) <= MaxDbuf + 1
  BY DecoderAssumption DEF IInv, TypeOK, TableFits, DbufBounded
<1>. QED
  BY <1>1, DecoderInvariant, PTL
-----------------------------------------------------------------------------
\* A call fails with NGHTTP3_ERR_QPACK_FATAL only because too much is buffered
\* for the decoder stream.
FatalIsOverflow == derr = "FATAL" => DbufOverflow

\* Reading a token
LEMMA TokenFatal ==
  ASSUME derr = "none", NEW s, NEW tok, ReadToken(s, tok)
  PROVE  FatalIsOverflow'
<1>1. CASE derr' = "none"
  BY <1>1 DEF FatalIsOverflow
<1>2. CASE derr' # "none"
  <2>1. CASE ReadRicnt(s, tok)
    BY <1>2, <2>1 DEF ReadRicnt, Fail, FatalIsOverflow
  <2>2. CASE ReadBase(s, tok)
    <3>1. \/ Fail("DECOMPRESSION_FAILED")
          \/ ~MayEndSection(s, tok) /\ Fail("FATAL")
      BY <1>2, <2>2 DEF ReadBase
    <3>. QED
      BY <3>1 DEF MayEndSection, Fail, ackVars, FatalIsOverflow, DbufOverflow
  <2>3. CASE ReadLine(s, tok)
    <3>1. \/ Fail("DECOMPRESSION_FAILED")
          \/ ~MayEndSection(s, tok) /\ Fail("FATAL")
      BY <1>2, <2>3 DEF ReadLine
    <3>. QED
      BY <3>1 DEF MayEndSection, Fail, ackVars, FatalIsOverflow, DbufOverflow
  <2>. QED
    BY <2>1, <2>2, <2>3 DEF ReadToken
<1>. QED
  BY <1>1, <1>2

\* Reading an instruction
LEMMA InstructionFatal ==
  ASSUME derr = "none", NEW i, ReadEncoder(i)
  PROVE  FatalIsOverflow'
<1>1. derr' = "none" \/ Fail("ENCODER_STREAM")
  <2>1. \/ Fail("ENCODER_STREAM") \/ SetCapacity(i.cap) \/ AddEntry(NewEntry(i))
    BY DEF ReadEncoder
  <2>2. SetCapacity(i.cap) => derr' = "none" \/ Fail("ENCODER_STREAM")
    BY DEF SetCapacity, Interpreted
  <2>3. AddEntry(NewEntry(i)) => derr' = "none" \/ Fail("ENCODER_STREAM")
    BY DEF AddEntry, Interpreted
  <2>. QED
    BY <2>1, <2>2, <2>3
<1>. QED
  BY <1>1 DEF Fail, FatalIsOverflow

\* Every call, whatever the peer sends
LEMMA CallsFailByOverflow ==
  ASSUME FatalIsOverflow,
         \/ \E i : ReadEncoder(i)
         \/ \E s, tok : ReadStream(s, tok)
         \/ UnblockNext
         \/ \E s : ProcessBuffered(s)
         \/ \E s : ShutdownStreamRead(s)
         \/ \E s : CloseStream(s)
         \/ WriteDecoder
         \/ UNCHANGED vars
  PROVE  FatalIsOverflow'
<1>1. ASSUME NEW i, ReadEncoder(i) PROVE FatalIsOverflow'
  BY <1>1, InstructionFatal DEF ReadEncoder
<1>2. ASSUME NEW s, NEW tok, ReadStream(s, tok) PROVE FatalIsOverflow'
  <2>1. derr = "none" /\ (ReadToken(s, tok) \/ derr' = derr)
    BY <1>2 DEF ReadStream, vars
  <2>. QED
    BY <2>1, TokenFatal DEF FatalIsOverflow
<1>3. CASE UnblockNext
  BY <1>3 DEF UnblockNext, FatalIsOverflow
<1>4. ASSUME NEW s, ProcessBuffered(s) PROVE FatalIsOverflow'
  <2>1. derr = "none" /\ (ReadToken(s, Head(inq[s])) \/ derr' = derr)
    BY <1>4 DEF ProcessBuffered
  <2>. QED
    BY <2>1, TokenFatal DEF FatalIsOverflow
<1>5. ASSUME NEW s, ShutdownStreamRead(s) PROVE FatalIsOverflow'
  <2>1. \/ derr = "none" /\ derr' = derr
        \/ DbufOverflow /\ Fail("FATAL")
    BY <1>5 DEF ShutdownStreamRead
  <2>. QED
    BY <2>1 DEF Fail, ackVars, FatalIsOverflow, DbufOverflow
<1>6. ASSUME NEW s, CloseStream(s) PROVE FatalIsOverflow'
  <2>1. \/ derr = "none" /\ derr' = derr
        \/ DbufOverflow /\ Fail("FATAL")
    BY <1>6 DEF CloseStream
  <2>. QED
    BY <2>1 DEF Fail, ackVars, FatalIsOverflow, DbufOverflow
<1>7. CASE WriteDecoder
  BY <1>7 DEF WriteDecoder, FatalIsOverflow
<1>8. CASE UNCHANGED vars
  BY <1>8 DEF vars, ackVars, FatalIsOverflow, DbufOverflow
<1>. QED
  BY <1>1, <1>2, <1>3, <1>4, <1>5, <1>6, <1>7, <1>8
=============================================================================
