-------------------------------- MODULE Qpack -------------------------------
(***************************************************************************)
(* A QPACK encoder and a QPACK decoder of nghttp3 joined by the streams of *)
(* a QUIC connection: the encoder stream, the decoder stream and one       *)
(* request stream per header list.  Each is reliable and ordered, and they *)
(* are delivered independently of each other, a piece at a time.           *)
(*                                                                         *)
(* The endpoints share nothing but these streams, so a call on one side is *)
(* left to finish before the other side moves.  Stopping to read a stream  *)
(* is left to module QpackDecoder.                                         *)
(***************************************************************************)
EXTENDS Integers, Sequences, FiniteSetsExt, TLC

CONSTANTS
  Names, Values, NameLen, ValueLen,
  Streams, Fields, StaticNames, StaticPairs,
  HardMax, Capacities, MaxQpackStreams, MaxDecoderLen,
  MaxLines, MaxRefs, MaxInserts, NoSection,
  DecHardMax, BlockedStreams, MaxDbuf, MaxEncoderLen,
  MaxSections,   \* bound: sections of one stream (a header and a trailer)
  TotalSections, \* bound: sections of all streams
  MaxLag,        \* assumption on the network: how many insertions the
                 \* decoder may be behind when a section is encoded
  MaxCapUpdates, \* bound: changes of the capacity
  MayClose       \* streams the receiving application may close early

VARIABLES
  tab, cap, maxBlocked, krcnt, refs, blocked, pending, minUpd, lastUpd,
  declen, ebad, cur,
  dtab, dcap, written, dbuf, elen, sctx, bq, inq, shut, closed, got, mode,
  derr,
  estream,    \* instructions on their way to the decoder
  dstream,    \* acknowledgments on their way to the encoder
  rstream,    \* per stream: section tokens on their way to the decoder
  want,       \* per stream: the fields handed to encode
  sections,   \* per stream: how many sections were encoded
  settings,   \* has the decoder's SETTINGS frame arrived?
  capUpdates  \* how often the capacity was changed

Enc == INSTANCE QpackEncoder WITH BlockedLimits <- {}
Dec == INSTANCE QpackDecoder WITH
         Instructions <- {}, Tokens <- {}, MaxInsertsReceived <- MaxInserts,
         MaxBuffered <- MaxSections * (MaxLines + 2),
         MaxFields <- MaxSections * MaxLines

ASSUME QpackAssumption ==
  /\ Enc!EncoderAssumption /\ Enc!LenAssumption /\ Enc!NoSectionAssumption
  /\ Dec!DecoderAssumption /\ MayClose \subseteq Streams

encVars == <<tab, cap, maxBlocked, krcnt, refs, blocked, pending, minUpd,
             lastUpd, declen, ebad, cur>>
decVars == <<dtab, dcap, written, dbuf, elen, sctx, bq, inq, shut, closed,
             got, mode, derr>>
netVars == <<estream, dstream, rstream>>
appVars == <<want, sections, settings, capUpdates>>
vars == <<encVars, decVars, netVars, appVars>>

Init ==
  /\ Enc!Init /\ Dec!Init
  /\ estream = <<>> /\ dstream = <<>>
  /\ rstream = [s \in Streams |-> <<>>]
  /\ want = [s \in Streams |-> <<>>]
  /\ sections = [s \in Streams |-> 0] /\ settings = FALSE /\ capUpdates = 0

-----------------------------------------------------------------------------
(* The encoding side *)

\* nghttp3_conn_on_settings_entry_received: one SETTINGS frame carries the
\* decoder's capacity and its number of blocked streams.  Nothing can be
\* inserted before it arrives.
ReceiveSettings ==
  LET m == Min({DecHardMax, HardMax}) IN
  /\ mode = "idle" /\ cur = NoSection /\ ~settings
  /\ settings' = TRUE
  /\ IF m = cap THEN UNCHANGED <<cap, pending, minUpd, lastUpd>>
     ELSE pending' = TRUE /\ cap' = m /\ minUpd' = m /\ lastUpd' = m
  /\ maxBlocked' = Min({100, BlockedStreams})
  /\ UNCHANGED <<tab, krcnt, refs, blocked, declen, ebad, cur,
                 decVars, netVars, want, sections, capUpdates>>

\* An application that uses the encoder by itself may change the capacity.
SetCapacity(c) ==
  /\ mode = "idle" /\ settings /\ capUpdates < MaxCapUpdates
  /\ Enc!SetMaxDtableCapacity(c)
  /\ capUpdates' = capUpdates + 1
  /\ UNCHANGED <<decVars, netVars, want, sections, settings>>

BeginEncode(s) ==
  /\ mode = "idle" /\ sections[s] < MaxSections
  /\ MapThenSumSet(LAMBDA x : sections[x], Streams) < TotalSections
  /\ tab.next + MaxLines <= dtab.next + MaxLag
  /\ Enc!BeginEncode(s)
  /\ sections' = [sections EXCEPT ![s] = @ + 1]
  /\ UNCHANGED <<decVars, netVars, want, settings, capUpdates>>

EncodeNv(f) ==
  /\ Enc!EncodeNv(f)
  /\ want' = [want EXCEPT ![cur.stream] =
                Append(@, [name |-> f.name, value |-> f.value])]
  /\ UNCHANGED <<decVars, netVars, sections, settings, capUpdates>>

\* A field line as the decoder meets it: it knows where the section ends.
Delivered(line, fin) ==
  [x \in DOMAIN line \cup {"fin"} |-> IF x = "fin" THEN fin ELSE line[x]]

\* The bytes of a section, as the decoder interprets them.
Wire(section) ==
  LET n == Len(section.lines)
      p == section.prefix
  IN  << [op |-> "Ricnt", encricnt |-> p.encricnt],
         [op |-> "Base", sign |-> p.sign, delta |-> p.delta, fin |-> n = 0] >>
      \o [i \in 1 .. n |-> Delivered(section.lines[i], i = n)]

FinishEncode ==
  /\ Enc!FinishEncode
  /\ estream' = estream \o cur.ins
  /\ rstream' = [rstream EXCEPT ![cur.stream] = @ \o Wire(Enc!CurSection)]
  /\ UNCHANGED <<decVars, dstream, appVars>>

ReadDecoderStream ==
  /\ mode = "idle" /\ dstream # <<>>
  /\ LET i == Head(dstream) IN
       CASE i.op = "Ack"    -> Enc!ReadSectionAck(i.stream)
         [] i.op = "Cancel" -> Enc!ReadStreamCancel(i.stream)
         [] i.op = "Inc"    -> Enc!ReadInsertCountIncrement(i.n)
  /\ dstream' = Tail(dstream)
  /\ UNCHANGED <<decVars, estream, rstream, appVars>>

-----------------------------------------------------------------------------
(* The decoding side *)

ReadEncoderStream ==
  /\ cur = NoSection /\ estream # <<>>
  /\ Dec!ReadEncoder(Head(estream))
  /\ estream' = Tail(estream)
  /\ UNCHANGED <<encVars, dstream, rstream, appVars>>

ReadRequestStream(s) ==
  /\ cur = NoSection /\ rstream[s] # <<>>
  /\ Dec!ReadStream(s, Head(rstream[s]))
  /\ rstream' = [rstream EXCEPT ![s] = Tail(@)]
  /\ UNCHANGED <<encVars, estream, dstream, appVars>>

Resume ==
  /\ Dec!UnblockNext \/ \E s \in Streams : Dec!ProcessBuffered(s)
  /\ UNCHANGED <<encVars, netVars, appVars>>

WriteDecoderStream ==
  /\ cur = NoSection
  /\ Dec!WriteDecoder
  /\ dstream' = dstream \o Dec!DecoderStream
  /\ UNCHANGED <<encVars, estream, rstream, appVars>>

CloseStream(s) ==
  /\ cur = NoSection
  /\ Dec!CloseStream(s)
  /\ UNCHANGED <<encVars, netVars, appVars>>

-----------------------------------------------------------------------------
Encode == \/ \E f \in Fields : EncodeNv(f)
          \/ FinishEncode
Deliver == \/ ReadEncoderStream \/ ReadDecoderStream \/ Resume
           \/ \E s \in Streams : ReadRequestStream(s)

Next ==
  \/ \E c \in Capacities : SetCapacity(c)
  \/ ReceiveSettings
  \/ \E s \in Streams : BeginEncode(s)
  \/ Encode
  \/ Deliver
  \/ WriteDecoderStream
  \/ \E s \in MayClose : CloseStream(s)

Spec == Init /\ [][Next]_vars

\* A call that was begun ends; QUIC delivers every stream; whenever there is
\* decoder stream data nghttp3_conn_writev_stream is called and writes it.
Fairness ==
  /\ WF_vars(FinishEncode)
  /\ WF_vars(ReadEncoderStream)
  /\ WF_vars(ReadDecoderStream)
  /\ WF_vars(Resume)
  /\ \A s \in Streams : WF_vars(ReadRequestStream(s))
  /\ WF_vars(WriteDecoderStream)

FairSpec == Spec /\ Fairness
=============================================================================
