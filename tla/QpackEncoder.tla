---------------------------- MODULE QpackEncoder ----------------------------
(***************************************************************************)
(* The QPACK encoder of lib/nghttp3_qpack.c (struct nghttp3_qpack_encoder) *)
(* against an arbitrary peer: any Section Acknowledgment, Stream           *)
(* Cancellation or Insert Count Increment may arrive between two calls.    *)
(*                                                                         *)
(* One call of nghttp3_qpack_encoder_encode is the steps BeginEncode,      *)
(* EncodeNv once per field, FinishEncode.  The library is single threaded: *)
(* while cur is a section under construction nothing else touches the      *)
(* encoder, and every other action is disabled.  What the call writes is   *)
(* collected in cur (ins is ebuf, lines is rbuf) and leaves with           *)
(* FinishEncode, as in nghttp3_stream_write_header_block.                  *)
(***************************************************************************)
EXTENDS QpackTable, Sequences

CONSTANTS
  Streams,          \* stream identifiers
  Fields,           \* header fields: [name, value, mode]
  StaticNames,      \* names in the static table
  StaticPairs,      \* <<name, value>> pairs in the static table
  HardMax,          \* hard_max_dtable_capacity
  Capacities,       \* arguments of set_max_dtable_capacity
  BlockedLimits,    \* arguments of set_max_blocked_streams
  MaxQpackStreams,  \* NGHTTP3_QPACK_MAX_QPACK_STREAMS
  MaxDecoderLen,    \* NGHTTP3_QPACK_MAX_DECODERLEN, in instructions
  MaxLines,         \* bound: fields of one section
  MaxRefs,          \* bound: unacknowledged sections of one stream
  MaxInserts,       \* bound: insertions in a behaviour
  NoSection         \* the value of cur outside a call of encode

ASSUME EncoderAssumption ==
  /\ Fields \subseteq [name : Names, value : Values,
                       mode : {"STORE", "LITERAL", "NEVER"}]
  /\ StaticPairs \subseteq StaticNames \X Values
  /\ HardMax \in Nat
  /\ Capacities \subseteq Nat /\ BlockedLimits \subseteq Nat
  /\ MaxQpackStreams \in Nat \ {0} /\ MaxDecoderLen \in Nat
  /\ MaxLines \in Nat /\ MaxRefs \in Nat /\ MaxInserts \in Nat
  /\ IsFiniteSet(Streams)

\* What a call of encode writes: to the encoder stream, to the request stream.
Instruction ==
  [op : {"SetCap"}, cap : Nat]
    \cup [op : {"InsertStatic", "InsertLiteral"}, name : Names, value : Values]
    \cup [op : {"InsertDynamic"}, idx : Nat, value : Values]
    \cup [op : {"Duplicate"}, idx : Nat]
FieldLine ==
  [op : {"Indexed", "IndexedPB"}, idx : Nat]
    \cup [op : {"Name", "NamePB"}, idx : Nat, value : Values]
    \cup [op : {"StaticIndexed", "StaticName", "Literal"}, name : Names, value : Values]

\* The locals of encode, with what it has written so far.
Section == [stream : Streams, base : Nat, allow : BOOLEAN, cnts : SUBSET Nat,
            lines : Seq(FieldLine), ins : Seq(Instruction)]

ASSUME NoSectionAssumption == NoSection \notin Section

VARIABLES
  tab,          \* ctx.dtable, dtable_sum, next_absidx
  cap,          \* ctx.max_dtable_capacity
  maxBlocked,   \* ctx.max_blocked_streams
  krcnt,        \* known received count
  refs,         \* [Streams -> unacknowledged sections, oldest first]; a
                \* stream without one is not in the map encoder->streams
  blocked,      \* the keys of the skip list blocked_streams
  pending,      \* NGHTTP3_QPACK_ENCODER_FLAG_PENDING_SET_DTABLE_CAP
  minUpd,       \* min_dtable_update
  lastUpd,      \* last_max_dtable_update
  declen,       \* uninterrupted_decoderlen
  ebad,         \* ctx.bad
  cur           \* the section under construction

capVars == <<cap, pending, minUpd, lastUpd>>
ackVars == <<krcnt, refs, blocked>>
vars == <<tab, capVars, maxBlocked, ackVars, declen, ebad, cur>>

SizeMax == HardMax + 1   \* SIZE_MAX: larger than every capacity

Init ==
  /\ tab = EmptyTable
  /\ cap = 0 /\ maxBlocked = 0
  /\ krcnt = 0 /\ refs = [s \in Streams |-> <<>>] /\ blocked = {}
  /\ pending = FALSE /\ minUpd = SizeMax /\ lastUpd = 0
  /\ declen = 0 /\ ebad = FALSE /\ cur = NoSection

-----------------------------------------------------------------------------
(* Unacknowledged sections and blocked streams *)

\* nghttp3_qpack_stream_get_max_cnt, on the stream's queue of references
TopCnt(q) == IF q = <<>> THEN 0 ELSE Max({q[i].max_cnt : i \in DOMAIN q})

KnownStreams == {s \in Streams : refs[s] # <<>>}
IsBlocked(s) == s \in KnownStreams /\ krcnt < TopCnt(refs[s])
Key(cnt, s) == [max_cnt |-> cnt, id |-> s]

\* The contents of the priority queue min_cnts; its top is get_min_cnt.
MinCnts == UNION {{refs[s][i].min_cnt : i \in DOMAIN refs[s]} : s \in Streams}

\* A stream stays blocked although its last insertion is known.
KeysAbove_Bug(cnt) == {k \in blocked : k.max_cnt >= cnt}

\* nghttp3_qpack_encoder_unblock: what is left above the count
KeysAbove(cnt) == {k \in blocked : k.max_cnt > cnt}

-----------------------------------------------------------------------------
(* Changing the limits *)

Truncated(c) == Min({c, HardMax})

SetMaxDtableCapacity(c) ==
  LET m == Truncated(c) IN
  /\ cur = NoSection /\ m # cap
  /\ pending' = TRUE
  /\ lastUpd' = m
  /\ IF minUpd > m THEN minUpd' = m /\ cap' = m ELSE UNCHANGED <<minUpd, cap>>
  /\ UNCHANGED <<tab, maxBlocked, ackVars, declen, ebad, cur>>

SetMaxBlockedStreams(n) ==
  /\ cur = NoSection
  /\ maxBlocked' = n
  /\ UNCHANGED <<tab, capVars, ackVars, declen, ebad, cur>>

-----------------------------------------------------------------------------
(* Encoding a section *)

\* nghttp3_qpack_encoder_shrink_dtable: pop the oldest entries until the
\* table fits or the oldest one is the smallest count still referenced.
ShrinkStops ==
  {d \in tab.first .. tab.next :
     \/ SizeFrom(tab, d) <= cap
     \/ MinCnts # {} /\ d + 1 = Min(MinCnts)}

\* The table is not shrunk to a reduced capacity.
ShrunkTable_Bug == tab

ShrunkTable == DropTo(tab, Min(ShrinkStops))

SetCap(c) == [op |-> "SetCap", cap |-> c]

\* The smallest capacity is announced last.
CapInstructions_Bug ==
  <<SetCap(lastUpd)>> \o (IF minUpd < lastUpd THEN <<SetCap(minUpd)>> ELSE <<>>)

CapInstructions ==
  (IF minUpd < lastUpd THEN <<SetCap(minUpd)>> ELSE <<>>) \o <<SetCap(lastUpd)>>

\* One blocked stream too many.
MayBlock_Bug(s) == IsBlocked(s) \/ maxBlocked >= Cardinality(blocked)

\* allow_blocking: may the section refer to unacknowledged insertions?
MayBlock(s) == IsBlocked(s) \/ maxBlocked > Cardinality(blocked)

\* encode up to the loop over the fields, with process_dtable_update
BeginEncode(s) ==
  LET fits == Size(ShrunkTable) <= cap /\ pending IN
  /\ ~ebad /\ cur = NoSection
  /\ Len(refs[s]) < MaxRefs /\ tab.next + MaxLines <= MaxInserts
  /\ tab' = ShrunkTable
  /\ IF fits THEN pending' = FALSE /\ minUpd' = SizeMax /\ cap' = lastUpd
             ELSE UNCHANGED <<pending, minUpd, cap>>
  /\ cur' = [stream |-> s, base |-> tab.next,
             allow  |-> MayBlock(s),
             cnts   |-> {}, lines |-> <<>>,
             ins    |-> IF fits THEN CapInstructions ELSE <<>>]
  /\ UNCHANGED <<lastUpd, maxBlocked, ackVars, declen, ebad>>

\* qpack_encoder_decide_indexing_mode: f.mode is what the name and the flags
\* of the field ask for; a large field is not worth storing.
IndexingMode(f) ==
  IF f.mode = "STORE" /\ TableSpace(f.name, f.value) > (cap * 3) \div 4
  THEN "LITERAL" ELSE f.mode

\* nghttp3_qpack_lookup_stable
StaticExact(f) == <<f.name, f.value>> \in StaticPairs /\ f.mode # "NEVER"
StaticName(f) == f.name \in StaticNames

\* encoder_qpack_map_find: entries with the name that are within the
\* capacity; an entry above krcnt may be used only by a section allowed to
\* block.  The newest usable entry wins, one with the value before others.
SameName(f) ==
  IF Cardinality(KnownStreams) < MaxQpackStreams
  THEN {a \in Live(tab) : tab.ent[a].name = f.name /\ CanReference(tab, a, cap)}
  ELSE {}

\* A count is mistaken for an index.
Usable_Bug(f) == {a \in SameName(f) : cur.allow \/ a <= krcnt}

Usable(f) == {a \in SameName(f) : cur.allow \/ a + 1 <= krcnt}
SameValue(f) == {a \in SameName(f) : tab.ent[a].value = f.value}

\* An entry with the name is taken for one with the value too.
Exact_Bug(f) == IF f.mode = "NEVER" THEN {} ELSE Usable(f)

Exact(f) == IF f.mode = "NEVER" THEN {} ELSE Usable(f) \cap SameValue(f)
PostBaseMatch(f) == SameValue(f) \ Usable(f)

\* just_index: the field is to be stored unless a copy is on its way.  A
\* connection with too many streams uses no table at all.
JustIndex(f) ==
  /\ Cardinality(KnownStreams) < MaxQpackStreams
  /\ IndexingMode(f) = "STORE" /\ PostBaseMatch(f) = {}

\* The references of the other sections are forgotten.
CanIndexBlind_Bug(need, used) ==
  LET pins  == used
      avail == IF cap > Size(tab) THEN cap - Size(tab) ELSE 0
      oldest == Min(pins) - 1
  IN  \/ cap > Size(tab) /\ need <= avail
      \/ pins = {} /\ need <= cap
      \/ /\ pins # {} /\ oldest # tab.first
         /\ need <= avail + tab.ent[oldest].sum - tab.ent[tab.first].sum

\* qpack_encoder_can_index: need bytes fit without evicting an entry that
\* an unacknowledged section (or this one, through used) refers to.
CanIndex(need, used) ==
  LET pins  == MinCnts \cup used
      avail == IF cap > Size(tab) THEN cap - Size(tab) ELSE 0
      oldest == Min(pins) - 1
  IN  \/ cap > Size(tab) /\ need <= avail
      \/ pins = {} /\ need <= cap
      \/ /\ pins # {} /\ oldest # tab.first
         /\ need <= avail + tab.ent[oldest].sum - tab.ent[tab.first].sum

\* write_dynamic_indexed and write_dynamic_indexed_name
IndexedLine(a) ==
  IF a < cur.base THEN [op |-> "Indexed", idx |-> cur.base - a - 1]
                  ELSE [op |-> "IndexedPB", idx |-> a - cur.base]
NameLine(a, v) ==
  IF a < cur.base THEN [op |-> "Name", idx |-> cur.base - a - 1, value |-> v]
                  ELSE [op |-> "NamePB", idx |-> a - cur.base, value |-> v]

\* cur, with more instructions, lines and references.
Extended(ins, lines, used) ==
  [stream |-> cur.stream, base |-> cur.base, allow |-> cur.allow,
   cnts   |-> cur.cnts \cup used,
   lines  |-> cur.lines \o lines, ins |-> cur.ins \o ins]

Write(line, used) == cur' = Extended(<<>>, <<line>>, used) /\ UNCHANGED tab

\* Insert an entry, and write the instruction and the field line.
Insert(f, ins, line, used) ==
  /\ tab' = TableAdd(tab, f.name, f.value, cap)
  /\ cur' = Extended(<<ins>>, <<line>>, used)

\* The same when the section may refer to the new entry at once.
InsertAndRefer(f, ins) ==
  Insert(f, ins, IndexedLine(tab.next), {tab.next + 1})

\* An index of an encoder instruction, relative to the last insertion.
RelIndex(a) == tab.next - a - 1

EncodeStaticIndexed(f) ==
  /\ StaticExact(f)
  /\ Write([op |-> "StaticIndexed", name |-> f.name, value |-> f.value], {})

\* An exact match; one about to be evicted is first duplicated.
ShouldDuplicate(f, a) ==
  /\ cur.allow /\ CheckDraining(tab, a, cap)
  /\ CanIndex(TableSpace(f.name, f.value), cur.cnts)

EncodeDynamicIndexed(f) ==
  LET a == Max(Exact(f)) IN
  /\ ~StaticExact(f) /\ Exact(f) # {}
  /\ IF ShouldDuplicate(f, a)
     THEN InsertAndRefer(f, [op |-> "Duplicate", idx |-> RelIndex(a)])
     ELSE Write(IndexedLine(a), {a + 1})

EncodeStaticName(f) ==
  LET ins  == [op |-> "InsertStatic", name |-> f.name, value |-> f.value]
      line == [op |-> "StaticName", name |-> f.name, value |-> f.value]
  IN
  /\ ~StaticExact(f) /\ Exact(f) = {} /\ StaticName(f)
  /\ IF JustIndex(f) /\ CanIndex(TableSpace(f.name, f.value), cur.cnts)
     THEN IF cur.allow THEN InsertAndRefer(f, ins) ELSE Insert(f, ins, line, {})
     ELSE Write(line, {})

\* Without leave to block, the entry that lends its name stays referenced
\* and must survive the insertion.
EncodeDynamicName(f) ==
  LET a    == Max(Usable(f))
      ins  == [op |-> "InsertDynamic", idx |-> RelIndex(a), value |-> f.value]
      kept == IF cur.allow THEN {} ELSE {a + 1}
  IN
  /\ Exact(f) = {} /\ ~StaticName(f) /\ Usable(f) # {}
  /\ IF /\ JustIndex(f)
        /\ CanIndex(TableSpace(f.name, f.value), cur.cnts \cup kept)
     THEN IF cur.allow THEN InsertAndRefer(f, ins)
          ELSE Insert(f, ins, NameLine(a, f.value), {a + 1})
     ELSE Write(NameLine(a, f.value), {a + 1})

EncodeLiteral(f) ==
  LET ins  == [op |-> "InsertLiteral", name |-> f.name, value |-> f.value]
      line == [op |-> "Literal", name |-> f.name, value |-> f.value]
  IN
  /\ ~StaticName(f) /\ Usable(f) = {}
  /\ IF JustIndex(f) /\ CanIndex(TableSpace(f.name, f.value), cur.cnts)
     THEN IF cur.allow THEN InsertAndRefer(f, ins) ELSE Insert(f, ins, line, {})
     ELSE Write(line, {})

EncodeNv(f) ==
  /\ cur # NoSection /\ Len(cur.lines) < MaxLines
  /\ \/ EncodeStaticIndexed(f) \/ EncodeDynamicIndexed(f)
     \/ EncodeStaticName(f) \/ EncodeDynamicName(f) \/ EncodeLiteral(f)
  /\ UNCHANGED <<capVars, maxBlocked, ackVars, declen, ebad>>

\* What the finished call puts on the request stream.
CurRicnt == IF cur.cnts = {} THEN 0 ELSE Max(cur.cnts)
CurSection ==
  [prefix |-> EncodePrefix(CurRicnt, cur.base, HardMax), lines |-> cur.lines]

\* qpack_encoder_add_stream_ref
AddStreamRef(s, maxCnt, minCnt) ==
  LET prev  == TopCnt(refs[s])
      moved == IF IsBlocked(s) /\ maxCnt > prev
               THEN blocked \ {Key(prev, s)} ELSE blocked
  IN
  /\ refs' = [refs EXCEPT ![s] =
                Append(@, [max_cnt |-> maxCnt, min_cnt |-> minCnt])]
  /\ blocked' = IF maxCnt > prev /\ krcnt < maxCnt
                THEN moved \cup {Key(maxCnt, s)} ELSE moved

FinishEncode ==
  /\ cur # NoSection
  /\ IF cur.cnts = {} THEN UNCHANGED <<refs, blocked>>
     ELSE AddStreamRef(cur.stream, Max(cur.cnts), Min(cur.cnts))
  /\ declen' = 0 /\ cur' = NoSection
  /\ UNCHANGED <<tab, capVars, maxBlocked, krcnt, ebad>>

-----------------------------------------------------------------------------
(* nghttp3_qpack_encoder_read_decoder, one instruction at a time *)

\* Every instruction counts against the limit on decoder stream data
\* between two sections; over the limit nothing is interpreted.
Read(Process) ==
  /\ ~ebad /\ cur = NoSection /\ declen <= MaxDecoderLen
  /\ declen' = declen + 1
  /\ IF declen < MaxDecoderLen THEN Process
     ELSE UNCHANGED <<ackVars, ebad>>
  /\ UNCHANGED <<tab, capVars, maxBlocked, cur>>

\* nghttp3_qpack_encoder_ack_header
AckHeader(s) ==
  LET cnt == Head(refs[s]).max_cnt IN
  IF refs[s] = <<>> THEN ebad' = TRUE /\ UNCHANGED ackVars
  ELSE /\ IF krcnt < cnt THEN krcnt' = cnt /\ blocked' = KeysAbove(cnt)
          ELSE UNCHANGED <<krcnt, blocked>>
       /\ refs' = [refs EXCEPT ![s] = Tail(@)]
       /\ UNCHANGED ebad

\* nghttp3_qpack_encoder_add_icnt
AddIcnt(n) ==
  IF n = 0 \/ tab.next - krcnt < n THEN ebad' = TRUE /\ UNCHANGED ackVars
  ELSE /\ krcnt' = krcnt + n
       /\ blocked' = KeysAbove(krcnt + n)
       /\ UNCHANGED <<refs, ebad>>

\* nghttp3_qpack_encoder_cancel_stream
CancelStream(s) ==
  /\ blocked' = IF IsBlocked(s) THEN blocked \ {Key(TopCnt(refs[s]), s)}
                ELSE blocked
  /\ refs' = [refs EXCEPT ![s] = <<>>]
  /\ UNCHANGED <<krcnt, ebad>>

ReadSectionAck(s) == Read(AckHeader(s))
ReadInsertCountIncrement(n) == Read(AddIcnt(n))
ReadStreamCancel(s) == Read(CancelStream(s))

\* nghttp3_qpack_encoder_ack_everything, for a peer without a decoder stream
AckEverything ==
  /\ cur = NoSection
  /\ krcnt' = tab.next /\ blocked' = {} /\ refs' = [s \in Streams |-> <<>>]
  /\ UNCHANGED <<tab, capVars, maxBlocked, declen, ebad, cur>>

Next ==
  \/ \E c \in Capacities : SetMaxDtableCapacity(c)
  \/ \E n \in BlockedLimits : SetMaxBlockedStreams(n)
  \/ \E s \in Streams : BeginEncode(s)
  \/ \E f \in Fields : EncodeNv(f)
  \/ FinishEncode
  \/ \E s \in Streams : ReadSectionAck(s)
  \/ \E n \in 0 .. MaxInserts : ReadInsertCountIncrement(n)
  \/ \E s \in Streams : ReadStreamCancel(s)
  \/ AckEverything

Spec == Init /\ [][Next]_vars
=============================================================================
