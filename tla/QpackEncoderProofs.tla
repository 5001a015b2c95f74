------------------------- MODULE QpackEncoderProofs -------------------------
(***************************************************************************)
(* Proofs about the QPACK encoder, for any streams, fields, capacities and *)
(* limits.                                                                 *)
(***************************************************************************)
EXTENDS QpackEncoderProps, QpackTableProofs, FiniteSetTheorems

\* The size of a field as an entry is a natural.
LEMMA SpaceType ==
  ASSUME NEW f \in Fields
  PROVE  /\ f.name \in Names /\ f.value \in Values
         /\ TableSpace(f.name, f.value) \in Nat
<1>1. f.name \in Names /\ f.value \in Values
  BY EncoderAssumption
<1>2. NameLen[f.name] \in Nat /\ ValueLen[f.value] \in Nat
  BY <1>1, LenAssumption
<1>. QED
  BY <1>1, <1>2 DEF TableSpace, ENTRY_OVERHEAD

\* Every count still referenced is the count of a live entry.
LEMMA PinsAreLive ==
  ASSUME TypeOK, ReferencedEntriesLive
  PROVE  /\ MinCnts \in SUBSET (tab.first + 1 .. tab.next)
         /\ tab.first \in Nat /\ tab.next \in Nat /\ tab.first <= tab.next
         /\ cur # NoSection => cur.cnts \in SUBSET (tab.first + 1 .. tab.next)
<1>1. ASSUME NEW s \in Streams, NEW i \in DOMAIN refs[s]
      PROVE  refs[s][i].min_cnt \in tab.first + 1 .. tab.next
  <2>1. refs[s][i] \in Ref
    BY DEF TypeOK
  <2>. QED
    BY <2>1, SMTT(60) DEF TypeOK, IsTable, ReferencedEntriesLive, Ref
<1>. QED
  BY <1>1 DEF MinCnts, TypeOK, IsTable, ReferencedEntriesLive

-----------------------------------------------------------------------------
(* The two operations that evict *)

\* nghttp3_qpack_encoder_shrink_dtable stops at the oldest entry still
\* referenced, and if the table does not fit by then, at that very entry.
LEMMA ShrinkKeepsPins ==
  ASSUME TypeOK, ReferencedEntriesLive
  PROVE  /\ IsTable(ShrunkTable) /\ ShrunkTable.next = tab.next
         /\ ShrunkTable.first \in tab.first .. tab.next
         /\ \A p \in MinCnts : ShrunkTable.first < p
         /\ Size(ShrunkTable) > cap =>
              /\ Size(tab) > cap
              /\ MinCnts # {} /\ Min(MinCnts) = ShrunkTable.first + 1
<1>. DEFINE S == ShrinkStops
            m == Min(S)
<1>1. IsTable(tab) /\ cap \in Nat /\ tab.first \in Nat /\ tab.next \in Nat
      /\ tab.first <= tab.next
  BY DEF TypeOK, IsTable
<1>2. S \in SUBSET Nat
  BY <1>1 DEF ShrinkStops
<1>3. tab.next \in S
  BY <1>1 DEF ShrinkStops, SizeFrom
<1>4. m \in S /\ \A d \in S : m <= d
  BY <1>2, <1>3, MinIsLeast
<1>5. m \in tab.first .. tab.next
  BY <1>4 DEF ShrinkStops
<1>. HIDE DEF m
<1>6. /\ IsTable(ShrunkTable) /\ ShrunkTable.first = m
      /\ ShrunkTable.next = tab.next /\ Size(ShrunkTable) = SizeFrom(tab, m)
  BY <1>1, <1>5, DropToTable DEF ShrunkTable, m
<1>7. ASSUME NEW p \in MinCnts PROVE m < p
  <2>. DEFINE q == Min(MinCnts)
  <2>1. MinCnts \in SUBSET Nat /\ MinCnts \in SUBSET (tab.first + 1 .. tab.next)
    BY <1>1, PinsAreLive
  <2>2. q \in MinCnts /\ q <= p
    BY <2>1, MinIsLeast
  <2>3. q \in tab.first + 1 .. tab.next
    BY <2>1, <2>2
  <2>4. q - 1 \in S
    BY <1>1, <2>3 DEF ShrinkStops
  <2>5. m <= q - 1
    BY <1>4, <2>4
  <2>6. p \in Nat /\ q \in Nat /\ m \in Nat
    BY <1>1, <1>5, <2>1, <2>3
  <2>. QED
    BY <2>2, <2>5, <2>6
<1>8. ASSUME Size(ShrunkTable) > cap
      PROVE  Size(tab) > cap /\ MinCnts # {} /\ Min(MinCnts) = m + 1
  <2>1. ~(SizeFrom(tab, m) <= cap)
    <3>1. SizeFrom(tab, m) \in Int
      BY <1>1, <1>5 DEF SizeFrom, IsTable, Live, Entry
    <3>. QED
      BY <1>1, <1>6, <1>8, <3>1
  <2>2. MinCnts # {} /\ Min(MinCnts) = m + 1
    BY <1>4, <2>1 DEF ShrinkStops
  <2>3. Size(tab) > cap
    <3>1. Size(tab) \in Int
      BY <1>1 DEF Size, SizeFrom, IsTable, Live, Entry
    <3>2. SUFFICES ASSUME Size(tab) <= cap PROVE FALSE
      BY <1>1, <3>1
    <3>3. tab.first \in S
      BY <1>1, <3>2 DEF ShrinkStops, Size
    <3>4. m = tab.first
      BY <1>1, <1>4, <1>5, <3>3
    <3>. QED
      BY <2>1, <3>2, <3>4 DEF Size
  <2>. QED
    BY <2>2, <2>3
<1>. QED
  BY <1>5, <1>6, <1>7, <1>8

\* What qpack_encoder_can_index grants: the entry fits, and making room for
\* it evicts neither a referenced entry nor one the caller asks to keep.
LEMMA CanIndexKeepsPins ==
  ASSUME TypeOK, ReferencedEntriesLive, OverCapacityOnlyWhilePinned,
         cur # NoSection, NEW f \in Fields,
         NEW kept \in SUBSET (tab.first + 1 .. tab.next),
         CanIndex(TableSpace(f.name, f.value), kept)
  PROVE  LET u == TableAdd(tab, f.name, f.value, cap) IN
         /\ IsTable(u) /\ u.next = tab.next + 1
         /\ u.first \in tab.first .. tab.next
         /\ \A p \in MinCnts \cup kept : u.first < p
         /\ Size(u) <= cap
<1>. DEFINE need == TableSpace(f.name, f.value)
            pins == MinCnts \cup kept
            q == Min(pins)
            u == TableAdd(tab, f.name, f.value, cap)
<1>1. IsTable(tab) /\ cap \in Nat /\ tab.first \in Nat /\ tab.next \in Nat
      /\ tab.first <= tab.next
  BY DEF TypeOK, IsTable
<1>2. need \in Nat /\ f.name \in Names /\ f.value \in Values
  BY SpaceType
<1>3. /\ pins \in SUBSET (tab.first + 1 .. tab.next)
      /\ pins \in SUBSET Nat
  <2>1. pins \in SUBSET (tab.first + 1 .. tab.next)
    BY PinsAreLive, Zenon
  <2>. QED
    BY <1>1, <2>1
<1>4. pins # {} => q \in pins /\ \A p \in pins : q <= p
  BY <1>3, MinIsLeast
<1>5. ASSUME NEW d \in tab.first .. tab.next PROVE SizeFrom(tab, d) \in Int
  BY <1>1 DEF SizeFrom, IsTable, Live, Entry
<1>6. Size(tab) \in Int
  BY <1>1, <1>5 DEF Size
<1>. HIDE DEF q, need
\* Some entry d may be evicted up to, and it is older than every pin.
<1>7. \E d \in FitPoints(tab, need, cap) : \A p \in pins : d < p
  <2>1. CASE cap > Size(tab) /\ need <= cap - Size(tab)
    <3>1. tab.first \in FitPoints(tab, need, cap)
      BY <1>1, <1>2, <1>6, <2>1 DEF FitPoints, Size
    <3>2. \A p \in pins : tab.first < p
      BY <1>1, <1>3
    <3>. QED
      BY <3>1, <3>2
  <2>2. CASE pins = {} /\ need <= cap
    BY <1>1, <1>2, <2>2, EmptyFits
  <2>3. CASE /\ pins # {} /\ q - 1 # tab.first
             /\ need <= (IF cap > Size(tab) THEN cap - Size(tab) ELSE 0)
                          + tab.ent[q - 1].sum - tab.ent[tab.first].sum
    <3>1. q \in tab.first + 1 .. tab.next
      BY <1>3, <1>4, <2>3
    <3>2. Size(tab) <= cap
      <4>1. SUFFICES ASSUME Size(tab) > cap PROVE FALSE
        BY <1>1, <1>6
      <4>2. MinCnts # {} /\ Min(MinCnts) = tab.first + 1
        BY <4>1 DEF OverCapacityOnlyWhilePinned
      <4>3. tab.first + 1 \in pins
        BY <1>1, <1>3, <4>2, MinIsLeast
      <4>4. q <= tab.first + 1
        BY <1>4, <4>3
      <4>. QED
        BY <1>1, <2>3, <3>1, <4>4
    <3>3. q - 1 \in Live(tab) /\ tab.first \in Live(tab)
      BY <1>1, <3>1 DEF Live
    <3>4. tab.ent[q - 1].sum \in Nat /\ tab.ent[tab.first].sum \in Nat /\ tab.sum \in Nat
      BY <1>1, <3>3 DEF IsTable, Entry
    <3>5. Size(tab) = tab.sum - tab.ent[tab.first].sum
      BY <3>3, <1>1 DEF Size, SizeFrom, Live
    <3>6. SizeFrom(tab, q - 1) = tab.sum - tab.ent[q - 1].sum
      BY <3>3, <1>1, <3>1 DEF SizeFrom, Live
    <3>7. need <= cap - Size(tab) + tab.ent[q - 1].sum - tab.ent[tab.first].sum
      BY <1>1, <1>2, <1>6, <2>3, <3>2, <3>4
    <3>8. SizeFrom(tab, q - 1) + need <= cap
      BY <1>1, <1>2, <3>4, <3>5, <3>6, <3>7
    <3>9. q - 1 \in FitPoints(tab, need, cap)
      BY <1>1, <3>1, <3>8 DEF FitPoints
    <3>10. \A p \in pins : q - 1 < p
      <4>1. TAKE p \in pins
      <4>2. p \in Nat /\ q \in Nat /\ q <= p
        BY <1>1, <1>3, <1>4, <3>1
      <4>. QED
        BY <4>2
    <3>. QED
      BY <3>9, <3>10
  <2>. QED
    BY <1>2, <1>6, <1>1, <2>1, <2>2, <2>3 DEF CanIndex, q, need
<1>8. need <= cap
  <2>1. PICK d \in FitPoints(tab, need, cap) : TRUE
    BY <1>7
  <2>2. d \in tab.first .. tab.next /\ SizeFrom(tab, d) + need <= cap
    BY <2>1 DEF FitPoints
  <2>3. SizeFrom(tab, d) >= 0
    BY <1>1, <2>2 DEF SizeFrom, IsTable, Live, Entry
  <2>. QED
    BY <1>1, <1>2, <1>5, <2>2, <2>3
<1>9. /\ IsTable(u) /\ u.next = tab.next + 1 /\ u.first \in tab.first .. tab.next
      /\ \A d \in FitPoints(tab, need, cap) : u.first <= d
      /\ Size(u) <= cap
  BY <1>1, <1>2, <1>8, TableAddTable DEF need
<1>. HIDE DEF u
<1>10. \A p \in pins : u.first < p
  <2>1. PICK d \in FitPoints(tab, need, cap) : \A p \in pins : d < p
    BY <1>7
  <2>2. d \in tab.first .. tab.next /\ u.first <= d
    BY <1>9, <2>1 DEF FitPoints
  <2>. QED
    BY <1>1, <1>3, <1>9, <2>1, <2>2
<1>. QED
  BY <1>9, <1>10 DEF u

-----------------------------------------------------------------------------
(* Writing a field line, with and without an insertion *)

\* What Write and Insert make of the section under construction.
LEMMA SectionExtended ==
  ASSUME TypeOK, cur # NoSection, NEW i, NEW l, NEW used \in SUBSET Nat
  PROVE  LET d == Extended(i, l, used) IN
         IsSection(d) /\ d.cnts = cur.cnts \cup used /\ d.allow = cur.allow
<1>1. IsSection(cur)
  BY DEF TypeOK
<1>. QED
  BY <1>1 DEF IsSection, Extended

\* What a step within a call of encode leaves alone.
InCall == UNCHANGED <<capVars, maxBlocked, ackVars, declen, ebad>>

\* A section may refer to an entry of the table through its count.
MayUse(used) ==
  /\ \A c \in used : cur.allow \/ c <= krcnt
  /\ used # {} => Cardinality(KnownStreams) < MaxQpackStreams

\* A representation that refers to live entries, within the limits of the section.
LEMMA WriteKeepsIInv ==
  ASSUME IInv, cur # NoSection, NEW line,
         NEW used \in SUBSET (tab.first + 1 .. tab.next),
         Write(line, used), InCall, MayUse(used)
  PROVE  IInv'
<1>1. IsTable(tab) /\ tab.first \in Nat /\ tab.next \in Nat
  BY DEF IInv, TypeOK, IsTable
<1>2. used \in SUBSET Nat
  BY <1>1
<1>3. /\ IsSection(cur') /\ cur'.cnts = cur.cnts \cup used
      /\ cur'.allow = cur.allow
  BY <1>2, SectionExtended DEF IInv, Write
<1>4. /\ tab' = tab /\ cap' = cap /\ pending' = pending /\ minUpd' = minUpd
      /\ lastUpd' = lastUpd /\ krcnt' = krcnt /\ refs' = refs
      /\ blocked' = blocked /\ maxBlocked' = maxBlocked /\ declen' = declen
      /\ ebad' = ebad
  BY DEF Write, InCall, capVars, ackVars
<1>5. MinCnts' = MinCnts /\ KnownStreams' = KnownStreams
  BY <1>4 DEF MinCnts, KnownStreams
<1>6. TypeOK'
  BY <1>3, <1>4 DEF IInv, TypeOK
<1>7. ReferencedEntriesLive'
  BY <1>3, <1>4 DEF IInv, ReferencedEntriesLive
<1>8. KnownReceivedSound' /\ PendingCapacity'
  BY <1>4 DEF IInv, KnownReceivedSound, PendingCapacity
<1>9. UnblockedSectionSafe'
  BY <1>3, <1>4 DEF IInv, UnblockedSectionSafe, MayUse
<1>10. OverCapacityOnlyWhilePinned'
  BY <1>4, <1>5 DEF IInv, OverCapacityOnlyWhilePinned
<1>11. StreamLimit' /\ RoomForStream'
  BY <1>3, <1>5 DEF IInv, StreamLimit, RoomForStream, MayUse
<1>. QED
  BY <1>6, <1>7, <1>8, <1>9, <1>10, <1>11 DEF IInv

\* An insertion makes room without evicting what the section refers to.
LEMMA InsertKeepsIInv ==
  ASSUME IInv, cur # NoSection, NEW f \in Fields, NEW i, NEW line,
         NEW kept \in SUBSET (tab.first + 1 .. tab.next), cur.cnts \subseteq kept,
         CanIndex(TableSpace(f.name, f.value), kept),
         NEW used \in SUBSET (kept \cup {tab.next + 1}),
         Insert(f, i, line, used), InCall, MayUse(used)
  PROVE  IInv' /\ Size(tab') <= cap /\ cap' = cap
<1>1. /\ IsTable(tab) /\ tab.first \in Nat /\ tab.next \in Nat
      /\ tab.first <= tab.next /\ krcnt \in Nat /\ cap \in Nat
  BY DEF IInv, TypeOK, IsTable
<1>2. used \in SUBSET Nat
  <2>1. ASSUME NEW c \in used PROVE c \in Nat
    <3>1. c \in kept \/ c = tab.next + 1
      OBVIOUS
    <3>. QED
      BY <1>1, <3>1
  <2>. QED
    BY <2>1
<1>3. /\ IsSection(cur') /\ cur'.cnts = cur.cnts \cup used
      /\ cur'.allow = cur.allow
  BY <1>2, SectionExtended DEF IInv, Insert
<1>4. /\ cap' = cap /\ pending' = pending /\ minUpd' = minUpd
      /\ lastUpd' = lastUpd /\ krcnt' = krcnt /\ refs' = refs
      /\ blocked' = blocked /\ maxBlocked' = maxBlocked /\ declen' = declen
      /\ ebad' = ebad
  BY DEF InCall, capVars, ackVars
<1>5. KnownStreams' = KnownStreams
  BY <1>4 DEF KnownStreams
<1>6. /\ IsTable(tab') /\ tab'.next = tab.next + 1
      /\ tab'.first \in tab.first .. tab.next
      /\ \A p \in MinCnts \cup kept : tab'.first < p
      /\ Size(tab') <= cap
  BY CanIndexKeepsPins DEF IInv, Insert
<1>7. TypeOK'
  BY <1>3, <1>4, <1>6 DEF IInv, TypeOK
<1>8. ReferencedEntriesLive'
  <2>1. ASSUME NEW s \in Streams, NEW j \in DOMAIN refs[s]
        PROVE  /\ tab'.first < refs[s][j].min_cnt
               /\ refs[s][j].min_cnt <= refs[s][j].max_cnt
               /\ refs[s][j].max_cnt <= tab'.next
    <3>1. refs[s][j].min_cnt \in MinCnts
      BY DEF MinCnts
    <3>2. refs[s][j] \in Ref
      BY DEF IInv, TypeOK
    <3>. QED
      BY <1>1, <1>6, <3>1, <3>2 DEF IInv, ReferencedEntriesLive, Ref
  <2>2. ASSUME NEW c \in cur'.cnts PROVE c \in tab'.first + 1 .. tab'.next
    <3>1. c \in kept \/ c = tab.next + 1
      BY <1>3
    <3>2. CASE c \in kept
      <4>1. tab'.first < c /\ c \in tab.first + 1 .. tab.next
        BY <1>6, <3>2
      <4>. QED
        BY <1>1, <1>6, <4>1
    <3>3. CASE c = tab.next + 1
      BY <1>1, <1>6, <3>3
    <3>. QED
      BY <3>1, <3>2, <3>3
  <2>. QED
    BY <1>4, <2>1, <2>2 DEF ReferencedEntriesLive
<1>9. KnownReceivedSound' /\ PendingCapacity'
  BY <1>1, <1>4, <1>6 DEF IInv, KnownReceivedSound, PendingCapacity
<1>10. UnblockedSectionSafe'
  BY <1>3, <1>4 DEF IInv, UnblockedSectionSafe, MayUse
<1>11. OverCapacityOnlyWhilePinned'
  <2>1. Size(tab') \in Int
    BY <1>6 DEF Size, SizeFrom, IsTable, Live, Entry
  <2>. QED
    BY <1>1, <1>4, <1>6, <2>1 DEF OverCapacityOnlyWhilePinned
<1>12. StreamLimit' /\ RoomForStream'
  BY <1>3, <1>5 DEF IInv, StreamLimit, RoomForStream, MayUse
<1>. QED
  BY <1>4, <1>6, <1>7, <1>8, <1>9, <1>10, <1>11, <1>12 DEF IInv

-----------------------------------------------------------------------------
(* One lemma for each step *)

\* The entries the map finds are live, and a section may refer to them.
LEMMA UsableEntries ==
  ASSUME IInv, NEW f \in Fields
  PROVE  /\ \A a \in Usable(f) :
              /\ a \in Live(tab) /\ a + 1 \in tab.first + 1 .. tab.next
              /\ MayUse({a + 1}) /\ Cardinality(KnownStreams) < MaxQpackStreams
         /\ Usable(f) # {} => Max(Usable(f)) \in Usable(f)
         /\ Exact(f) # {} => Max(Exact(f)) \in Usable(f)
<1>1. tab.first \in Nat /\ tab.next \in Nat
  BY DEF IInv, TypeOK, IsTable
<1>2. /\ Usable(f) \in SUBSET Live(tab)
      /\ \A a \in Usable(f) : Cardinality(KnownStreams) < MaxQpackStreams
      /\ \A a \in Usable(f) : cur.allow \/ a + 1 <= krcnt
  BY DEF Usable, SameName
<1>3. Exact(f) \in SUBSET Usable(f)
  BY DEF Exact
<1>4. ASSUME NEW S \in SUBSET Usable(f), S # {} PROVE Max(S) \in S
  <2>1. S \in SUBSET Nat /\ \A n \in S : n <= tab.next
    BY <1>1, <1>2 DEF Live
  <2>. QED
    BY <1>1, <1>4, <2>1, MaxIsGreatest
<1>5. \A a \in Usable(f) : a + 1 \in tab.first + 1 .. tab.next
  BY <1>1, <1>2 DEF Live
<1>. QED
  BY <1>2, <1>3, <1>4, <1>5 DEF MayUse

\* An insertion the section refers to at once.
LEMMA InsertAndReferKeepsIInv ==
  ASSUME IInv, cur # NoSection, cur.allow, NEW f \in Fields, NEW i,
         CanIndex(TableSpace(f.name, f.value), cur.cnts),
         Cardinality(KnownStreams) < MaxQpackStreams,
         InsertAndRefer(f, i), InCall
  PROVE  IInv' /\ Size(tab') <= cap
<1>1. cur.cnts \in SUBSET (tab.first + 1 .. tab.next)
  BY PinsAreLive DEF IInv
<1>2. MayUse({tab.next + 1})
  BY DEF MayUse
<1>. QED
  BY <1>1, <1>2, InsertKeepsIInv DEF InsertAndRefer

\* An insertion the section does not refer to.
LEMMA InsertOnlyKeepsIInv ==
  ASSUME IInv, cur # NoSection, NEW f \in Fields, NEW i, NEW line,
         CanIndex(TableSpace(f.name, f.value), cur.cnts),
         Insert(f, i, line, {}), InCall
  PROVE  IInv' /\ Size(tab') <= cap
<1>1. cur.cnts \in SUBSET (tab.first + 1 .. tab.next)
  BY PinsAreLive DEF IInv
<1>2. MayUse({})
  BY DEF MayUse
<1>. QED
  BY <1>1, <1>2, InsertKeepsIInv

\* A representation that refers to nothing dynamic.
LEMMA WriteOnlyKeepsIInv ==
  ASSUME IInv, cur # NoSection, NEW line, Write(line, {}), InCall
  PROVE  IInv' /\ tab' = tab
  BY WriteKeepsIInv DEF MayUse, Write

\* nghttp3_qpack_encoder_encode_nv, by the representation it chooses.
LEMMA EncodeKeepsIInv ==
  ASSUME IInv, NEW f \in Fields, EncodeNv(f)
  PROVE  IInv' /\ (tab' = tab \/ Size(tab') <= cap)
<1>. DEFINE need == TableSpace(f.name, f.value)
<1>1. cur # NoSection /\ InCall
  BY DEF EncodeNv, InCall
<1>2. CASE EncodeStaticIndexed(f)
  BY <1>1, <1>2, WriteOnlyKeepsIInv DEF EncodeStaticIndexed
<1>3. CASE EncodeDynamicIndexed(f)
  <2>. DEFINE a == Max(Exact(f))
  <2>1. a \in Usable(f)
    BY <1>3, UsableEntries DEF EncodeDynamicIndexed
  <2>2. /\ a + 1 \in tab.first + 1 .. tab.next /\ MayUse({a + 1})
        /\ Cardinality(KnownStreams) < MaxQpackStreams
    BY <2>1, UsableEntries
  <2>. HIDE DEF a
  <2>3. CASE ShouldDuplicate(f, a)
    <3>1. InsertAndRefer(f, [op |-> "Duplicate", idx |-> RelIndex(a)])
      BY <1>3, <2>3 DEF EncodeDynamicIndexed, a
    <3>. QED
      BY <1>1, <2>2, <2>3, <3>1, InsertAndReferKeepsIInv DEF ShouldDuplicate
  <2>4. CASE ~ShouldDuplicate(f, a)
    <3>1. Write(IndexedLine(a), {a + 1})
      BY <1>3, <2>4 DEF EncodeDynamicIndexed, a
    <3>. QED
      BY <1>1, <2>2, <3>1, WriteKeepsIInv DEF Write
  <2>. QED
    BY <2>3, <2>4
<1>4. CASE EncodeStaticName(f)
  <2>. DEFINE ins == [op |-> "InsertStatic", name |-> f.name, value |-> f.value]
              line == [op |-> "StaticName", name |-> f.name, value |-> f.value]
  <2>. HIDE DEF ins, line
  <2>1. CASE JustIndex(f) /\ CanIndex(need, cur.cnts)
    <3>1. Cardinality(KnownStreams) < MaxQpackStreams
      BY <2>1 DEF JustIndex
    <3>2. CASE cur.allow
      <4>1. InsertAndRefer(f, ins)
        BY <1>4, <2>1, <3>2 DEF EncodeStaticName, ins
      <4>. QED
        BY <1>1, <2>1, <3>1, <3>2, <4>1, InsertAndReferKeepsIInv
    <3>3. CASE ~cur.allow
      <4>1. Insert(f, ins, line, {})
        BY <1>4, <2>1, <3>3 DEF EncodeStaticName, ins, line
      <4>. QED
        BY <1>1, <2>1, <4>1, InsertOnlyKeepsIInv
    <3>. QED
      BY <3>2, <3>3
  <2>2. CASE ~(JustIndex(f) /\ CanIndex(need, cur.cnts))
    <3>1. Write(line, {})
      BY <1>4, <2>2 DEF EncodeStaticName, line
    <3>. QED
      BY <1>1, <3>1, WriteOnlyKeepsIInv
  <2>. QED
    BY <2>1, <2>2
<1>5. CASE EncodeDynamicName(f)
  <2>. DEFINE a == Max(Usable(f))
              ins == [op |-> "InsertDynamic", idx |-> RelIndex(a), value |-> f.value]
              kept == IF cur.allow THEN {} ELSE {a + 1}
  <2>1. a \in Usable(f)
    BY <1>5, UsableEntries DEF EncodeDynamicName
  <2>2. /\ a + 1 \in tab.first + 1 .. tab.next /\ MayUse({a + 1})
        /\ Cardinality(KnownStreams) < MaxQpackStreams
    BY <2>1, UsableEntries
  <2>. HIDE DEF a, ins
  <2>3. CASE JustIndex(f) /\ CanIndex(need, cur.cnts \cup kept)
    <3>1. CASE cur.allow
      <4>1. InsertAndRefer(f, ins) /\ CanIndex(need, cur.cnts)
        BY <1>5, <2>3, <3>1 DEF EncodeDynamicName, ins, a
      <4>. QED
        BY <1>1, <2>2, <3>1, <4>1, InsertAndReferKeepsIInv
    <3>2. CASE ~cur.allow
      <4>1. /\ Insert(f, ins, NameLine(a, f.value), {a + 1})
            /\ CanIndex(need, cur.cnts \cup {a + 1})
        BY <1>5, <2>3, <3>2 DEF EncodeDynamicName, ins, a
      <4>2. cur.cnts \cup {a + 1} \in SUBSET (tab.first + 1 .. tab.next)
        BY <1>1, <2>2, PinsAreLive DEF IInv
      <4>. QED
        BY <1>1, <2>2, <4>1, <4>2, InsertKeepsIInv
    <3>. QED
      BY <3>1, <3>2
  <2>4. CASE ~(JustIndex(f) /\ CanIndex(need, cur.cnts \cup kept))
    <3>1. Write(NameLine(a, f.value), {a + 1})
      BY <1>5, <2>4 DEF EncodeDynamicName, a
    <3>. QED
      BY <1>1, <2>2, <3>1, WriteKeepsIInv DEF Write
  <2>. QED
    BY <2>3, <2>4
<1>6. CASE EncodeLiteral(f)
  <2>. DEFINE ins == [op |-> "InsertLiteral", name |-> f.name, value |-> f.value]
              line == [op |-> "Literal", name |-> f.name, value |-> f.value]
  <2>. HIDE DEF ins, line
  <2>1. CASE JustIndex(f) /\ CanIndex(need, cur.cnts)
    <3>1. Cardinality(KnownStreams) < MaxQpackStreams
      BY <2>1 DEF JustIndex
    <3>2. CASE cur.allow
      <4>1. InsertAndRefer(f, ins)
        BY <1>6, <2>1, <3>2 DEF EncodeLiteral, ins
      <4>. QED
        BY <1>1, <2>1, <3>1, <3>2, <4>1, InsertAndReferKeepsIInv
    <3>3. CASE ~cur.allow
      <4>1. Insert(f, ins, line, {})
        BY <1>6, <2>1, <3>3 DEF EncodeLiteral, ins, line
      <4>. QED
        BY <1>1, <2>1, <4>1, InsertOnlyKeepsIInv
    <3>. QED
      BY <3>2, <3>3
  <2>2. CASE ~(JustIndex(f) /\ CanIndex(need, cur.cnts))
    <3>1. Write(line, {})
      BY <1>6, <2>2 DEF EncodeLiteral, line
    <3>. QED
      BY <1>1, <3>1, WriteOnlyKeepsIInv
  <2>. QED
    BY <2>1, <2>2
<1>. QED
  BY <1>2, <1>3, <1>4, <1>5, <1>6 DEF EncodeNv

\* The encoder starts with an empty table and no sections.
LEMMA InitIInv == Init => IInv
<1>. SUFFICES ASSUME Init PROVE IInv
  OBVIOUS
<1>1. IsTable(tab) /\ tab.first = 0 /\ tab.next = 0 /\ Size(tab) = 0
  BY DEF Init, EmptyTable, IsTable, Live, Entry, Size, SizeFrom
<1>2. /\ cap = 0 /\ maxBlocked = 0 /\ krcnt = 0 /\ blocked = {}
      /\ refs = [s \in Streams |-> <<>>] /\ pending = FALSE
      /\ minUpd = HardMax + 1 /\ lastUpd = 0 /\ declen = 0 /\ ebad = FALSE
      /\ cur = NoSection /\ HardMax \in Nat /\ MaxQpackStreams \in Nat
  BY EncoderAssumption DEF Init, SizeMax
<1>3. KnownStreams = {} /\ Cardinality(KnownStreams) = 0
  BY <1>2, FS_EmptySet DEF KnownStreams
<1>4. TypeOK
  <2>1. refs \in [Streams -> Seq(Ref)]
    BY <1>2
  <2>2. minUpd \in 0 .. SizeMax /\ cap \in 0 .. HardMax /\ lastUpd \in 0 .. HardMax
    BY <1>2 DEF SizeMax
  <2>3. pending \in BOOLEAN /\ ebad \in BOOLEAN
    BY <1>2
  <2>4. maxBlocked \in Nat /\ krcnt \in Nat /\ declen \in Nat
        /\ blocked \subseteq [max_cnt : Nat, id : Streams]
    BY <1>2
  <2>. QED
    BY <1>1, <1>2, <2>1, <2>2, <2>3, <2>4 DEF TypeOK
<1>5. ReferencedEntriesLive /\ UnblockedSectionSafe /\ RoomForStream
  BY <1>2 DEF ReferencedEntriesLive, UnblockedSectionSafe, RoomForStream
<1>6. KnownReceivedSound /\ OverCapacityOnlyWhilePinned /\ PendingCapacity
  BY <1>1, <1>2 DEF KnownReceivedSound, OverCapacityOnlyWhilePinned,
                    PendingCapacity, SizeMax
<1>7. StreamLimit
  BY <1>2, <1>3 DEF StreamLimit
<1>. QED
  BY <1>4, <1>5, <1>6, <1>7 DEF IInv

\* nghttp3_qpack_encoder_set_max_dtable_capacity: whatever is asked for, the
\* capacity in force is the smallest not yet announced.
LEMMA SetCapacityKeepsIInv ==
  ASSUME IInv, NEW c \in Capacities, SetMaxDtableCapacity(c)
  PROVE  IInv'
<1>. DEFINE m == Truncated(c)
<1>1. m \in 0 .. HardMax /\ HardMax \in Nat
  <2>1. c \in Nat /\ HardMax \in Nat
    BY EncoderAssumption
  <2>. QED
    BY <2>1, MinOfPair DEF Truncated
<1>. HIDE DEF m
<1>2. /\ cur = NoSection /\ cur' = cur /\ pending' = TRUE /\ lastUpd' = m
      /\ tab' = tab /\ maxBlocked' = maxBlocked /\ krcnt' = krcnt
      /\ refs' = refs /\ blocked' = blocked /\ declen' = declen /\ ebad' = ebad
      /\ IF minUpd > m THEN minUpd' = m /\ cap' = m ELSE minUpd' = minUpd /\ cap' = cap
  BY DEF SetMaxDtableCapacity, ackVars, m
<1>3. KnownStreams' = KnownStreams
  BY <1>2 DEF KnownStreams
<1>4. TypeOK'
  BY <1>1, <1>2 DEF IInv, TypeOK, SizeMax
<1>5. ReferencedEntriesLive' /\ UnblockedSectionSafe' /\ RoomForStream'
  BY <1>2 DEF IInv, ReferencedEntriesLive, UnblockedSectionSafe, RoomForStream
<1>6. KnownReceivedSound' /\ OverCapacityOnlyWhilePinned'
  BY <1>2 DEF IInv, KnownReceivedSound, OverCapacityOnlyWhilePinned
<1>7. PendingCapacity'
  <2>1. minUpd \in 0 .. HardMax + 1
    BY DEF IInv, TypeOK, SizeMax
  <2>. QED
    BY <1>1, <1>2, <2>1 DEF IInv, PendingCapacity, SizeMax
<1>8. StreamLimit'
  BY <1>3 DEF IInv, StreamLimit
<1>. QED
  BY <1>4, <1>5, <1>6, <1>7, <1>8 DEF IInv

\* nghttp3_qpack_encoder_set_max_blocked_streams
LEMMA SetBlockedKeepsIInv ==
  ASSUME IInv, NEW n \in BlockedLimits, SetMaxBlockedStreams(n)
  PROVE  IInv'
<1>1. /\ cur = NoSection /\ cur' = cur /\ maxBlocked' = n /\ n \in Nat
      /\ tab' = tab /\ cap' = cap /\ pending' = pending /\ minUpd' = minUpd
      /\ lastUpd' = lastUpd /\ krcnt' = krcnt /\ refs' = refs
      /\ blocked' = blocked /\ declen' = declen /\ ebad' = ebad
  BY EncoderAssumption DEF SetMaxBlockedStreams, ackVars, capVars
<1>2. KnownStreams' = KnownStreams
  BY <1>1 DEF KnownStreams
<1>3. TypeOK'
  BY <1>1 DEF IInv, TypeOK
<1>4. ReferencedEntriesLive' /\ UnblockedSectionSafe' /\ RoomForStream'
  BY <1>1 DEF IInv, ReferencedEntriesLive, UnblockedSectionSafe, RoomForStream
<1>5. KnownReceivedSound' /\ OverCapacityOnlyWhilePinned' /\ PendingCapacity'
  BY <1>1 DEF IInv, KnownReceivedSound, OverCapacityOnlyWhilePinned, PendingCapacity
<1>6. StreamLimit'
  BY <1>2 DEF IInv, StreamLimit
<1>. QED
  BY <1>3, <1>4, <1>5, <1>6 DEF IInv

\* The part of nghttp3_qpack_encoder_encode before the fields: the table is
\* shrunk, and if it fits, the capacity asked for last takes effect.
LEMMA BeginKeepsIInv ==
  ASSUME IInv, NEW s \in Streams, BeginEncode(s)
  PROVE  IInv' /\ tab'.next = tab.next
<1>. DEFINE fits == Size(ShrunkTable) <= cap /\ pending
<1>1. /\ tab' = ShrunkTable /\ lastUpd' = lastUpd /\ maxBlocked' = maxBlocked
      /\ krcnt' = krcnt /\ refs' = refs /\ blocked' = blocked
      /\ declen' = declen /\ ebad' = ebad
      /\ IF fits THEN pending' = FALSE /\ minUpd' = SizeMax /\ cap' = lastUpd
                 ELSE pending' = pending /\ minUpd' = minUpd /\ cap' = cap
  BY DEF BeginEncode, ackVars
<1>2. /\ IsSection(cur') /\ cur'.cnts = {}
  <2>1. tab.next \in Nat /\ MayBlock(s) \in BOOLEAN
    BY DEF IInv, TypeOK, IsTable, MayBlock
  <2>. QED
    BY <2>1 DEF BeginEncode, IsSection
<1>3. /\ IsTable(ShrunkTable) /\ ShrunkTable.next = tab.next
      /\ ShrunkTable.first \in tab.first .. tab.next
      /\ \A p \in MinCnts : ShrunkTable.first < p
      /\ Size(ShrunkTable) > cap =>
           /\ Size(tab) > cap
           /\ MinCnts # {} /\ Min(MinCnts) = ShrunkTable.first + 1
  BY ShrinkKeepsPins DEF IInv
<1>4. KnownStreams' = KnownStreams /\ MinCnts' = MinCnts
  BY <1>1 DEF KnownStreams, MinCnts
<1>5. /\ cap \in 0 .. HardMax /\ lastUpd \in 0 .. HardMax /\ HardMax \in Nat
      /\ pending \in BOOLEAN /\ minUpd \in 0 .. SizeMax /\ SizeMax \in Nat
  BY EncoderAssumption DEF IInv, TypeOK, SizeMax
<1>6. TypeOK'
  <2>1. /\ IsTable(tab') /\ IsSection(cur')
        /\ pending' \in BOOLEAN /\ minUpd' \in 0 .. SizeMax
        /\ cap' \in 0 .. HardMax /\ lastUpd' \in 0 .. HardMax
    <3>1. CASE fits
      <4>1. /\ pending' = FALSE /\ minUpd' = SizeMax /\ cap' = lastUpd
            /\ lastUpd' = lastUpd /\ tab' = ShrunkTable
        BY <1>1, <3>1
      <4>2. pending' \in BOOLEAN /\ IsTable(tab')
        BY <1>3, <4>1, Zenon
      <4>3. /\ minUpd' \in 0 .. SizeMax
            /\ cap' \in 0 .. HardMax /\ lastUpd' \in 0 .. HardMax
        BY <1>5, <4>1 DEF SizeMax
      <4>. QED
        BY <1>2, <4>2, <4>3
    <3>2. CASE ~fits
      <4>1. /\ pending' = pending /\ minUpd' = minUpd /\ cap' = cap
            /\ lastUpd' = lastUpd /\ tab' = ShrunkTable
        BY <1>1, <3>2
      <4>2. pending' \in BOOLEAN
        BY <1>5, <4>1, Zenon
      <4>. QED
        BY <1>2, <1>3, <1>5, <4>1, <4>2
    <3>. QED
      BY <3>1, <3>2
  <2>2. /\ maxBlocked' \in Nat /\ krcnt' \in Nat
        /\ refs' \in [Streams -> Seq(Ref)]
        /\ blocked' \subseteq [max_cnt : Nat, id : Streams]
        /\ declen' \in Nat /\ ebad' \in BOOLEAN
    BY <1>1 DEF IInv, TypeOK
  <2>. QED
    BY <2>1, <2>2 DEF TypeOK
<1>7. ReferencedEntriesLive'
  <2>1. ASSUME NEW r \in Streams, NEW i \in DOMAIN refs[r]
        PROVE  ShrunkTable.first < refs[r][i].min_cnt
    <3>1. refs[r][i].min_cnt \in MinCnts
      BY DEF MinCnts
    <3>. QED
      BY <1>3, <3>1
  <2>. QED
    BY <1>1, <1>2, <1>3, <2>1 DEF IInv, ReferencedEntriesLive
<1>8. KnownReceivedSound' /\ UnblockedSectionSafe' /\ RoomForStream'
  BY <1>1, <1>2, <1>3
  DEF IInv, KnownReceivedSound, UnblockedSectionSafe, RoomForStream
<1>9. PendingCapacity'
  BY <1>1 DEF IInv, PendingCapacity
<1>10. OverCapacityOnlyWhilePinned'
  <2>1. Size(ShrunkTable) \in Int
    BY <1>3 DEF Size, SizeFrom, IsTable, Live, Entry
  <2>2. SUFFICES ASSUME Size(ShrunkTable) > cap'
                 PROVE  pending' /\ MinCnts # {} /\ Min(MinCnts) = ShrunkTable.first + 1
    BY <1>1, <1>4 DEF OverCapacityOnlyWhilePinned
  <2>3. ~fits
    <3>1. SUFFICES ASSUME fits PROVE FALSE
      OBVIOUS
    <3>2. cap <= lastUpd
      BY <3>1 DEF IInv, PendingCapacity
    <3>. QED
      BY <1>1, <1>5, <2>1, <2>2, <3>1, <3>2
  <2>4. Size(ShrunkTable) > cap
    BY <1>1, <2>2, <2>3
  <2>5. pending
    BY <1>3, <2>4 DEF IInv, OverCapacityOnlyWhilePinned
  <2>. QED
    BY <1>1, <1>3, <2>3, <2>4, <2>5
<1>11. StreamLimit'
  BY <1>4 DEF IInv, StreamLimit
<1>. QED
  BY <1>1, <1>3, <1>6, <1>7, <1>8, <1>9, <1>10, <1>11 DEF IInv

\* The references of a finished section are those of its fields.
LEMMA FinishKeepsIInv ==
  ASSUME IInv, FinishEncode
  PROVE  IInv' /\ tab' = tab
<1>. DEFINE s == cur.stream
            x == Max(cur.cnts)
            n == Min(cur.cnts)
<1>1. /\ cur # NoSection /\ cur' = NoSection /\ declen' = 0 /\ tab' = tab
      /\ cap' = cap /\ pending' = pending /\ minUpd' = minUpd
      /\ lastUpd' = lastUpd /\ maxBlocked' = maxBlocked /\ krcnt' = krcnt
      /\ ebad' = ebad
  BY DEF FinishEncode, capVars
<1>2. /\ KnownReceivedSound' /\ UnblockedSectionSafe' /\ RoomForStream'
      /\ PendingCapacity' /\ OverCapacityOnlyWhilePinned'
  BY <1>1 DEF IInv, KnownReceivedSound, UnblockedSectionSafe, RoomForStream,
              PendingCapacity, OverCapacityOnlyWhilePinned
<1>3. CASE cur.cnts = {}
  <2>1. refs' = refs /\ blocked' = blocked
    BY <1>3 DEF FinishEncode
  <2>2. KnownStreams' = KnownStreams
    BY <2>1 DEF KnownStreams
  <2>. QED
    BY <1>1, <1>2, <2>1, <2>2
    DEF IInv, TypeOK, ReferencedEntriesLive, StreamLimit
<1>4. CASE cur.cnts # {}
  <2>1. /\ s \in Streams /\ tab.first \in Nat /\ tab.next \in Nat
        /\ cur.cnts \in SUBSET (tab.first + 1 .. tab.next)
    BY <1>1, PinsAreLive DEF IInv, TypeOK, IsSection
  <2>2. /\ x \in cur.cnts /\ n \in cur.cnts /\ n <= x
    <3>1. cur.cnts \in SUBSET Nat /\ \A c \in cur.cnts : c <= tab.next
      BY <2>1
    <3>. QED
      BY <1>4, <2>1, <3>1, MinIsLeast, MaxIsGreatest
  <2>3. AddStreamRef(s, x, n)
    BY <1>4 DEF FinishEncode
  <2>. HIDE DEF x, n, s
  <2>4. x \in Nat /\ n \in Nat /\ tab.first < n /\ x <= tab.next
    BY <2>1, <2>2
  <2>5. refs' = [refs EXCEPT ![s] = Append(refs[s], [max_cnt |-> x, min_cnt |-> n])]
    BY <2>3 DEF AddStreamRef
  <2>6. blocked' \in SUBSET (blocked \cup {Key(x, s)})
    BY <2>3 DEF AddStreamRef
  <2>7. refs \in [Streams -> Seq(Ref)] /\ [max_cnt |-> x, min_cnt |-> n] \in Ref
    BY <2>4 DEF IInv, TypeOK, Ref
  <2>8. refs' \in [Streams -> Seq(Ref)]
    BY <2>1, <2>5, <2>7
  <2>9. TypeOK'
    <3>1. blocked' \subseteq [max_cnt : Nat, id : Streams]
      BY <2>1, <2>4, <2>6 DEF IInv, TypeOK, Key
    <3>. QED
      BY <1>1, <2>8, <3>1 DEF IInv, TypeOK
  <2>10. ReferencedEntriesLive'
    <3>1. ASSUME NEW r \in Streams, NEW i \in DOMAIN refs'[r]
          PROVE  /\ tab.first < refs'[r][i].min_cnt
                 /\ refs'[r][i].min_cnt <= refs'[r][i].max_cnt
                 /\ refs'[r][i].max_cnt <= tab.next
      <4>1. CASE r = s /\ i = Len(refs[s]) + 1
        <5>1. refs'[r][i] = [max_cnt |-> x, min_cnt |-> n]
          BY <2>1, <2>5, <2>7, <4>1
        <5>. QED
          BY <2>2, <2>4, <5>1
      <4>2. CASE ~(r = s /\ i = Len(refs[s]) + 1)
        <5>1. i \in DOMAIN refs[r] /\ refs'[r][i] = refs[r][i]
          BY <2>1, <2>5, <2>7, <4>2
        <5>. QED
          BY <5>1 DEF IInv, ReferencedEntriesLive
      <4>. QED
        BY <4>1, <4>2
    <3>. QED
      BY <1>1, <3>1 DEF ReferencedEntriesLive
  <2>11. StreamLimit'
    <3>1. KnownStreams' \in SUBSET (KnownStreams \cup {s})
      BY <2>1, <2>5, <2>7 DEF KnownStreams
    <3>2. IsFiniteSet(KnownStreams) /\ Cardinality(KnownStreams) \in Nat
      BY EncoderAssumption, FS_Subset, FS_CardinalityType DEF KnownStreams
    <3>3. /\ IsFiniteSet(KnownStreams \cup {s})
          /\ Cardinality(KnownStreams \cup {s}) <= Cardinality(KnownStreams) + 1
      BY <3>2, FS_AddElement
    <3>4. Cardinality(KnownStreams') <= Cardinality(KnownStreams \cup {s})
      BY <3>1, <3>3, FS_Subset
    <3>5. Cardinality(KnownStreams') \in Nat
      BY <3>1, <3>3, FS_Subset, FS_CardinalityType
    <3>6. Cardinality(KnownStreams \cup {s}) \in Nat
      BY <3>3, FS_CardinalityType
    <3>7. Cardinality(KnownStreams) < MaxQpackStreams /\ MaxQpackStreams \in Nat
      BY <1>1, <1>4, EncoderAssumption DEF IInv, RoomForStream
    <3>. QED
      BY <3>2, <3>3, <3>4, <3>5, <3>6, <3>7 DEF StreamLimit
  <2>. QED
    BY <1>1, <1>2, <2>9, <2>10, <2>11 DEF IInv
<1>. QED
  BY <1>3, <1>4

-----------------------------------------------------------------------------
(* The peer's acknowledgments *)

\* Steps that only forget references, and count as received no insertion
\* that was not made.
LEMMA ForgettingKeepsIInv ==
  ASSUME IInv, cur = NoSection, cur' = cur, tab' = tab, UNCHANGED capVars,
         maxBlocked' = maxBlocked, krcnt' \in 0 .. tab.next,
         refs' \in [Streams -> Seq(Ref)],
         \A s \in Streams : \A i \in DOMAIN refs'[s] :
           \E j \in DOMAIN refs[s] : refs'[s][i] = refs[s][j],
         blocked' \subseteq blocked, declen' \in Nat, ebad' \in BOOLEAN
  PROVE  IInv'
<1>1. /\ cap' = cap /\ pending' = pending /\ minUpd' = minUpd
      /\ lastUpd' = lastUpd
  BY DEF capVars
<1>2. TypeOK'
  <2>1. tab.next \in Nat /\ krcnt' \in Nat
    BY DEF IInv, TypeOK, IsTable
  <2>. QED
    BY <1>1, <2>1 DEF IInv, TypeOK
<1>3. ReferencedEntriesLive'
  BY DEF IInv, ReferencedEntriesLive
<1>4. KnownReceivedSound'
  BY DEF IInv, TypeOK, IsTable, KnownReceivedSound
<1>5. /\ UnblockedSectionSafe' /\ RoomForStream' /\ PendingCapacity'
      /\ OverCapacityOnlyWhilePinned'
  BY <1>1 DEF IInv, UnblockedSectionSafe, RoomForStream, PendingCapacity,
              OverCapacityOnlyWhilePinned
<1>6. StreamLimit'
  <2>1. KnownStreams' \in SUBSET KnownStreams
    <3>1. ASSUME NEW s \in Streams, refs'[s] # <<>> PROVE refs[s] # <<>>
      <4>1. refs'[s] \in Seq(Ref) /\ 1 \in DOMAIN refs'[s]
        BY <3>1
      <4>. QED
        BY <4>1
    <3>. QED
      BY <3>1 DEF KnownStreams
  <2>2. IsFiniteSet(KnownStreams)
    BY EncoderAssumption, FS_Subset DEF KnownStreams
  <2>3. /\ Cardinality(KnownStreams') <= Cardinality(KnownStreams)
        /\ Cardinality(KnownStreams') \in Nat /\ Cardinality(KnownStreams) \in Nat
    BY <2>1, <2>2, FS_Subset, FS_CardinalityType
  <2>. QED
    BY <2>3, EncoderAssumption DEF IInv, StreamLimit
<1>. QED
  BY <1>2, <1>3, <1>4, <1>5, <1>6 DEF IInv

\* nghttp3_qpack_encoder_ack_header
LEMMA SectionAckKeepsIInv ==
  ASSUME IInv, NEW s \in Streams, ReadSectionAck(s)
  PROVE  IInv' /\ tab' = tab
<1>1. /\ cur = NoSection /\ cur' = cur /\ tab' = tab /\ UNCHANGED capVars
      /\ maxBlocked' = maxBlocked /\ declen' \in Nat
  BY DEF ReadSectionAck, Read, IInv, TypeOK
<1>2. /\ refs \in [Streams -> Seq(Ref)] /\ krcnt \in 0 .. tab.next
      /\ ebad \in BOOLEAN /\ tab.next \in Nat
  BY DEF IInv, TypeOK, KnownReceivedSound, IsTable
<1>3. CASE UNCHANGED <<ackVars, ebad>>
  BY <1>1, <1>2, <1>3, ForgettingKeepsIInv DEF ackVars
<1>4. CASE AckHeader(s)
  <2>1. CASE refs[s] = <<>>
    <3>1. krcnt' = krcnt /\ refs' = refs /\ blocked' = blocked /\ ebad' = TRUE
      BY <1>4, <2>1 DEF AckHeader, ackVars
    <3>. QED
      BY <1>1, <1>2, <3>1, ForgettingKeepsIInv
  <2>2. CASE refs[s] # <<>>
    <3>. DEFINE cnt == Head(refs[s]).max_cnt
    <3>1. refs[s] \in Seq(Ref) /\ 1 \in DOMAIN refs[s] /\ Head(refs[s]) = refs[s][1]
      BY <1>2, <2>2
    <3>2. cnt \in 0 .. tab.next
      <4>1. cnt <= tab.next /\ refs[s][1] \in Ref
        BY <3>1 DEF IInv, ReferencedEntriesLive
      <4>. QED
        BY <1>2, <3>1, <4>1 DEF Ref
    <3>3. /\ krcnt' \in {krcnt, cnt} /\ blocked' \subseteq blocked
          /\ refs' = [refs EXCEPT ![s] = Tail(refs[s])] /\ ebad' = ebad
      BY <1>4, <2>2 DEF AckHeader, KeysAbove
    <3>4. krcnt' \in 0 .. tab.next
      BY <1>2, <3>2, <3>3
    <3>5. refs' \in [Streams -> Seq(Ref)]
      BY <1>2, <2>2, <3>1, <3>3
    <3>6. ASSUME NEW r \in Streams, NEW i \in DOMAIN refs'[r]
          PROVE  \E j \in DOMAIN refs[r] : refs'[r][i] = refs[r][j]
      <4>1. CASE r = s
        <5>1. refs'[r] = Tail(refs[s])
          BY <1>2, <3>3, <4>1
        <5>2. i + 1 \in DOMAIN refs[s] /\ Tail(refs[s])[i] = refs[s][i + 1]
          BY <2>2, <3>1, <5>1
        <5>. QED
          BY <4>1, <5>1, <5>2
      <4>2. CASE r # s
        BY <1>2, <3>3, <4>2
      <4>. QED
        BY <4>1, <4>2
    <3>. QED
      BY <1>1, <1>2, <3>3, <3>4, <3>5, <3>6, ForgettingKeepsIInv
  <2>. QED
    BY <2>1, <2>2
<1>. QED
  BY <1>1, <1>3, <1>4 DEF ReadSectionAck, Read

\* nghttp3_qpack_encoder_add_icnt
LEMMA IncrementKeepsIInv ==
  ASSUME IInv, NEW n \in Nat, ReadInsertCountIncrement(n)
  PROVE  IInv' /\ tab' = tab
<1>1. /\ cur = NoSection /\ cur' = cur /\ tab' = tab /\ UNCHANGED capVars
      /\ maxBlocked' = maxBlocked /\ declen' \in Nat
  BY DEF ReadInsertCountIncrement, Read, IInv, TypeOK
<1>2. /\ refs \in [Streams -> Seq(Ref)] /\ krcnt \in 0 .. tab.next
      /\ ebad \in BOOLEAN /\ tab.next \in Nat /\ n \in Nat
  BY EncoderAssumption DEF IInv, TypeOK, KnownReceivedSound, IsTable
<1>3. CASE UNCHANGED <<ackVars, ebad>>
  BY <1>1, <1>2, <1>3, ForgettingKeepsIInv DEF ackVars
<1>4. CASE AddIcnt(n)
  <2>1. /\ krcnt' \in 0 .. tab.next /\ blocked' \subseteq blocked
        /\ refs' = refs /\ ebad' \in BOOLEAN
    <3>1. CASE n = 0 \/ tab.next - krcnt < n
      <4>1. krcnt' = krcnt /\ blocked' = blocked /\ refs' = refs /\ ebad' = TRUE
        BY <1>4, <3>1 DEF AddIcnt, ackVars
      <4>. QED
        BY <1>2, <4>1
    <3>2. CASE ~(n = 0 \/ tab.next - krcnt < n)
      <4>1. /\ krcnt' = krcnt + n /\ blocked' \subseteq blocked
            /\ refs' = refs /\ ebad' = ebad
        BY <1>4, <3>2 DEF AddIcnt, KeysAbove
      <4>2. krcnt' \in 0 .. tab.next
        BY <1>2, <3>2, <4>1
      <4>. QED
        BY <1>2, <4>1, <4>2
    <3>. QED
      BY <3>1, <3>2
  <2>. QED
    BY <1>1, <1>2, <2>1, ForgettingKeepsIInv
<1>. QED
  BY <1>1, <1>3, <1>4 DEF ReadInsertCountIncrement, Read

\* nghttp3_qpack_encoder_cancel_stream
LEMMA CancelKeepsIInv ==
  ASSUME IInv, NEW s \in Streams, ReadStreamCancel(s)
  PROVE  IInv' /\ tab' = tab
<1>1. /\ cur = NoSection /\ cur' = cur /\ tab' = tab /\ UNCHANGED capVars
      /\ maxBlocked' = maxBlocked /\ declen' \in Nat
  BY DEF ReadStreamCancel, Read, IInv, TypeOK
<1>2. /\ refs \in [Streams -> Seq(Ref)] /\ krcnt \in 0 .. tab.next
      /\ ebad \in BOOLEAN /\ tab.next \in Nat
  BY DEF IInv, TypeOK, KnownReceivedSound, IsTable
<1>3. CASE UNCHANGED <<ackVars, ebad>>
  BY <1>1, <1>2, <1>3, ForgettingKeepsIInv DEF ackVars
<1>4. CASE CancelStream(s)
  <2>1. /\ refs' = [refs EXCEPT ![s] = <<>>] /\ blocked' \subseteq blocked
        /\ krcnt' = krcnt /\ ebad' = ebad
    BY <1>4 DEF CancelStream
  <2>2. refs' \in [Streams -> Seq(Ref)]
    BY <1>2, <2>1
  <2>3. ASSUME NEW r \in Streams, NEW i \in DOMAIN refs'[r]
        PROVE  \E j \in DOMAIN refs[r] : refs'[r][i] = refs[r][j]
    <3>1. r # s
      BY <1>2, <2>1
    <3>. QED
      BY <1>2, <2>1, <3>1
  <2>. QED
    BY <1>1, <1>2, <2>1, <2>2, <2>3, ForgettingKeepsIInv
<1>. QED
  BY <1>1, <1>3, <1>4 DEF ReadStreamCancel, Read

\* nghttp3_qpack_encoder_ack_everything
LEMMA AckEverythingKeepsIInv ==
  ASSUME IInv, AckEverything
  PROVE  IInv' /\ tab' = tab
<1>1. /\ cur = NoSection /\ cur' = cur /\ tab' = tab /\ UNCHANGED capVars
      /\ maxBlocked' = maxBlocked /\ declen' = declen /\ ebad' = ebad
      /\ krcnt' = tab.next /\ blocked' = {} /\ refs' = [s \in Streams |-> <<>>]
  BY DEF AckEverything
<1>2. ebad \in BOOLEAN /\ tab.next \in Nat /\ declen \in Nat
  BY DEF IInv, TypeOK, IsTable
<1>3. refs' \in [Streams -> Seq(Ref)] /\ \A s \in Streams : DOMAIN refs'[s] = {}
  BY <1>1
<1>4. krcnt' \in 0 .. tab.next
  BY <1>1, <1>2
<1>. QED
  BY <1>1, <1>2, <1>3, <1>4, ForgettingKeepsIInv

-----------------------------------------------------------------------------
(* The theorems *)

\* Every step keeps the invariant, and inserts only what fits.
LEMMA NextKeepsIInv ==
  ASSUME IInv, [Next]_vars
  PROVE  IInv' /\ (tab'.next > tab.next => Size(tab') <= cap)
<1>0. tab.next \in Nat
  BY DEF IInv, TypeOK, IsTable
<1>1. ASSUME NEW c \in Capacities, SetMaxDtableCapacity(c)
      PROVE  IInv' /\ tab' = tab
  BY <1>1, SetCapacityKeepsIInv DEF SetMaxDtableCapacity
<1>2. ASSUME NEW n \in BlockedLimits, SetMaxBlockedStreams(n)
      PROVE  IInv' /\ tab' = tab
  BY <1>2, SetBlockedKeepsIInv DEF SetMaxBlockedStreams
<1>3. ASSUME NEW s \in Streams, BeginEncode(s)
      PROVE  IInv' /\ tab'.next = tab.next
  BY <1>3, BeginKeepsIInv
<1>4. ASSUME NEW f \in Fields, EncodeNv(f)
      PROVE  IInv' /\ (tab' = tab \/ Size(tab') <= cap)
  BY <1>4, EncodeKeepsIInv
<1>5. CASE FinishEncode
  BY <1>0, <1>5, FinishKeepsIInv
<1>6. ASSUME NEW s \in Streams, ReadSectionAck(s) PROVE IInv' /\ tab' = tab
  BY <1>6, SectionAckKeepsIInv
<1>7. ASSUME NEW n \in 0 .. MaxInserts, ReadInsertCountIncrement(n)
      PROVE  IInv' /\ tab' = tab
  BY <1>7, IncrementKeepsIInv
<1>8. ASSUME NEW s \in Streams, ReadStreamCancel(s) PROVE IInv' /\ tab' = tab
  BY <1>8, CancelKeepsIInv
<1>9. CASE AckEverything
  BY <1>0, <1>9, AckEverythingKeepsIInv
<1>10. CASE UNCHANGED vars
  <2>1. /\ tab' = tab /\ cap' = cap /\ pending' = pending /\ minUpd' = minUpd
        /\ lastUpd' = lastUpd /\ maxBlocked' = maxBlocked /\ krcnt' = krcnt
        /\ refs' = refs /\ blocked' = blocked /\ declen' = declen
        /\ ebad' = ebad /\ cur' = cur
    BY <1>10 DEF vars, capVars, ackVars
  <2>2. KnownStreams' = KnownStreams /\ MinCnts' = MinCnts
    BY <2>1 DEF KnownStreams, MinCnts
  <2>3. TypeOK' /\ ReferencedEntriesLive'
    BY <2>1 DEF IInv, TypeOK, ReferencedEntriesLive
  <2>4. KnownReceivedSound' /\ UnblockedSectionSafe' /\ PendingCapacity'
    BY <2>1 DEF IInv, KnownReceivedSound, UnblockedSectionSafe, PendingCapacity
  <2>5. OverCapacityOnlyWhilePinned' /\ StreamLimit' /\ RoomForStream'
    BY <2>1, <2>2
    DEF IInv, OverCapacityOnlyWhilePinned, StreamLimit, RoomForStream
  <2>. QED
    BY <1>0, <2>1, <2>3, <2>4, <2>5 DEF IInv
<1>. QED
  BY <1>0, <1>1, <1>2, <1>3, <1>4, <1>5, <1>6, <1>7, <1>8, <1>9, <1>10 DEF Next

\* The encoder never leaves the invariant, whatever its peer acknowledges.
THEOREM EncoderInvariant == Spec => []IInv
  BY InitIInv, NextKeepsIInv, PTL DEF Spec

\* The state of the encoder has its type.
THEOREM EncoderTypeOK == Spec => []TypeOK
  BY EncoderInvariant, PTL DEF IInv

\* The encoder evicts no entry that an unacknowledged section refers to, for
\* any number of streams, sections and capacity changes.
THEOREM EncoderEvictsOnlyUnreferenced == Spec => []ReferencedEntriesLive
  BY EncoderInvariant, PTL DEF IInv

\* No acknowledgment makes the encoder count insertions it did not make.
THEOREM EncoderKnownReceivedSound == Spec => []KnownReceivedSound
  BY EncoderInvariant, PTL DEF IInv

\* A section that may not block refers only to what the peer has.
THEOREM EncoderUnblockedSectionSafe == Spec => []UnblockedSectionSafe
  BY EncoderInvariant, PTL DEF IInv

\* The table outgrows its capacity only while a reference holds it there.
THEOREM EncoderOverCapacityOnlyWhilePinned ==
  Spec => []OverCapacityOnlyWhilePinned
  BY EncoderInvariant, PTL DEF IInv

\* The number of streams with references stays within its limit.
THEOREM EncoderStreamLimit == Spec => []StreamLimit
  BY EncoderInvariant, PTL DEF IInv

\* An insertion leaves the table within the capacity in force: the loop of
\* nghttp3_qpack_context_dtable_add finds room for the entry.
THEOREM EncoderInsertFits == Spec => InsertFits
<1>1. IInv /\ [Next]_vars => [tab'.next > tab.next => Size(tab') <= cap]_vars
  BY NextKeepsIInv
<1>. QED
  BY <1>1, EncoderInvariant, PTL DEF Spec, InsertFits
-----------------------------------------------------------------------------
(***************************************************************************)
(* The streams that wait for an acknowledgment.  The skip list             *)
(* blocked_streams is keyed by the largest count of each stream, so every  *)
(* change of a queue of references or of the known received count has to   *)
(* leave the keys in step with the queues.                                 *)
(***************************************************************************)

\* No reference of the queue has a count above b.
CountsUpTo(q, b) == \A i \in DOMAIN q : q[i].max_cnt <= b

\* The keys of the streams blocked when r are the queues and c is known.
KeysOf(r, c) == {Key(TopCnt(r[s]), s) : s \in {x \in Streams : c < TopCnt(r[x])}}

\* Two states of the queues differ at most in the queue of stream s.
SameBut(p, r, s) == \A x \in Streams \ {s} : p[x] = r[x]

\* The queues have their type, and no count in them is above b.
QueuesUpTo(r, b) ==
  r \in [Streams -> Seq(Ref)] /\ \A s \in Streams : CountsUpTo(r[s], b)

\* The counts of a reference are naturals.
LEMMA CountsOfQueue ==
  ASSUME NEW q \in Seq(Ref)
  PROVE  \A i \in DOMAIN q : q[i] \in Ref /\ q[i].max_cnt \in Nat
<1>1. \A i \in DOMAIN q : q[i] \in Ref
  OBVIOUS
<1>. QED
  BY <1>1, Zenon DEF Ref

\* nghttp3_qpack_stream_get_max_cnt returns the largest count of the queue.
LEMMA TopIsGreatest ==
  ASSUME NEW q \in Seq(Ref), NEW b \in Nat, CountsUpTo(q, b)
  PROVE  /\ TopCnt(q) \in 0 .. b
         /\ \A i \in DOMAIN q : q[i].max_cnt <= TopCnt(q)
         /\ q # <<>> => \E i \in DOMAIN q : TopCnt(q) = q[i].max_cnt
         /\ q = <<>> => TopCnt(q) = 0
<1>1. CASE q = <<>>
  BY <1>1 DEF TopCnt
<1>2. CASE q # <<>>
  <2>. DEFINE S == {q[i].max_cnt : i \in DOMAIN q}
  <2>1. \A i \in DOMAIN q : q[i].max_cnt \in Nat
    BY CountsOfQueue
  <2>2. S \in SUBSET Nat /\ (\A c \in S : c <= b)
    BY <2>1 DEF CountsUpTo
  <2>3. 1 \in DOMAIN q
    BY <1>2
  <2>4. q[1].max_cnt \in S
    BY <2>3
  <2>5. Max(S) \in S /\ \A c \in S : c <= Max(S)
    BY <2>2, <2>4, MaxIsGreatest
  <2>6. TopCnt(q) = Max(S)
    BY <1>2 DEF TopCnt
  <2>. HIDE DEF S
  <2>7. TopCnt(q) \in S /\ \A c \in S : c <= TopCnt(q)
    BY <2>5, <2>6
  <2>8. TopCnt(q) \in 0 .. b
    <3>1. TopCnt(q) \in Nat /\ TopCnt(q) <= b
      BY <2>2, <2>7, Zenon
    <3>. QED
      BY <3>1
  <2>. QED
    BY <1>2, <2>7, <2>8 DEF S
<1>. QED
  BY <1>1, <1>2

\* A value of the queue that none exceeds is its largest count.
LEMMA TopIsUnique ==
  ASSUME NEW q \in Seq(Ref), NEW b \in Nat, CountsUpTo(q, b),
         NEW i \in DOMAIN q, \A j \in DOMAIN q : q[j].max_cnt <= q[i].max_cnt
  PROVE  TopCnt(q) = q[i].max_cnt
<1>1. \A j \in DOMAIN q : q[j].max_cnt \in Nat
  BY CountsOfQueue
<1>2. PICK k \in DOMAIN q : TopCnt(q) = q[k].max_cnt
  BY TopIsGreatest
<1>3. q[i].max_cnt <= TopCnt(q)
  BY TopIsGreatest
<1>. QED
  BY <1>1, <1>2, <1>3

\* What a finished section does to the largest count of its stream.
LEMMA TopOfAppend ==
  ASSUME NEW q \in Seq(Ref), NEW b \in Nat, CountsUpTo(q, b),
         NEW r \in Ref, r.max_cnt <= b
  PROVE  /\ CountsUpTo(Append(q, r), b)
         /\ TopCnt(Append(q, r)) =
              IF r.max_cnt > TopCnt(q) THEN r.max_cnt ELSE TopCnt(q)
<1>. DEFINE p == Append(q, r)
            n == Len(q) + 1
<1>1. /\ p \in Seq(Ref) /\ n \in DOMAIN p /\ p[n] = r
      /\ \A i \in DOMAIN q : i \in DOMAIN p /\ p[i] = q[i]
      /\ \A i \in DOMAIN p : i = n \/ i \in DOMAIN q
  OBVIOUS
<1>2. r.max_cnt \in Nat /\ \A i \in DOMAIN q : q[i].max_cnt \in Nat
  BY CountsOfQueue DEF Ref
<1>. HIDE DEF p, n
<1>3. CountsUpTo(p, b)
  BY <1>1 DEF CountsUpTo
<1>4. /\ TopCnt(q) \in Nat
      /\ \A i \in DOMAIN q : q[i].max_cnt <= TopCnt(q)
      /\ q # <<>> => \E i \in DOMAIN q : TopCnt(q) = q[i].max_cnt
      /\ q = <<>> => TopCnt(q) = 0
  BY TopIsGreatest
<1>5. CASE r.max_cnt > TopCnt(q)
  <2>1. \A j \in DOMAIN p : p[j].max_cnt <= p[n].max_cnt
    BY <1>1, <1>2, <1>4, <1>5
  <2>2. TopCnt(p) = p[n].max_cnt
    BY <1>1, <1>3, <2>1, TopIsUnique
  <2>. QED
    BY <1>1, <1>3, <1>5, <2>2 DEF p
<1>6. CASE ~(r.max_cnt > TopCnt(q)) /\ q # <<>>
  <2>1. PICK k \in DOMAIN q : TopCnt(q) = q[k].max_cnt
    BY <1>4, <1>6
  <2>2. \A j \in DOMAIN p : p[j].max_cnt <= p[k].max_cnt
    BY <1>1, <1>2, <1>4, <1>6, <2>1
  <2>3. TopCnt(p) = p[k].max_cnt
    BY <1>1, <1>3, <2>1, <2>2, TopIsUnique
  <2>. QED
    BY <1>1, <1>3, <1>6, <2>1, <2>3 DEF p
<1>7. CASE ~(r.max_cnt > TopCnt(q)) /\ q = <<>>
  <2>1. r.max_cnt = 0
    BY <1>2, <1>4, <1>7
  <2>2. \A j \in DOMAIN p : p[j].max_cnt <= p[n].max_cnt
    BY <1>1, <1>2, <1>7
  <2>3. TopCnt(p) = p[n].max_cnt
    BY <1>1, <1>3, <2>2, TopIsUnique
  <2>. QED
    BY <1>1, <1>3, <1>4, <1>7, <2>1, <2>3 DEF p
<1>. QED
  BY <1>5, <1>6, <1>7

\* What an acknowledgment does to it: the largest count of the rest is the
\* same whenever it is above the count acknowledged.
LEMMA TopOfTail ==
  ASSUME NEW q \in Seq(Ref), NEW b \in Nat, CountsUpTo(q, b), q # <<>>
  PROVE  /\ CountsUpTo(Tail(q), b)
         /\ TopCnt(Tail(q)) <= TopCnt(q)
         /\ TopCnt(q) > Head(q).max_cnt => TopCnt(Tail(q)) = TopCnt(q)
<1>. DEFINE p == Tail(q)
<1>1. /\ p \in Seq(Ref) /\ Head(q) = q[1] /\ 1 \in DOMAIN q
      /\ \A i \in DOMAIN p : i + 1 \in DOMAIN q /\ p[i] = q[i + 1]
      /\ \A i \in DOMAIN q : i = 1 \/ (i - 1 \in DOMAIN p /\ p[i - 1] = q[i])
  OBVIOUS
<1>2. \A i \in DOMAIN q : q[i].max_cnt \in Nat
  BY CountsOfQueue
<1>. HIDE DEF p
<1>3. CountsUpTo(p, b)
  BY <1>1 DEF CountsUpTo
<1>4. /\ TopCnt(q) \in Nat
      /\ \A i \in DOMAIN q : q[i].max_cnt <= TopCnt(q)
      /\ \E i \in DOMAIN q : TopCnt(q) = q[i].max_cnt
  BY TopIsGreatest
<1>5. /\ TopCnt(p) \in Nat
      /\ \A i \in DOMAIN p : p[i].max_cnt <= TopCnt(p)
      /\ p # <<>> => \E i \in DOMAIN p : TopCnt(p) = p[i].max_cnt
      /\ p = <<>> => TopCnt(p) = 0
  BY <1>1, <1>3, TopIsGreatest
<1>6. TopCnt(p) <= TopCnt(q)
  <2>1. CASE p = <<>>
    BY <1>4, <1>5, <2>1
  <2>2. CASE p # <<>>
    <3>1. PICK i \in DOMAIN p : TopCnt(p) = p[i].max_cnt
      BY <1>5, <2>2
    <3>2. i + 1 \in DOMAIN q /\ p[i] = q[i + 1]
      BY <1>1, <3>1
    <3>. QED
      BY <1>4, <3>1, <3>2
  <2>. QED
    BY <2>1, <2>2
<1>7. ASSUME TopCnt(q) > Head(q).max_cnt PROVE TopCnt(p) = TopCnt(q)
  <2>1. PICK i \in DOMAIN q : TopCnt(q) = q[i].max_cnt
    BY <1>4
  <2>2. i # 1
    BY <1>1, <1>2, <1>4, <1>7, <2>1
  <2>3. i - 1 \in DOMAIN p /\ p[i - 1] = q[i]
    BY <1>1, <2>2
  <2>4. TopCnt(q) <= TopCnt(p)
    BY <1>5, <2>1, <2>3
  <2>. QED
    BY <1>4, <1>5, <1>6, <2>4
<1>. QED
  BY <1>3, <1>6, <1>7 DEF p
\* A stream whose largest count is above a natural has references.
LEMMA KeysOfBlocked ==
  ASSUME NEW r, NEW b \in Nat, QueuesUpTo(r, b), NEW c \in Nat
  PROVE  {Key(TopCnt(r[s]), s) : s \in
           {x \in Streams : x \in {y \in Streams : r[y] # <<>>}
                            /\ c < TopCnt(r[x])}} = KeysOf(r, c)
<1>1. ASSUME NEW x \in Streams, c < TopCnt(r[x]) PROVE r[x] # <<>>
  BY <1>1 DEF TopCnt
<1>2. {x \in Streams : x \in {y \in Streams : r[y] # <<>>} /\ c < TopCnt(r[x])}
        = {x \in Streams : c < TopCnt(r[x])}
  BY <1>1
<1>. QED
  BY <1>2, Zenon DEF KeysOf

\* One queue changes from r[s] to p[s]: what becomes of the keys.
LEMMA KeysMove ==
  ASSUME NEW r, NEW p, NEW c, NEW s \in Streams, SameBut(p, r, s)
  PROVE  \A k : k \in KeysOf(p, c) <=>
           \/ k \in KeysOf(r, c) /\ k.id # s
           \/ c < TopCnt(p[s]) /\ k = Key(TopCnt(p[s]), s)
<1>2. ASSUME NEW k \in KeysOf(p, c)
      PROVE  \/ k \in KeysOf(r, c) /\ k.id # s
             \/ c < TopCnt(p[s]) /\ k = Key(TopCnt(p[s]), s)
  <2>1. PICK x \in Streams : c < TopCnt(p[x]) /\ k = Key(TopCnt(p[x]), x)
    BY DEF KeysOf
  <2>2. CASE x = s
    BY <2>1, <2>2
  <2>3. CASE x # s
    <3>1. p[x] = r[x] /\ k.id = x
      BY <2>1, <2>3 DEF Key, SameBut
    <3>. QED
      BY <2>1, <2>3, <3>1 DEF KeysOf
  <2>. QED
    BY <2>2, <2>3
<1>3. ASSUME NEW k \in KeysOf(r, c), k.id # s PROVE k \in KeysOf(p, c)
  <2>1. PICK x \in Streams : c < TopCnt(r[x]) /\ k = Key(TopCnt(r[x]), x)
    BY DEF KeysOf
  <2>2. p[x] = r[x]
    BY <1>3, <2>1 DEF Key, SameBut
  <2>. QED
    BY <2>1, <2>2 DEF KeysOf
<1>4. c < TopCnt(p[s]) => Key(TopCnt(p[s]), s) \in KeysOf(p, c)
  BY DEF KeysOf
<1>. QED
  BY <1>2, <1>3, <1>4

\* The key of a stream carries its largest count.
LEMMA KeyOfStream ==
  ASSUME NEW r, NEW c, NEW k \in KeysOf(r, c)
  PROVE  k.id \in Streams /\ c < TopCnt(r[k.id]) /\ k = Key(TopCnt(r[k.id]), k.id)
<1>1. PICK x \in Streams : c < TopCnt(r[x]) /\ k = Key(TopCnt(r[x]), x)
  BY DEF KeysOf
<1>2. k.id = x
  BY <1>1 DEF Key
<1>. QED
  BY <1>1, <1>2

\* The keys that nghttp3_qpack_encoder_unblock leaves are those of the count
\* it was called for.
LEMMA KeysUnblocked ==
  ASSUME NEW r, NEW b \in Nat, QueuesUpTo(r, b),
         NEW c \in Nat, NEW d \in Nat, c <= d
  PROVE  {k \in KeysOf(r, c) : k.max_cnt > d} = KeysOf(r, d)
<1>1. \A x \in Streams : TopCnt(r[x]) \in Nat
  <2>1. \A x \in Streams : r[x] \in Seq(Ref) /\ CountsUpTo(r[x], b)
    BY DEF QueuesUpTo
  <2>. QED
    BY <2>1, TopIsGreatest
<1>2. ASSUME NEW k \in KeysOf(r, c), k.max_cnt > d PROVE k \in KeysOf(r, d)
  <2>1. PICK x \in Streams : c < TopCnt(r[x]) /\ k = Key(TopCnt(r[x]), x)
    BY DEF KeysOf
  <2>2. d < TopCnt(r[x])
    BY <1>1, <1>2, <2>1 DEF Key
  <2>. QED
    BY <2>1, <2>2 DEF KeysOf
<1>3. ASSUME NEW k \in KeysOf(r, d) PROVE k \in KeysOf(r, c) /\ k.max_cnt > d
  <2>1. PICK x \in Streams : d < TopCnt(r[x]) /\ k = Key(TopCnt(r[x]), x)
    BY DEF KeysOf
  <2>2. c < TopCnt(r[x]) /\ k.max_cnt > d
    BY <1>1, <2>1 DEF Key
  <2>. QED
    BY <2>1, <2>2 DEF KeysOf
<1>. QED
  BY <1>2, <1>3
\* While a section is written with leave to block, the leave is still good:
\* nothing between the test in nghttp3_qpack_encoder_encode and
\* qpack_encoder_add_stream_ref changes the streams that are blocked.
LeaveToBlock ==
  cur # NoSection /\ cur.allow =>
    krcnt < TopCnt(refs[cur.stream]) \/ maxBlocked > Cardinality(blocked)

BlockedInv ==
  /\ IInv /\ blocked = KeysOf(refs, krcnt) /\ IsFiniteSet(blocked)
  /\ LeaveToBlock

\* The invariant of the encoder bounds every count by the insertions made.
LEMMA QueuesBounded ==
  ASSUME IInv
  PROVE  QueuesUpTo(refs, tab.next) /\ tab.next \in Nat /\ krcnt \in Nat
  BY DEF IInv, TypeOK, ReferencedEntriesLive, IsTable, QueuesUpTo, CountsUpTo

\* The state of the encoder as a set of keys is what the property says.
LEMMA ExactIsKeys ==
  ASSUME IInv
  PROVE  BlockedStreamsExact <=> blocked = KeysOf(refs, krcnt)
<1>. DEFINE B == {Key(TopCnt(refs[s]), s) : s \in
                   {x \in Streams : x \in {y \in Streams : refs[y] # <<>>}
                                    /\ krcnt < TopCnt(refs[x])}}
<1>1. B = KeysOf(refs, krcnt)
  BY QueuesBounded, KeysOfBlocked
<1>2. BlockedStreamsExact <=> blocked = B
  BY Zenon DEF BlockedStreamsExact, IsBlocked, KnownStreams
<1>. QED
  BY <1>1, <1>2

\* A step with fewer keys, or the same ones, raises no number.
LEMMA FewerBlocked ==
  ASSUME IsFiniteSet(blocked), blocked' \subseteq blocked
  PROVE  IsFiniteSet(blocked') /\ ~(Cardinality(blocked') > Cardinality(blocked))
<1>1. IsFiniteSet(blocked') /\ Cardinality(blocked') <= Cardinality(blocked)
  BY FS_Subset
<1>2. Cardinality(blocked') \in Nat /\ Cardinality(blocked) \in Nat
  BY <1>1, FS_CardinalityType
<1>. QED
  BY <1>1, <1>2

\* nghttp3_qpack_encoder_ack_header: popping the oldest reference and raising
\* the count to it leaves the keys above the count alone.
LEMMA AckKeepsKeys ==
  ASSUME BlockedInv, NEW s \in Streams, AckHeader(s)
  PROVE  blocked' = KeysOf(refs', krcnt') /\ blocked' \subseteq blocked
<1>. DEFINE q == refs[s]
            cnt == q[1].max_cnt
            p == refs'
            b == tab.next
<1>1. /\ QueuesUpTo(refs, b) /\ b \in Nat /\ krcnt \in Nat
      /\ blocked = KeysOf(refs, krcnt)
  BY QueuesBounded DEF BlockedInv
<1>2. q \in Seq(Ref) /\ CountsUpTo(q, b) /\ refs \in [Streams -> Seq(Ref)]
  BY <1>1 DEF QueuesUpTo
<1>3. CASE q = <<>>
  BY <1>1, <1>3 DEF AckHeader, ackVars
<1>4. CASE q # <<>>
  <2>1. Head(q) = q[1] /\ Tail(q) \in Seq(Ref) /\ 1 \in DOMAIN q
    BY <1>2, <1>4
  <2>2. cnt \in Nat
    BY <1>2, <2>1, CountsOfQueue
  <2>3. p = [refs EXCEPT ![s] = Tail(q)]
    BY <1>4 DEF AckHeader
  <2>4. /\ p \in [Streams -> Seq(Ref)] /\ p[s] = Tail(q)
        /\ \A x \in Streams \ {s} : p[x] = refs[x]
    BY <1>2, <2>1, <2>3
  <2>5. /\ CountsUpTo(Tail(q), b) /\ TopCnt(Tail(q)) <= TopCnt(q)
        /\ TopCnt(q) > cnt => TopCnt(Tail(q)) = TopCnt(q)
    BY <1>1, <1>2, <1>4, <2>1, TopOfTail
  <2>6. TopCnt(q) \in Nat /\ TopCnt(Tail(q)) \in Nat
    <3>1. \A z \in Seq(Ref) : CountsUpTo(z, b) => TopCnt(z) \in Nat
      BY <1>1, TopIsGreatest
    <3>. QED
      BY <1>2, <2>1, <2>5, <3>1, Zenon
  <2>7. QueuesUpTo(p, b)
    BY <1>1, <2>4, <2>5 DEF QueuesUpTo
  <2>8. PICK d \in Nat : /\ krcnt' = d /\ krcnt <= d /\ cnt <= d
                         /\ blocked' = {k \in blocked : k.max_cnt > d}
    <3>1. CASE krcnt < cnt
      <4>1. krcnt' = cnt /\ blocked' = KeysAbove(cnt)
        BY <1>4, <2>1, <3>1 DEF AckHeader
      <4>. QED
        BY <1>1, <2>2, <3>1, <4>1 DEF KeysAbove
    <3>2. CASE ~(krcnt < cnt)
      <4>1. krcnt' = krcnt /\ blocked' = blocked
        BY <1>4, <2>1, <3>2 DEF AckHeader
      <4>2. blocked = {k \in blocked : k.max_cnt > krcnt}
        BY <1>1, KeysUnblocked
      <4>. QED
        BY <1>1, <2>2, <3>2, <4>1, <4>2
    <3>. QED
      BY <3>1, <3>2
  <2>9. blocked' = KeysOf(refs, d)
    BY <1>1, <2>8, KeysUnblocked
  <2>. HIDE DEF q, cnt, p, b
  <2>10. \A k : k \in KeysOf(p, d) <=>
           \/ k \in KeysOf(refs, d) /\ k.id # s
           \/ d < TopCnt(p[s]) /\ k = Key(TopCnt(p[s]), s)
    <3>1. SameBut(p, refs, s)
      BY <2>4 DEF SameBut
    <3>. QED
      BY <3>1, KeysMove
  <2>11. ASSUME NEW k \in KeysOf(refs, d)
         PROVE  /\ k.max_cnt > d
                /\ k.id = s => d < TopCnt(p[s]) /\ k = Key(TopCnt(p[s]), s)
    <3>1. d < TopCnt(refs[k.id]) /\ k = Key(TopCnt(refs[k.id]), k.id)
      BY KeyOfStream
    <3>2. k.max_cnt > d
      BY <1>1, KeysUnblocked
    <3>3. ASSUME k.id = s PROVE d < TopCnt(p[s]) /\ k = Key(TopCnt(p[s]), s)
      <4>1. d < TopCnt(q) /\ k = Key(TopCnt(q), s)
        BY <3>1, <3>3 DEF q
      <4>2. TopCnt(p[s]) = TopCnt(q)
        BY <2>2, <2>4, <2>5, <2>6, <2>8, <4>1
      <4>. QED
        BY <4>1, <4>2
    <3>. QED
      BY <3>2, <3>3
  <2>12. ASSUME d < TopCnt(p[s])
         PROVE  Key(TopCnt(p[s]), s) \in KeysOf(refs, d)
    <3>1. d < TopCnt(q)
      BY <2>4, <2>5, <2>6, <2>12
    <3>2. TopCnt(p[s]) = TopCnt(q)
      BY <2>2, <2>4, <2>5, <2>6, <2>8, <3>1
    <3>. QED
      BY <3>1, <3>2 DEF KeysOf, q
  <2>13. KeysOf(p, d) = KeysOf(refs, d)
    BY <2>10, <2>11, <2>12
  <2>. QED
    BY <2>8, <2>9, <2>13 DEF p
<1>. QED
  BY <1>3, <1>4

\* nghttp3_qpack_encoder_cancel_stream takes the one key of the stream.
LEMMA CancelKeepsKeys ==
  ASSUME BlockedInv, NEW s \in Streams, CancelStream(s)
  PROVE  blocked' = KeysOf(refs', krcnt') /\ blocked' \subseteq blocked
<1>. DEFINE p == refs'
            b == tab.next
<1>1. /\ QueuesUpTo(refs, b) /\ b \in Nat /\ krcnt \in Nat
      /\ blocked = KeysOf(refs, krcnt) /\ refs \in [Streams -> Seq(Ref)]
  BY QueuesBounded DEF BlockedInv, QueuesUpTo
<1>2. /\ p = [refs EXCEPT ![s] = <<>>] /\ krcnt' = krcnt
      /\ blocked' = IF IsBlocked(s) THEN blocked \ {Key(TopCnt(refs[s]), s)}
                    ELSE blocked
  BY DEF CancelStream
<1>3. /\ p \in [Streams -> Seq(Ref)] /\ p[s] = <<>>
      /\ \A x \in Streams \ {s} : p[x] = refs[x]
  BY <1>1, <1>2
<1>4. QueuesUpTo(p, b)
  <2>1. CountsUpTo(<<>>, b)
    BY DEF CountsUpTo
  <2>. QED
    BY <1>1, <1>3, <2>1 DEF QueuesUpTo
<1>5. TopCnt(p[s]) = 0
  BY <1>3 DEF TopCnt
<1>. HIDE DEF p, b
<1>6. \A k : k \in KeysOf(p, krcnt) <=>
        \/ k \in KeysOf(refs, krcnt) /\ k.id # s
        \/ krcnt < TopCnt(p[s]) /\ k = Key(TopCnt(p[s]), s)
  <2>1. SameBut(p, refs, s)
    BY <1>3 DEF SameBut
  <2>. QED
    BY <2>1, KeysMove
<1>7. KeysOf(p, krcnt) = {k \in KeysOf(refs, krcnt) : k.id # s}
  <2>1. ~(krcnt < TopCnt(p[s]))
    BY <1>1, <1>5
  <2>2. \A k \in KeysOf(refs, krcnt) : k.max_cnt > krcnt
    BY <1>1, KeysUnblocked
  <2>. QED
    BY <1>6, <2>1, <2>2
<1>8. ASSUME NEW k \in blocked
      PROVE  k.id = s <=> IsBlocked(s) /\ k = Key(TopCnt(refs[s]), s)
  <2>1. krcnt < TopCnt(refs[k.id]) /\ k = Key(TopCnt(refs[k.id]), k.id)
    BY <1>1, KeyOfStream
  <2>2. k.id = s => IsBlocked(s)
    <3>1. refs[s] = <<>> => TopCnt(refs[s]) = 0
      BY DEF TopCnt
    <3>. QED
      BY <1>1, <2>1, <3>1 DEF IsBlocked, KnownStreams
  <2>. QED
    BY <2>1, <2>2 DEF Key
<1>. QED
  BY <1>1, <1>2, <1>7, <1>8 DEF p
\* qpack_encoder_add_stream_ref replaces the key of the stream, and adds one
\* only for a stream that was not blocked, by a section with leave to block.
LEMMA FinishKeepsKeys ==
  ASSUME BlockedInv, FinishEncode
  PROVE  /\ blocked' = KeysOf(refs', krcnt') /\ IsFiniteSet(blocked')
         /\ Cardinality(blocked') > Cardinality(blocked)
              => Cardinality(blocked) < maxBlocked
<1>. DEFINE s == cur.stream
            x == Max(cur.cnts)
            n == Min(cur.cnts)
            q == refs[s]
            p == refs'
            b == tab.next
            ref == [max_cnt |-> x, min_cnt |-> n]
<1>1. /\ QueuesUpTo(refs, b) /\ b \in Nat /\ krcnt \in Nat /\ IsFiniteSet(blocked)
      /\ blocked = KeysOf(refs, krcnt) /\ refs \in [Streams -> Seq(Ref)]
      /\ cur # NoSection /\ krcnt' = krcnt
      /\ Cardinality(blocked) \in Nat /\ maxBlocked \in Nat
  BY QueuesBounded, FS_CardinalityType
  DEF BlockedInv, QueuesUpTo, FinishEncode, IInv, TypeOK
<1>2. CASE cur.cnts = {}
  BY <1>1, <1>2 DEF FinishEncode
<1>3. CASE cur.cnts # {}
  <2>1. /\ s \in Streams /\ tab.first \in Nat /\ b \in Nat
        /\ cur.cnts \in SUBSET (tab.first + 1 .. b) /\ cur.allow \in BOOLEAN
    BY <1>1, PinsAreLive DEF BlockedInv, IInv, TypeOK, IsSection
  <2>2. x \in cur.cnts /\ n \in cur.cnts
    <3>1. cur.cnts \in SUBSET Nat /\ \A c \in cur.cnts : c <= b
      BY <2>1
    <3>. QED
      BY <1>1, <1>3, <3>1, MinIsLeast, MaxIsGreatest
  <2>3. AddStreamRef(s, x, n)
    BY <1>3 DEF FinishEncode
  <2>. HIDE DEF x, n, s
  <2>4. x \in Nat /\ n \in Nat /\ x <= b
    BY <2>1, <2>2
  <2>5. q \in Seq(Ref) /\ CountsUpTo(q, b) /\ ref \in Ref /\ ref.max_cnt = x
    BY <1>1, <2>1, <2>4 DEF QueuesUpTo, Ref
  <2>6. p = [refs EXCEPT ![s] = Append(q, ref)]
    BY <2>3 DEF AddStreamRef
  <2>7. p[s] = Append(q, ref) /\ SameBut(p, refs, s)
    BY <1>1, <2>1, <2>6 DEF SameBut
  <2>8. /\ TopCnt(p[s]) = IF x > TopCnt(q) THEN x ELSE TopCnt(q)
        /\ TopCnt(q) \in Nat
    <3>1. TopCnt(Append(q, ref)) =
            IF ref.max_cnt > TopCnt(q) THEN ref.max_cnt ELSE TopCnt(q)
      BY <1>1, <2>4, <2>5, TopOfAppend
    <3>2. TopCnt(q) \in Nat
      BY <1>1, <2>5, TopIsGreatest
    <3>. QED
      BY <2>5, <2>7, <3>1, <3>2
  <2>9. IsBlocked(s) <=> krcnt < TopCnt(q)
    <3>1. q = <<>> => TopCnt(q) = 0
      BY DEF TopCnt
    <3>. QED
      BY <1>1, <2>1, <2>8, <3>1 DEF IsBlocked, KnownStreams
  <2>10. blocked' =
           IF x > TopCnt(q) /\ krcnt < x
           THEN (IF IsBlocked(s) /\ x > TopCnt(q)
                 THEN blocked \ {Key(TopCnt(q), s)} ELSE blocked)
                \cup {Key(x, s)}
           ELSE IF IsBlocked(s) /\ x > TopCnt(q)
                THEN blocked \ {Key(TopCnt(q), s)} ELSE blocked
    BY <2>3 DEF AddStreamRef
  <2>11. \A k : k \in KeysOf(p, krcnt) <=>
           \/ k \in blocked /\ k.id # s
           \/ krcnt < TopCnt(p[s]) /\ k = Key(TopCnt(p[s]), s)
    <3>1. \A k : k \in KeysOf(p, krcnt) <=>
            \/ k \in KeysOf(refs, krcnt) /\ k.id # s
            \/ krcnt < TopCnt(p[s]) /\ k = Key(TopCnt(p[s]), s)
      <4>1. s \in Streams /\ SameBut(p, refs, s)
        BY <2>1, <2>7
      <4>. HIDE DEF p
      <4>. QED
        BY <4>1, KeysMove
    <3>. QED
      BY <1>1, <3>1, Zenon
  <2>12. /\ \A k \in blocked : k.id = s =>
              krcnt < TopCnt(q) /\ k = Key(TopCnt(q), s)
         /\ krcnt < TopCnt(q) => Key(TopCnt(q), s) \in blocked
    <3>1. \A k \in blocked : k.id = s =>
            krcnt < TopCnt(q) /\ k = Key(TopCnt(q), s)
      BY <1>1, KeyOfStream
    <3>2. krcnt < TopCnt(q) => Key(TopCnt(q), s) \in blocked
      BY <1>1, <2>1 DEF KeysOf
    <3>. QED
      BY <3>1, <3>2
  <2>13. Key(TopCnt(q), s).id = s /\ Key(x, s).id = s
         /\ (Key(x, s) = Key(TopCnt(q), s) => x = TopCnt(q))
    BY DEF Key
  <2>. HIDE DEF q, p, b, ref
  <2>14. CASE ~(x > TopCnt(q))
    <3>1. blocked' = blocked /\ TopCnt(p[s]) = TopCnt(q)
      BY <2>8, <2>10, <2>14
    <3>2. blocked = KeysOf(p, krcnt)
      BY <2>11, <2>12, <2>13, <3>1
    <3>. QED
      BY <1>1, <3>1, <3>2 DEF p
  <2>15. CASE x > TopCnt(q) /\ krcnt < TopCnt(q)
    <3>1. krcnt < x
      BY <1>1, <2>4, <2>8, <2>15
    <3>2. /\ blocked' = (blocked \ {Key(TopCnt(q), s)}) \cup {Key(x, s)}
          /\ TopCnt(p[s]) = x
      BY <2>8, <2>9, <2>10, <2>15, <3>1
    <3>3. KeysOf(p, krcnt) = blocked'
      BY <2>11, <2>12, <2>13, <3>1, <3>2
    <3>4. /\ IsFiniteSet(blocked \ {Key(TopCnt(q), s)})
          /\ Cardinality(blocked \ {Key(TopCnt(q), s)}) = Cardinality(blocked) - 1
      BY <1>1, <2>12, <2>15, FS_RemoveElement
    <3>5. /\ IsFiniteSet(blocked')
          /\ Cardinality(blocked') \in {Cardinality(blocked) - 1, Cardinality(blocked)}
      BY <1>1, <3>2, <3>4, FS_AddElement, SMTT(60)
    <3>. QED
      BY <1>1, <3>3, <3>5 DEF p
  <2>16. CASE x > TopCnt(q) /\ ~(krcnt < TopCnt(q)) /\ krcnt < x
    <3>1. blocked' = blocked \cup {Key(x, s)} /\ TopCnt(p[s]) = x
      BY <2>8, <2>9, <2>10, <2>16
    <3>2. KeysOf(p, krcnt) = blocked'
      BY <2>11, <2>12, <2>13, <2>16, <3>1
    <3>3. IsFiniteSet(blocked')
      BY <1>1, <3>1, FS_AddElement
    <3>4. cur.allow
      <4>1. ~cur.allow => x <= krcnt
        BY <1>1, <2>2 DEF BlockedInv, IInv, UnblockedSectionSafe
      <4>. QED
        BY <1>1, <2>4, <2>16, <4>1
    <3>5. maxBlocked > Cardinality(blocked)
      BY <1>1, <2>16, <3>4 DEF BlockedInv, LeaveToBlock, q, s
    <3>. QED
      BY <1>1, <3>2, <3>3, <3>5 DEF p
  <2>17. CASE x > TopCnt(q) /\ ~(krcnt < TopCnt(q)) /\ ~(krcnt < x)
    <3>1. blocked' = blocked /\ TopCnt(p[s]) = x
      BY <2>8, <2>9, <2>10, <2>17
    <3>2. blocked = KeysOf(p, krcnt)
      BY <2>11, <2>12, <2>13, <2>17, <3>1
    <3>. QED
      BY <1>1, <3>1, <3>2 DEF p
  <2>. QED
    BY <2>14, <2>15, <2>16, <2>17
<1>. QED
  BY <1>2, <1>3

\* Every step keeps the keys exact, and adds one only below the limit.
LEMMA NextKeepsBlockedInv ==
  ASSUME BlockedInv, [Next]_vars
  PROVE  /\ BlockedInv'
         /\ Cardinality(blocked') > Cardinality(blocked)
              => Cardinality(blocked) < maxBlocked
<1>. DEFINE Kept == /\ blocked' = KeysOf(refs', krcnt') /\ IsFiniteSet(blocked')
                    /\ LeaveToBlock'
                    /\ Cardinality(blocked') > Cardinality(blocked)
                         => Cardinality(blocked) < maxBlocked
<1>1. /\ IInv /\ blocked = KeysOf(refs, krcnt) /\ IsFiniteSet(blocked)
      /\ QueuesUpTo(refs, tab.next) /\ tab.next \in Nat /\ krcnt \in Nat
      /\ Cardinality(blocked) \in Nat
  BY QueuesBounded, FS_CardinalityType DEF BlockedInv
<1>2. ASSUME UNCHANGED ackVars, LeaveToBlock' PROVE Kept
  BY <1>1, <1>2 DEF ackVars
<1>3. ASSUME cur' = NoSection, blocked' = KeysOf(refs', krcnt'),
             blocked' \subseteq blocked
      PROVE  Kept
  BY <1>1, <1>3, FewerBlocked DEF LeaveToBlock
<1>4. ASSUME cur' = NoSection, UNCHANGED ackVars PROVE Kept
  BY <1>2, <1>4 DEF LeaveToBlock
<1>5. ASSUME NEW c \in Capacities, SetMaxDtableCapacity(c) PROVE Kept
  BY <1>4, <1>5 DEF SetMaxDtableCapacity
<1>6. ASSUME NEW n \in BlockedLimits, SetMaxBlockedStreams(n) PROVE Kept
  BY <1>4, <1>6 DEF SetMaxBlockedStreams
<1>7. ASSUME NEW s \in Streams, BeginEncode(s) PROVE Kept
  <2>1. /\ UNCHANGED ackVars /\ maxBlocked' = maxBlocked
        /\ cur'.stream = s /\ cur'.allow = MayBlock(s)
    BY <1>7 DEF BeginEncode
  <2>2. LeaveToBlock'
    BY <2>1 DEF LeaveToBlock, MayBlock, IsBlocked, ackVars
  <2>. QED
    BY <1>2, <2>1, <2>2
<1>8. ASSUME NEW f \in Fields, EncodeNv(f) PROVE Kept
  <2>1. UNCHANGED ackVars /\ maxBlocked' = maxBlocked /\ cur # NoSection
    BY <1>8 DEF EncodeNv
  <2>2. cur'.stream = cur.stream /\ cur'.allow = cur.allow
    <3>. DEFINE Same == cur'.stream = cur.stream /\ cur'.allow = cur.allow
    <3>a. \A i, l, u : cur' = Extended(i, l, u) => Same
      BY DEF Extended
    <3>. HIDE DEF Same
    <3>1. EncodeStaticIndexed(f) => Same
      BY <3>a DEF EncodeStaticIndexed, Write
    <3>2. EncodeDynamicIndexed(f) => Same
      BY <3>a DEF EncodeDynamicIndexed, Write, InsertAndRefer, Insert
    <3>3. EncodeStaticName(f) => Same
      BY <3>a DEF EncodeStaticName, Write, InsertAndRefer, Insert
    <3>4. EncodeDynamicName(f) => Same
      BY <3>a DEF EncodeDynamicName, Write, InsertAndRefer, Insert
    <3>5. EncodeLiteral(f) => Same
      BY <3>a DEF EncodeLiteral, Write, InsertAndRefer, Insert
    <3>6. Same
      BY <1>8, <3>1, <3>2, <3>3, <3>4, <3>5 DEF EncodeNv
    <3>. QED
      BY <3>6 DEF Same
  <2>3. LeaveToBlock'
    BY <2>1, <2>2 DEF BlockedInv, LeaveToBlock, ackVars
  <2>. QED
    BY <1>2, <2>1, <2>3
<1>9. ASSUME FinishEncode PROVE Kept
  BY <1>9, FinishKeepsKeys DEF FinishEncode, LeaveToBlock
<1>10. ASSUME NEW s \in Streams, ReadSectionAck(s) PROVE Kept
  <2>1. cur' = NoSection /\ (AckHeader(s) \/ UNCHANGED ackVars)
    BY <1>10 DEF ReadSectionAck, Read
  <2>. QED
    BY <1>3, <1>4, <2>1, AckKeepsKeys
<1>11. ASSUME NEW n \in 0 .. MaxInserts, ReadInsertCountIncrement(n) PROVE Kept
  <2>1. cur' = NoSection /\ (AddIcnt(n) \/ UNCHANGED ackVars)
    BY <1>11 DEF ReadInsertCountIncrement, Read
  <2>2. CASE AddIcnt(n) /\ ~UNCHANGED ackVars
    <3>1. /\ krcnt' = krcnt + n /\ blocked' = KeysAbove(krcnt + n)
          /\ refs' = refs
      BY <2>2 DEF AddIcnt
    <3>2. krcnt + n \in Nat /\ krcnt <= krcnt + n
      BY <1>1, EncoderAssumption
    <3>3. blocked' = {k \in KeysOf(refs, krcnt) : k.max_cnt > krcnt + n}
      BY <1>1, <3>1 DEF KeysAbove
    <3>4. blocked' = KeysOf(refs', krcnt')
      BY <1>1, <3>1, <3>2, <3>3, KeysUnblocked
    <3>. QED
      BY <1>1, <1>3, <2>1, <3>3, <3>4
  <2>. QED
    BY <1>4, <2>1, <2>2
<1>12. ASSUME NEW s \in Streams, ReadStreamCancel(s) PROVE Kept
  <2>1. cur' = NoSection /\ (CancelStream(s) \/ UNCHANGED ackVars)
    BY <1>12 DEF ReadStreamCancel, Read
  <2>. QED
    BY <1>3, <1>4, <2>1, CancelKeepsKeys
<1>13. ASSUME AckEverything PROVE Kept
  <2>1. /\ cur' = NoSection /\ krcnt' = tab.next /\ blocked' = {}
        /\ refs' = [s \in Streams |-> <<>>]
    BY <1>13 DEF AckEverything
  <2>2. \A s \in Streams : ~(krcnt' < TopCnt(refs'[s]))
    BY <1>1, <2>1 DEF TopCnt
  <2>3. KeysOf(refs', krcnt') = {}
    BY <2>2 DEF KeysOf
  <2>. QED
    BY <1>3, <2>1, <2>3
<1>14. ASSUME UNCHANGED vars PROVE Kept
  <2>1. UNCHANGED ackVars /\ cur' = cur /\ maxBlocked' = maxBlocked
    BY <1>14 DEF vars
  <2>2. LeaveToBlock'
    BY <2>1 DEF BlockedInv, LeaveToBlock, ackVars
  <2>. QED
    BY <1>2, <2>1, <2>2
<1>. HIDE DEF Kept
<1>15. Kept
  BY <1>5, <1>6, <1>7, <1>8, <1>9, <1>10, <1>11, <1>12, <1>13, <1>14 DEF Next
<1>16. IInv'
  BY <1>1, NextKeepsIInv
<1>. QED
  BY <1>15, <1>16 DEF BlockedInv, Kept

\* No stream is blocked at the start.
LEMMA InitBlockedInv == Init => BlockedInv
<1>. SUFFICES ASSUME Init PROVE BlockedInv
  OBVIOUS
<1>1. /\ blocked = {} /\ cur = NoSection /\ krcnt = 0
      /\ refs = [s \in Streams |-> <<>>]
  BY DEF Init
<1>2. KeysOf(refs, krcnt) = {}
  <2>1. \A s \in Streams : ~(krcnt < TopCnt(refs[s]))
    BY <1>1 DEF TopCnt
  <2>. QED
    BY <2>1 DEF KeysOf
<1>3. IsFiniteSet(blocked)
  BY <1>1, FS_EmptySet
<1>. QED
  BY <1>1, <1>2, <1>3, InitIInv DEF BlockedInv, LeaveToBlock

\* The blocked streams and their counts stay in step, for any streams, any
\* sections and any order of acknowledgments and cancellations.
THEOREM EncoderBlockedInvariant == Spec => []BlockedInv
<1>1. BlockedInv /\ [Next]_vars => BlockedInv'
  BY NextKeepsBlockedInv
<1>. QED
  BY <1>1, InitBlockedInv, PTL DEF Spec

\* The skip list blocked_streams holds the largest count of every blocked
\* stream and nothing else: nghttp3_qpack_encoder_unblock_stream finds its key.
THEOREM EncoderBlockedStreamsExact == Spec => []BlockedStreamsExact
<1>1. BlockedInv => BlockedStreamsExact
  BY ExactIsKeys DEF BlockedInv
<1>. QED
  BY <1>1, EncoderBlockedInvariant, PTL

\* A stream becomes blocked only below the limit the peer announced, whatever
\* happens to that limit between two sections.
THEOREM EncoderBlockedLimitRespected == Spec => BlockedLimitRespected
<1>1. BlockedInv /\ [Next]_vars =>
        [Cardinality(blocked') > Cardinality(blocked)
           => Cardinality(blocked) < maxBlocked]_vars
  BY NextKeepsBlockedInv
<1>. QED
  BY <1>1, EncoderBlockedInvariant, PTL DEF Spec, BlockedLimitRespected

-----------------------------------------------------------------------------
(* What a call of encode writes to the encoder stream *)

\* The instruction spells out the field, or names entries that hold it.
Spells(i, f) ==
  \/ /\ i.op \in {"InsertStatic", "InsertLiteral"}
     /\ i.name = f.name /\ i.value = f.value
  \/ /\ i.op \in {"InsertDynamic", "Duplicate"}
     /\ \E a \in Live(tab) :
          /\ i.idx = RelIndex(a) /\ tab.ent[a].name = f.name
          /\ IF i.op = "Duplicate" THEN tab.ent[a].value = f.value
                                   ELSE i.value = f.value

\* A field inserted into the table, with the instruction that says so.
Inserted(f, i) ==
  /\ i \in Instruction /\ i.op # "SetCap" /\ Spells(i, f)
  /\ cur'.ins = cur.ins \o <<i>>
  /\ tab' = TableAdd(tab, f.name, f.value, cap)
  /\ TableSpace(f.name, f.value) <= cap /\ Size(tab) <= cap

\* What can_index grants fits the capacity, and it grants nothing while the
\* table is too large for it.
LEMMA CanIndexFits ==
  ASSUME IInv, cur # NoSection, NEW f \in Fields,
         NEW kept \in SUBSET (tab.first + 1 .. tab.next),
         CanIndex(TableSpace(f.name, f.value), kept)
  PROVE  TableSpace(f.name, f.value) <= cap /\ Size(tab) <= cap
<1>. DEFINE need == TableSpace(f.name, f.value)
            u == TableAdd(tab, f.name, f.value, cap)
            pins == MinCnts \cup kept
            q == Min(pins)
<1>1. IsTable(tab) /\ cap \in Nat /\ tab.first \in Nat /\ tab.next \in Nat
      /\ tab.first <= tab.next
  BY EncoderAssumption DEF IInv, TypeOK, IsTable
<1>2. need \in Nat
  BY SpaceType
<1>3. pins \in SUBSET (tab.first + 1 .. tab.next) /\ pins \in SUBSET Nat
  <2>1. pins \in SUBSET (tab.first + 1 .. tab.next)
    BY PinsAreLive, Zenon DEF IInv
  <2>. QED
    BY <1>1, <2>1
<1>4. pins # {} => q \in pins /\ \A p \in pins : q <= p
  BY <1>3, MinIsLeast
<1>5. Size(tab) \in Int
  BY <1>1 DEF Size, SizeFrom, IsTable, Live, Entry
<1>. HIDE DEF q, need
<1>6. Size(tab) <= cap
  <2>1. SUFFICES ASSUME Size(tab) > cap PROVE FALSE
    BY <1>1, <1>5
  <2>2. MinCnts # {} /\ Min(MinCnts) = tab.first + 1
    BY <2>1 DEF IInv, OverCapacityOnlyWhilePinned
  <2>3. tab.first + 1 \in pins
    BY <1>1, <1>3, <2>2, MinIsLeast
  <2>4. q = tab.first + 1
    BY <1>1, <1>3, <1>4, <2>3
  <2>. QED
    BY <1>1, <1>5, <2>1, <2>3, <2>4 DEF CanIndex, q
<1>7. need <= cap
  <2>1. CASE cap > Size(tab) /\ need <= cap - Size(tab)
    <3>1. Size(tab) >= 0
      BY <1>1 DEF Size, SizeFrom, IsTable, Live, Entry
    <3>. QED
      BY <1>1, <1>2, <1>5, <2>1, <3>1
  <2>2. CASE pins = {} /\ need <= cap
    BY <2>2
  <2>3. CASE /\ pins # {} /\ q - 1 # tab.first
             /\ need <= (IF cap > Size(tab) THEN cap - Size(tab) ELSE 0)
                          + tab.ent[q - 1].sum - tab.ent[tab.first].sum
    <3>1. q \in tab.first + 1 .. tab.next
      BY <1>3, <1>4, <2>3
    <3>2. q - 1 \in Live(tab) /\ tab.first \in Live(tab)
      BY <1>1, <3>1 DEF Live
    <3>3. /\ tab.ent[q - 1].sum \in Nat /\ tab.ent[tab.first].sum \in Nat /\ tab.sum \in Nat
          /\ tab.ent[q - 1].sum <= tab.sum
      BY <1>1, <3>2 DEF IsTable, Entry
    <3>4. Size(tab) = tab.sum - tab.ent[tab.first].sum
      BY <3>2, <1>1 DEF Size, SizeFrom, Live
    <3>5. need <= cap - Size(tab) + tab.ent[q - 1].sum - tab.ent[tab.first].sum
      BY <1>1, <1>2, <1>5, <1>6, <2>3, <3>3
    <3>. QED
      BY <1>1, <1>2, <1>5, <3>3, <3>4, <3>5
  <2>. QED
    BY <1>1, <1>2, <1>5, <2>1, <2>2, <2>3 DEF CanIndex, q, need
<1>. QED
  BY <1>6, <1>7 DEF need

\* Appending keeps a section a section.
LEMMA SectionGrows ==
  ASSUME TypeOK, cur \in Section, NEW i \in Seq(Instruction), NEW l \in FieldLine,
         NEW used \in SUBSET Nat
  PROVE  /\ Extended(i, <<l>>, used) \in Section
         /\ Extended(i, <<l>>, used).ins = cur.ins \o i
         /\ Extended(i, <<l>>, used).lines # <<>>
<1>1. /\ cur.lines \in Seq(FieldLine) /\ cur.ins \in Seq(Instruction)
      /\ cur.cnts \in SUBSET Nat /\ cur.stream \in Streams /\ cur.base \in Nat
      /\ cur.allow \in BOOLEAN
  BY DEF Section
<1>2. ASSUME NEW S, NEW q \in Seq(S), NEW r \in Seq(S) PROVE q \o r \in Seq(S)
  OBVIOUS
<1>3. <<l>> \in Seq(FieldLine)
  OBVIOUS
<1>4. /\ cur.lines \o <<l>> \in Seq(FieldLine)
      /\ cur.ins \o i \in Seq(Instruction)
  BY <1>1, <1>2, <1>3
<1>5. cur.cnts \cup used \in SUBSET Nat
  BY <1>1
<1>6. cur.lines \o <<l>> # <<>>
  BY <1>1
<1>. QED
  BY <1>1, <1>4, <1>5, <1>6 DEF Extended, Section

\* The lines that refer to the entry a.
LEMMA LineTypes ==
  ASSUME TypeOK, cur \in Section, NEW a \in Live(tab), NEW v \in Values
  PROVE  /\ IndexedLine(a) \in FieldLine /\ NameLine(a, v) \in FieldLine
         /\ RelIndex(a) \in Nat
<1>1. a \in Nat /\ cur.base \in Nat /\ tab.next \in Nat /\ a <= tab.next - 1
  <2>1. tab.first \in Nat /\ tab.next \in Nat /\ a \in tab.first .. tab.next - 1
    BY DEF TypeOK, IsTable, Live
  <2>2. cur.base \in Nat
    BY DEF Section
  <2>. QED
    BY <2>1, <2>2
<1>2. RelIndex(a) \in Nat
  BY <1>1 DEF RelIndex
<1>3. CASE a < cur.base
  <2>1. cur.base - a - 1 \in Nat
    BY <1>1, <1>3
  <2>. QED
    BY <1>2, <1>3, <2>1 DEF IndexedLine, NameLine, FieldLine
<1>4. CASE ~(a < cur.base)
  <2>1. a - cur.base \in Nat
    BY <1>1, <1>4
  <2>. QED
    BY <1>2, <1>4, <2>1 DEF IndexedLine, NameLine, FieldLine
<1>. QED
  BY <1>3, <1>4

\* nghttp3_qpack_encoder_encode_nv writes an instruction exactly when it
\* inserts, and the instruction says what is inserted.
LEMMA EncodeWrites ==
  ASSUME IInv, cur \in Section, cur # NoSection, NEW f \in Fields, EncodeNv(f)
  PROVE  /\ cur' \in Section /\ cur'.lines # <<>>
         /\ \/ tab' = tab /\ cur'.ins = cur.ins
            \/ \E i \in Instruction : Inserted(f, i)
<1>. DEFINE need == TableSpace(f.name, f.value)
            Goal == /\ cur' \in Section /\ cur'.lines # <<>>
                    /\ \/ tab' = tab /\ cur'.ins = cur.ins
                       \/ \E i \in Instruction : Inserted(f, i)
<1>. SUFFICES Goal
  OBVIOUS
<1>1. /\ TypeOK /\ tab.first \in Nat /\ tab.next \in Nat /\ tab.first <= tab.next
      /\ f.name \in Names /\ f.value \in Values
  BY SpaceType DEF IInv, TypeOK, IsTable
<1>2. cur.ins \in Seq(Instruction) /\ cur.cnts \in SUBSET (tab.first + 1 .. tab.next)
  BY PinsAreLive DEF IInv, Section
\* Writing, and inserting with either line.
<1>3. ASSUME NEW l \in FieldLine, NEW used \in SUBSET Nat, Write(l, used)
      PROVE  Goal
  <2>1. cur' = Extended(<<>>, <<l>>, used) /\ tab' = tab
    BY <1>3 DEF Write
  <2>2. cur' \in Section /\ cur'.lines # <<>> /\ cur'.ins = cur.ins \o <<>>
    <3>1. <<>> \in Seq(Instruction)
      OBVIOUS
    <3>. QED
      BY <1>1, <2>1, <3>1, SectionGrows
  <2>. QED
    BY <1>2, <2>1, <2>2
<1>4. ASSUME NEW i \in Instruction, i.op # "SetCap", Spells(i, f),
             NEW l \in FieldLine, NEW used \in SUBSET Nat,
             NEW kept \in SUBSET (tab.first + 1 .. tab.next),
             CanIndex(need, kept), Insert(f, i, l, used)
      PROVE  Goal
  <2>1. /\ cur' = Extended(<<i>>, <<l>>, used)
        /\ tab' = TableAdd(tab, f.name, f.value, cap)
    BY <1>4 DEF Insert
  <2>2. cur' \in Section /\ cur'.lines # <<>> /\ cur'.ins = cur.ins \o <<i>>
    <3>1. <<i>> \in Seq(Instruction)
      OBVIOUS
    <3>. QED
      BY <1>1, <2>1, <3>1, SectionGrows
  <2>3. need <= cap /\ Size(tab) <= cap
    BY <1>4, CanIndexFits
  <2>4. Inserted(f, i)
    BY <1>4, <2>1, <2>2, <2>3 DEF Inserted
  <2>. QED
    BY <2>2, <2>4
<1>5. ASSUME NEW i \in Instruction, i.op # "SetCap", Spells(i, f),
             NEW kept \in SUBSET (tab.first + 1 .. tab.next),
             CanIndex(need, kept), InsertAndRefer(f, i)
      PROVE  Goal
  <2>1. IndexedLine(tab.next) \in FieldLine
    <3>1. tab.next \in Nat /\ cur.base \in Nat
      BY <1>1 DEF Section
    <3>2. CASE tab.next < cur.base
      <4>1. cur.base - tab.next - 1 \in Nat
        BY <3>1, <3>2
      <4>. QED
        BY <3>2, <4>1 DEF IndexedLine, FieldLine
    <3>3. CASE ~(tab.next < cur.base)
      <4>1. tab.next - cur.base \in Nat
        BY <3>1, <3>3
      <4>. QED
        BY <3>3, <4>1 DEF IndexedLine, FieldLine
    <3>. QED
      BY <3>2, <3>3
  <2>2. {tab.next + 1} \in SUBSET Nat
    BY <1>1
  <2>3. Insert(f, i, IndexedLine(tab.next), {tab.next + 1})
    BY <1>5 DEF InsertAndRefer
  <2>. HIDE DEF Goal
  <2>. QED
    BY <1>4, <1>5, <2>1, <2>2, <2>3
<1>6. ASSUME NEW a \in Usable(f)
      PROVE  /\ a \in Live(tab) /\ {a + 1} \in SUBSET Nat
             /\ {a + 1} \in SUBSET (tab.first + 1 .. tab.next)
             /\ tab.ent[a].name = f.name /\ RelIndex(a) \in Nat
             /\ NameLine(a, f.value) \in FieldLine /\ IndexedLine(a) \in FieldLine
  <2>1. a \in Live(tab) /\ tab.ent[a].name = f.name
    BY DEF Usable, SameName
  <2>2. a + 1 \in tab.first + 1 .. tab.next /\ a + 1 \in Nat
    BY <1>1, <2>1 DEF Live
  <2>. QED
    BY <1>1, <2>1, <2>2, LineTypes
<1>. HIDE DEF Goal, need
<1>7. CASE EncodeStaticIndexed(f)
  <2>. DEFINE line == [op |-> "StaticIndexed", name |-> f.name, value |-> f.value]
  <2>1. line \in FieldLine
    BY <1>1 DEF FieldLine
  <2>2. Write(line, {})
    BY <1>7 DEF EncodeStaticIndexed
  <2>. QED
    BY <1>3, <2>1, <2>2
<1>8. CASE EncodeDynamicIndexed(f)
  <2>. DEFINE a == Max(Exact(f))
              ins == [op |-> "Duplicate", idx |-> RelIndex(a)]
  <2>1. a \in Usable(f)
    BY <1>8, UsableEntries DEF EncodeDynamicIndexed
  <2>2. a \in Exact(f) /\ tab.ent[a].value = f.value
    <3>1. Exact(f) \in SUBSET Nat /\ \A n \in Exact(f) : n <= tab.next
      BY <1>1 DEF Exact, Usable, SameName, Live
    <3>2. a \in Exact(f)
      BY <1>1, <1>8, <3>1, MaxIsGreatest DEF EncodeDynamicIndexed
    <3>3. Exact(f) \subseteq SameValue(f)
      BY DEF Exact
    <3>. QED
      BY <3>2, <3>3 DEF SameValue
  <2>. HIDE DEF a
  <2>3. CASE ShouldDuplicate(f, a)
    <3>1. InsertAndRefer(f, ins)
      BY <1>8, <2>3 DEF EncodeDynamicIndexed, a
    <3>2. ins \in Instruction /\ ins.op # "SetCap"
      BY <1>6, <2>1 DEF Instruction
    <3>3. Spells(ins, f)
      BY <1>6, <2>1, <2>2 DEF Spells
    <3>4. CanIndex(need, cur.cnts)
      BY <2>3 DEF ShouldDuplicate, need
    <3>. QED
      BY <1>2, <1>5, <3>1, <3>2, <3>3, <3>4
  <2>4. CASE ~ShouldDuplicate(f, a)
    <3>1. Write(IndexedLine(a), {a + 1})
      BY <1>8, <2>4 DEF EncodeDynamicIndexed, a
    <3>. QED
      BY <1>3, <1>6, <2>1, <3>1
  <2>. QED
    BY <2>3, <2>4
<1>9. CASE EncodeStaticName(f)
  <2>. DEFINE ins == [op |-> "InsertStatic", name |-> f.name, value |-> f.value]
              line == [op |-> "StaticName", name |-> f.name, value |-> f.value]
  <2>1. /\ ins \in Instruction /\ ins.op # "SetCap" /\ Spells(ins, f)
        /\ line \in FieldLine
    BY <1>1 DEF Instruction, FieldLine, Spells
  <2>2. \/ CanIndex(need, cur.cnts) /\ InsertAndRefer(f, ins)
        \/ CanIndex(need, cur.cnts) /\ Insert(f, ins, line, {})
        \/ Write(line, {})
    BY <1>9 DEF EncodeStaticName, need
  <2>. HIDE DEF ins, line
  <2>. QED
    BY <1>2, <1>3, <1>4, <1>5, <2>1, <2>2
<1>10. CASE EncodeDynamicName(f)
  <2>. DEFINE a == Max(Usable(f))
              ins == [op |-> "InsertDynamic", idx |-> RelIndex(a), value |-> f.value]
              kept == IF cur.allow THEN {} ELSE {a + 1}
  <2>1. a \in Usable(f)
    BY <1>10, UsableEntries DEF EncodeDynamicName
  <2>. HIDE DEF a
  <2>2. ins \in Instruction /\ ins.op # "SetCap"
    BY <1>1, <1>6, <2>1 DEF Instruction
  <2>3. Spells(ins, f)
    BY <1>6, <2>1 DEF Spells
  <2>4. cur.cnts \cup kept \in SUBSET (tab.first + 1 .. tab.next)
    BY <1>2, <1>6, <2>1
  <2>5. \/ CanIndex(need, cur.cnts \cup kept) /\ InsertAndRefer(f, ins)
        \/ /\ CanIndex(need, cur.cnts \cup kept)
           /\ Insert(f, ins, NameLine(a, f.value), {a + 1})
        \/ Write(NameLine(a, f.value), {a + 1})
    BY <1>10 DEF EncodeDynamicName, a, need
  <2>. HIDE DEF ins, kept
  <2>. QED
    BY <1>3, <1>4, <1>5, <1>6, <2>1, <2>2, <2>3, <2>4, <2>5
<1>11. CASE EncodeLiteral(f)
  <2>. DEFINE ins == [op |-> "InsertLiteral", name |-> f.name, value |-> f.value]
              line == [op |-> "Literal", name |-> f.name, value |-> f.value]
  <2>1. /\ ins \in Instruction /\ ins.op # "SetCap" /\ Spells(ins, f)
        /\ line \in FieldLine
    BY <1>1 DEF Instruction, FieldLine, Spells
  <2>2. \/ CanIndex(need, cur.cnts) /\ InsertAndRefer(f, ins)
        \/ CanIndex(need, cur.cnts) /\ Insert(f, ins, line, {})
        \/ Write(line, {})
    BY <1>11 DEF EncodeLiteral, need
  <2>. HIDE DEF ins, line
  <2>. QED
    BY <1>2, <1>3, <1>4, <1>5, <2>1, <2>2
<1>. QED
  BY <1>7, <1>8, <1>9, <1>10, <1>11 DEF EncodeNv
-----------------------------------------------------------------------------
(* What a call of encode writes to the request stream *)

\* The field line l says f, by an entry with a count in used if it names one.
SaysOf(l, f, used) ==
  \/ /\ l.op \in {"StaticIndexed", "StaticName", "Literal"}
     /\ l.name = f.name /\ l.value = f.value
  \/ \E a \in Nat :
       /\ a + 1 \in used
       /\ \/ a \in Live(tab) /\ tab.ent[a].name = f.name
          \/ a = tab.next /\ tab' = TableAdd(tab, f.name, f.value, cap)
       /\ \/ l = NameLine(a, f.value)
          \/ l = IndexedLine(a) /\ (a \in Live(tab) => tab.ent[a].value = f.value)

\* nghttp3_qpack_encoder_encode_nv writes one line, which says the field.
LEMMA EncodeSays ==
  ASSUME IInv, cur # NoSection, NEW f \in Fields, EncodeNv(f)
  PROVE  \E l, used :
           /\ cur'.lines = cur.lines \o <<l>> /\ cur'.cnts = cur.cnts \cup used
           /\ cur'.stream = cur.stream /\ cur'.base = cur.base
           /\ SaysOf(l, f, used)
<1>. DEFINE Goal == \E l, used :
              /\ cur'.lines = cur.lines \o <<l>> /\ cur'.cnts = cur.cnts \cup used
              /\ cur'.stream = cur.stream /\ cur'.base = cur.base
              /\ SaysOf(l, f, used)
<1>. SUFFICES Goal
  OBVIOUS
<1>1. TypeOK /\ tab.first \in Nat /\ tab.next \in Nat
  BY DEF IInv, TypeOK, IsTable
\* Writing a line, and inserting with one.
<1>2. ASSUME NEW l, NEW used, SaysOf(l, f, used),
             Write(l, used) \/ \E i : Insert(f, i, l, used)
      PROVE  Goal
  <2>1. PICK i : cur' = Extended(i, <<l>>, used)
    BY <1>2 DEF Write, Insert
  <2>. QED
    BY <1>2, <2>1 DEF Extended
<1>. HIDE DEF Goal
<1>3. ASSUME NEW i, InsertAndRefer(f, i) PROVE Goal
  <2>1. Insert(f, i, IndexedLine(tab.next), {tab.next + 1})
    BY <1>3 DEF InsertAndRefer
  <2>2. tab' = TableAdd(tab, f.name, f.value, cap)
    BY <2>1 DEF Insert
  <2>3. tab.next \notin Live(tab)
    BY <1>1 DEF Live
  <2>4. SaysOf(IndexedLine(tab.next), f, {tab.next + 1})
    BY <1>1, <2>2, <2>3 DEF SaysOf
  <2>. QED
    BY <1>2, <2>1, <2>4
<1>4. ASSUME NEW l, l.op \in {"StaticIndexed", "StaticName", "Literal"},
             l.name = f.name, l.value = f.value
      PROVE  SaysOf(l, f, {})
  BY <1>4 DEF SaysOf
<1>5. ASSUME NEW a \in Usable(f)
      PROVE  /\ a \in Nat /\ a \in Live(tab) /\ tab.ent[a].name = f.name
             /\ SaysOf(NameLine(a, f.value), f, {a + 1})
             /\ tab.ent[a].value = f.value => SaysOf(IndexedLine(a), f, {a + 1})
  <2>1. a \in Live(tab) /\ tab.ent[a].name = f.name
    BY <1>5 DEF Usable, SameName
  <2>2. a \in Nat
    BY <1>1, <2>1 DEF Live
  <2>. QED
    BY <2>1, <2>2 DEF SaysOf
<1>6. CASE EncodeStaticIndexed(f)
  <2>. DEFINE line == [op |-> "StaticIndexed", name |-> f.name, value |-> f.value]
  <2>1. Write(line, {})
    BY <1>6 DEF EncodeStaticIndexed
  <2>2. SaysOf(line, f, {})
    BY <1>4
  <2>. QED
    BY <1>2, <2>1, <2>2
<1>7. CASE EncodeDynamicIndexed(f)
  <2>. DEFINE a == Max(Exact(f))
  <2>1. a \in Usable(f)
    BY <1>7, UsableEntries DEF EncodeDynamicIndexed
  <2>2. tab.ent[a].value = f.value
    <3>1. Exact(f) \in SUBSET Nat /\ \A n \in Exact(f) : n <= tab.next
      BY <1>1 DEF Exact, Usable, SameName, Live
    <3>2. a \in Exact(f)
      BY <1>1, <1>7, <3>1, MaxIsGreatest DEF EncodeDynamicIndexed
    <3>3. Exact(f) \subseteq SameValue(f)
      BY DEF Exact
    <3>. QED
      BY <3>2, <3>3 DEF SameValue
  <2>3. \/ \E i : InsertAndRefer(f, i)
        \/ Write(IndexedLine(a), {a + 1})
    BY <1>7 DEF EncodeDynamicIndexed
  <2>. HIDE DEF a
  <2>4. SaysOf(IndexedLine(a), f, {a + 1})
    BY <1>5, <2>1, <2>2
  <2>. QED
    BY <1>2, <1>3, <2>3, <2>4
<1>8. CASE EncodeStaticName(f)
  <2>. DEFINE line == [op |-> "StaticName", name |-> f.name, value |-> f.value]
  <2>1. \/ \E i : InsertAndRefer(f, i)
        \/ \E i : Insert(f, i, line, {})
        \/ Write(line, {})
    BY <1>8 DEF EncodeStaticName
  <2>2. SaysOf(line, f, {})
    BY <1>4
  <2>. QED
    BY <1>2, <1>3, <2>1, <2>2
<1>9. CASE EncodeDynamicName(f)
  <2>. DEFINE a == Max(Usable(f))
  <2>1. a \in Usable(f)
    BY <1>9, UsableEntries DEF EncodeDynamicName
  <2>2. \/ \E i : InsertAndRefer(f, i)
        \/ \E i : Insert(f, i, NameLine(a, f.value), {a + 1})
        \/ Write(NameLine(a, f.value), {a + 1})
    BY <1>9 DEF EncodeDynamicName
  <2>. HIDE DEF a
  <2>3. SaysOf(NameLine(a, f.value), f, {a + 1})
    BY <1>5, <2>1
  <2>. QED
    BY <1>2, <1>3, <2>2, <2>3
<1>10. CASE EncodeLiteral(f)
  <2>. DEFINE line == [op |-> "Literal", name |-> f.name, value |-> f.value]
  <2>1. \/ \E i : InsertAndRefer(f, i)
        \/ \E i : Insert(f, i, line, {})
        \/ Write(line, {})
    BY <1>10 DEF EncodeLiteral
  <2>2. SaysOf(line, f, {})
    BY <1>4
  <2>. QED
    BY <1>2, <1>3, <2>1, <2>2
<1>. QED
  BY <1>6, <1>7, <1>8, <1>9, <1>10 DEF EncodeNv
=============================================================================
