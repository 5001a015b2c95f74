-------------------------- MODULE QpackTableProofs --------------------------
(***************************************************************************)
(* Facts about the operators of QpackTable, for tables of any size, any    *)
(* entries and any capacity.                                               *)
(***************************************************************************)
EXTENDS QpackTable, WellFoundedInduction, TLAPS

\* A nonempty set of naturals has a least element.
LEMMA MinExists ==
  ASSUME NEW S \in SUBSET Nat, S # {}
  PROVE  \E m \in S : \A n \in S : m <= n
<1>. DEFINE R == {ss \in Nat \X Nat : ss[1] < ss[2]}
<1>1. IsWellFoundedOn(R, Nat)
  BY NatLessThanWellFounded DEF OpToRel
<1>2. PICK m \in S : \A n \in S : ~ (<<n, m>> \in R)
  BY <1>1, WFMin, Zenon
<1>3. \A n \in S : ~ (n < m)
  BY <1>2
<1>. QED
  BY <1>3

\* Min of a nonempty set of naturals is its least element.
LEMMA MinIsLeast ==
  ASSUME NEW S \in SUBSET Nat, S # {}
  PROVE  Min(S) \in S /\ \A n \in S : Min(S) <= n
  BY MinExists DEF Min

\* Max of a nonempty bounded set of naturals is its greatest element.
LEMMA MaxIsGreatest ==
  ASSUME NEW S \in SUBSET Nat, S # {}, NEW k \in Nat, \A n \in S : n <= k
  PROVE  Max(S) \in S /\ \A n \in S : n <= Max(S)
<1>. DEFINE T == {k - n : n \in S}
<1>1. T \in SUBSET Nat
  OBVIOUS
<1>2. T # {}
  OBVIOUS
<1>3. PICK m \in T : \A n \in T : m <= n
  BY <1>1, <1>2, MinExists
<1>4. PICK g \in S : m = k - g
  BY <1>3
<1>5. ASSUME NEW n \in S PROVE n <= g
  <2>1. k - n \in T
    OBVIOUS
  <2>2. k - g <= k - n
    BY <2>1, <1>3, <1>4
  <2>. QED
    BY <2>2
<1>. QED
  BY <1>4, <1>5 DEF Max

\* The smaller of two naturals.
LEMMA MinOfPair ==
  ASSUME NEW a \in Nat, NEW b \in Nat
  PROVE  Min({a, b}) \in Nat /\ Min({a, b}) <= a /\ Min({a, b}) <= b
<1>1. Min({a, b}) \in {a, b} /\ \A n \in {a, b} : Min({a, b}) <= n
  BY MinIsLeast
<1>. QED
  BY <1>1

-----------------------------------------------------------------------------
\* Dropping the oldest entries leaves a table, of the size counted for it.
LEMMA DropToTable ==
  ASSUME NEW t, IsTable(t), NEW d \in t.first .. t.next
  PROVE  /\ IsTable(DropTo(t, d))
         /\ DropTo(t, d).first = d /\ DropTo(t, d).next = t.next
         /\ DropTo(t, d).sum = t.sum
         /\ \A a \in d .. t.next - 1 : DropTo(t, d).ent[a] = t.ent[a]
         /\ Size(DropTo(t, d)) = SizeFrom(t, d)
<1>. DEFINE u == [first |-> d, next |-> t.next, sum |-> t.sum,
                  ent |-> [a \in d .. t.next - 1 |-> t.ent[a]]]
<1>1. DropTo(t, d) = u
  BY DEF DropTo, IsTable
<1>2. IsTable(u)
  BY DEF IsTable, Live
<1>3. Size(u) = SizeFrom(t, d)
  BY DEF Size, SizeFrom, IsTable
<1>. HIDE DEF u
<1>. QED
  BY <1>1, <1>2, <1>3 DEF u

\* Emptying the table always makes room for what fits the capacity.
LEMMA EmptyFits ==
  ASSUME NEW t, IsTable(t), NEW need \in Nat, NEW max \in Nat, need <= max
  PROVE  t.next \in FitPoints(t, need, max)
  BY DEF FitPoints, SizeFrom, IsTable

\* nghttp3_qpack_context_dtable_add with an entry that fits: a table again,
\* one index longer, within its capacity, that has lost no entry from d on
\* if evicting the entries below d made enough room.
LEMMA TableAddTable ==
  ASSUME NEW t, IsTable(t), NEW n \in Names, NEW v \in Values, NEW max \in Nat,
         TableSpace(n, v) \in Nat, TableSpace(n, v) <= max
  PROVE  LET u == TableAdd(t, n, v, max) IN
         /\ IsTable(u)
         /\ u.next = t.next + 1
         /\ u.first \in t.first .. t.next
         /\ \A d \in FitPoints(t, TableSpace(n, v), max) : u.first <= d
         /\ Size(u) <= max
<1>. DEFINE F == FitPoints(t, TableSpace(n, v), max)
            m == Min(F)
            w == DropTo(t, m)
            u == TableAdd(t, n, v, max)
<1>1. F \in SUBSET Nat /\ F # {}
  BY EmptyFits DEF FitPoints, IsTable
<1>2. m \in F /\ \A d \in F : m <= d
  BY <1>1, MinIsLeast
<1>3. m \in t.first .. t.next /\ SizeFrom(t, m) + TableSpace(n, v) <= max
  BY <1>2 DEF FitPoints
<1>. HIDE DEF m
<1>4. /\ IsTable(w) /\ w.first = m /\ w.next = t.next /\ w.sum = t.sum
      /\ \A a \in m .. t.next - 1 : w.ent[a] = t.ent[a]
      /\ Size(w) = SizeFrom(t, m)
  BY <1>3, DropToTable
<1>. HIDE DEF w
<1>5. u = [first |-> w.first, next |-> w.next + 1, sum |-> w.sum + TableSpace(n, v),
           ent |-> [a \in w.first .. w.next |->
                      IF a = w.next THEN [name |-> n, value |-> v, sum |-> w.sum]
                      ELSE w.ent[a]]]
  BY DEF TableAdd, EvictToFit, w, m
<1>. HIDE DEF u
<1>6. u.first = m /\ u.next = t.next + 1
  BY <1>4, <1>5
<1>7. /\ u.ent \in [m .. t.next -> Entry]
      /\ \A a \in m .. t.next : u.ent[a].sum <= u.sum
  <2>1. ASSUME NEW a \in m .. t.next
        PROVE  u.ent[a] \in Entry /\ u.ent[a].sum <= u.sum
    <3>1. CASE a = t.next
      BY <3>1, <1>4, <1>5 DEF Entry, IsTable
    <3>2. CASE a # t.next
      <4>1. u.ent[a] = w.ent[a] /\ a \in m .. t.next - 1
        BY <3>2, <1>3, <1>4, <1>5 DEF IsTable
      <4>2. w.ent[a] \in Entry /\ w.ent[a].sum <= w.sum /\ w.sum \in Nat
        BY <4>1, <1>4 DEF IsTable, Live
      <4>. QED
        BY <4>1, <4>2, <1>5 DEF Entry
    <3>. QED
      BY <3>1, <3>2
  <2>. QED
    BY <2>1, <1>4, <1>5
<1>8. IsTable(u)
  <2>1. /\ t.next \in Nat /\ m \in Nat /\ m <= t.next
        /\ w.sum \in Nat
    BY <1>3, <1>4 DEF IsTable
  <2>2. Live(u) = m .. t.next
    BY <1>6, <2>1 DEF Live
  <2>3. u.sum \in Nat
    BY <1>5, <2>1
  <2>4. u = [first |-> u.first, next |-> u.next, sum |-> u.sum, ent |-> u.ent]
    BY <1>5
  <2>. QED
    BY <1>6, <1>7, <2>1, <2>2, <2>3, <2>4 DEF IsTable
<1>9. Size(u) = SizeFrom(t, m) + TableSpace(n, v)
  <2>1. CASE m = t.next
    BY <2>1, <1>4, <1>5 DEF Size, SizeFrom, IsTable
  <2>2. CASE m # t.next
    <3>1. m < t.next /\ u.ent[m] = t.ent[m] /\ t.ent[m].sum \in Nat
      BY <2>2, <1>3, <1>4, <1>5 DEF IsTable, Live, Entry
    <3>. QED
      BY <3>1, <1>3, <1>4, <1>5 DEF Size, SizeFrom, IsTable
  <2>. QED
    BY <2>1, <2>2
<1>. QED
  BY <1>2, <1>3, <1>6, <1>8, <1>9 DEF u, F
=============================================================================
