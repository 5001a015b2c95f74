---------------------------- MODULE QpackProofs -----------------------------
(***************************************************************************)
(* Proofs about the encoder and the decoder together, whatever order QUIC  *)
(* delivers their streams in.                                              *)
(*                                                                         *)
(* The tables: the instructions on their way are a debt of the decoder's   *)
(* table.  The proof tells what that debt is worth: a log of everything    *)
(* ever inserted (each table is a window on it), and for every instruction *)
(* not yet read the window and the capacity the decoder will have before   *)
(* and after it.                                                           *)
(*                                                                         *)
(* The sections: in the same way, what was written to a request stream     *)
(* brings its reader to the fields submitted, and what was written to the  *)
(* decoder stream brings the encoder to what the decoder has settled.      *)
(***************************************************************************)
EXTENDS QpackProps, TLAPS

EncP == INSTANCE QpackEncoderProofs WITH BlockedLimits <- {}

\* What is assumed of the constants, as the proofs about the encoder say it
LEMMA Constants ==
  /\ EncP!EncoderAssumption /\ EncP!LenAssumption /\ EncP!NoSectionAssumption
  /\ HardMax \in Nat /\ DecHardMax \in Nat /\ Capacities \subseteq Nat
<1>1. EncP!EncoderAssumption
  BY QpackAssumption DEF Enc!IsFiniteSet, EncP!IsFiniteSet
<1>2. EncP!LenAssumption
  BY QpackAssumption
<1>3. EncP!NoSectionAssumption
  BY QpackAssumption
  DEF Enc!Section, EncP!Section, Enc!Instruction, EncP!Instruction,
      Enc!FieldLine, EncP!FieldLine
<1>4. HardMax \in Nat /\ DecHardMax \in Nat /\ Capacities \subseteq Nat
  BY QpackAssumption
<1>. QED
  BY <1>1, <1>2, <1>3, <1>4

-----------------------------------------------------------------------------
(* Tables as windows on the log of all insertions *)

\* The entry inserted with absolute index a is L[a]; the sum of L[n] is what
\* was inserted before n, also for the index that comes next.
IsLog(L) == \A a \in Nat : L[a].sum \in Nat

Window(L, f, n) ==
  [first |-> f, next |-> n, sum |-> L[n].sum, ent |-> [a \in f .. n - 1 |-> L[a]]]

\* Where eviction stops that makes room for need bytes: the oldest entry it
\* may keep.
CutAt(L, f, n, need, max, d) ==
  /\ d \in f .. n /\ L[n].sum - L[d].sum + need <= max
  /\ \A e \in f .. n : L[n].sum - L[e].sum + need <= max => d <= e

\* There is a first place where eviction may stop.
LEMMA CutExists ==
  ASSUME NEW L, IsLog(L), NEW f \in Nat, NEW n \in Nat, f <= n,
         NEW need \in Nat, NEW max \in Nat, need <= max
  PROVE  \E d \in f .. n : CutAt(L, f, n, need, max, d)
<1>. DEFINE S == {d \in f .. n : L[n].sum - L[d].sum + need <= max}
<1>1. L[n].sum - L[n].sum + need <= max
  BY DEF IsLog
<1>2. S \in SUBSET Nat /\ S # {}
  BY <1>1
<1>3. PICK d \in S : \A e \in S : d <= e
  BY <1>2, Constants, EncP!MinExists
<1>. QED
  BY <1>3 DEF CutAt

\* Dropping the oldest entries leaves the log's window that starts later.
LEMMA WindowDrop ==
  ASSUME NEW L, NEW f \in Nat, NEW n \in Nat, NEW d \in f .. n
  PROVE  EncP!DropTo(Window(L, f, n), d) = Window(L, d, n)
<1>. DEFINE w == Window(L, f, n)
<1>1. /\ w.next = n /\ w.sum = L[n].sum /\ w.ent = [a \in f .. n - 1 |-> L[a]]
  BY DEF Window
<1>. HIDE DEF w
<1>2. [a \in d .. n - 1 |-> w.ent[a]] = [a \in d .. n - 1 |-> L[a]]
  <2>1. ASSUME NEW a \in d .. n - 1 PROVE w.ent[a] = L[a]
    BY <1>1
  <2>. QED
    BY <2>1
<1>3. EncP!DropTo(w, d) = Window(L, d, n)
  BY <1>1, <1>2 DEF EncP!DropTo, Window
<1>. QED
  BY <1>3 DEF w

\* Evicting moves the start of the window.
LEMMA WindowEvict ==
  ASSUME NEW L, IsLog(L), NEW f \in Nat, NEW n \in Nat, f <= n,
         NEW need \in Nat, NEW max \in Nat, NEW d, CutAt(L, f, n, need, max, d)
  PROVE  EncP!EvictToFit(Window(L, f, n), need, max) = Window(L, d, n)
<1>. DEFINE w == Window(L, f, n)
            S == EncP!FitPoints(w, need, max)
<1>1. /\ w.first = f /\ w.next = n /\ w.sum = L[n].sum
      /\ w.ent = [a \in f .. n - 1 |-> L[a]]
  BY DEF Window
<1>2. d \in f .. n /\ d \in Nat
  BY DEF CutAt
<1>3. ASSUME NEW e \in f .. n PROVE EncP!SizeFrom(w, e) = L[n].sum - L[e].sum
  <2>. HIDE DEF w
  <2>1. CASE e < n
    BY <1>1, <2>1 DEF EncP!SizeFrom
  <2>2. CASE e = n
    <3>1. L[n].sum - L[n].sum = 0
      BY DEF IsLog
    <3>. QED
      BY <1>1, <2>2, <3>1 DEF EncP!SizeFrom
  <2>. QED
    BY <2>1, <2>2
<1>. HIDE DEF w
<1>4. S = {e \in f .. n : L[n].sum - L[e].sum + need <= max}
  BY <1>1, <1>3 DEF EncP!FitPoints
<1>5. d \in S /\ \A e \in S : d <= e
  BY <1>4 DEF CutAt
<1>6. S \in SUBSET Nat
  BY <1>4
<1>7. EncP!Min(S) = d
  <2>1. EncP!Min(S) \in S /\ \A e \in S : EncP!Min(S) <= e
    BY <1>5, <1>6, Constants, EncP!MinIsLeast
  <2>2. EncP!Min(S) \in Nat /\ EncP!Min(S) <= d /\ d <= EncP!Min(S)
    BY <1>5, <1>6, <2>1
  <2>. QED
    BY <1>2, <2>2
<1>8. EncP!EvictToFit(w, need, max) = EncP!DropTo(w, d)
  BY <1>7 DEF EncP!EvictToFit
<1>9. EncP!DropTo(w, d) = Window(L, d, n)
  BY <1>2, WindowDrop DEF w
<1>. QED
  BY <1>8, <1>9 DEF w

\* The logs agree on what was inserted before n.
Agree(L, K, n) ==
  /\ \A a \in 0 .. n : K[a].sum = L[a].sum
  /\ \A a \in 0 .. n - 1 : K[a] = L[a]

\* Inserting extends the log, and the window by one entry.
LEMMA WindowAdd ==
  ASSUME NEW L, IsLog(L), NEW K, NEW f \in Nat, NEW n \in Nat, f <= n, Agree(L, K, n),
         NEW nm \in Names, NEW v \in Values, NEW max \in Nat,
         EncP!TableSpace(nm, v) \in Nat,
         K[n] = [name |-> nm, value |-> v, sum |-> L[n].sum],
         K[n + 1].sum = L[n].sum + EncP!TableSpace(nm, v),
         NEW d, CutAt(L, f, n, EncP!TableSpace(nm, v), max, d)
  PROVE  EncP!TableAdd(Window(L, f, n), nm, v, max) = Window(K, d, n + 1)
<1>. DEFINE sp == EncP!TableSpace(nm, v)
            u == EncP!EvictToFit(Window(L, f, n), sp, max)
<1>. HIDE DEF sp
<1>1. u = Window(L, d, n)
  BY WindowEvict DEF sp
<1>2. d \in f .. n /\ d \in Nat
  BY DEF CutAt
<1>. HIDE DEF u
<1>3. /\ u.first = d /\ u.next = n /\ u.sum = L[n].sum
      /\ u.ent = [a \in d .. n - 1 |-> L[a]]
  BY <1>1 DEF Window
<1>4. ASSUME NEW a \in d .. n
      PROVE  (IF a = u.next THEN [name |-> nm, value |-> v, sum |-> u.sum]
              ELSE u.ent[a]) = K[a]
  <2>1. CASE a = n
    BY <1>3, <2>1
  <2>2. CASE a # n
    <3>1. a \in d .. n - 1 /\ a \in 0 .. n - 1
      BY <1>2, <2>2
    <3>2. u.ent[a] = L[a]
      BY <1>3, <3>1
    <3>. QED
      BY <1>3, <2>2, <3>1, <3>2 DEF Agree
  <2>. QED
    BY <2>1, <2>2
<1>5. [a \in u.first .. u.next |->
         IF a = u.next THEN [name |-> nm, value |-> v, sum |-> u.sum]
         ELSE u.ent[a]] = [a \in d .. n |-> K[a]]
  BY <1>3, <1>4
<1>6. EncP!TableAdd(Window(L, f, n), nm, v, max)
        = [first |-> u.first, next |-> u.next + 1, sum |-> u.sum + sp,
           ent |-> [a \in u.first .. u.next |->
                      IF a = u.next THEN [name |-> nm, value |-> v, sum |-> u.sum]
                      ELSE u.ent[a]]]
  BY DEF EncP!TableAdd, u, sp
<1>7. EncP!TableAdd(Window(L, f, n), nm, v, max)
        = [first |-> d, next |-> n + 1, sum |-> L[n].sum + sp,
           ent |-> [a \in d .. n |-> K[a]]]
  BY <1>3, <1>5, <1>6
<1>8. Window(K, d, n + 1)
        = [first |-> d, next |-> n + 1, sum |-> K[n + 1].sum,
           ent |-> [a \in d .. n |-> K[a]]]
  <2>1. (n + 1) - 1 = n
    OBVIOUS
  <2>. QED
    BY <2>1 DEF Window
<1>. QED
  BY <1>7, <1>8 DEF sp

-----------------------------------------------------------------------------
(* What the instructions on their way will do to the decoder's table *)

\* The window of the decoder's table and its capacity between two of them.
Point == [first : Nat, next : Nat, cap : Nat]

\* The application asks for no more than the decoder's SETTINGS allow.
AskedWithin == \A c \in Capacities : c <= DecHardMax

SetsCapacity(L, i, p, q) ==
  /\ i.op = "SetCap" /\ i.cap \in Nat /\ (AskedWithin => i.cap <= DecHardMax)
  /\ q.next = p.next /\ q.cap = i.cap
  /\ CutAt(L, p.first, p.next, 0, i.cap, q.first)

\* The entry L[n] is what the instruction spells out or copies.
Denotes(L, i, p) ==
  \/ /\ i.op \in {"InsertStatic", "InsertLiteral"}
     /\ i.name = L[p.next].name /\ i.value = L[p.next].value
  \/ /\ i.op \in {"InsertDynamic", "Duplicate"}
     /\ p.next - i.idx - 1 \in p.first .. p.next - 1
     /\ L[p.next - i.idx - 1].name = L[p.next].name
     /\ IF i.op = "Duplicate"
        THEN L[p.next - i.idx - 1].value = L[p.next].value
        ELSE i.value = L[p.next].value

Adds(L, i, p, q) ==
  LET e == L[p.next]
      space == EncP!TableSpace(e.name, e.value)
  IN
  /\ i.op # "SetCap" /\ q.next = p.next + 1 /\ q.cap = p.cap
  /\ e.name \in Names /\ e.value \in Values
  /\ e = [name |-> e.name, value |-> e.value, sum |-> e.sum]
  /\ L[p.next + 1].sum = e.sum + space
  /\ space <= p.cap /\ CutAt(L, p.first, p.next, space, p.cap, q.first)
  /\ Denotes(L, i, p)

\* The decoder's table before and after each instruction of the queue q; the
\* encoder's table starts at f and ends at n.
Chain(L, h, q, f, n) ==
  /\ q \in Seq(EncP!Instruction)
  /\ h \in [1 .. Len(q) + 1 -> Point]
  /\ \A k \in 1 .. Len(q) + 1 :
       h[k].first <= h[k].next /\ h[k].next <= n /\ h[k].first <= f
  /\ \A k \in 1 .. Len(q) : SetsCapacity(L, q[k], h[k], h[k + 1])
                               \/ Adds(L, q[k], h[k], h[k + 1])

\* What was announced stays true as the log grows.
LEMMA ChainAgree ==
  ASSUME NEW L, NEW K, NEW f \in Nat, NEW n \in Nat, Agree(L, K, n), NEW h, NEW q,
         Chain(L, h, q, f, n)
  PROVE  Chain(K, h, q, f, n)
<1>1. ASSUME NEW x \in Nat, NEW m \in Nat, m <= n, NEW need, NEW max, NEW d,
             CutAt(L, x, m, need, max, d)
      PROVE  CutAt(K, x, m, need, max, d)
  <2>1. \A e \in x .. m : K[e].sum = L[e].sum
    BY <1>1 DEF Agree
  <2>2. K[m].sum = L[m].sum
    BY <1>1 DEF Agree
  <2>. QED
    BY <1>1, <2>1, <2>2 DEF CutAt
<1>2. ASSUME NEW k \in 1 .. Len(q)
      PROVE  SetsCapacity(K, q[k], h[k], h[k + 1]) \/ Adds(K, q[k], h[k], h[k + 1])
  <2>. DEFINE p == h[k]
              r == h[k + 1]
  <2>. SUFFICES SetsCapacity(K, q[k], p, r) \/ Adds(K, q[k], p, r)
    OBVIOUS
  <2>1. /\ p \in Point /\ r \in Point /\ p.next <= n /\ r.next <= n
        /\ SetsCapacity(L, q[k], p, r) \/ Adds(L, q[k], p, r)
    BY DEF Chain
  <2>2. p.first \in Nat /\ p.next \in Nat
    BY <2>1 DEF Point
  <2>. HIDE DEF p, r
  <2>3. CASE SetsCapacity(L, q[k], p, r)
    <3>1. CutAt(L, p.first, p.next, 0, q[k].cap, r.first)
      BY <2>3 DEF SetsCapacity
    <3>2. CutAt(K, p.first, p.next, 0, q[k].cap, r.first)
      BY <1>1, <2>1, <2>2, <3>1
    <3>. QED
      BY <2>3, <3>2 DEF SetsCapacity
  <2>4. CASE Adds(L, q[k], p, r)
    <3>1. p.next + 1 <= n
      BY <2>1, <2>4 DEF Adds
    <3>2. K[p.next] = L[p.next] /\ K[p.next + 1].sum = L[p.next + 1].sum
      BY <2>2, <3>1 DEF Agree
    <3>3. \A a \in p.first .. p.next - 1 : K[a] = L[a]
      BY <2>1, <2>2 DEF Agree
    <3>4. Denotes(K, q[k], p)
      BY <2>4, <3>2, <3>3 DEF Adds, Denotes
    <3>5. CutAt(K, p.first, p.next,
                EncP!TableSpace(L[p.next].name, L[p.next].value), p.cap, r.first)
      BY <1>1, <2>1, <2>2, <2>4 DEF Adds
    <3>. DEFINE e == L[p.next]
                space == EncP!TableSpace(e.name, e.value)
    <3>6. /\ q[k].op # "SetCap" /\ r.next = p.next + 1 /\ r.cap = p.cap
          /\ e.name \in Names /\ e.value \in Values
          /\ e = [name |-> e.name, value |-> e.value, sum |-> e.sum]
          /\ L[p.next + 1].sum = e.sum + space /\ space <= p.cap
      BY <2>4 DEF Adds
    <3>7. K[p.next] = e /\ K[p.next + 1].sum = e.sum + space
      BY <3>2, <3>6
    <3>. HIDE DEF e
    <3>8. CutAt(K, p.first, p.next, space, p.cap, r.first)
      BY <3>5 DEF e
    <3>. QED
      BY <3>4, <3>6, <3>7, <3>8 DEF Adds
  <2>. QED
    BY <2>1, <2>3, <2>4
<1>. QED
  BY <1>2 DEF Chain

\* The states before and after the instructions of q, and one after another.
Extended(h, q, r) ==
  [k \in 1 .. Len(q) + 2 |-> IF k = Len(q) + 2 THEN r ELSE h[k]]

\* Written after those of q, the instruction i takes the decoder's table to r.
Follows(L, h, q, i, t, r, e, m) ==
  /\ i \in EncP!Instruction /\ t = q \o <<i>>
  /\ r \in Point /\ r.first <= r.next /\ r.next <= m /\ r.first <= e
  /\ SetsCapacity(L, i, h[Len(q) + 1], r) \/ Adds(L, i, h[Len(q) + 1], r)

\* The encoder's table moves on.
Grows(f, n, e, m) ==
  f \in Nat /\ n \in Nat /\ e \in Nat /\ m \in Nat /\ f <= e /\ n <= m

\* Another instruction is written.
LEMMA ChainPush ==
  ASSUME NEW L, NEW f, NEW n, NEW e, NEW m, Grows(f, n, e, m),
         NEW h, NEW q, Chain(L, h, q, f, n),
         NEW i, NEW t, NEW r, Follows(L, h, q, i, t, r, e, m)
  PROVE  /\ Chain(L, Extended(h, q, r), t, e, m) /\ Extended(h, q, r)[1] = h[1]
         /\ Extended(h, q, r)[Len(t) + 1] = r
<1>. DEFINE l == Len(q)
            g == Extended(h, q, r)
<1>0. /\ i \in EncP!Instruction /\ t = q \o <<i>>
      /\ r \in Point /\ r.first <= r.next /\ r.next <= m /\ r.first <= e
      /\ SetsCapacity(L, i, h[Len(q) + 1], r) \/ Adds(L, i, h[Len(q) + 1], r)
      /\ f \in Nat /\ n \in Nat /\ e \in Nat /\ m \in Nat /\ f <= e /\ n <= m
  BY DEF Follows, Grows
<1>1. q \in Seq(EncP!Instruction) /\ l \in Nat /\ h \in [1 .. l + 1 -> Point]
  BY DEF Chain
<1>2. t \in Seq(EncP!Instruction)
  <2>1. <<i>> \in Seq(EncP!Instruction)
    BY <1>0
  <2>. QED
    BY <1>0, <1>1, <2>1
<1>3. /\ Len(t) = l + 1 /\ t[l + 1] = i
      /\ \A k \in 1 .. l : t[k] = q[k]
  BY <1>0, <1>1
<1>4. /\ g \in [1 .. Len(t) + 1 -> Point] /\ g[l + 2] = r
      /\ \A k \in 1 .. l + 1 : g[k] = h[k]
  BY <1>0, <1>1, <1>3 DEF Extended
<1>. HIDE DEF g, l
<1>5. \A k \in 1 .. Len(t) + 1 :
        g[k].first <= g[k].next /\ g[k].next <= m /\ g[k].first <= e
  <2>1. TAKE k \in 1 .. Len(t) + 1
  <2>2. CASE k = l + 2
    BY <1>0, <1>4, <2>2
  <2>3. CASE k # l + 2
    <3>1. k \in 1 .. l + 1
      BY <1>1, <1>3, <2>3
    <3>2. /\ h[k].first <= h[k].next /\ h[k].next <= n /\ h[k].first <= f
          /\ h[k] \in Point
      BY <1>1, <3>1 DEF Chain, l
    <3>. QED
      BY <1>0, <1>4, <3>1, <3>2 DEF Point
  <2>. QED
    BY <2>2, <2>3
<1>6. ASSUME NEW k \in 1 .. Len(t)
      PROVE  SetsCapacity(L, t[k], g[k], g[k + 1]) \/ Adds(L, t[k], g[k], g[k + 1])
  <2>1. CASE k = l + 1
    <3>1. k + 1 = l + 2 /\ k \in 1 .. l + 1
      BY <1>1, <1>3, <2>1
    <3>. QED
      BY <1>0, <1>3, <1>4, <2>1, <3>1 DEF l
  <2>2. CASE k # l + 1
    <3>1. k \in 1 .. l /\ k \in 1 .. l + 1 /\ k + 1 \in 1 .. l + 1
      BY <1>1, <1>3, <2>2
    <3>2. SetsCapacity(L, q[k], h[k], h[k + 1]) \/ Adds(L, q[k], h[k], h[k + 1])
      BY <3>1 DEF Chain, l
    <3>. QED
      BY <1>3, <1>4, <3>1, <3>2
  <2>. QED
    BY <2>1, <2>2
<1>7. g[1] = h[1] /\ g[Len(t) + 1] = r
  <2>1. 1 \in 1 .. l + 1 /\ Len(t) + 1 = l + 2
    BY <1>1, <1>3
  <2>. QED
    BY <1>4, <2>1
<1>8. Chain(L, g, t, e, m)
  BY <1>2, <1>4, <1>5, <1>6 DEF Chain
<1>. QED
  BY <1>7, <1>8 DEF g

\* The first instruction is read.
LEMMA ChainPop ==
  ASSUME NEW L, NEW f \in Nat, NEW n \in Nat, NEW h, NEW q, Chain(L, h, q, f, n),
         q # <<>>
  PROVE  /\ SetsCapacity(L, Head(q), h[1], h[2]) \/ Adds(L, Head(q), h[1], h[2])
         /\ h[1] \in Point /\ h[2] \in Point /\ Head(q) \in EncP!Instruction
         /\ h[1].first <= h[1].next
         /\ \E g : /\ Chain(L, g, Tail(q), f, n) /\ g[1] = h[2]
                   /\ g[Len(Tail(q)) + 1] = h[Len(q) + 1]
<1>. DEFINE l == Len(q)
            t == Tail(q)
            g == [k \in 1 .. l |-> h[k + 1]]
<1>1. q \in Seq(EncP!Instruction) /\ l \in Nat /\ l >= 1 /\ h \in [1 .. l + 1 -> Point]
  BY DEF Chain
<1>2. /\ t \in Seq(EncP!Instruction) /\ Len(t) = l - 1
      /\ \A k \in 1 .. l - 1 : t[k] = q[k + 1]
      /\ Head(q) = q[1]
  BY <1>1
<1>3. 1 \in 1 .. l /\ 1 \in 1 .. l + 1 /\ 2 \in 1 .. l + 1 /\ 1 + 1 = 2
  BY <1>1
<1>4. /\ SetsCapacity(L, q[1], h[1], h[1 + 1]) \/ Adds(L, q[1], h[1], h[1 + 1])
      /\ h[1].first <= h[1].next
  BY <1>3 DEF Chain
<1>5. q[1] \in EncP!Instruction
  BY <1>1, <1>3
<1>6. g \in [1 .. Len(t) + 1 -> Point] /\ \A k \in 1 .. l : g[k] = h[k + 1]
  BY <1>1, <1>2
<1>. HIDE DEF g, t
<1>7. \A k \in 1 .. Len(t) + 1 :
        g[k].first <= g[k].next /\ g[k].next <= n /\ g[k].first <= f
  <2>1. TAKE k \in 1 .. Len(t) + 1
  <2>2. k \in 1 .. l /\ k + 1 \in 1 .. l + 1
    BY <1>1, <1>2
  <2>. QED
    BY <1>6, <2>2 DEF Chain
<1>8. ASSUME NEW k \in 1 .. Len(t)
      PROVE  SetsCapacity(L, t[k], g[k], g[k + 1]) \/ Adds(L, t[k], g[k], g[k + 1])
  <2>1. k \in 1 .. l - 1 /\ k \in 1 .. l /\ k + 1 \in 1 .. l
    BY <1>1, <1>2
  <2>2. SetsCapacity(L, q[k + 1], h[k + 1], h[(k + 1) + 1])
          \/ Adds(L, q[k + 1], h[k + 1], h[(k + 1) + 1])
    BY <2>1 DEF Chain
  <2>. QED
    BY <1>2, <1>6, <2>1, <2>2
<1>9. Chain(L, g, t, f, n)
  BY <1>2, <1>6, <1>7, <1>8 DEF Chain
<1>10. g[1] = h[2] /\ g[Len(t) + 1] = h[l + 1]
  <2>1. Len(t) + 1 = l /\ l \in 1 .. l
    BY <1>1, <1>2
  <2>. QED
    BY <1>3, <1>6, <2>1
<1>. QED
  BY <1>1, <1>2, <1>3, <1>4, <1>5, <1>9, <1>10 DEF t

-----------------------------------------------------------------------------
(* The two sides, as the proofs about each of them know it *)

\* What a decoder can make of the bytes of a section.
Token ==
  [op : {"Ricnt"}, encricnt : Nat]
    \cup [op : {"Base"}, sign : BOOLEAN, delta : Nat, fin : BOOLEAN]
    \cup [op : {"Indexed", "IndexedPB"}, idx : Nat, fin : BOOLEAN]
    \cup [op : {"Name", "NamePB"}, idx : Nat, value : Values, fin : BOOLEAN]
    \cup [op : {"StaticIndexed", "StaticName", "Literal"}, name : Names,
          value : Values, fin : BOOLEAN]

DecP == INSTANCE QpackDecoderProofs WITH
          Instructions <- EncP!Instruction, Tokens <- Token,
          MaxInsertsReceived <- MaxInserts,
          MaxBuffered <- MaxSections * (MaxLines + 2),
          MaxFields <- MaxSections * MaxLines

\* What is assumed of the constants, as the proofs about the decoder say it.
LEMMA DecoderConstants == DecP!DecoderAssumption /\ DecP!LenAssumption
  BY QpackAssumption DEF Token, EncP!Instruction, DecP!DecoderAssumption, Dec!DecoderAssumption

\* The steps of Qpack are steps of the encoder and of the decoder that the
\* other proofs are about.
LEMMA EncInit ==
  Enc!Init => EncP!Init
  BY DEF Enc!Init, EncP!Init, Enc!EmptyTable, EncP!EmptyTable, Enc!SizeMax,
    EncP!SizeMax

\* nghttp3_qpack_encoder_set_max_dtable_capacity
LEMMA EncSetCapacity ==
  \A c : Enc!SetMaxDtableCapacity(c) => EncP!SetMaxDtableCapacity(c)
  BY DEF Enc!SetMaxDtableCapacity, EncP!SetMaxDtableCapacity, Enc!Truncated,
    EncP!Truncated, Enc!Min, EncP!Min, Enc!ackVars, EncP!ackVars

\* nghttp3_qpack_encoder_encode up to the first field
LEMMA EncBegin ==
  \A s : Enc!BeginEncode(s) => EncP!BeginEncode(s)
  BY Zenon DEF Enc!BeginEncode, EncP!BeginEncode, Enc!Size, EncP!Size, Enc!SizeFrom,
    EncP!SizeFrom, Enc!ShrunkTable, EncP!ShrunkTable, Enc!ShrinkStops,
    EncP!ShrinkStops, Enc!DropTo, EncP!DropTo, Enc!MinCnts, EncP!MinCnts,
    Enc!Min, EncP!Min, Enc!Max, EncP!Max, Enc!SizeMax, EncP!SizeMax,
    Enc!MayBlock, EncP!MayBlock, Enc!IsBlocked, EncP!IsBlocked,
    Enc!KnownStreams, EncP!KnownStreams, Enc!TopCnt, EncP!TopCnt,
    Enc!Cardinality, EncP!Cardinality, Enc!CapInstructions,
    EncP!CapInstructions, Enc!SetCap, EncP!SetCap, Enc!ackVars, EncP!ackVars

\* The end of nghttp3_qpack_encoder_encode
LEMMA EncFinish ==
  Enc!FinishEncode => EncP!FinishEncode
  BY DEF Enc!FinishEncode, EncP!FinishEncode, Enc!AddStreamRef,
    EncP!AddStreamRef, Enc!TopCnt, EncP!TopCnt, Enc!IsBlocked, EncP!IsBlocked,
    Enc!KnownStreams, EncP!KnownStreams, Enc!Key, EncP!Key, Enc!Max, EncP!Max,
    Enc!Min, EncP!Min, Enc!capVars, EncP!capVars

\* The prefix of a section (nghttp3_qpack_encoder_write_field_section_prefix)
LEMMA EncSection ==
  Enc!CurSection = EncP!CurSection
  BY DEF Enc!CurSection, EncP!CurSection, Enc!CurRicnt, EncP!CurRicnt,
    Enc!EncodePrefix, EncP!EncodePrefix, Enc!MaxEnts, EncP!MaxEnts,
    Enc!ENTRY_OVERHEAD, EncP!ENTRY_OVERHEAD, Enc!Max, EncP!Max

\* A Section Acknowledgment in nghttp3_qpack_encoder_read_decoder
LEMMA EncAck ==
  \A s : Enc!ReadSectionAck(s) => EncP!ReadSectionAck(s)
  BY DEF Enc!ReadSectionAck, EncP!ReadSectionAck, Enc!Read, EncP!Read,
    Enc!AckHeader, EncP!AckHeader, Enc!KeysAbove, EncP!KeysAbove, Enc!capVars,
    EncP!capVars, Enc!ackVars, EncP!ackVars

\* A Stream Cancellation in nghttp3_qpack_encoder_read_decoder
LEMMA EncCancel ==
  \A s : Enc!ReadStreamCancel(s) => EncP!ReadStreamCancel(s)
  BY Zenon DEF Enc!ReadStreamCancel, EncP!ReadStreamCancel, Enc!Read, EncP!Read,
    Enc!CancelStream, EncP!CancelStream, Enc!IsBlocked, EncP!IsBlocked,
    Enc!KnownStreams, EncP!KnownStreams, Enc!Key, EncP!Key, Enc!TopCnt,
    EncP!TopCnt, Enc!Max, EncP!Max, Enc!capVars, EncP!capVars, Enc!ackVars,
    EncP!ackVars

\* An Insert Count Increment in nghttp3_qpack_encoder_read_decoder
LEMMA EncIncrement ==
  \A n : Enc!ReadInsertCountIncrement(n) => EncP!ReadInsertCountIncrement(n)
  BY DEF Enc!ReadInsertCountIncrement, EncP!ReadInsertCountIncrement,
    Enc!Read, EncP!Read, Enc!AddIcnt, EncP!AddIcnt, Enc!KeysAbove,
    EncP!KeysAbove, Enc!capVars, EncP!capVars, Enc!ackVars, EncP!ackVars

\* nghttp3_qpack_encoder_encode_nv
LEMMA EncField ==
  ASSUME NEW f, Enc!EncodeNv(f)
  PROVE  EncP!EncodeNv(f)
  BY Zenon DEF Enc!EncodeNv, EncP!EncodeNv, Enc!EncodeStaticIndexed,
    EncP!EncodeStaticIndexed, Enc!EncodeDynamicIndexed,
    EncP!EncodeDynamicIndexed, Enc!EncodeStaticName, EncP!EncodeStaticName,
    Enc!EncodeDynamicName, EncP!EncodeDynamicName, Enc!EncodeLiteral,
    EncP!EncodeLiteral, Enc!StaticExact, EncP!StaticExact, Enc!StaticName,
    EncP!StaticName, Enc!Write, EncP!Write, Enc!Insert, EncP!Insert,
    Enc!InsertAndRefer, EncP!InsertAndRefer, Enc!RelIndex, EncP!RelIndex,
    Enc!ShouldDuplicate, EncP!ShouldDuplicate, Enc!CheckDraining,
    EncP!CheckDraining, Enc!CanIndex, EncP!CanIndex, Enc!IndexedLine,
    EncP!IndexedLine, Enc!NameLine, EncP!NameLine, Enc!Extended,
    EncP!Extended, Enc!JustIndex, EncP!JustIndex, Enc!Usable, EncP!Usable,
    Enc!SameName, EncP!SameName, Enc!SameValue, EncP!SameValue, Enc!Exact,
    EncP!Exact, Enc!PostBaseMatch, EncP!PostBaseMatch, Enc!IndexingMode,
    EncP!IndexingMode, Enc!TableSpace, EncP!TableSpace, Enc!ENTRY_OVERHEAD,
    EncP!ENTRY_OVERHEAD, Enc!MinCnts, EncP!MinCnts, Enc!KnownStreams,
    EncP!KnownStreams, Enc!Live, EncP!Live, Enc!CanReference,
    EncP!CanReference, Enc!Size, EncP!Size, Enc!SizeFrom, EncP!SizeFrom,
    Enc!TableAdd, EncP!TableAdd, Enc!EvictToFit, EncP!EvictToFit, Enc!DropTo,
    EncP!DropTo, Enc!Cardinality, EncP!Cardinality, Enc!Min, EncP!Min,
    Enc!Max, EncP!Max, Enc!FitPoints, EncP!FitPoints, Enc!capVars,
    EncP!capVars, Enc!ackVars, EncP!ackVars

\* The decoder starts empty.
LEMMA DecInit ==
  Dec!Init => DecP!Init
  BY DEF Dec!Init, DecP!Init, Dec!EmptyTable, DecP!EmptyTable,
    Dec!FreshContext, DecP!FreshContext

\* nghttp3_qpack_decoder_read_encoder
LEMMA DecEncoder ==
  ASSUME NEW i, Dec!ReadEncoder(i)
  PROVE  DecP!ReadEncoder(i)
  BY Zenon DEF Dec!ReadEncoder, DecP!ReadEncoder, Dec!SetCapacity, DecP!SetCapacity,
    Dec!AddEntry, DecP!AddEntry, Dec!NewEntry, DecP!NewEntry, Dec!NoEntry,
    DecP!NoEntry, Dec!RelToAbs, DecP!RelToAbs, Dec!TableSpace,
    DecP!TableSpace, Dec!ENTRY_OVERHEAD, DecP!ENTRY_OVERHEAD, Dec!TableAdd,
    DecP!TableAdd, Dec!EvictToFit, DecP!EvictToFit, Dec!FitPoints,
    DecP!FitPoints, Dec!DropTo, DecP!DropTo, Dec!SizeFrom, DecP!SizeFrom,
    Dec!Live, DecP!Live, Dec!Min, DecP!Min, Dec!tableVars, DecP!tableVars,
    Dec!ackVars, DecP!ackVars, Dec!streamVars, DecP!streamVars, Dec!vars,
    DecP!vars, Dec!Fail, DecP!Fail, Dec!Interpreted, DecP!Interpreted

\* conn_decode_headers: one token of a section
LEMMA DecToken ==
  ASSUME NEW s, NEW tok, Dec!ReadToken(s, tok)
  PROVE  DecP!ReadToken(s, tok)
<1>1. /\ Dec!EndSection(s) => DecP!EndSection(s)
      /\ Dec!MayEndSection(s, tok) = DecP!MayEndSection(s, tok)
  BY DEF Dec!EndSection, DecP!EndSection, Dec!MayEndSection, DecP!MayEndSection,
    Dec!DbufOverflow, DecP!DbufOverflow, Dec!FreshContext, DecP!FreshContext,
    Dec!ackVars, DecP!ackVars, Dec!Max, DecP!Max
<1>2. \A e : Dec!Fail(e) => DecP!Fail(e)
  BY DEF Dec!Fail, DecP!Fail, Dec!tableVars, DecP!tableVars, Dec!ackVars,
    DecP!ackVars, Dec!streamVars, DecP!streamVars
<1>3. Dec!ReadRicnt(s, tok) => DecP!ReadRicnt(s, tok)
  BY <1>2 DEF Dec!ReadRicnt, DecP!ReadRicnt, Dec!ReconstructRicnt,
    DecP!ReconstructRicnt, Dec!MaxEnts, DecP!MaxEnts, Dec!ENTRY_OVERHEAD,
    DecP!ENTRY_OVERHEAD, Dec!NoRicnt, DecP!NoRicnt, Dec!tableVars,
    DecP!tableVars, Dec!ackVars, DecP!ackVars
<1>4. Dec!ReadBase(s, tok) => DecP!ReadBase(s, tok)
  BY <1>1, <1>2 DEF Dec!ReadBase, DecP!ReadBase, Dec!DecodeBase,
    DecP!DecodeBase, Dec!NoRicnt, DecP!NoRicnt, Dec!MustWait, DecP!MustWait,
    Dec!NoRoomToPark, DecP!NoRoomToPark, Dec!Cardinality, DecP!Cardinality,
    Dec!tableVars, DecP!tableVars, Dec!ackVars, DecP!ackVars
<1>5. Dec!ReadLine(s, tok) => DecP!ReadLine(s, tok)
  BY <1>1, <1>2 DEF Dec!ReadLine, DecP!ReadLine, Dec!AbsIndex, DecP!AbsIndex,
    Dec!IsDynamic, DecP!IsDynamic, Dec!LineField, DecP!LineField, Dec!Live,
    DecP!Live, Dec!tableVars, DecP!tableVars, Dec!ackVars, DecP!ackVars
<1>. QED
  BY <1>3, <1>4, <1>5 DEF Dec!ReadToken, DecP!ReadToken

\* nghttp3_conn_read_bidi: bytes of a section arrive.
LEMMA DecStream ==
  \A s, tok : Dec!ReadStream(s, tok) => DecP!ReadStream(s, tok)
BY DecToken DEF Dec!ReadStream, DecP!ReadStream, Dec!tableVars, DecP!tableVars,
  Dec!ackVars, DecP!ackVars, Dec!streamVars, DecP!streamVars, Dec!vars, DecP!vars

\* nghttp3_conn_read_qpack_encoder: the next stream that can be resumed
LEMMA DecUnblock ==
  Dec!UnblockNext => DecP!UnblockNext
  BY DEF Dec!UnblockNext, DecP!UnblockNext, Dec!Unblockable, DecP!Unblockable,
    Dec!tableVars, DecP!tableVars, Dec!ackVars, DecP!ackVars, Dec!streamVars,
    DecP!streamVars, Dec!vars, DecP!vars, Dec!Fail, DecP!Fail,
    Dec!Interpreted, DecP!Interpreted

\* conn_process_blocked_stream_data
LEMMA DecBuffered ==
  \A s : Dec!ProcessBuffered(s) => DecP!ProcessBuffered(s)
BY DecToken DEF Dec!ProcessBuffered, DecP!ProcessBuffered, Dec!tableVars,
  DecP!tableVars, Dec!ackVars, DecP!ackVars, Dec!streamVars, DecP!streamVars

\* conn_delete_stream
LEMMA DecClose ==
  \A s : Dec!CloseStream(s) => DecP!CloseStream(s)
  BY DEF Dec!CloseStream, DecP!CloseStream, Dec!Cancel, DecP!Cancel,
    Dec!DbufOverflow, DecP!DbufOverflow, Dec!BlockedStreamsRemove,
    DecP!BlockedStreamsRemove, Dec!FreshContext, DecP!FreshContext,
    Dec!tableVars, DecP!tableVars, Dec!ackVars, DecP!ackVars, Dec!streamVars,
    DecP!streamVars, Dec!vars, DecP!vars, Dec!Fail, DecP!Fail,
    Dec!Interpreted, DecP!Interpreted

\* nghttp3_stream_write_qpack_decoder_stream
LEMMA DecWrite ==
  /\ Dec!WriteDecoder => DecP!WriteDecoder
  /\ Dec!DecoderStream = DecP!DecoderStream
  BY DEF Dec!WriteDecoder, DecP!WriteDecoder, Dec!DecoderStream,
    DecP!DecoderStream, Dec!Increment, DecP!Increment, Dec!Max, DecP!Max,
    Dec!tableVars, DecP!tableVars, Dec!ackVars, DecP!ackVars, Dec!streamVars,
    DecP!streamVars, Dec!vars, DecP!vars, Dec!Fail, DecP!Fail,
    Dec!Interpreted, DecP!Interpreted

-----------------------------------------------------------------------------
(* Each side keeps its own invariant *)

\* What a stream holds for the decoder, buffered or on its way, continues
\* what was read of it and ends with the end of a section.
Complete(q, c) ==
  DecP!RicntTokens \subseteq IF q = <<>> THEN DecP!Awaited(c)
                                         ELSE DecP!After(q[Len(q)])
Flows(q, c) == DecP!Continues(q, c) /\ Complete(q, c)
InOrder ==
  derr = "none" =>
    \A s \in Streams \ closed : Flows(inq[s] \o rstream[s], sctx[s])

\* A section under construction; while it is, a capacity that waits to be
\* announced means that the table is too large for it.
Building ==
  cur # NoSection => /\ cur \in EncP!Section
                     /\ pending => EncP!Size(tab) > cap
                     /\ cur.lines = <<>> => cur.cnts = {}

Acks == [op : {"Ack", "Cancel"}, stream : Streams]
Incs == [op : {"Inc"}, n : Nat]

EncoderSide ==
  EncP!IInv /\ Building /\ (tab.next > 0 => HardMax >= 32)
DecoderSide == DecP!IInv /\ shut = {} /\ InOrder
Network ==
  /\ estream \in Seq(EncP!Instruction) /\ dstream \in Seq(Acks \cup Incs)
  /\ rstream \in [Streams -> Seq(Token)]
Sides == EncoderSide /\ DecoderSide /\ Network

\* A field line is one token of the section.
LEMMA DeliveredType ==
  ASSUME NEW l \in EncP!FieldLine, NEW b \in BOOLEAN
  PROVE  Delivered(l, b) \in DecP!LineTokens /\ Delivered(l, b).fin = b
<1>. DEFINE d == Delivered(l, b)
<1>1. CASE l \in [op : {"Indexed", "IndexedPB"}, idx : Nat]
  <2>1. DOMAIN l \cup {"fin"} = {"op", "idx", "fin"}
    BY <1>1
  <2>2. d = [x \in {"op", "idx", "fin"} |-> IF x = "fin" THEN b ELSE l[x]]
    BY <2>1 DEF Delivered
  <2>. HIDE DEF d
  <2>3. d \in [op : {"Indexed", "IndexedPB"}, idx : Nat, fin : BOOLEAN] /\ d.fin = b
    BY <1>1, <2>2
  <2>. QED
    BY <2>3 DEF d, Token, DecP!LineTokens
<1>2. CASE l \in [op : {"Name", "NamePB"}, idx : Nat, value : Values]
  <2>1. DOMAIN l \cup {"fin"} = {"op", "idx", "value", "fin"}
    BY <1>2
  <2>2. d = [x \in {"op", "idx", "value", "fin"} |-> IF x = "fin" THEN b ELSE l[x]]
    BY <2>1 DEF Delivered
  <2>. HIDE DEF d
  <2>3. /\ d \in [op : {"Name", "NamePB"}, idx : Nat, value : Values, fin : BOOLEAN]
        /\ d.fin = b
    BY <1>2, <2>2
  <2>. QED
    BY <2>3 DEF d, Token, DecP!LineTokens
<1>3. CASE l \in [op : {"StaticIndexed", "StaticName", "Literal"}, name : Names,
                  value : Values]
  <2>1. DOMAIN l \cup {"fin"} = {"op", "name", "value", "fin"}
    BY <1>3
  <2>2. d = [x \in {"op", "name", "value", "fin"} |-> IF x = "fin" THEN b ELSE l[x]]
    BY <2>1 DEF Delivered
  <2>. HIDE DEF d
  <2>3. /\ d \in [op : {"StaticIndexed", "StaticName", "Literal"}, name : Names,
                  value : Values, fin : BOOLEAN]
        /\ d.fin = b
    BY <1>3, <2>2
  <2>. QED
    BY <2>3 DEF d, Token, DecP!LineTokens
<1>. QED
  BY <1>1, <1>2, <1>3 DEF EncP!FieldLine

\* The numbers of the prefix of a section.
LEMMA PrefixType ==
  ASSUME EncoderSide, cur # NoSection
  PROVE  LET p == EncP!CurSection.prefix IN
         /\ p.encricnt \in Nat /\ p.sign \in BOOLEAN /\ p.delta \in Nat
         /\ cur.lines = <<>> => p.encricnt = 0
<1>. DEFINE r == EncP!CurRicnt
            p == EncP!CurSection.prefix
<1>1. /\ cur.cnts \in SUBSET (tab.first + 1 .. tab.next) /\ tab.first \in Nat
      /\ tab.next \in Nat /\ cur.base \in Nat /\ HardMax \in Nat
      /\ tab.next > 0 => HardMax >= 32
      /\ cur.lines = <<>> => cur.cnts = {}
  BY Constants, EncP!PinsAreLive
  DEF EncoderSide, Building, EncP!IInv, EncP!Section
<1>2. r \in Nat /\ (r # 0 => r <= tab.next) /\ (cur.cnts = {} => r = 0)
  <2>1. CASE cur.cnts = {}
    BY <2>1 DEF EncP!CurRicnt
  <2>2. CASE cur.cnts # {}
    <3>1. cur.cnts \in SUBSET Nat /\ \A c \in cur.cnts : c <= tab.next
      BY <1>1
    <3>2. EncP!Max(cur.cnts) \in cur.cnts
      BY <1>1, <2>2, <3>1, Constants, EncP!MaxIsGreatest
    <3>. QED
      BY <2>2, <3>1, <3>2 DEF EncP!CurRicnt
  <2>. QED
    BY <2>1, <2>2
<1>3. p = [encricnt |-> IF r = 0 THEN 0 ELSE (r % (2 * EncP!MaxEnts(HardMax))) + 1,
           sign     |-> cur.base < r,
           delta    |-> IF cur.base < r THEN r - cur.base - 1 ELSE cur.base - r]
  BY DEF EncP!CurSection, EncP!EncodePrefix
<1>. HIDE DEF r, p
<1>4. r # 0 => r % (2 * EncP!MaxEnts(HardMax)) \in Nat
  <2>1. SUFFICES ASSUME r # 0 PROVE r % (2 * EncP!MaxEnts(HardMax)) \in Nat
    OBVIOUS
  <2>2. HardMax >= 32
    BY <1>1, <1>2, <2>1
  <2>3. EncP!MaxEnts(HardMax) \in Nat /\ EncP!MaxEnts(HardMax) >= 1
    BY <1>1, <2>2 DEF EncP!MaxEnts, EncP!ENTRY_OVERHEAD
  <2>. QED
    BY <1>2, <2>3
<1>5. /\ p.encricnt = IF r = 0 THEN 0 ELSE (r % (2 * EncP!MaxEnts(HardMax))) + 1
      /\ p.sign = (cur.base < r)
      /\ p.delta = IF cur.base < r THEN r - cur.base - 1 ELSE cur.base - r
  BY <1>3
<1>6. p.encricnt \in Nat /\ (cur.lines = <<>> => p.encricnt = 0)
  BY <1>1, <1>2, <1>4, <1>5
<1>7. p.sign \in BOOLEAN /\ p.delta \in Nat
  BY <1>1, <1>2, <1>5
<1>. QED
  BY <1>6, <1>7 DEF p

\* A sequence of tokens that is one section, or several.
IsSections(w) ==
  /\ w \in Seq(Token) /\ w # <<>> /\ w[1] \in DecP!RicntTokens
  /\ \A i \in 1 .. Len(w) - 1 : w[i + 1] \in DecP!After(w[i])
  /\ DecP!After(w[Len(w)]) = DecP!RicntTokens

\* What FinishEncode puts on a request stream.
LEMMA WireIsSection ==
  ASSUME EncoderSide, cur # NoSection
  PROVE  IsSections(Wire(EncP!CurSection))
<1>. DEFINE p == EncP!CurSection.prefix
            l == cur.lines
            n == Len(l)
            a == [op |-> "Ricnt", encricnt |-> p.encricnt]
            b == [op |-> "Base", sign |-> p.sign, delta |-> p.delta, fin |-> n = 0]
            d == [i \in 1 .. n |-> Delivered(l[i], i = n)]
            w == Wire(EncP!CurSection)
<1>1. l \in Seq(EncP!FieldLine) /\ n \in Nat
  BY DEF EncoderSide, Building, EncP!Section
<1>2. w = <<a, b>> \o d
  BY DEF EncP!CurSection, Wire
<1>3. /\ p.encricnt \in Nat /\ p.sign \in BOOLEAN /\ p.delta \in Nat
      /\ n = 0 => p.encricnt = 0
  BY <1>1, PrefixType
<1>. HIDE DEF p
<1>4. a \in Token /\ a.op = "Ricnt" /\ a.encricnt = p.encricnt
  BY <1>3 DEF Token
<1>5. b \in Token /\ b.op = "Base" /\ b.fin = (n = 0)
  BY <1>3 DEF Token
<1>6. ASSUME NEW i \in 1 .. n
      PROVE  d[i] \in DecP!LineTokens /\ d[i].fin = (i = n)
  <2>1. l[i] \in EncP!FieldLine /\ (i = n) \in BOOLEAN /\ d[i] = Delivered(l[i], i = n)
    BY <1>1, <1>6
  <2>. HIDE DEF l, n, d
  <2>. QED
    BY <2>1, DeliveredType
<1>7. /\ d \in Seq(Token) /\ Len(d) = n
      /\ \A i \in 1 .. n : /\ d[i] \in DecP!LineTokens /\ d[i].fin = (i = n)
                           /\ d[i].op \notin {"Ricnt", "Base"}
  <2>1. DOMAIN d = 1 .. n /\ d = [i \in 1 .. n |-> d[i]]
    OBVIOUS
  <2>2. \A i \in 1 .. n : d[i] \in Token /\ d[i].op \notin {"Ricnt", "Base"}
    BY <1>6 DEF DecP!LineTokens
  <2>. HIDE DEF l, n, d
  <2>. QED
    BY <1>1, <1>6, <2>1, <2>2
<1>. HIDE DEF a, b, d, l, n, w
<1>8. /\ w \in Seq(Token) /\ Len(w) = n + 2 /\ w[1] = a /\ w[2] = b
      /\ \A i \in 1 .. n : w[i + 2] = d[i]
  <2>1. <<a, b>> \in Seq(Token) /\ Len(<<a, b>>) = 2 /\ <<a, b>>[1] = a /\ <<a, b>>[2] = b
    BY <1>4, <1>5
  <2>. QED
    BY <1>1, <1>2, <1>7, <2>1
<1>9. a \in DecP!RicntTokens
  BY <1>4 DEF DecP!RicntTokens
<1>10. b \in DecP!After(a)
  BY <1>3, <1>4, <1>5 DEF DecP!After, DecP!BaseTokens
<1>11. DecP!After(b) = IF n = 0 THEN DecP!RicntTokens ELSE DecP!LineTokens
  BY <1>5 DEF DecP!After
<1>12. \A i \in 1 .. n :
         DecP!After(d[i]) = IF i = n THEN DecP!RicntTokens ELSE DecP!LineTokens
  BY <1>7 DEF DecP!After
<1>13. ASSUME NEW i \in 1 .. Len(w) - 1 PROVE w[i + 1] \in DecP!After(w[i])
  <2>1. CASE i = 1
    BY <1>8, <1>10, <2>1
  <2>2. CASE i = 2
    <3>1. 1 \in 1 .. n /\ w[1 + 2] = d[1] /\ n # 0
      BY <1>1, <1>8, <2>2
    <3>. QED
      BY <1>7, <1>8, <1>11, <2>2, <3>1
  <2>3. CASE i \notin {1, 2}
    <3>. DEFINE j == i - 2
    <3>1. j \in 1 .. n /\ j + 1 \in 1 .. n /\ j # n /\ i = j + 2 /\ i + 1 = (j + 1) + 2
      BY <1>1, <1>8, <2>3
    <3>. HIDE DEF j
    <3>2. w[i] = d[j] /\ w[i + 1] = d[j + 1]
      BY <1>8, <3>1
    <3>. QED
      BY <1>7, <1>12, <3>1, <3>2
  <2>. QED
    BY <2>1, <2>2, <2>3
<1>14. DecP!After(w[Len(w)]) = DecP!RicntTokens
  <2>1. CASE n = 0
    BY <1>8, <1>11, <2>1
  <2>2. CASE n # 0
    <3>1. n \in 1 .. n /\ w[n + 2] = d[n]
      BY <1>1, <1>8, <2>2
    <3>. QED
      BY <1>8, <1>12, <3>1
  <2>. QED
    BY <2>1, <2>2
<1>15. w # <<>>
  BY <1>1, <1>8
<1>. QED
  BY <1>8, <1>9, <1>13, <1>14, <1>15 DEF IsSections, w

\* Three sequences in a row
LEMMA TokensAssociate ==
  \A p, q, r \in Seq(Token) : p \o (q \o r) = (p \o q) \o r
OBVIOUS

\* A section behind what a stream holds
LEMMA FlowsAppend ==
  ASSUME NEW q \in Seq(Token), NEW c, Flows(q, c), NEW w, IsSections(w)
  PROVE  Flows(q \o w, c)
<1>. DEFINE t == q \o w
<1>1. /\ w \in Seq(Token) /\ w # <<>> /\ w[1] \in DecP!RicntTokens
      /\ \A i \in 1 .. Len(w) - 1 : w[i + 1] \in DecP!After(w[i])
      /\ DecP!After(w[Len(w)]) = DecP!RicntTokens
  BY DEF IsSections
<1>2. /\ t \in Seq(Token) /\ Len(t) = Len(q) + Len(w) /\ Len(q) \in Nat /\ Len(w) \in Nat
      /\ Len(w) >= 1 /\ t # <<>> /\ (q = <<>> <=> Len(q) = 0)
      /\ \A i \in 1 .. Len(q) : t[i] = q[i]
      /\ \A i \in 1 .. Len(w) : t[Len(q) + i] = w[i]
  BY <1>1
<1>. HIDE DEF t
<1>3. t[1] \in DecP!Awaited(c)
  <2>1. CASE q = <<>>
    <3>1. t[0 + 1] = w[1]
      BY <1>2, <2>1
    <3>. QED
      BY <1>1, <2>1, <3>1 DEF Flows, Complete
  <2>2. CASE q # <<>>
    BY <1>2, <2>2 DEF Flows, DecP!Continues
  <2>. QED
    BY <2>1, <2>2
<1>4. ASSUME NEW i \in 1 .. Len(t) - 1 PROVE t[i + 1] \in DecP!After(t[i])
  <2>1. CASE i < Len(q)
    <3>1. i \in 1 .. Len(q) - 1 /\ i \in 1 .. Len(q) /\ i + 1 \in 1 .. Len(q)
      BY <1>2, <2>1
    <3>. QED
      BY <1>2, <3>1 DEF Flows, DecP!Continues
  <2>2. CASE i = Len(q)
    <3>1. i \in 1 .. Len(q) /\ q # <<>> /\ t[Len(q) + 1] = w[1]
      BY <1>2, <2>2
    <3>. QED
      BY <1>1, <1>2, <2>2, <3>1 DEF Flows, Complete
  <2>3. CASE i > Len(q)
    <3>. DEFINE j == i - Len(q)
    <3>1. /\ j \in 1 .. Len(w) - 1 /\ j \in 1 .. Len(w) /\ j + 1 \in 1 .. Len(w)
          /\ i = Len(q) + j /\ i + 1 = Len(q) + (j + 1)
      BY <1>2, <2>3
    <3>. HIDE DEF j
    <3>2. t[i] = w[j] /\ t[i + 1] = w[j + 1]
      BY <1>2, <3>1
    <3>. QED
      BY <1>1, <3>1, <3>2
  <2>. QED
    BY <1>2, <2>1, <2>2, <2>3
<1>5. Complete(t, c)
  <2>1. t[Len(q) + Len(w)] = w[Len(w)]
    BY <1>2
  <2>. QED
    BY <1>1, <1>2, <2>1 DEF Complete
<1>. QED
  BY <1>3, <1>4, <1>5 DEF Flows, DecP!Continues, t

\* What is left when the first token was read
LEMMA FlowsTail ==
  ASSUME NEW q \in Seq(Token), q # <<>>, NEW c, NEW d, Flows(q, c),
         DecP!After(q[1]) \subseteq DecP!Awaited(d)
  PROVE  Flows(Tail(q), d)
<1>1. DecP!Continues(Tail(q), d)
  BY DecoderConstants, DecP!RestContinues DEF Flows
<1>2. Complete(Tail(q), d)
  <2>. DEFINE t == Tail(q)
  <2>1. /\ t \in Seq(Token) /\ Len(t) = Len(q) - 1 /\ Len(q) \in Nat /\ Len(q) >= 1
        /\ \A i \in 1 .. Len(t) : t[i] = q[i + 1]
        /\ (t # <<>> => Len(t) >= 1)
    OBVIOUS
  <2>. HIDE DEF t
  <2>2. DecP!RicntTokens \subseteq DecP!After(q[Len(q)])
    BY DEF Flows, Complete
  <2>3. CASE t = <<>>
    <3>1. Len(q) = 1
      <4>1. Len(t) = 0
        BY <2>3
      <4>. QED
        BY <2>1, <4>1
    <3>. QED
      BY <2>2, <2>3, <3>1 DEF Complete, t
  <2>4. CASE t # <<>>
    <3>1. Len(t) \in 1 .. Len(t) /\ Len(t) + 1 = Len(q)
      BY <2>1, <2>4
    <3>2. t[Len(t)] = q[Len(q)]
      BY <2>1, <3>1
    <3>. QED
      BY <2>2, <2>4, <3>2 DEF Complete, t
  <2>. QED
    BY <2>3, <2>4
<1>. QED
  BY <1>1, <1>2 DEF Flows

\* The side that does not move, and the network.
LEMMA EncoderRests ==
  ASSUME EncoderSide, UNCHANGED encVars
  PROVE  EncoderSide'
<1>1. EncP!IInv'
  <2>1. UNCHANGED EncP!vars
    BY DEF encVars, EncP!vars, EncP!capVars, EncP!ackVars
  <2>. QED
    BY <2>1, Constants, EncP!NextKeepsIInv DEF EncoderSide
<1>. QED
  BY <1>1 DEF EncoderSide, Building, encVars, EncP!Size, EncP!SizeFrom

\* The side that does not move: the decoder
LEMMA DecoderRests ==
  ASSUME DecoderSide, UNCHANGED decVars, UNCHANGED rstream
  PROVE  DecoderSide'
<1>1. DecP!IInv'
  <2>1. UNCHANGED DecP!vars
    BY DEF decVars, DecP!vars, DecP!tableVars, DecP!ackVars, DecP!streamVars
  <2>. QED
    BY <2>1, DecoderConstants, DecP!NextKeepsIInv DEF DecoderSide
<1>2. /\ derr' = derr /\ closed' = closed /\ inq' = inq /\ rstream' = rstream
      /\ sctx' = sctx /\ shut' = shut
  BY DEF decVars
<1>. QED
  BY <1>1, <1>2 DEF DecoderSide, InOrder

\* What is in flight while nothing is written or read
LEMMA NetworkRests ==
  ASSUME Network, UNCHANGED netVars
  PROVE  Network'
  BY DEF Network, netVars

\* A connection starts with both sides in order.
LEMMA InitSides == Init => Sides
<1>. SUFFICES ASSUME Init PROVE Sides
  OBVIOUS
<1>1. EncP!Init /\ DecP!Init
  BY EncInit, DecInit DEF Init
<1>2. EncP!IInv /\ DecP!IInv
  BY <1>1, Constants, DecoderConstants, EncP!InitIInv, DecP!InitIInv
<1>3. tab.next = 0 /\ cur = NoSection
  BY <1>1 DEF EncP!Init, EncP!EmptyTable
<1>4. /\ estream = <<>> /\ dstream = <<>> /\ rstream = [s \in Streams |-> <<>>]
      /\ inq = [s \in Streams |-> <<>>] /\ shut = {}
      /\ sctx = [s \in Streams |-> DecP!FreshContext]
  BY <1>1 DEF Init, DecP!Init
<1>5. ASSUME NEW s \in Streams PROVE Flows(inq[s] \o rstream[s], sctx[s])
  <2>1. inq[s] \o rstream[s] = <<>> /\ sctx[s] = DecP!FreshContext
    BY <1>4
  <2>2. DecP!Awaited(DecP!FreshContext) = DecP!RicntTokens
    BY DEF DecP!Awaited, DecP!FreshContext
  <2>. QED
    BY <2>1, <2>2 DEF Flows, Complete, DecP!Continues
<1>. QED
  BY <1>2, <1>3, <1>4, <1>5
  DEF Sides, EncoderSide, DecoderSide, Network, Building, InOrder

\* The steps of the encoding side
LEMMA SettingsKeepSides ==
  ASSUME Sides, ReceiveSettings
  PROVE  Sides' /\ tab' = tab
<1>. DEFINE m == Min({DecHardMax, HardMax})
            b == Min({100, BlockedStreams})
<1>1. m \in 0 .. HardMax /\ HardMax \in Nat /\ m <= DecHardMax
  BY Constants, EncP!MinOfPair DEF Min, EncP!Min
<1>2. b \in Nat
  BY Constants, QpackAssumption, EncP!MinOfPair DEF Min, EncP!Min
<1>. HIDE DEF m, b
<1>3. /\ tab' = tab /\ krcnt' = krcnt /\ refs' = refs /\ blocked' = blocked
      /\ declen' = declen /\ ebad' = ebad /\ cur' = cur /\ cur = NoSection
      /\ maxBlocked' = b
      /\ \/ /\ cap' = cap /\ pending' = pending /\ minUpd' = minUpd
            /\ lastUpd' = lastUpd
         \/ pending' = TRUE /\ cap' = m /\ minUpd' = m /\ lastUpd' = m
      /\ UNCHANGED <<decVars, netVars>>
  BY DEF ReceiveSettings, m, b
<1>4. EncP!IInv
  BY DEF Sides, EncoderSide
<1>5. EncP!TypeOK'
  <2>1. EncP!TypeOK /\ EncP!SizeMax = HardMax + 1
    BY <1>4 DEF EncP!IInv, EncP!SizeMax
  <2>2. cap' \in 0 .. HardMax /\ minUpd' \in 0 .. HardMax + 1 /\ lastUpd' \in 0 .. HardMax
    BY <1>1, <1>3, <2>1 DEF EncP!TypeOK
  <2>3. pending' \in BOOLEAN
    BY <1>3, <2>1 DEF EncP!TypeOK
  <2>. QED
    BY <1>2, <1>3, <2>1, <2>2, <2>3 DEF EncP!TypeOK
<1>6. /\ EncP!ReferencedEntriesLive' /\ EncP!KnownReceivedSound'
      /\ EncP!UnblockedSectionSafe' /\ EncP!StreamLimit' /\ EncP!RoomForStream'
  BY <1>3, <1>4
  DEF EncP!IInv, EncP!ReferencedEntriesLive, EncP!KnownReceivedSound,
      EncP!UnblockedSectionSafe, EncP!StreamLimit, EncP!RoomForStream,
      EncP!KnownStreams
<1>7. EncP!OverCapacityOnlyWhilePinned'
  BY <1>3, <1>4 DEF EncP!IInv, EncP!OverCapacityOnlyWhilePinned, EncP!Size, EncP!SizeFrom
<1>8. EncP!PendingCapacity'
  BY <1>1, <1>3, <1>4 DEF EncP!IInv, EncP!PendingCapacity, EncP!SizeMax
<1>9. EncoderSide'
  BY <1>3, <1>5, <1>6, <1>7, <1>8 DEF Sides, EncoderSide, Building, EncP!IInv
<1>. QED
  BY <1>3, <1>9, DecoderRests, NetworkRests DEF Sides, netVars

\* nghttp3_qpack_encoder_set_max_dtable_capacity
LEMMA SetCapacityKeepsSides ==
  ASSUME Sides, NEW c \in Capacities, SetCapacity(c)
  PROVE  Sides' /\ tab' = tab
<1>1. EncP!SetMaxDtableCapacity(c) /\ UNCHANGED <<decVars, netVars>>
  BY EncSetCapacity DEF SetCapacity
<1>2. EncP!IInv'
  BY <1>1, Constants, EncP!SetCapacityKeepsIInv DEF Sides, EncoderSide
<1>3. cur' = NoSection /\ tab' = tab
  BY <1>1 DEF EncP!SetMaxDtableCapacity
<1>. QED
  BY <1>1, <1>2, <1>3, DecoderRests, NetworkRests
  DEF Sides, EncoderSide, Building, netVars

\* nghttp3_qpack_encoder_encode up to the first field
LEMMA BeginKeepsSides ==
  ASSUME Sides, NEW s \in Streams, BeginEncode(s)
  PROVE  Sides' /\ tab'.next = tab.next
<1>1. EncP!BeginEncode(s) /\ UNCHANGED <<decVars, netVars>>
  BY EncBegin DEF BeginEncode
<1>2. EncP!IInv' /\ tab'.next = tab.next
  BY <1>1, Constants, EncP!BeginKeepsIInv DEF Sides, EncoderSide
<1>. DEFINE fits == EncP!Size(EncP!ShrunkTable) <= cap /\ pending
<1>3. /\ cur = NoSection /\ tab' = EncP!ShrunkTable
      /\ IF fits THEN pending' = FALSE
                 ELSE pending' = pending /\ cap' = cap
      /\ cur' = [stream |-> s, base |-> tab.next, allow |-> EncP!MayBlock(s),
                 cnts |-> {}, lines |-> <<>>,
                 ins |-> IF fits THEN EncP!CapInstructions ELSE <<>>]
  BY <1>1 DEF EncP!BeginEncode
<1>4. /\ tab.next \in Nat /\ lastUpd \in Nat /\ minUpd \in Nat /\ cap \in Nat
      /\ EncP!IsTable(EncP!ShrunkTable)
  <2>1. EncP!TypeOK /\ EncP!ReferencedEntriesLive /\ HardMax \in Nat
    BY Constants DEF Sides, EncoderSide, EncP!IInv
  <2>2. EncP!IsTable(EncP!ShrunkTable)
    BY <2>1, Constants, EncP!ShrinkKeepsPins
  <2>. QED
    BY <2>1, <2>2 DEF EncP!TypeOK, EncP!IsTable, EncP!SizeMax
<1>5. EncP!CapInstructions \in Seq(EncP!Instruction)
  <2>1. EncP!SetCap(minUpd) \in EncP!Instruction /\ EncP!SetCap(lastUpd) \in EncP!Instruction
    BY <1>4 DEF EncP!SetCap, EncP!Instruction
  <2>. QED
    BY <2>1 DEF EncP!CapInstructions
<1>6. cur' \in EncP!Section
  <2>1. EncP!MayBlock(s) \in BOOLEAN
    BY DEF EncP!MayBlock, EncP!IsBlocked
  <2>. HIDE DEF fits
  <2>2. (IF fits THEN EncP!CapInstructions ELSE <<>>) \in Seq(EncP!Instruction)
    BY <1>5
  <2>. QED
    BY <1>3, <1>4, <2>1, <2>2 DEF EncP!Section
<1>7. pending' => EncP!Size(tab)' > cap'
  <2>1. EncP!Size(EncP!ShrunkTable) \in Int
    BY <1>4 DEF EncP!IsTable, EncP!Size, EncP!SizeFrom, EncP!Live, EncP!Entry
  <2>2. SUFFICES ASSUME pending' PROVE EncP!Size(tab)' > cap'
    OBVIOUS
  <2>3. ~fits /\ pending /\ cap' = cap
    BY <1>3, <2>2
  <2>4. EncP!Size(EncP!ShrunkTable) > cap
    BY <1>4, <2>1, <2>3
  <2>. QED
    BY <1>3, <2>3, <2>4 DEF EncP!Size, EncP!SizeFrom
<1>8. EncoderSide'
  BY <1>2, <1>3, <1>6, <1>7 DEF Sides, EncoderSide, Building
<1>. QED
  BY <1>1, <1>2, <1>8, DecoderRests, NetworkRests DEF Sides, netVars

\* nghttp3_qpack_encoder_encode_nv
LEMMA EncodeKeepsSides ==
  ASSUME Sides, NEW f \in Fields, EncodeNv(f)
  PROVE  Sides'
<1>1. EncP!EncodeNv(f) /\ UNCHANGED <<decVars, netVars>>
  BY EncField DEF EncodeNv
<1>2. EncP!IInv /\ cur \in EncP!Section /\ cur # NoSection /\ cap' = cap /\ pending' = pending
  BY <1>1 DEF Sides, EncoderSide, Building, EncP!EncodeNv, EncP!capVars
<1>3. EncP!IInv'
  BY <1>1, <1>2, Constants, EncP!EncodeKeepsIInv
<1>4. /\ cur' \in EncP!Section /\ cur'.lines # <<>>
      /\ \/ tab' = tab /\ cur'.ins = cur.ins
         \/ \E i \in EncP!Instruction : EncP!Inserted(f, i)
  BY <1>1, <1>2, Constants, EncP!EncodeWrites
<1>5. CASE tab' = tab
  BY <1>2, <1>3, <1>4, <1>5, <1>1, DecoderRests, NetworkRests
  DEF Sides, EncoderSide, Building, EncP!Size, EncP!SizeFrom, netVars
<1>6. ASSUME NEW i \in EncP!Instruction, EncP!Inserted(f, i) PROVE Sides'
  <2>1. EncP!TableSpace(f.name, f.value) <= cap /\ EncP!Size(tab) <= cap
    BY <1>6 DEF EncP!Inserted
  <2>2. cap \in 0 .. HardMax /\ HardMax \in Nat /\ EncP!IsTable(tab)
    BY <1>2, Constants DEF EncP!IInv, EncP!TypeOK
  <2>3. EncP!TableSpace(f.name, f.value) >= 32
    <3>1. f.name \in Names /\ f.value \in Values
      BY Constants, EncP!SpaceType
    <3>2. NameLen[f.name] \in Nat /\ ValueLen[f.value] \in Nat
      BY <3>1, Constants DEF EncP!LenAssumption
    <3>. QED
      BY <3>2 DEF EncP!TableSpace, EncP!ENTRY_OVERHEAD
  <2>4. EncP!TableSpace(f.name, f.value) \in Nat
    BY Constants, EncP!SpaceType
  <2>5. HardMax >= 32
    BY <2>1, <2>2, <2>3, <2>4
  <2>6. ~pending
    <3>0. tab.sum \in Nat /\ (tab.first < tab.next => tab.ent[tab.first].sum \in Nat)
      <4>1. tab.sum \in Nat /\ tab.ent \in [EncP!Live(tab) -> EncP!Entry]
        BY <2>2 DEF EncP!IsTable
      <4>2. tab.first < tab.next => tab.first \in EncP!Live(tab)
        BY <2>2 DEF EncP!Live, EncP!IsTable
      <4>. QED
        BY <4>1, <4>2 DEF EncP!Entry
    <3>1. EncP!Size(tab) \in Int
      BY <2>2, <3>0 DEF EncP!Size, EncP!SizeFrom
    <3>. QED
      BY <1>2, <2>1, <2>2, <3>1 DEF Sides, EncoderSide, Building
  <2>7. EncoderSide'
    BY <1>2, <1>3, <1>4, <2>5, <2>6 DEF EncoderSide, Building
  <2>. QED
    BY <1>1, <2>7, DecoderRests, NetworkRests DEF Sides, netVars
<1>. QED
  BY <1>4, <1>5, <1>6

\* nghttp3_stream_write_header_block: the section is put on its stream.
LEMMA FinishKeepsSides ==
  ASSUME Sides, FinishEncode
  PROVE  Sides' /\ tab' = tab
<1>. DEFINE w == Wire(EncP!CurSection)
            s == cur.stream
<1>1. /\ EncP!FinishEncode /\ estream' = estream \o cur.ins
      /\ rstream' = [rstream EXCEPT ![s] = rstream[s] \o w]
      /\ dstream' = dstream /\ UNCHANGED decVars
  BY EncFinish, EncSection DEF FinishEncode
<1>2. cur # NoSection /\ cur' = NoSection /\ cur \in EncP!Section
  BY <1>1 DEF EncP!FinishEncode, Sides, EncoderSide, Building
<1>3. EncP!IInv' /\ tab' = tab
  BY <1>1, Constants, EncP!FinishKeepsIInv DEF Sides, EncoderSide
<1>4. EncoderSide'
  BY <1>2, <1>3 DEF Sides, EncoderSide, Building
<1>5. IsSections(w)
  BY <1>2, WireIsSection DEF Sides
<1>6. s \in Streams /\ cur.ins \in Seq(EncP!Instruction)
  BY <1>2 DEF EncP!Section
<1>. HIDE DEF w, s
<1>7. w \in Seq(Token)
  BY <1>5 DEF IsSections
<1>8. /\ rstream \in [Streams -> Seq(Token)] /\ inq \in [Streams -> Seq(Token)]
      /\ estream \in Seq(EncP!Instruction)
  BY DEF Sides, Network, DecoderSide, DecP!IInv, DecP!TypeOK
<1>9. Network'
  BY <1>1, <1>6, <1>7, <1>8 DEF Sides, Network
<1>10. DecP!IInv'
  <2>1. UNCHANGED DecP!vars
    BY <1>1 DEF decVars, DecP!vars, DecP!tableVars, DecP!ackVars, DecP!streamVars
  <2>. QED
    BY <2>1, DecoderConstants, DecP!NextKeepsIInv DEF Sides, DecoderSide
<1>11. InOrder'
  <2>1. derr' = derr /\ closed' = closed /\ inq' = inq /\ sctx' = sctx
    BY <1>1 DEF decVars
  <2>2. SUFFICES ASSUME derr = "none", NEW x \in Streams \ closed
                 PROVE  Flows(inq[x] \o rstream'[x], sctx[x])
    BY <2>1 DEF InOrder
  <2>3. Flows(inq[x] \o rstream[x], sctx[x])
    BY <2>2 DEF Sides, DecoderSide, InOrder
  <2>4. CASE x = s
    <3>1. inq[x] \o rstream'[x] = (inq[x] \o rstream[x]) \o w
      <4>1. rstream'[x] = rstream[x] \o w
        BY <1>1, <1>8, <2>2, <2>4
      <4>2. inq[x] \in Seq(Token) /\ rstream[x] \in Seq(Token)
        BY <1>8, <2>2
      <4>3. inq[x] \o (rstream[x] \o w) = (inq[x] \o rstream[x]) \o w
        BY <1>7, <4>2, TokensAssociate
      <4>. QED
        BY <4>1, <4>3
    <3>2. inq[x] \o rstream[x] \in Seq(Token)
      BY <1>8
    <3>. QED
      BY <1>5, <2>3, <3>1, <3>2, FlowsAppend
  <2>5. CASE x # s
    BY <1>1, <1>8, <2>3, <2>5
  <2>. QED
    BY <2>4, <2>5
<1>12. shut' = {}
  BY <1>1 DEF decVars, Sides, DecoderSide
<1>. QED
  BY <1>3, <1>4, <1>9, <1>10, <1>11, <1>12 DEF Sides, DecoderSide

\* nghttp3_qpack_encoder_read_decoder
LEMMA AcknowledgmentKeepsSides ==
  ASSUME Sides, ReadDecoderStream
  PROVE  Sides' /\ tab' = tab /\ UNCHANGED <<EncP!capVars, cur>>
<1>. DEFINE i == Head(dstream)
<1>1. /\ dstream # <<>> /\ dstream' = Tail(dstream) /\ dstream \in Seq(Acks \cup Incs)
      /\ UNCHANGED <<decVars, estream, rstream>>
  BY DEF ReadDecoderStream, Sides, Network
<1>2. i \in Acks \cup Incs /\ Tail(dstream) \in Seq(Acks \cup Incs)
  BY <1>1
<1>3. CASE i.op = "Ack"
  <2>1. i.stream \in Streams /\ EncP!ReadSectionAck(i.stream)
    BY <1>2, <1>3, EncAck DEF ReadDecoderStream, Acks, Incs
  <2>2. EncP!IInv' /\ tab' = tab
    BY <2>1, Constants, EncP!SectionAckKeepsIInv DEF Sides, EncoderSide
  <2>. QED
    BY <1>1, <1>2, <2>1, <2>2, DecoderRests
    DEF Sides, EncoderSide, Building, Network, EncP!ReadSectionAck, EncP!Read
<1>4. CASE i.op = "Cancel"
  <2>1. i.stream \in Streams /\ EncP!ReadStreamCancel(i.stream)
    BY <1>2, <1>4, EncCancel DEF ReadDecoderStream, Acks, Incs
  <2>2. EncP!IInv' /\ tab' = tab
    BY <2>1, Constants, EncP!CancelKeepsIInv DEF Sides, EncoderSide
  <2>. QED
    BY <1>1, <1>2, <2>1, <2>2, DecoderRests
    DEF Sides, EncoderSide, Building, Network, EncP!ReadStreamCancel, EncP!Read
<1>5. CASE i.op = "Inc"
  <2>1. i.n \in Nat /\ EncP!ReadInsertCountIncrement(i.n)
    BY <1>2, <1>5, EncIncrement DEF ReadDecoderStream, Acks, Incs
  <2>2. EncP!IInv' /\ tab' = tab
    BY <2>1, Constants, EncP!IncrementKeepsIInv DEF Sides, EncoderSide
  <2>. QED
    BY <1>1, <1>2, <2>1, <2>2, DecoderRests
    DEF Sides, EncoderSide, Building, Network, EncP!ReadInsertCountIncrement, EncP!Read
<1>. QED
  BY <1>2, <1>3, <1>4, <1>5 DEF Acks, Incs

\* Two sequences in a row
LEMMA Concatenation ==
  ASSUME NEW S, NEW p \in Seq(S), NEW r \in Seq(S)
  PROVE  /\ p \o r \in Seq(S) /\ Len(p \o r) = Len(p) + Len(r)
         /\ Len(p) \in Nat /\ Len(r) \in Nat
         /\ \A i \in 1 .. Len(p) : (p \o r)[i] = p[i]
         /\ r # <<>> => /\ Len(r) >= 1 /\ p \o r # <<>> /\ Head(r) = r[1]
                         /\ (p \o r)[Len(p) + 1] = r[1]
         /\ p # <<>> => /\ p \o r # <<>> /\ (p \o r)[1] = p[1]
                         /\ Tail(p \o r) = Tail(p) \o r
<1>1. /\ p \o r \in Seq(S) /\ Len(p \o r) = Len(p) + Len(r)
      /\ Len(p) \in Nat /\ Len(r) \in Nat
  OBVIOUS
<1>2. \A i \in 1 .. Len(p) : (p \o r)[i] = p[i]
  OBVIOUS
<1>3. r # <<>> => /\ Len(r) >= 1 /\ p \o r # <<>> /\ Head(r) = r[1]
                  /\ (p \o r)[Len(p) + 1] = r[1]
  OBVIOUS
<1>4. ASSUME p # <<>>
      PROVE  /\ p \o r # <<>> /\ (p \o r)[1] = p[1]
             /\ Tail(p \o r) = Tail(p) \o r
  <2>1. Len(p) >= 1 /\ p \o r # <<>>
    BY <1>4
  <2>2. (p \o r)[1] = p[1]
    BY <1>2, <2>1
  <2>. DEFINE u == Tail(p \o r)
              v == Tail(p) \o r
  <2>3. u \in Seq(S) /\ Len(u) = Len(p) + Len(r) - 1
    BY <1>1, <2>1
  <2>4. v \in Seq(S) /\ Len(v) = Len(p) + Len(r) - 1
    BY <1>1, <1>4
  <2>5. ASSUME NEW i \in 1 .. Len(p) + Len(r) - 1 PROVE u[i] = v[i]
    <3>1. u[i] = (p \o r)[i + 1]
      BY <1>1, <2>1
    <3>2. CASE i <= Len(p) - 1
      BY <1>1, <1>4, <3>1, <3>2
    <3>3. CASE ~(i <= Len(p) - 1)
      BY <1>1, <1>4, <3>1, <3>3
    <3>. QED
      BY <3>2, <3>3
  <2>. HIDE DEF u, v
  <2>6. u = v
    BY <2>3, <2>4, <2>5
  <2>. QED
    BY <2>1, <2>2, <2>6 DEF u, v
<1>. QED
  BY <1>1, <1>2, <1>3, <1>4

\* The steps of the decoding side.  Only instructions change its table.
LEMMA InstructionKeepsSides ==
  ASSUME Sides, ReadEncoderStream
  PROVE  /\ Sides' /\ UNCHANGED encVars
         /\ estream # <<>> /\ estream' = Tail(estream)
         /\ DecP!ReadEncoder(Head(estream))
<1>. DEFINE i == Head(estream)
<1>1. /\ DecP!ReadEncoder(i) /\ estream # <<>> /\ estream' = Tail(estream)
      /\ estream \in Seq(EncP!Instruction)
      /\ UNCHANGED <<encVars, dstream, rstream>>
  BY DecEncoder DEF ReadEncoderStream, Sides, Network
<1>2. i \in EncP!Instruction /\ Tail(estream) \in Seq(EncP!Instruction)
  BY <1>1
<1>. HIDE DEF i
<1>3. DecP!IInv'
  BY <1>1, <1>2, DecoderConstants, DecP!ReadEncoderKeepsIInv DEF Sides, DecoderSide
<1>4. /\ inq' = inq /\ sctx' = sctx /\ shut' = shut /\ closed' = closed
      /\ derr = "none"
  BY <1>1
  DEF DecP!ReadEncoder, DecP!SetCapacity, DecP!AddEntry, DecP!Fail,
      DecP!Interpreted, DecP!streamVars
<1>5. DecoderSide'
  BY <1>1, <1>3, <1>4 DEF Sides, DecoderSide, InOrder
<1>6. Network'
  BY <1>1, <1>2 DEF Sides, Network
<1>. QED
  BY <1>1, <1>5, <1>6, EncoderRests DEF Sides, i

\* A token that reaches the decoder is one the stream waits for.
LEMMA NextIsExpected ==
  ASSUME Sides, derr = "none", NEW s \in Streams \ closed, rstream[s] # <<>>
  PROVE  Head(rstream[s]) \in DecP!Expected(s)
<1>. DEFINE p == inq[s]
            r == rstream[s]
            q == p \o r
<1>1. p \in Seq(Token) /\ r \in Seq(Token) /\ r # <<>> /\ Flows(q, sctx[s])
  BY DEF Sides, DecoderSide, InOrder, Network, DecP!IInv, DecP!TypeOK
<1>2. /\ Len(p) \in Nat /\ Len(r) >= 1 /\ Len(q) = Len(p) + Len(r) /\ q # <<>>
      /\ q[Len(p) + 1] = r[1] /\ Head(r) = r[1] /\ Len(r) \in Nat
      /\ \A i \in 1 .. Len(p) : q[i] = p[i]
  <2>. HIDE DEF p, r
  <2>. QED
    BY <1>1, Concatenation
<1>. HIDE DEF q
<1>3. CASE p = <<>>
  <2>1. q[1] \in DecP!Awaited(sctx[s])
    BY <1>1, <1>2 DEF Flows, DecP!Continues
  <2>. QED
    BY <1>2, <1>3, <2>1 DEF DecP!Expected
<1>4. CASE p # <<>>
  <2>1. Len(p) \in 1 .. Len(q) - 1 /\ Len(p) \in 1 .. Len(p)
    BY <1>1, <1>2, <1>4
  <2>2. q[Len(p) + 1] \in DecP!After(q[Len(p)])
    BY <1>1, <2>1 DEF Flows, DecP!Continues
  <2>. QED
    BY <1>2, <1>4, <2>1, <2>2 DEF DecP!Expected
<1>. QED
  BY <1>3, <1>4

\* nghttp3_conn_read_bidi: bytes of a section arrive.
LEMMA TokenKeepsSides ==
  ASSUME Sides, NEW s \in Streams, ReadRequestStream(s)
  PROVE  /\ Sides' /\ UNCHANGED <<encVars, estream, dtab, dcap>>
         /\ derr = "none" /\ derr' # "ENCODER_STREAM"
<1>. DEFINE tok == Head(rstream[s])
<1>1. /\ DecP!ReadStream(s, tok) /\ rstream[s] # <<>>
      /\ rstream' = [rstream EXCEPT ![s] = Tail(rstream[s])]
      /\ UNCHANGED <<encVars, estream, dstream>>
  BY DecStream DEF ReadRequestStream
<1>2. derr = "none" /\ s \notin closed /\ shut = {}
  BY <1>1 DEF DecP!ReadStream, Sides, DecoderSide
<1>3. tok \in DecP!Expected(s)
  BY <1>1, <1>2, NextIsExpected
<1>. HIDE DEF tok
<1>4. DecP!IInv'
  BY <1>1, <1>3, DecoderConstants, DecP!ReadStreamKeepsIInv DEF Sides, DecoderSide
<1>5. /\ UNCHANGED <<DecP!tableVars, shut, closed>> /\ derr' # "ENCODER_STREAM"
      /\ \A x \in Streams \ {s} : inq'[x] = inq[x] /\ sctx'[x] = sctx[x]
      /\ \/ inq'[s] = Append(inq[s], tok) /\ sctx'[s] = sctx[s]
         \/ /\ inq[s] = <<>> /\ inq'[s] = <<>>
            /\ derr' = "none" => DecP!After(tok) \subseteq DecP!Awaited(sctx'[s])
  BY <1>1, <1>2, <1>3, DecoderConstants, DecP!StreamReads DEF Sides, DecoderSide
<1>6. /\ rstream \in [Streams -> Seq(Token)] /\ inq[s] \in Seq(Token)
      /\ rstream[s] \in Seq(Token) /\ Tail(rstream[s]) \in Seq(Token)
  BY <1>1 DEF Sides, Network, DecoderSide, DecP!IInv, DecP!TypeOK
<1>7. Network'
  BY <1>1, <1>6 DEF Sides, Network
<1>8. InOrder'
  <2>1. SUFFICES ASSUME derr' = "none", NEW x \in Streams \ closed
                 PROVE  Flows(inq'[x] \o rstream'[x], sctx'[x])
    BY <1>5 DEF InOrder
  <2>2. Flows(inq[x] \o rstream[x], sctx[x])
    BY <1>2 DEF Sides, DecoderSide, InOrder
  <2>3. CASE x # s
    BY <1>1, <1>5, <1>6, <2>2, <2>3
  <2>4. CASE x = s /\ inq'[s] = Append(inq[s], tok) /\ sctx'[s] = sctx[s]
    <3>. DEFINE p == inq[s]
                r == rstream[s]
    <3>1. Append(p, Head(r)) \o Tail(r) = p \o r
      <4>1. p \in Seq(Token) /\ r \in Seq(Token) /\ r # <<>>
        BY <1>1, <1>6
      <4>. HIDE DEF p, r
      <4>2. r = <<Head(r)>> \o Tail(r) /\ Append(p, Head(r)) = p \o <<Head(r)>>
        BY <4>1
      <4>3. (p \o <<Head(r)>>) \o Tail(r) = p \o (<<Head(r)>> \o Tail(r))
        BY <4>1
      <4>. QED
        BY <4>2, <4>3
    <3>2. rstream'[s] = Tail(r)
      BY <1>1, <1>6
    <3>. QED
      BY <2>2, <2>4, <3>1, <3>2 DEF tok
  <2>5. CASE /\ x = s /\ inq[s] = <<>> /\ inq'[s] = <<>>
             /\ DecP!After(tok) \subseteq DecP!Awaited(sctx'[s])
    <3>. DEFINE r == rstream[s]
    <3>1. /\ r \in Seq(Token) /\ r # <<>> /\ Head(r) = r[1] /\ <<>> \o r = r
          /\ <<>> \o Tail(r) = Tail(r)
      BY <1>1, <1>6
    <3>2. Flows(r, sctx[s])
      BY <2>2, <2>5, <3>1
    <3>3. DecP!After(r[1]) \subseteq DecP!Awaited(sctx'[s])
      BY <2>5, <3>1 DEF tok
    <3>4. rstream'[s] = Tail(r)
      BY <1>1, <1>6
    <3>. HIDE DEF r
    <3>5. Flows(Tail(r), sctx'[s])
      BY <3>1, <3>2, <3>3, FlowsTail
    <3>. QED
      BY <2>5, <3>1, <3>4, <3>5
  <2>. QED
    BY <1>5, <2>1, <2>3, <2>4, <2>5
<1>9. EncoderSide'
  BY <1>1, EncoderRests DEF Sides
<1>. QED
  BY <1>1, <1>2, <1>4, <1>5, <1>7, <1>8, <1>9 DEF Sides, DecoderSide, DecP!tableVars

\* Streams that waited are decoded before anything else is read.
LEMMA ResumeKeepsSides ==
  ASSUME Sides, Resume
  PROVE  /\ Sides' /\ UNCHANGED <<encVars, estream, dtab, dcap>>
         /\ derr = "none" /\ derr' # "ENCODER_STREAM"
<1>1. UNCHANGED <<encVars, netVars>> /\ shut = {}
  BY DEF Resume, Sides, DecoderSide
<1>2. EncoderSide' /\ Network'
  BY <1>1, EncoderRests, NetworkRests DEF Sides
<1>3. CASE DecP!UnblockNext
  <2>1. /\ inq' = inq /\ sctx' = sctx /\ shut' = shut /\ closed' = closed
        /\ dtab' = dtab /\ dcap' = dcap /\ derr' = derr /\ derr = "none"
    BY <1>3 DEF DecP!UnblockNext, DecP!tableVars
  <2>2. DecP!IInv'
    BY <1>3, DecoderConstants, DecP!UnblockNextKeepsIInv DEF Sides, DecoderSide
  <2>. QED
    BY <1>1, <1>2, <2>1, <2>2 DEF Sides, DecoderSide, InOrder, netVars
<1>4. ASSUME NEW s \in Streams, DecP!ProcessBuffered(s)
      PROVE  /\ Sides' /\ UNCHANGED <<dtab, dcap>>
             /\ derr = "none" /\ derr' # "ENCODER_STREAM"
  <2>1. DecP!IInv' /\ derr = "none"
    BY <1>4, DecoderConstants, DecP!ProcessBufferedKeepsIInv
    DEF Sides, DecoderSide, DecP!ProcessBuffered
  <2>2. /\ UNCHANGED <<DecP!tableVars, shut, closed>> /\ derr' # "ENCODER_STREAM"
        /\ \A x \in Streams \ {s} : inq'[x] = inq[x] /\ sctx'[x] = sctx[x]
        /\ \/ inq'[s] = inq[s] /\ sctx'[s] = sctx[s]
           \/ /\ inq[s] # <<>>
              /\ derr' = "none" =>
                   /\ inq'[s] = Tail(inq[s])
                   /\ DecP!After(inq[s][1]) \subseteq DecP!Awaited(sctx'[s])
    BY <1>1, <1>4, DecoderConstants, DecP!BufferReads DEF Sides, DecoderSide
  <2>3. InOrder'
    <3>1. rstream' = rstream
      BY <1>1 DEF netVars
    <3>2. SUFFICES ASSUME derr' = "none", NEW x \in Streams \ closed
                   PROVE  Flows(inq'[x] \o rstream[x], sctx'[x])
      BY <2>2, <3>1 DEF InOrder
    <3>3. Flows(inq[x] \o rstream[x], sctx[x])
      BY <2>1 DEF Sides, DecoderSide, InOrder
    <3>4. CASE x # s
      BY <2>2, <3>3, <3>4
    <3>5. CASE x = s /\ inq'[s] = inq[s] /\ sctx'[s] = sctx[s]
      BY <3>3, <3>5
    <3>6. CASE /\ x = s /\ inq[s] # <<>> /\ inq'[s] = Tail(inq[s])
               /\ DecP!After(inq[s][1]) \subseteq DecP!Awaited(sctx'[s])
      <4>. DEFINE p == inq[s]
                  r == rstream[s]
                  q == p \o r
      <4>1. p \in Seq(Token) /\ r \in Seq(Token) /\ p # <<>>
        BY <3>6 DEF Sides, Network, DecoderSide, DecP!IInv, DecP!TypeOK
      <4>2. q \in Seq(Token) /\ q # <<>> /\ q[1] = p[1] /\ Tail(q) = Tail(p) \o r
        <5>. HIDE DEF p, r
        <5>. QED
          BY <4>1, Concatenation
      <4>3. Flows(q, sctx[s]) /\ DecP!After(q[1]) \subseteq DecP!Awaited(sctx'[s])
        BY <3>3, <3>6, <4>2
      <4>. HIDE DEF q
      <4>4. Flows(Tail(q), sctx'[s])
        BY <4>2, <4>3, FlowsTail
      <4>. QED
        BY <3>6, <4>2, <4>4
    <3>. QED
      BY <2>2, <3>2, <3>4, <3>5, <3>6
  <2>. QED
    BY <1>2, <2>1, <2>2, <2>3 DEF Sides, DecoderSide, DecP!tableVars
<1>5. DecP!UnblockNext \/ \E s \in Streams : DecP!ProcessBuffered(s)
  BY DecUnblock, DecBuffered DEF Resume
<1>. QED
  BY <1>1, <1>3, <1>4, <1>5 DEF netVars

\* nghttp3_stream_write_qpack_decoder_stream
LEMMA WriteKeepsSides ==
  ASSUME Sides, WriteDecoderStream
  PROVE  Sides' /\ UNCHANGED <<encVars, estream, dtab, dcap, derr>>
<1>1. /\ DecP!WriteDecoder /\ dstream' = dstream \o DecP!DecoderStream
      /\ UNCHANGED <<encVars, estream, rstream>>
  BY DecWrite DEF WriteDecoderStream
<1>2. DecP!IInv'
  BY <1>1, DecoderConstants, DecP!WriteDecoderKeepsIInv DEF Sides, DecoderSide
<1>3. /\ inq' = inq /\ sctx' = sctx /\ shut' = shut /\ closed' = closed
      /\ dtab' = dtab /\ dcap' = dcap /\ derr' = derr
  BY <1>1 DEF DecP!WriteDecoder, DecP!tableVars, DecP!streamVars
<1>4. DecP!DecoderStream \in Seq(Acks \cup Incs)
  <2>1. dbuf \in Seq(Acks) /\ written \in Nat /\ dtab.next \in Nat
    BY DEF Sides, DecoderSide, DecP!IInv, DecP!TypeOK, DecP!IsTable, Acks
  <2>2. dbuf \in Seq(Acks \cup Incs)
    <3>1. Acks \subseteq Acks \cup Incs
      OBVIOUS
    <3>. HIDE DEF Acks, Incs
    <3>. QED
      BY <2>1, <3>1
  <2>3. written < dtab.next => [op |-> "Inc", n |-> DecP!Increment] \in Incs
    BY <2>1 DEF Incs, DecP!Increment
  <2>. DEFINE t == IF written < dtab.next
                   THEN <<[op |-> "Inc", n |-> DecP!Increment]>> ELSE <<>>
  <2>4. t \in Seq(Acks \cup Incs)
    <3>. DEFINE i == [op |-> "Inc", n |-> DecP!Increment]
                S == Acks \cup Incs
    <3>1. written < dtab.next => i \in S
      BY <2>3
    <3>. HIDE DEF i, S
    <3>2. written < dtab.next => <<i>> \in Seq(S)
      BY <3>1
    <3>3. <<>> \in Seq(S)
      OBVIOUS
    <3>. QED
      BY <3>2, <3>3 DEF i, S
  <2>5. DecP!DecoderStream = dbuf \o t
    BY DEF DecP!DecoderStream
  <2>. HIDE DEF t
  <2>. QED
    BY <2>2, <2>4, <2>5
<1>5. Network'
  BY <1>1, <1>4 DEF Sides, Network
<1>6. DecoderSide'
  BY <1>1, <1>2, <1>3 DEF Sides, DecoderSide, InOrder
<1>. QED
  BY <1>1, <1>3, <1>5, <1>6, EncoderRests DEF Sides

\* nghttp3_conn_close_stream2: what was on its way to it is gone.
LEMMA CloseKeepsSides ==
  ASSUME Sides, NEW s \in Streams, CloseStream(s)
  PROVE  /\ Sides' /\ UNCHANGED <<encVars, estream, dtab, dcap>>
         /\ derr = "none" /\ derr' # "ENCODER_STREAM"
<1>1. DecP!CloseStream(s) /\ UNCHANGED <<encVars, netVars>>
  BY DecClose DEF CloseStream
<1>2. DecP!IInv'
  BY <1>1, DecoderConstants, DecP!CloseStreamKeepsIInv DEF Sides, DecoderSide
<1>3. /\ derr = "none" /\ derr' # "ENCODER_STREAM" /\ dtab' = dtab /\ dcap' = dcap
      /\ \A x \in Streams \ {s} : inq'[x] = inq[x] /\ sctx'[x] = sctx[x]
      /\ closed \subseteq closed' /\ shut' = {}
      /\ derr' = "none" => s \in closed'
  <2>1. inq \in [Streams -> Seq(Token)] /\ DOMAIN sctx = Streams /\ shut = {}
    BY DEF Sides, DecoderSide, DecP!IInv, DecP!TypeOK
  <2>. QED
    BY <1>1, <2>1
    DEF DecP!CloseStream, DecP!Fail, DecP!tableVars, DecP!streamVars
<1>4. rstream' = rstream /\ estream' = estream
  BY <1>1 DEF netVars
<1>5. InOrder'
  BY <1>3, <1>4 DEF Sides, DecoderSide, InOrder
<1>. QED
  BY <1>1, <1>2, <1>3, <1>4, <1>5, EncoderRests, NetworkRests
  DEF Sides, DecoderSide

-----------------------------------------------------------------------------
(* The tables *)

\* All instructions the decoder has not read: on the encoder stream, then in
\* the section under construction.
Queue == estream \o (IF cur = NoSection THEN <<>> ELSE cur.ins)

\* They lead from the decoder's table to one that ends where the encoder's
\* does and reaches back at least as far; the capacity is then the encoder's,
\* unless a change waits to be announced.
Owed(L, h) ==
  LET last == h[Len(Queue) + 1] IN
  /\ Chain(L, h, Queue, tab.first, tab.next)
  /\ h[1] = [first |-> dtab.first, next |-> dtab.next, cap |-> dcap]
  /\ last.next = tab.next /\ (~pending => last.cap = cap)

\* Both tables are windows on one log.
Shared(L) ==
  /\ IsLog(L)
  /\ tab = Window(L, tab.first, tab.next) /\ dtab = Window(L, dtab.first, dtab.next)
  /\ dtab.first <= tab.first /\ dtab.next <= tab.next
  /\ derr = "none" => \E h : Owed(L, h)

\* Capacities stay within what the decoder allows.
Limits ==
  AskedWithin =>
    /\ cap <= DecHardMax /\ lastUpd <= DecHardMax
    /\ derr = "ENCODER_STREAM" => elen >= MaxEncoderLen

\* Logs that agree have the same windows.
LEMMA WindowAgree ==
  ASSUME NEW L, NEW K, NEW n \in Nat, Agree(L, K, n), NEW f \in Nat,
         NEW m \in Nat, m <= n
  PROVE  Window(K, f, m) = Window(L, f, m)
<1>1. \A a \in f .. m - 1 : K[a] = L[a]
  BY DEF Agree
<1>2. K[m].sum = L[m].sum
  BY DEF Agree
<1>3. [a \in f .. m - 1 |-> K[a]] = [a \in f .. m - 1 |-> L[a]]
  BY <1>1
<1>. QED
  BY <1>2, <1>3 DEF Window

\* The numbers of both sides
LEMMA SidesType ==
  ASSUME Sides
  PROVE  /\ EncP!IsTable(tab) /\ tab.first \in Nat /\ tab.next \in Nat
         /\ tab.first <= tab.next
         /\ dtab.first \in Nat /\ dtab.next \in Nat /\ dtab.first <= dtab.next
         /\ dcap \in Nat /\ cap \in Nat /\ minUpd \in Nat /\ lastUpd \in Nat
         /\ pending \in BOOLEAN /\ EncP!PendingCapacity
         /\ HardMax \in Nat /\ DecHardMax \in Nat
         /\ estream \in Seq(EncP!Instruction)
         /\ cur # NoSection => cur.ins \in Seq(EncP!Instruction)
         /\ Queue \in Seq(EncP!Instruction)
<1>1. /\ EncP!IsTable(tab) /\ cap \in Nat /\ minUpd \in Nat /\ lastUpd \in Nat
      /\ pending \in BOOLEAN /\ EncP!PendingCapacity
      /\ HardMax \in Nat /\ DecHardMax \in Nat
  BY Constants DEF Sides, EncoderSide, EncP!IInv, EncP!TypeOK, EncP!SizeMax
<1>2. DecP!IsTable(dtab) /\ dcap \in Nat
  BY Constants DEF Sides, DecoderSide, DecP!IInv, DecP!TypeOK
<1>3. /\ tab.first \in Nat /\ tab.next \in Nat /\ tab.first <= tab.next
      /\ dtab.first \in Nat /\ dtab.next \in Nat /\ dtab.first <= dtab.next
  BY <1>1, <1>2 DEF EncP!IsTable, DecP!IsTable
<1>4. /\ estream \in Seq(EncP!Instruction)
      /\ cur # NoSection => cur.ins \in Seq(EncP!Instruction)
  BY DEF Sides, Network, EncoderSide, Building, EncP!Section
<1>5. Queue \in Seq(EncP!Instruction)
  <2>1. CASE cur = NoSection
    BY <1>4, <2>1 DEF Queue
  <2>2. CASE cur # NoSection
    BY <1>4, <2>2 DEF Queue
  <2>. QED
    BY <2>1, <2>2
<1>. QED
  BY <1>1, <1>2, <1>3, <1>4, <1>5

\* Two empty tables are windows on any log.
LEMMA InitShared == Init => (\E L : Shared(L)) /\ Limits
<1>. SUFFICES ASSUME Init PROVE (\E L : Shared(L)) /\ Limits
  OBVIOUS
<1>. DEFINE L == [a \in Nat |-> [sum |-> 0]]
            r == [first |-> 0, next |-> 0, cap |-> 0]
            h == [k \in 1 .. 1 |-> r]
<1>1. EncP!Init /\ DecP!Init /\ estream = <<>>
  BY EncInit, DecInit DEF Init
<1>2. /\ tab = [first |-> 0, next |-> 0, sum |-> 0, ent |-> [a \in {} |-> 0]]
      /\ dtab = [first |-> 0, next |-> 0, sum |-> 0, ent |-> [a \in {} |-> 0]]
      /\ cap = 0 /\ lastUpd = 0 /\ dcap = 0 /\ cur = NoSection /\ derr = "none"
  BY <1>1 DEF EncP!Init, DecP!Init, EncP!EmptyTable, DecP!EmptyTable
<1>3. IsLog(L) /\ L[0].sum = 0
  BY DEF IsLog
<1>4. Window(L, 0, 0) = [first |-> 0, next |-> 0, sum |-> 0, ent |-> [a \in {} |-> 0]]
  <2>1. 0 .. 0 - 1 = {}
    OBVIOUS
  <2>. HIDE DEF L
  <2>2. [a \in 0 .. 0 - 1 |-> L[a]] = [a \in {} |-> 0]
    BY <2>1
  <2>. QED
    BY <1>3, <2>2 DEF Window
<1>5. /\ tab.first = 0 /\ tab.next = 0 /\ dtab.first = 0 /\ dtab.next = 0
  BY <1>2
<1>. HIDE DEF L
<1>6. Queue = <<>> /\ Len(Queue) = 0
  BY <1>1, <1>2 DEF Queue
<1>7. r \in Point
  BY DEF Point
<1>8. h[1] = r /\ h \in [1 .. 1 -> Point] /\ r.first = 0 /\ r.next = 0 /\ r.cap = 0
  BY <1>7
<1>. HIDE DEF h
<1>9. Chain(L, h, Queue, 0, 0)
  BY <1>6, <1>8 DEF Chain
<1>10. Owed(L, h)
  BY <1>2, <1>5, <1>6, <1>8, <1>9 DEF Owed
<1>11. Shared(L)
  BY <1>2, <1>3, <1>4, <1>5, <1>10 DEF Shared
<1>12. Limits
  BY <1>2, Constants DEF Limits
<1>. QED
  BY <1>11, <1>12

\* Steps that neither write nor read an instruction
LEMMA QuietShared ==
  ASSUME NEW L, Shared(L), tab' = tab, dtab' = dtab, dcap' = dcap, Queue' = Queue,
         derr' = "none" => derr = "none",
         ~pending' => ~pending /\ cap' = cap
  PROVE  Shared(L)'
<1>1. ASSUME NEW h, Owed(L, h) PROVE Owed(L, h)'
  BY <1>1 DEF Owed
<1>. QED
  BY <1>1 DEF Shared

\* nghttp3_qpack_decoder_read_encoder does what was announced.
LEMMA InstructionShared ==
  ASSUME Sides, ReadEncoderStream, NEW L, Shared(L), Limits
  PROVE  Shared(L)' /\ Limits'
<1>. DEFINE i == Head(estream)
<1>1. /\ UNCHANGED encVars /\ estream # <<>> /\ estream' = Tail(estream)
      /\ DecP!ReadEncoder(i) /\ derr = "none" /\ cur = NoSection
  BY InstructionKeepsSides DEF ReadEncoderStream, DecP!ReadEncoder
<1>2. /\ estream \in Seq(EncP!Instruction) /\ Queue = estream /\ Queue' = Tail(estream)
      /\ Queue # <<>> /\ cur' = cur /\ tab' = tab /\ cap' = cap /\ pending' = pending
      /\ lastUpd' = lastUpd
  <2>1. /\ estream \in Seq(EncP!Instruction) /\ Tail(estream) \in Seq(EncP!Instruction)
        /\ cur' = cur /\ tab' = tab /\ cap' = cap /\ pending' = pending
        /\ lastUpd' = lastUpd
    BY <1>1, SidesType DEF encVars
  <2>. QED
    BY <1>1, <2>1 DEF Queue
<1>3. PICK h : Owed(L, h)
  BY <1>1 DEF Shared
<1>4. /\ Chain(L, h, Queue, tab.first, tab.next)
      /\ h[1] = [first |-> dtab.first, next |-> dtab.next, cap |-> dcap]
      /\ h[Len(Queue) + 1].next = tab.next
      /\ ~pending => h[Len(Queue) + 1].cap = cap
  BY <1>3 DEF Owed
<1>5. /\ tab.first \in Nat /\ tab.next \in Nat /\ dtab.first \in Nat
      /\ dtab.next \in Nat /\ dtab.first <= dtab.next /\ dcap \in Nat
      /\ DecHardMax \in Nat
  BY SidesType
<1>6. PICK g : /\ Chain(L, g, Tail(Queue), tab.first, tab.next) /\ g[1] = h[2]
               /\ g[Len(Tail(Queue)) + 1] = h[Len(Queue) + 1]
  <2>. DEFINE n == tab.next
              f == tab.first
              q == Queue
  <2>1. Chain(L, h, q, f, n) /\ q # <<>> /\ n \in Nat /\ f \in Nat
    BY <1>2, <1>4, <1>5
  <2>. HIDE DEF n, f, q
  <2>2. \E g : /\ Chain(L, g, Tail(q), f, n) /\ g[1] = h[2]
               /\ g[Len(Tail(q)) + 1] = h[Len(q) + 1]
    BY <2>1, ChainPop
  <2>. QED
    BY <2>2 DEF n, f, q
<1>7. /\ SetsCapacity(L, i, h[1], h[2]) \/ Adds(L, i, h[1], h[2])
      /\ h[2] \in Point /\ i \in EncP!Instruction
  BY <1>2, <1>4, <1>5, ChainPop
<1>. DEFINE p == h[1]
            r == h[2]
<1>8. /\ p.first = dtab.first /\ p.next = dtab.next /\ p.cap = dcap
      /\ r = [first |-> r.first, next |-> r.next, cap |-> r.cap]
      /\ r.first \in Nat /\ r.next \in Nat /\ r.cap \in Nat
  BY <1>4, <1>7 DEF Point
<1>9. IsLog(L) /\ dtab = Window(L, p.first, p.next)
  BY <1>8 DEF Shared
<1>10. r.first <= tab.first /\ r.next <= tab.next
  <2>1. 1 \in 1 .. Len(Tail(Queue)) + 1
    BY <1>2
  <2>. QED
    BY <1>6, <2>1 DEF Chain
<1>11. CASE DecP!Fail("ENCODER_STREAM") /\ (AskedWithin => elen >= MaxEncoderLen)
  <2>1. dtab' = dtab /\ dcap' = dcap /\ derr' # "none" /\ elen' = elen
    BY <1>11 DEF DecP!Fail, DecP!tableVars
  <2>. QED
    BY <1>2, <1>11, <2>1 DEF Shared, Limits
<1>12. ASSUME dtab' = Window(L, r.first, r.next), dcap' = r.cap, derr' = "none"
       PROVE  Shared(L)' /\ Limits'
  <2>1. dtab'.first = r.first /\ dtab'.next = r.next
    BY <1>12 DEF Window
  <2>2. Owed(L, g)'
    BY <1>2, <1>4, <1>6, <1>8, <1>12, <2>1 DEF Owed
  <2>3. Shared(L)'
    BY <1>2, <1>9, <1>10, <1>12, <2>1, <2>2 DEF Shared
  <2>. QED
    BY <1>2, <1>12, <2>3 DEF Limits
<1>13. CASE ~(elen >= MaxEncoderLen) /\ SetsCapacity(L, i, p, r)
  <2>1. /\ i.op = "SetCap" /\ i.cap \in Nat /\ (AskedWithin => i.cap <= DecHardMax)
        /\ r.next = p.next /\ r.cap = i.cap /\ CutAt(L, p.first, p.next, 0, i.cap, r.first)
    BY <1>13 DEF SetsCapacity
  <2>2. DecP!SetCapacity(i.cap)
    BY <1>1, <1>13, <2>1 DEF DecP!ReadEncoder
  <2>3. CASE i.cap > DecHardMax
    BY <1>5, <1>11, <2>1, <2>2, <2>3 DEF DecP!SetCapacity
  <2>4. CASE ~(i.cap > DecHardMax)
    <3>1. /\ dcap' = i.cap /\ dtab' = DecP!EvictToFit(dtab, 0, i.cap)
          /\ derr' = "none"
      BY <1>1, <2>2, <2>4 DEF DecP!SetCapacity, DecP!Interpreted
    <3>2. DecP!EvictToFit(dtab, 0, i.cap) = EncP!EvictToFit(dtab, 0, i.cap)
      BY DEF DecP!EvictToFit, EncP!EvictToFit, DecP!FitPoints, EncP!FitPoints,
             DecP!DropTo, EncP!DropTo, DecP!SizeFrom, EncP!SizeFrom,
             DecP!Min, EncP!Min
    <3>3. EncP!EvictToFit(Window(L, p.first, p.next), 0, i.cap)
            = Window(L, r.first, p.next)
      BY <1>5, <1>8, <1>9, <2>1, WindowEvict
    <3>. QED
      BY <1>9, <1>12, <2>1, <3>1, <3>2, <3>3
  <2>. QED
    BY <2>3, <2>4
<1>14. CASE ~(elen >= MaxEncoderLen) /\ Adds(L, i, p, r)
  <2>. DEFINE e == L[p.next]
              space == EncP!TableSpace(e.name, e.value)
              new == DecP!NewEntry(i)
  <2>1. /\ i.op # "SetCap" /\ r.next = p.next + 1 /\ r.cap = p.cap
        /\ e.name \in Names /\ e.value \in Values
        /\ e = [name |-> e.name, value |-> e.value, sum |-> e.sum]
        /\ L[p.next + 1].sum = e.sum + space
        /\ space <= p.cap /\ CutAt(L, p.first, p.next, space, p.cap, r.first)
        /\ Denotes(L, i, p)
    BY <1>14 DEF Adds
  <2>2. new = [name |-> e.name, value |-> e.value]
    <3>. HIDE DEF e
    <3>1. CASE /\ i.op \in {"InsertStatic", "InsertLiteral"}
               /\ i.name = e.name /\ i.value = e.value
      BY <3>1 DEF DecP!NewEntry
    <3>2. CASE /\ i.op \in {"InsertDynamic", "Duplicate"}
               /\ p.next - i.idx - 1 \in p.first .. p.next - 1
               /\ L[p.next - i.idx - 1].name = e.name
               /\ IF i.op = "Duplicate"
                  THEN L[p.next - i.idx - 1].value = e.value
                  ELSE i.value = e.value
      <4>. DEFINE a == p.next - i.idx - 1
      <4>1. a \in DecP!Live(dtab) /\ dtab.ent[a] = L[a]
        <5>1. dtab.ent = [b \in p.first .. p.next - 1 |-> L[b]]
          BY <1>9 DEF Window
        <5>. QED
          BY <1>8, <3>2, <5>1 DEF DecP!Live
      <4>2. DecP!RelToAbs(i.idx) = a
        BY <1>8, <4>1 DEF DecP!RelToAbs
      <4>3. a # -1
        BY <1>5, <1>8, <3>2
      <4>. HIDE DEF a
      <4>4. /\ L[a].name = e.name
            /\ IF i.op = "Duplicate" THEN L[a].value = e.value ELSE i.value = e.value
        BY <3>2 DEF a
      <4>. QED
        BY <3>2, <4>1, <4>2, <4>3, <4>4 DEF DecP!NewEntry
    <3>. QED
      BY <2>1, <3>1, <3>2 DEF Denotes, e
  <2>3. new # DecP!NoEntry /\ new.name = e.name /\ new.value = e.value
    BY <2>2 DEF DecP!NoEntry
  <2>4. DecP!AddEntry(new)
    BY <1>1, <1>14, <2>1 DEF DecP!ReadEncoder
  <2>5. DecP!TableSpace(e.name, e.value) = space /\ space \in Nat
    <3>1. NameLen[e.name] \in Nat /\ ValueLen[e.value] \in Nat
      BY <2>1, Constants DEF EncP!LenAssumption
    <3>. QED
      BY <3>1 DEF EncP!TableSpace, DecP!TableSpace, EncP!ENTRY_OVERHEAD,
                  DecP!ENTRY_OVERHEAD
  <2>. HIDE DEF new, e, space
  <2>6. /\ dtab' = DecP!TableAdd(dtab, e.name, e.value, dcap) /\ dcap' = dcap
        /\ derr' = "none"
    BY <1>1, <1>5, <1>8, <2>1, <2>3, <2>4, <2>5 DEF DecP!AddEntry, DecP!Interpreted
  <2>7. DecP!TableAdd(dtab, e.name, e.value, dcap)
          = EncP!TableAdd(dtab, e.name, e.value, dcap)
    BY DEF DecP!TableAdd, EncP!TableAdd, DecP!TableSpace, EncP!TableSpace,
           DecP!ENTRY_OVERHEAD, EncP!ENTRY_OVERHEAD,
           DecP!EvictToFit, EncP!EvictToFit, DecP!FitPoints, EncP!FitPoints,
           DecP!DropTo, EncP!DropTo, DecP!SizeFrom, EncP!SizeFrom,
           DecP!Min, EncP!Min
  <2>8. EncP!TableAdd(Window(L, p.first, p.next), e.name, e.value, p.cap)
          = Window(L, r.first, p.next + 1)
    <3>1. Agree(L, L, p.next)
      BY DEF Agree
    <3>2. /\ L[p.next] = [name |-> e.name, value |-> e.value, sum |-> L[p.next].sum]
          /\ L[p.next + 1].sum = L[p.next].sum + EncP!TableSpace(e.name, e.value)
          /\ CutAt(L, p.first, p.next, EncP!TableSpace(e.name, e.value), p.cap, r.first)
          /\ EncP!TableSpace(e.name, e.value) \in Nat
      BY <2>1, <2>5 DEF e, space
    <3>3. p.first \in Nat /\ p.next \in Nat /\ p.first <= p.next /\ p.cap \in Nat
      BY <1>5, <1>8
    <3>. HIDE DEF p
    <3>. QED
      BY <1>9, <2>1, <3>1, <3>2, <3>3, WindowAdd
  <2>. QED
    BY <1>8, <1>9, <1>12, <2>1, <2>6, <2>7, <2>8
<1>15. CASE elen >= MaxEncoderLen
  BY <1>1, <1>11, <1>15 DEF DecP!ReadEncoder
<1>. QED
  BY <1>7, <1>13, <1>14, <1>15

\* The size of a window
LEMMA WindowSize ==
  ASSUME NEW L, IsLog(L), NEW f \in Nat, NEW n \in Nat, f <= n
  PROVE  EncP!Size(Window(L, f, n)) = L[n].sum - L[f].sum
<1>1. CASE f < n
  BY <1>1 DEF EncP!Size, EncP!SizeFrom, Window
<1>2. CASE f = n
  BY <1>2 DEF EncP!Size, EncP!SizeFrom, Window, IsLog
<1>. QED
  BY <1>1, <1>2

\* The encoder's table gets shorter.
LEMMA ChainLater ==
  ASSUME NEW L, NEW h, NEW q, NEW f \in Nat, NEW n \in Nat, Chain(L, h, q, f, n),
         NEW e \in Nat, f <= e
  PROVE  Chain(L, h, q, e, n)
<1>1. \A k \in 1 .. Len(q) + 1 : h[k].first <= f /\ h[k].first \in Nat
  BY DEF Chain, Point
<1>2. \A k \in 1 .. Len(q) + 1 : h[k].first <= e
  BY <1>1
<1>. QED
  BY <1>2 DEF Chain

\* The instructions t announce, after those of q, a capacity that the
\* encoder's own table, from e to n, fits.
Announces(L, q, c, t, e, n) ==
  /\ c \in Nat /\ (AskedWithin => c <= DecHardMax) /\ L[n].sum - L[e].sum <= c
  /\ t = q \o <<EncP!SetCap(c)>>

\* All of q leads to n, and the encoder's table now starts at e.
Leads(L, h, q, f, e, n) ==
  /\ IsLog(L) /\ f \in Nat /\ e \in Nat /\ n \in Nat /\ f <= e /\ e <= n
  /\ Chain(L, h, q, f, n) /\ h[Len(q) + 1].next = n

\* The decoder can follow such an announcement.
LEMMA ChainCapacity ==
  ASSUME NEW L, NEW h, NEW q, NEW f, NEW e, NEW n, Leads(L, h, q, f, e, n),
         NEW c, NEW t, Announces(L, q, c, t, e, n)
  PROVE  \E g : /\ Chain(L, g, t, e, n) /\ g[1] = h[1]
                /\ g[Len(t) + 1].next = n /\ g[Len(t) + 1].cap = c
<1>. DEFINE p == h[Len(q) + 1]
            x == p.first
            i == EncP!SetCap(c)
<1>0. /\ c \in Nat /\ (AskedWithin => c <= DecHardMax) /\ L[n].sum - L[e].sum <= c
      /\ t = q \o <<i>>
      /\ IsLog(L) /\ f \in Nat /\ e \in Nat /\ n \in Nat /\ f <= e /\ e <= n
      /\ Chain(L, h, q, f, n) /\ h[Len(q) + 1].next = n
  BY DEF Announces, Leads
<1>1. q \in Seq(EncP!Instruction) /\ Len(q) + 1 \in 1 .. Len(q) + 1
  BY <1>0 DEF Chain
<1>2. p \in Point /\ p.first <= p.next /\ p.first <= f
  BY <1>0, <1>1 DEF Chain
<1>3. x \in Nat /\ x <= n /\ p.next = n /\ x <= f /\ p.first = x
  BY <1>0, <1>2 DEF Point
<1>. HIDE DEF p, x
<1>4. PICK d \in x .. n : CutAt(L, x, n, 0, c, d)
  <2>1. 0 \in Nat /\ 0 <= c
    BY <1>0
  <2>. QED
    BY <1>3, <1>0, <2>1, CutExists
<1>5. d <= e /\ d \in Nat /\ d <= n
  <2>1. e \in x .. n /\ L[n].sum - L[e].sum + 0 <= c
    BY <1>3, <1>0 DEF IsLog
  <2>. QED
    BY <1>0, <1>3, <1>4, <2>1 DEF CutAt
<1>. DEFINE r == [first |-> d, next |-> n, cap |-> c]
<1>6. /\ r \in Point /\ r.first = d /\ r.next = n /\ r.cap = c
      /\ r.first <= r.next /\ r.next <= n /\ r.first <= e
  BY <1>5, <1>0 DEF Point
<1>. HIDE DEF r
<1>7. i \in EncP!Instruction /\ i.op = "SetCap" /\ i.cap = c
  BY <1>0 DEF EncP!Instruction, EncP!SetCap
<1>. HIDE DEF i
<1>8. Follows(L, h, q, i, t, r, e, n)
  <2>1. SetsCapacity(L, i, h[Len(q) + 1], r)
    BY <1>3, <1>4, <1>6, <1>7, <1>0 DEF SetsCapacity, p
  <2>. QED
    BY <1>0, <1>6, <1>7, <2>1 DEF Follows
<1>9. Grows(f, n, e, n) /\ Chain(L, h, q, f, n)
  BY <1>0 DEF Grows
<1>10. /\ Chain(L, Extended(h, q, r), t, e, n) /\ Extended(h, q, r)[1] = h[1]
       /\ Extended(h, q, r)[Len(t) + 1] = r
  BY <1>8, <1>9, ChainPush
<1>. QED
  BY <1>0, <1>6, <1>10

\* nghttp3_qpack_encoder_process_dtable_update
LEMMA BeginShared ==
  ASSUME Sides, NEW s \in Streams, BeginEncode(s), NEW L, Shared(L), Limits
  PROVE  Shared(L)' /\ Limits'
<1>. DEFINE fits == EncP!Size(EncP!ShrunkTable) <= cap /\ pending
            n == tab.next
            m == EncP!ShrunkTable.first
<1>1. EncP!BeginEncode(s) /\ UNCHANGED <<decVars, netVars>>
  BY EncBegin DEF BeginEncode
<1>2. /\ cur = NoSection /\ tab' = EncP!ShrunkTable /\ lastUpd' = lastUpd
      /\ IF fits THEN pending' = FALSE /\ cap' = lastUpd
                 ELSE pending' = pending /\ cap' = cap
      /\ cur' = [stream |-> s, base |-> tab.next, allow |-> EncP!MayBlock(s),
                 cnts |-> {}, lines |-> <<>>,
                 ins |-> IF fits THEN EncP!CapInstructions ELSE <<>>]
  BY <1>1 DEF EncP!BeginEncode
<1>3. /\ tab.first \in Nat /\ n \in Nat /\ tab.first <= n /\ lastUpd \in Nat
      /\ minUpd \in Nat /\ cap \in Nat /\ pending \in BOOLEAN
      /\ estream \in Seq(EncP!Instruction) /\ EncP!PendingCapacity
      /\ dtab.first \in Nat
  BY SidesType
<1>4. m \in tab.first .. n /\ m \in Nat
  <2>1. EncP!TypeOK /\ EncP!ReferencedEntriesLive
    BY DEF Sides, EncoderSide, EncP!IInv
  <2>. QED
    BY <1>3, <2>1, Constants, EncP!ShrinkKeepsPins
<1>5. tab' = Window(L, m, n) /\ tab'.first = m /\ tab'.next = n
  <2>. DEFINE d == EncP!Min(EncP!ShrinkStops)
  <2>1. EncP!ShrunkTable = EncP!DropTo(tab, d)
    BY DEF EncP!ShrunkTable
  <2>2. d = m
    BY <2>1 DEF EncP!DropTo
  <2>3. tab = Window(L, tab.first, n) /\ IsLog(L)
    BY DEF Shared
  <2>. HIDE DEF m, n, d
  <2>4. EncP!DropTo(Window(L, tab.first, n), m) = Window(L, m, n)
    BY <1>3, <1>4, <2>3, WindowDrop
  <2>5. tab' = Window(L, m, n)
    BY <1>2, <2>1, <2>2, <2>3, <2>4
  <2>. QED
    BY <2>5 DEF Window
<1>6. /\ dtab' = dtab /\ dcap' = dcap /\ derr' = derr /\ elen' = elen
      /\ estream' = estream
  BY <1>1 DEF decVars, netVars
<1>7. Limits'
  BY <1>2, <1>6 DEF Limits
<1>8. Queue = estream
  BY <1>2, <1>3 DEF Queue
<1>9. Queue' = estream \o (IF fits THEN EncP!CapInstructions ELSE <<>>)
  <2>1. cur' # NoSection
    <3>1. EncoderSide' /\ Sides'
      BY BeginKeepsSides DEF Sides
    <3>2. cur' \in EncP!Section
      <4>1. EncP!CapInstructions \in Seq(EncP!Instruction)
        <5>1. /\ EncP!SetCap(minUpd) \in EncP!Instruction
              /\ EncP!SetCap(lastUpd) \in EncP!Instruction
          BY <1>3 DEF EncP!SetCap, EncP!Instruction
        <5>. QED
          BY <5>1 DEF EncP!CapInstructions
      <4>2. EncP!MayBlock(s) \in BOOLEAN
        BY DEF EncP!MayBlock, EncP!IsBlocked
      <4>. HIDE DEF fits
      <4>. QED
        BY <1>2, <1>3, <4>1, <4>2 DEF EncP!Section
    <3>. QED
      BY <3>2, Constants DEF EncP!NoSectionAssumption
  <2>2. cur'.ins = IF fits THEN EncP!CapInstructions ELSE <<>>
    BY <1>2
  <2>. QED
    BY <1>6, <2>1, <2>2 DEF Queue
<1>10. IsLog(L) /\ dtab = Window(L, dtab.first, dtab.next) /\ dtab.next <= n
       /\ dtab.first <= m
  BY <1>3, <1>4 DEF Shared
<1>11. ASSUME derr = "none" PROVE \E g : Owed(L, g)'
  <2>1. PICK h : Owed(L, h)
    BY <1>11 DEF Shared
  <2>2. /\ Chain(L, h, estream, tab.first, n)
        /\ h[1] = [first |-> dtab.first, next |-> dtab.next, cap |-> dcap]
        /\ h[Len(estream) + 1].next = n
        /\ ~pending => h[Len(estream) + 1].cap = cap
    BY <1>8, <2>1 DEF Owed
  <2>3. CASE ~fits
    <3>1. Queue' = estream
      BY <1>3, <1>9, <2>3
    <3>2. Chain(L, h, estream, m, n)
      <4>. HIDE DEF m, n
      <4>. QED
        BY <1>3, <1>4, <2>2, ChainLater
    <3>3. pending' = pending /\ cap' = cap
      BY <1>2, <2>3
    <3>. QED
      BY <1>5, <1>6, <2>2, <3>1, <3>2, <3>3 DEF Owed
  <2>4. CASE fits
    <3>1. cap = minUpd /\ minUpd <= lastUpd /\ pending' = FALSE /\ cap' = lastUpd
      BY <1>2, <1>3, <2>4 DEF EncP!PendingCapacity
    <3>2. L[n].sum - L[m].sum <= minUpd
      <4>1. EncP!Size(EncP!ShrunkTable) = L[n].sum - L[m].sum
        <5>. HIDE DEF m, n
        <5>. QED
          BY <1>2, <1>3, <1>4, <1>5, <1>10, WindowSize
      <4>. QED
        BY <2>4, <3>1, <4>1
    <3>3. L[n].sum - L[m].sum <= lastUpd
      <4>1. L[n].sum \in Nat /\ L[m].sum \in Nat
        BY <1>3, <1>4, <1>10 DEF IsLog
      <4>. QED
        BY <1>3, <3>1, <3>2, <4>1
    <3>4. AskedWithin => minUpd <= DecHardMax /\ lastUpd <= DecHardMax
      BY <3>1 DEF Limits
    <3>5. m <= n /\ tab.first <= m
      BY <1>3, <1>4
    <3>. DEFINE a == EncP!SetCap(minUpd)
                b == EncP!SetCap(lastUpd)
                f == tab.first
    <3>6. a \in EncP!Instruction /\ b \in EncP!Instruction
      BY <1>3 DEF EncP!SetCap, EncP!Instruction
    <3>10. /\ IsLog(L) /\ m \in Nat /\ n \in Nat /\ minUpd \in Nat /\ lastUpd \in Nat
           /\ AskedWithin => minUpd <= DecHardMax
           /\ AskedWithin => lastUpd <= DecHardMax
      BY <1>3, <1>4, <1>10, <3>4
    <3>11. /\ IsLog(L) /\ f \in Nat /\ m \in Nat /\ n \in Nat
           /\ minUpd \in Nat /\ lastUpd \in Nat /\ f <= m /\ m <= n
      BY <1>3, <3>5, <3>10
    <3>12. Leads(L, h, estream, f, m, n)
      BY <2>2, <3>11 DEF Leads
    <3>. HIDE DEF m, n, a, b, f
    <3>7. ASSUME NEW q, NEW g, Chain(L, g, q, m, n), g[1] = h[1],
                 g[Len(q) + 1].next = n, g[Len(q) + 1].cap = lastUpd, Queue' = q
          PROVE  Owed(L, g)'
      BY <1>5, <1>6, <2>2, <3>1, <3>7 DEF Owed
    <3>8. CASE ~(minUpd < lastUpd)
      <4>. DEFINE t == estream \o <<b>>
      <4>1. Queue' = t
        BY <1>9, <2>4, <3>6, <3>8 DEF EncP!CapInstructions, b
      <4>3. Announces(L, estream, lastUpd, t, m, n)
        BY <3>3, <3>10 DEF Announces, b
      <4>. HIDE DEF t
      <4>4. \E g : /\ Chain(L, g, t, m, n) /\ g[1] = h[1]
                   /\ g[Len(t) + 1].next = n /\ g[Len(t) + 1].cap = lastUpd
        BY <3>12, <4>3, ChainCapacity
      <4>. QED
        BY <3>7, <4>1, <4>4
    <3>9. CASE minUpd < lastUpd
      <4>. DEFINE u == estream \o <<a>>
                  t == u \o <<b>>
      <4>1. Queue' = t
        BY <1>3, <1>9, <2>4, <3>6, <3>9 DEF EncP!CapInstructions, a, b
      <4>3. Announces(L, estream, minUpd, u, m, n)
        BY <3>2, <3>10 DEF Announces, a
      <4>. HIDE DEF u
      <4>4. Announces(L, u, lastUpd, t, m, n)
        BY <3>3, <3>10 DEF Announces, b
      <4>. HIDE DEF t
      <4>2. \E g : /\ Chain(L, g, u, m, n) /\ g[1] = h[1]
                   /\ g[Len(u) + 1].next = n /\ g[Len(u) + 1].cap = minUpd
        BY <3>12, <4>3, ChainCapacity
      <4>5. PICK x : /\ Chain(L, x, u, m, n) /\ x[1] = h[1]
                     /\ x[Len(u) + 1].next = n
        BY <4>2
      <4>6. Leads(L, x, u, m, m, n)
        BY <3>11, <4>5 DEF Leads
      <4>7. \E g : /\ Chain(L, g, t, m, n) /\ g[1] = x[1]
                   /\ g[Len(t) + 1].next = n /\ g[Len(t) + 1].cap = lastUpd
        BY <4>4, <4>6, ChainCapacity
      <4>. QED
        BY <3>7, <4>1, <4>5, <4>7
    <3>. QED
      BY <3>8, <3>9
  <2>. QED
    BY <2>3, <2>4
<1>12. Shared(L)'
  BY <1>5, <1>6, <1>10, <1>11 DEF Shared
<1>. QED
  BY <1>7, <1>12

\* Writing to the buffer of a section is writing after what it holds.
LEMMA Appended ==
  ASSUME NEW S, NEW p \in Seq(S), NEW r \in Seq(S), NEW i \in S
  PROVE  p \o (r \o <<i>>) = (p \o r) \o <<i>>
<1>. DEFINE a == p \o (r \o <<i>>)
            b == (p \o r) \o <<i>>
<1>1. /\ a \in Seq(S) /\ b \in Seq(S)
      /\ Len(a) = Len(p) + Len(r) + 1 /\ Len(b) = Len(p) + Len(r) + 1
      /\ Len(p) \in Nat /\ Len(r) \in Nat
  OBVIOUS
<1>2. ASSUME NEW k \in 1 .. Len(p) + Len(r) + 1 PROVE a[k] = b[k]
  OBVIOUS
<1>. HIDE DEF a, b
<1>3. a = b
  BY <1>1, <1>2
<1>. QED
  BY <1>3 DEF a, b

\* nghttp3_qpack_encoder_encode_nv: an insertion extends the log.
LEMMA EncodeShared ==
  ASSUME Sides, NEW f \in Fields, EncodeNv(f), NEW L, Shared(L), Limits
  PROVE  (\E K : Shared(K)') /\ Limits'
<1>1. EncP!EncodeNv(f) /\ UNCHANGED <<decVars, netVars>>
  BY EncField DEF EncodeNv
<1>2. /\ cur # NoSection /\ cap' = cap /\ pending' = pending /\ lastUpd' = lastUpd
      /\ EncP!IInv /\ cur \in EncP!Section
  BY <1>1 DEF Sides, EncoderSide, Building, EncP!EncodeNv, EncP!capVars
<1>3. /\ dtab' = dtab /\ dcap' = dcap /\ derr' = derr /\ elen' = elen
      /\ estream' = estream
  BY <1>1 DEF decVars, netVars
<1>4. Limits'
  BY <1>2, <1>3 DEF Limits
<1>5. /\ cur' \in EncP!Section
      /\ \/ tab' = tab /\ cur'.ins = cur.ins
         \/ \E i \in EncP!Instruction : EncP!Inserted(f, i)
  BY <1>1, <1>2, Constants, EncP!EncodeWrites
<1>6. cur' # NoSection
  BY <1>5, Constants DEF EncP!NoSectionAssumption
<1>7. CASE tab' = tab /\ cur'.ins = cur.ins
  <2>1. Queue' = Queue
    BY <1>2, <1>3, <1>6, <1>7 DEF Queue
  <2>2. Shared(L)'
    BY <1>2, <1>3, <1>7, <2>1, QuietShared
  <2>. QED
    BY <1>4, <2>2
<1>8. ASSUME NEW i \in EncP!Instruction, EncP!Inserted(f, i) PROVE \E K : Shared(K)'
  <2>. DEFINE x == tab.first
              n == tab.next
              space == EncP!TableSpace(f.name, f.value)
              new == [name |-> f.name, value |-> f.value, sum |-> L[n].sum]
              log == [a \in Nat |-> IF a < n THEN L[a] ELSE
                                    IF a = n THEN new ELSE [sum |-> L[n].sum + space]]
  <2>. HIDE DEF log
  <2>0. PICK K : K = log
    OBVIOUS
  <2>1. /\ i.op # "SetCap" /\ EncP!Spells(i, f) /\ cur'.ins = cur.ins \o <<i>>
        /\ tab' = EncP!TableAdd(tab, f.name, f.value, cap)
        /\ space <= cap /\ EncP!Size(tab) <= cap
    BY <1>8 DEF EncP!Inserted
  <2>2. /\ x \in Nat /\ n \in Nat /\ x <= n /\ cap \in Nat /\ dtab.first \in Nat
        /\ dtab.next \in Nat /\ Queue \in Seq(EncP!Instruction)
        /\ EncP!IsTable(tab) /\ estream \in Seq(EncP!Instruction)
        /\ cur.ins \in Seq(EncP!Instruction)
    BY <1>2, SidesType
  <2>3. space \in Nat /\ f.name \in Names /\ f.value \in Values
    BY Constants, EncP!SpaceType
  <2>4. ~pending
    <3>0. tab.sum \in Nat /\ (tab.first < tab.next => tab.ent[tab.first].sum \in Nat)
      <4>1. tab.sum \in Nat /\ tab.ent \in [EncP!Live(tab) -> EncP!Entry]
        BY <2>2 DEF EncP!IsTable
      <4>2. tab.first < tab.next => tab.first \in EncP!Live(tab)
        BY <2>2 DEF EncP!Live, EncP!IsTable
      <4>. QED
        BY <4>1, <4>2 DEF EncP!Entry
    <3>1. EncP!Size(tab) \in Int
      BY <2>2, <3>0 DEF EncP!Size, EncP!SizeFrom
    <3>2. pending => EncP!Size(tab) > cap
      BY <1>2 DEF Sides, EncoderSide, Building
    <3>. QED
      BY <2>1, <2>2, <3>1, <3>2
  <2>5. /\ IsLog(L) /\ tab = Window(L, x, n) /\ dtab = Window(L, dtab.first, dtab.next)
        /\ dtab.first <= x /\ dtab.next <= n
        /\ derr = "none" => \E h : Owed(L, h)
    BY DEF Shared
  <2>6. /\ K[n] = new /\ K[n + 1].sum = L[n].sum + space
        /\ \A a \in 0 .. n - 1 : K[a] = L[a]
        /\ \A a \in 0 .. n : K[a].sum = L[a].sum
    BY <2>0, <2>2 DEF log
  <2>7. IsLog(K)
    <3>1. ASSUME NEW a \in Nat PROVE K[a].sum \in Nat
      <4>1. L[a].sum \in Nat /\ L[n].sum \in Nat
        BY <2>2, <2>5 DEF IsLog
      <4>. QED
        BY <2>0, <2>2, <2>3, <4>1 DEF log
    <3>. QED
      BY <3>1 DEF IsLog
  <2>8. Agree(L, K, n)
    BY <2>6 DEF Agree
  <2>. HIDE DEF space, n, x
  <2>9. PICK d \in x .. n : CutAt(L, x, n, space, cap, d)
    BY <2>1, <2>2, <2>3, <2>5, CutExists
  <2>10. tab' = Window(K, d, n + 1)
    <3>. DEFINE nm == f.name
                v == f.value
    <3>1. /\ K[n] = [name |-> nm, value |-> v, sum |-> L[n].sum]
          /\ K[n + 1].sum = L[n].sum + EncP!TableSpace(nm, v)
          /\ CutAt(L, x, n, EncP!TableSpace(nm, v), cap, d)
          /\ EncP!TableSpace(nm, v) \in Nat
      BY <2>3, <2>6, <2>9 DEF space
    <3>2. nm \in Names /\ v \in Values /\ x \in Nat /\ n \in Nat /\ x <= n /\ cap \in Nat
      BY <2>2, <2>3
    <3>3. tab' = EncP!TableAdd(Window(L, x, n), nm, v, cap)
      BY <2>1, <2>5
    <3>. HIDE DEF nm, v
    <3>4. EncP!TableAdd(Window(L, x, n), nm, v, cap) = Window(K, d, n + 1)
      BY <2>5, <2>8, <3>1, <3>2, WindowAdd
    <3>. QED
      BY <3>3, <3>4
  <2>11. tab'.first = d /\ tab'.next = n + 1 /\ d \in Nat /\ x <= d /\ d <= n
    BY <2>2, <2>9, <2>10 DEF Window
  <2>12. dtab = Window(K, dtab.first, dtab.next)
    BY <2>2, <2>5, <2>8, WindowAgree
  <2>13. Queue' = Queue \o <<i>>
    <3>1. Queue = estream \o cur.ins /\ Queue' = estream \o (cur.ins \o <<i>>)
      BY <1>2, <1>3, <1>6, <2>1 DEF Queue
    <3>. DEFINE S == EncP!Instruction
                p == estream
                r == cur.ins
    <3>2. p \in Seq(S) /\ r \in Seq(S) /\ i \in S
      BY <2>2
    <3>. HIDE DEF S, p, r
    <3>3. p \o (r \o <<i>>) = (p \o r) \o <<i>>
      BY <3>2, Appended
    <3>. QED
      BY <3>1, <3>3, Zenon DEF p, r
  <2>14. ASSUME derr = "none" PROVE \E g : Owed(K, g)'
    <3>1. PICK h : Owed(L, h)
      BY <2>5, <2>14
    <3>. DEFINE q == Queue
                t == Queue'
                p == h[Len(q) + 1]
                y == p.first
    <3>2. /\ Chain(L, h, q, x, n) /\ p.next = n /\ p.cap = cap
          /\ h[1] = [first |-> dtab.first, next |-> dtab.next, cap |-> dcap]
      BY <2>4, <3>1 DEF Owed, x, n
    <3>3. /\ p \in Point /\ y \in Nat /\ y <= x
      <4>1. Len(q) + 1 \in 1 .. Len(q) + 1
        BY <2>2
      <4>2. p \in Point /\ p.first <= x
        BY <3>2, <4>1 DEF Chain
      <4>. QED
        BY <4>2 DEF Point
    <3>4. Chain(K, h, q, x, n)
      <4>. HIDE DEF q
      <4>. QED
        BY <2>2, <2>8, <3>2, ChainAgree
    <3>5. t = q \o <<i>>
      BY <2>13
    <3>6. p.first = y
      OBVIOUS
    <3>. HIDE DEF p, y, q, t
    <3>7. PICK c \in y .. n : CutAt(K, y, n, space, cap, c)
      <4>1. y <= n
        BY <2>2, <3>3
      <4>. QED
        BY <2>1, <2>2, <2>3, <2>7, <3>3, <4>1, CutExists
    <3>8. c \in Nat /\ c <= n /\ c <= d
      <4>1. d \in y .. n /\ d \in x .. n /\ n \in 0 .. n /\ d \in 0 .. n
        BY <2>2, <2>11, <3>3
      <4>2. L[n].sum - L[d].sum + space <= cap
        BY <2>9 DEF CutAt
      <4>3. K[n].sum - K[d].sum + space <= cap
        BY <2>6, <4>1, <4>2
      <4>. QED
        BY <2>2, <3>3, <3>7, <4>1, <4>3 DEF CutAt
    <3>. DEFINE r == [first |-> c, next |-> n + 1, cap |-> cap]
    <3>9. /\ r \in Point /\ r.first = c /\ r.next = n + 1 /\ r.cap = cap
          /\ r.first <= r.next /\ r.next <= n + 1 /\ r.first <= d
      BY <2>2, <3>8 DEF Point
    <3>. HIDE DEF r
    <3>10. Denotes(K, i, p)
      <4>1. K[n].name = f.name /\ K[n].value = f.value
        BY <2>6
      <4>2. CASE /\ i.op \in {"InsertStatic", "InsertLiteral"}
                 /\ i.name = f.name /\ i.value = f.value
        BY <3>2, <4>1, <4>2 DEF Denotes
      <4>3. ASSUME i.op \in {"InsertDynamic", "Duplicate"},
                   NEW a \in EncP!Live(tab), i.idx = EncP!RelIndex(a),
                   tab.ent[a].name = f.name,
                   IF i.op = "Duplicate" THEN tab.ent[a].value = f.value
                                         ELSE i.value = f.value
            PROVE  Denotes(K, i, p)
        <5>1. a \in x .. n - 1 /\ a \in y .. n - 1 /\ a \in 0 .. n - 1 /\ a \in Nat
          BY <2>2, <3>3 DEF EncP!Live, x, n
        <5>2. p.next - i.idx - 1 = a
          BY <2>2, <3>2, <4>3, <5>1 DEF EncP!RelIndex, n
        <5>3. tab.ent[a] = L[a] /\ K[a] = L[a]
          <6>1. tab.ent = [b \in x .. n - 1 |-> L[b]]
            BY <2>5 DEF Window
          <6>. QED
            BY <2>6, <5>1, <6>1
        <5>4. p.next - i.idx - 1 \in p.first .. p.next - 1
          BY <3>2, <3>6, <5>1, <5>2
        <5>5. /\ K[p.next - i.idx - 1].name = K[p.next].name
              /\ IF i.op = "Duplicate"
                 THEN K[p.next - i.idx - 1].value = K[p.next].value
                 ELSE i.value = K[p.next].value
          BY <3>2, <4>1, <4>3, <5>2, <5>3
        <5>. QED
          BY <4>3, <5>4, <5>5 DEF Denotes
      <4>. QED
        BY <2>1, <4>2, <4>3 DEF EncP!Spells
    <3>11. Adds(K, i, p, r)
      <4>1. /\ K[p.next] = new /\ K[p.next + 1].sum = L[n].sum + space
            /\ CutAt(K, p.first, p.next, space, p.cap, r.first)
            /\ r.next = p.next + 1 /\ r.cap = p.cap
        BY <2>6, <3>2, <3>6, <3>7, <3>9
      <4>2. new.name = f.name /\ new.value = f.value /\ new.sum = L[n].sum
        OBVIOUS
      <4>3. new = [name |-> new.name, value |-> new.value, sum |-> new.sum]
        OBVIOUS
      <4>. HIDE DEF new
      <4>. QED
        BY <2>1, <2>3, <3>2, <3>10, <4>1, <4>2, <4>3 DEF Adds, space
    <3>. DEFINE m == n + 1
    <3>12. Follows(K, h, q, i, t, r, d, m)
      BY <3>5, <3>9, <3>11 DEF Follows, p
    <3>13. Grows(x, n, d, m) /\ m = n + 1
      BY <2>2, <2>11 DEF Grows
    <3>. HIDE DEF m
    <3>14. /\ Chain(K, Extended(h, q, r), t, d, m) /\ Extended(h, q, r)[1] = h[1]
           /\ Extended(h, q, r)[Len(t) + 1] = r
      BY <3>4, <3>12, <3>13, ChainPush
    <3>15. PICK g : Chain(K, g, t, d, m) /\ g[1] = h[1] /\ g[Len(t) + 1] = r
      BY <3>14
    <3>16. Owed(K, g)'
      BY <1>2, <1>3, <2>11, <3>2, <3>9, <3>13, <3>15 DEF Owed, t
    <3>. QED
      BY <3>16
  <2>15. dtab'.first <= tab'.first /\ dtab'.next <= tab'.next
    BY <1>3, <2>2, <2>5, <2>11
  <2>16. Shared(K)'
    BY <1>3, <2>7, <2>10, <2>11, <2>12, <2>14, <2>15 DEF Shared
  <2>. QED
    BY <2>16
<1>. QED
  BY <1>4, <1>5, <1>7, <1>8

\* nghttp3_qpack_encoder_encode: what the call wrote leaves at its end.
LEMMA FinishShared ==
  ASSUME Sides, FinishEncode, NEW L, Shared(L), Limits
  PROVE  Shared(L)' /\ Limits'
<1>1. EncP!FinishEncode /\ estream' = estream \o cur.ins /\ UNCHANGED decVars
  BY EncFinish DEF FinishEncode
<1>2. /\ cur # NoSection /\ cur' = NoSection /\ tab' = tab /\ cap' = cap
      /\ pending' = pending /\ lastUpd' = lastUpd
  BY <1>1 DEF EncP!FinishEncode, EncP!capVars
<1>3. dtab' = dtab /\ dcap' = dcap /\ derr' = derr /\ elen' = elen
  BY <1>1 DEF decVars
<1>4. Queue = estream \o cur.ins /\ Queue' = (estream \o cur.ins) \o <<>>
  BY <1>1, <1>2 DEF Queue
<1>5. Queue' = Queue
  <2>1. Queue \in Seq(EncP!Instruction)
    BY SidesType
  <2>. QED
    BY <1>4, <2>1
<1>6. Shared(L)'
  BY <1>2, <1>3, <1>5, QuietShared
<1>. QED
  BY <1>2, <1>3, <1>6 DEF Limits

\* The limits change, the table does not.
LEMMA LimitsShared ==
  ASSUME NEW L, Shared(L), tab' = tab, cur = NoSection, cur' = cur,
         UNCHANGED <<decVars, netVars>>, pending' = TRUE
  PROVE  Shared(L)'
<1>1. dtab' = dtab /\ dcap' = dcap /\ derr' = derr /\ Queue' = Queue
  BY DEF decVars, netVars, Queue
<1>. QED
  BY <1>1, QuietShared

\* nghttp3_qpack_encoder_set_max_dtable_capacity
LEMMA SetCapacityShared ==
  ASSUME Sides, NEW c \in Capacities, SetCapacity(c), NEW L, Shared(L), Limits
  PROVE  Shared(L)' /\ Limits'
<1>. DEFINE m == EncP!Truncated(c)
<1>1. EncP!SetMaxDtableCapacity(c) /\ UNCHANGED <<decVars, netVars>>
  BY EncSetCapacity DEF SetCapacity
<1>2. /\ cur = NoSection /\ cur' = cur /\ tab' = tab /\ pending' = TRUE
      /\ lastUpd' = m /\ (cap' = m \/ cap' = cap)
  BY <1>1 DEF EncP!SetMaxDtableCapacity
<1>3. m \in Nat /\ m <= c
  <2>1. c \in Nat /\ HardMax \in Nat
    BY Constants
  <2>. QED
    BY <2>1, Constants, EncP!MinOfPair DEF EncP!Truncated
<1>4. derr' = derr /\ elen' = elen
  BY <1>1 DEF decVars
<1>5. Limits'
  <2>1. c \in Nat /\ DecHardMax \in Nat /\ (AskedWithin => c <= DecHardMax)
    BY Constants DEF AskedWithin
  <2>. HIDE DEF m
  <2>2. AskedWithin => m <= DecHardMax
    BY <1>3, <2>1
  <2>. QED
    BY <1>2, <1>4, <2>2 DEF Limits
<1>. QED
  BY <1>1, <1>2, <1>5, LimitsShared

\* nghttp3_conn_on_settings_entry_received
LEMMA SettingsShared ==
  ASSUME Sides, ReceiveSettings, NEW L, Shared(L), Limits
  PROVE  Shared(L)' /\ Limits'
<1>. DEFINE m == Min({DecHardMax, HardMax})
<1>1. m <= DecHardMax
  BY Constants, EncP!MinOfPair DEF Min, EncP!Min
<1>. HIDE DEF m
<1>2. /\ tab' = tab /\ cur' = cur /\ cur = NoSection
      /\ \/ cap' = cap /\ pending' = pending /\ lastUpd' = lastUpd
         \/ pending' = TRUE /\ cap' = m /\ lastUpd' = m
      /\ UNCHANGED <<decVars, netVars>>
  BY DEF ReceiveSettings, m
<1>3. /\ dtab' = dtab /\ dcap' = dcap /\ derr' = derr /\ elen' = elen
      /\ Queue' = Queue
  BY <1>2 DEF decVars, netVars, Queue
<1>4. Limits'
  BY <1>1, <1>2, <1>3 DEF Limits
<1>5. CASE pending' = TRUE
  BY <1>2, <1>4, <1>5, LimitsShared
<1>6. CASE cap' = cap /\ pending' = pending
  BY <1>2, <1>3, <1>4, <1>6, QuietShared
<1>. QED
  BY <1>2, <1>5, <1>6

\* The decoder's tables and the encoder's side rest.
LEMMA RestShared ==
  ASSUME UNCHANGED <<encVars, estream, dtab, dcap>>,
         derr = "none", derr' # "ENCODER_STREAM", NEW L, Shared(L), Limits
  PROVE  Shared(L)' /\ Limits'
<1>1. /\ tab' = tab /\ cap' = cap /\ pending' = pending /\ lastUpd' = lastUpd
      /\ Queue' = Queue
  BY DEF encVars, Queue
<1>2. Shared(L)'
  BY <1>1, QuietShared
<1>. QED
  BY <1>1, <1>2 DEF Limits

\* Acknowledgments change neither table.
LEMMA AcknowledgmentShared ==
  ASSUME Sides, ReadDecoderStream, NEW L, Shared(L), Limits
  PROVE  Shared(L)' /\ Limits'
<1>1. /\ tab' = tab /\ cap' = cap /\ pending' = pending /\ lastUpd' = lastUpd
      /\ cur' = cur /\ UNCHANGED <<decVars, estream>>
  BY AcknowledgmentKeepsSides DEF EncP!capVars, ReadDecoderStream
<1>2. /\ dtab' = dtab /\ dcap' = dcap /\ derr' = derr /\ elen' = elen
      /\ Queue' = Queue
  BY <1>1 DEF decVars, Queue
<1>3. Shared(L)'
  BY <1>1, <1>2, QuietShared
<1>. QED
  BY <1>1, <1>2, <1>3 DEF Limits

-----------------------------------------------------------------------------
(* The connection *)

ConnInv == Sides /\ (\E L : Shared(L)) /\ Limits

\* One step of the connection
LEMMA NextKeepsConnInv ==
  ASSUME ConnInv, [Next]_vars
  PROVE  ConnInv'
<1>1. Sides /\ Limits
  BY DEF ConnInv
<1>2. PICK L : Shared(L)
  BY DEF ConnInv
<1>3. CASE \E c \in Capacities : SetCapacity(c)
  BY <1>1, <1>2, <1>3, SetCapacityKeepsSides, SetCapacityShared DEF ConnInv
<1>4. CASE ReceiveSettings
  BY <1>1, <1>2, <1>4, SettingsKeepSides, SettingsShared DEF ConnInv
<1>5. CASE \E s \in Streams : BeginEncode(s)
  BY <1>1, <1>2, <1>5, BeginKeepsSides, BeginShared DEF ConnInv
<1>6. CASE \E f \in Fields : EncodeNv(f)
  BY <1>1, <1>2, <1>6, EncodeKeepsSides, EncodeShared DEF ConnInv
<1>7. CASE FinishEncode
  BY <1>1, <1>2, <1>7, FinishKeepsSides, FinishShared DEF ConnInv
<1>8. CASE ReadEncoderStream
  BY <1>1, <1>2, <1>8, InstructionKeepsSides, InstructionShared DEF ConnInv
<1>9. CASE ReadDecoderStream
  BY <1>1, <1>2, <1>9, AcknowledgmentKeepsSides, AcknowledgmentShared DEF ConnInv
<1>10. CASE Resume
  BY <1>1, <1>2, <1>10, ResumeKeepsSides, RestShared DEF ConnInv
<1>11. CASE \E s \in Streams : ReadRequestStream(s)
  BY <1>1, <1>2, <1>11, TokenKeepsSides, RestShared DEF ConnInv
<1>12. CASE WriteDecoderStream
  <2>1. derr = "none"
    BY <1>12, DecWrite DEF WriteDecoderStream, DecP!WriteDecoder
  <2>2. /\ Sides' /\ UNCHANGED <<encVars, estream, dtab, dcap>>
        /\ derr' # "ENCODER_STREAM"
    BY <1>1, <1>12, <2>1, WriteKeepsSides
  <2>. QED
    BY <1>1, <1>2, <2>1, <2>2, RestShared DEF ConnInv
<1>13. CASE \E s \in MayClose : CloseStream(s)
  <2>1. PICK s \in MayClose : CloseStream(s)
    BY <1>13
  <2>2. s \in Streams
    BY <2>1, QpackAssumption
  <2>. QED
    BY <1>1, <1>2, <2>1, <2>2, CloseKeepsSides, RestShared DEF ConnInv
<1>14. CASE UNCHANGED vars
  <2>1. UNCHANGED <<encVars, decVars, netVars>>
    BY <1>14 DEF vars
  <2>2. Sides'
    BY <1>1, <2>1, EncoderRests, DecoderRests, NetworkRests DEF Sides, netVars
  <2>3. /\ tab' = tab /\ dtab' = dtab /\ dcap' = dcap /\ derr' = derr /\ elen' = elen
        /\ cap' = cap /\ pending' = pending /\ lastUpd' = lastUpd /\ Queue' = Queue
    BY <2>1 DEF encVars, decVars, netVars, Queue
  <2>4. Shared(L)'
    BY <1>2, <2>3, QuietShared
  <2>5. Limits'
    BY <1>1, <2>3 DEF Limits
  <2>. QED
    BY <2>2, <2>4, <2>5 DEF ConnInv
<1>. QED
  BY <1>3, <1>4, <1>5, <1>6, <1>7, <1>8, <1>9, <1>10, <1>11, <1>12, <1>13, <1>14
  DEF Next, Encode, Deliver

\* Whatever the network does, each side keeps its own invariant, and both
\* tables are windows on one log of insertions.
THEOREM QpackConnection == Spec => []ConnInv
<1>1. Init => ConnInv
  BY InitSides, InitShared DEF ConnInv
<1>2. ConnInv /\ [Next]_vars => ConnInv'
  BY NextKeepsConnInv
<1>. QED
  BY <1>1, <1>2, PTL DEF Spec

\* Both tables hold the same entry under an absolute index both still have
\* (nghttp3_qpack_encoder_dtable_*_add, nghttp3_qpack_decoder_dtable_*_add).
THEOREM QpackTablesAgree == Spec => []TablesAgree
<1>1. ConnInv => TablesAgree
  <2>. SUFFICES ASSUME ConnInv, NEW a \in Enc!Live(tab) \cap Enc!Live(dtab)
                PROVE  tab.ent[a] = dtab.ent[a]
    BY DEF TablesAgree
  <2>1. PICK L : Shared(L)
    BY DEF ConnInv
  <2>2. /\ tab.ent = [b \in tab.first .. tab.next - 1 |-> L[b]]
        /\ dtab.ent = [b \in dtab.first .. dtab.next - 1 |-> L[b]]
    BY <2>1 DEF Shared, Window
  <2>. QED
    BY <2>2 DEF Enc!Live
<1>. QED
  BY <1>1, QpackConnection, PTL

\* What the encoder keeps for an unacknowledged section the decoder keeps too.
THEOREM QpackDecoderKeepsReferenced == Spec => []DecoderKeepsReferenced
<1>1. ConnInv => DecoderKeepsReferenced
  <2>. SUFFICES ASSUME ConnInv, NEW s \in Streams, NEW i \in DOMAIN refs[s]
                PROVE  dtab.first < refs[s][i].min_cnt
    BY DEF DecoderKeepsReferenced
  <2>1. /\ dtab.first <= tab.first /\ dtab.first \in Nat /\ tab.first \in Nat
        /\ EncP!TypeOK /\ EncP!ReferencedEntriesLive
    BY SidesType DEF ConnInv, Shared, Sides, EncoderSide, EncP!IInv
  <2>2. tab.first < refs[s][i].min_cnt /\ refs[s][i].min_cnt \in Nat
    <3>1. refs[s] \in Seq(EncP!Ref)
      BY <2>1 DEF EncP!TypeOK
    <3>2. refs[s][i] \in EncP!Ref
      BY <3>1
    <3>3. refs[s][i].min_cnt \in Nat
      BY <3>2 DEF EncP!Ref
    <3>. QED
      BY <2>1, <3>3 DEF EncP!ReferencedEntriesLive
  <2>. QED
    BY <2>1, <2>2
<1>. QED
  BY <1>1, QpackConnection, PTL

\* The decoder has inserted nothing the encoder did not, and announces no
\* insertion it has not made.
NeverAhead == written <= dtab.next /\ dtab.next <= tab.next

\* nghttp3_qpack_decoder_write_decoder announces only insertions that
\* nghttp3_qpack_decoder_read_encoder made, of those the encoder wrote.
THEOREM QpackDecoderNeverAhead == Spec => []NeverAhead
<1>1. ConnInv => NeverAhead
  BY DEF ConnInv, Shared, NeverAhead, Sides, DecoderSide, DecP!IInv,
         DecP!ReadingImpliesReceived
<1>. QED
  BY <1>1, QpackConnection, PTL

\* While the application asks for no more than the decoder's SETTINGS allow,
\* the decoder refuses no instruction of this encoder: the encoder stream
\* fails only by the limit on what may arrive between two sections.
InstructionsAccepted == derr = "ENCODER_STREAM" => elen >= MaxEncoderLen

\* nghttp3_qpack_decoder_read_encoder accepts what
\* nghttp3_qpack_encoder_encode writes.
THEOREM QpackInstructionsAccepted ==
  ASSUME AskedWithin
  PROVE  Spec => []InstructionsAccepted
<1>1. ConnInv => InstructionsAccepted
  BY DEF ConnInv, Limits, InstructionsAccepted
<1>. QED
  BY <1>1, QpackConnection, PTL

-----------------------------------------------------------------------------
(***************************************************************************)
(* Sections and their acknowledgments.  What is written to a stream leads  *)
(* its reader from one state to another, an item at a time.  A set S of    *)
(* triples tells what an item does: <<p, i, t>> is in S if i takes the     *)
(* reader from p to t.                                                     *)
(***************************************************************************)

Brings(S, p, q, r) ==
  \E h : /\ h[1] = p /\ h[Len(q) + 1] = r
         /\ \A k \in 1 .. Len(q) : <<h[k], q[k], h[k + 1]>> \in S

\* Nothing leads nowhere else.
LEMMA BringsNowhere ==
  \A S, p, r : Brings(S, p, <<>>, r) <=> p = r
<1>. SUFFICES ASSUME NEW S, NEW p, NEW r PROVE Brings(S, p, <<>>, r) <=> p = r
  OBVIOUS
<1>1. Brings(S, p, <<>>, r) => p = r
  BY DEF Brings
<1>2. ASSUME p = r PROVE Brings(S, p, <<>>, r)
  <2>. DEFINE h == [k \in {1} |-> p]
  <2>1. h[1] = p /\ h[Len(<<>>) + 1] = r
    BY <1>2
  <2>2. \A k \in 1 .. Len(<<>>) : <<h[k], <<>>[k], h[k + 1]>> \in S
    OBVIOUS
  <2>. HIDE DEF h
  <2>. QED
    BY <2>1, <2>2 DEF Brings
<1>. QED
  BY <1>1, <1>2

\* The first item is read.
LEMMA BringsTail ==
  ASSUME NEW I, NEW q \in Seq(I), q # <<>>, NEW S, NEW p, NEW r, Brings(S, p, q, r)
  PROVE  \E t : <<p, Head(q), t>> \in S /\ Brings(S, t, Tail(q), r)
<1>1. PICK h : /\ h[1] = p /\ h[Len(q) + 1] = r
               /\ \A k \in 1 .. Len(q) : <<h[k], q[k], h[k + 1]>> \in S
  BY DEF Brings
<1>2. /\ Len(q) \in Nat /\ Len(q) >= 1 /\ Head(q) = q[1] /\ Len(Tail(q)) = Len(q) - 1
      /\ \A k \in 1 .. Len(q) - 1 : Tail(q)[k] = q[k + 1]
  OBVIOUS
<1>. DEFINE g == [k \in 1 .. Len(q) |-> h[k + 1]]
<1>3. g[1] = h[2] /\ g[Len(Tail(q)) + 1] = r
  BY <1>1, <1>2
<1>4. ASSUME NEW k \in 1 .. Len(Tail(q)) PROVE <<g[k], Tail(q)[k], g[k + 1]>> \in S
  <2>1. k \in 1 .. Len(q) - 1 /\ k + 1 \in 1 .. Len(q) /\ k \in 1 .. Len(q)
    BY <1>2
  <2>2. g[k] = h[k + 1] /\ g[k + 1] = h[k + 1 + 1] /\ Tail(q)[k] = q[k + 1]
    BY <1>2, <2>1
  <2>3. <<h[k + 1], q[k + 1], h[k + 1 + 1]>> \in S
    BY <1>1, <2>1
  <2>. QED
    BY <2>2, <2>3
<1>. HIDE DEF g
<1>5. Brings(S, h[2], Tail(q), r)
  BY <1>3, <1>4 DEF Brings
<1>6. <<p, Head(q), h[2]>> \in S
  <2>1. 1 \in 1 .. Len(q)
    BY <1>2
  <2>2. <<h[1], q[1], h[1 + 1]>> \in S
    BY <1>1, <2>1
  <2>. QED
    BY <1>1, <1>2, <2>2
<1>. QED
  BY <1>5, <1>6

\* What is written next leads on.
LEMMA BringsOn ==
  ASSUME NEW I, NEW q \in Seq(I), NEW w \in Seq(I), NEW S, NEW p, NEW r, NEW t,
         Brings(S, p, q, r), Brings(S, r, w, t)
  PROVE  Brings(S, p, q \o w, t)
<1>. DEFINE l == Len(q)
            n == Len(w)
            x == q \o w
<1>1. PICK h : /\ h[1] = p /\ h[l + 1] = r
               /\ \A k \in 1 .. l : <<h[k], q[k], h[k + 1]>> \in S
  BY DEF Brings
<1>2. PICK g : /\ g[1] = r /\ g[n + 1] = t
               /\ \A k \in 1 .. n : <<g[k], w[k], g[k + 1]>> \in S
  BY DEF Brings
<1>3. /\ l \in Nat /\ n \in Nat /\ Len(x) = l + n
      /\ \A k \in 1 .. l : x[k] = q[k]
      /\ \A k \in 1 .. n : x[l + k] = w[k]
  <2>1. q \in Seq(I) /\ w \in Seq(I)
    OBVIOUS
  <2>2. l \in Nat /\ n \in Nat
    BY <2>1
  <2>3. Len(q \o w) = Len(q) + Len(w)
    BY <2>1
  <2>4. \A k \in 1 .. Len(q) : (q \o w)[k] = q[k]
    BY <2>1
  <2>5. \A k \in 1 .. Len(w) : (q \o w)[Len(q) + k] = w[k]
    BY <2>1
  <2>. QED
    BY <2>2, <2>3, <2>4, <2>5
<1>. DEFINE f == [k \in 1 .. l + n + 1 |-> IF k <= l THEN h[k] ELSE g[k - l]]
<1>. HIDE DEF l, n, x
<1>4. /\ \A k \in 1 .. l : f[k] = h[k]
      /\ \A k \in 1 .. n + 1 : f[l + k] = g[k]
  BY <1>3
<1>5. f[l + 1] = r
  BY <1>2, <1>3, <1>4
<1>6. f[1] = p
  <2>1. CASE l = 0
    BY <1>1, <1>3, <1>5, <2>1
  <2>2. CASE l # 0
    BY <1>1, <1>3, <1>4, <2>2
  <2>. QED
    BY <2>1, <2>2
<1>7. f[Len(x) + 1] = t
  <2>1. n + 1 \in 1 .. n + 1 /\ Len(x) + 1 = l + (n + 1)
    BY <1>3
  <2>2. f[l + (n + 1)] = g[n + 1]
    BY <1>4, <2>1
  <2>. HIDE DEF f
  <2>. QED
    BY <1>2, <2>1, <2>2
<1>. HIDE DEF f
<1>8. ASSUME NEW k \in 1 .. Len(x) PROVE <<f[k], x[k], f[k + 1]>> \in S
  <2>1. CASE k \in 1 .. l
    <3>1. f[k + 1] = h[k + 1]
      <4>1. CASE k = l
        BY <1>1, <1>5, <4>1
      <4>2. CASE k # l
        <5>1. k + 1 \in 1 .. l
          BY <1>3, <2>1, <4>2
        <5>. QED
          BY <1>4, <5>1
      <4>. QED
        BY <4>1, <4>2
    <3>. QED
      BY <1>1, <1>3, <1>4, <2>1, <3>1
  <2>2. CASE k \notin 1 .. l
    <3>. DEFINE j == k - l
    <3>1. j \in 1 .. n /\ j \in 1 .. n + 1 /\ j + 1 \in 1 .. n + 1 /\ k = l + j
          /\ k + 1 = l + (j + 1)
      BY <1>3, <2>2
    <3>. HIDE DEF j
    <3>2. f[k] = g[j] /\ f[k + 1] = g[j + 1] /\ x[k] = w[j]
      BY <1>3, <1>4, <3>1
    <3>. QED
      BY <1>2, <3>1, <3>2
  <2>. QED
    BY <2>1, <2>2
<1>. QED
  BY <1>6, <1>7, <1>8 DEF Brings, l, n, x

\* One more item
LEMMA BringsOne ==
  \A S, p, i, t : <<p, i, t>> \in S => Brings(S, p, <<i>>, t)
<1>. SUFFICES ASSUME NEW S, NEW p, NEW i, NEW t, <<p, i, t>> \in S
              PROVE  Brings(S, p, <<i>>, t)
  OBVIOUS
<1>. DEFINE h == [k \in {1, 2} |-> IF k = 1 THEN p ELSE t]
<1>1. h[1] = p /\ h[2] = t /\ Len(<<i>>) = 1 /\ <<i>>[1] = i
  OBVIOUS
<1>. HIDE DEF h
<1>2. \A k \in 1 .. 1 : <<h[k], <<i>>[k], h[k + 1]>> \in S
  BY <1>1
<1>. QED
  BY <1>1, <1>2 DEF Brings

\* More may be allowed.
LEMMA BringsStill ==
  ASSUME NEW S, NEW T, S \subseteq T, NEW p, NEW q, NEW r, Brings(S, p, q, r)
  PROVE  Brings(T, p, q, r)
  BY DEF Brings
-----------------------------------------------------------------------------
(* The decoder stream *)

\* On every stream the sections that refer to the table are numbered: of the
\* j-th one on stream s the encoder keeps the counts R[s][j] until it is
\* acknowledged or cancelled (struct nghttp3_qpack_header_block_ref), and
\* N[s] were encoded so far.
Numbered(R, N) ==
  /\ R \in [Streams -> [Nat -> EncP!Ref]] /\ N \in [Streams -> Nat]
  /\ \A s \in Streams :
       /\ Len(refs[s]) <= N[s]
       /\ \A i \in 1 .. Len(refs[s]) : refs[s][i] = R[s][N[s] - Len(refs[s]) + i]

\* What was settled between the two sides: how many of these sections are
\* acknowledged, how many insertions, and which streams are cancelled.
Settlement == [acked : [Streams -> Nat], cnt : Nat, gone : SUBSET Streams]

Within(p, z) ==
  /\ p.cnt <= z.cnt /\ p.gone \subseteq z.gone
  /\ \A s \in Streams : p.acked[s] <= z.acked[s]

\* What an instruction of the decoder stream settles.  A section is
\* acknowledged when its insertions are, and not after a cancellation.
Settles(R, p, i, t) ==
  \/ /\ i.op = "Ack" /\ i.stream \in Streams \ p.gone
     /\ t.acked = [p.acked EXCEPT ![i.stream] = p.acked[i.stream] + 1]
     /\ R[i.stream][p.acked[i.stream] + 1].max_cnt <= t.cnt
  \/ /\ i.op = "Cancel" /\ t.acked = p.acked /\ i.stream \in t.gone
  \/ /\ i.op = "Inc" /\ t.acked = p.acked
     /\ i.n \in Nat \ {0} /\ p.cnt + i.n <= t.cnt

\* The moves that stay within what was settled in the end.
Moves(R, z) ==
  {m \in Settlement \X (Acks \cup Incs) \X Settlement :
     Within(m[1], m[3]) /\ Within(m[3], z) /\ Settles(R, m[1], m[2], m[3])}

\* What the encoder knows is no more than p.  It may be less: over the limit
\* on decoder stream data it leaves instructions unread.
Knows(R, N, p) ==
  /\ krcnt <= p.cnt
  /\ \A s \in Streams \ p.gone : N[s] - Len(refs[s]) <= p.acked[s]
  /\ \A s \in Streams : \A j \in 1 .. p.acked[s] : R[s][j].max_cnt <= p.cnt

\* The queue q on the decoder stream leads from there to z.
Settling(R, N, z, q) ==
  /\ z \in Settlement /\ \A s \in Streams : z.acked[s] <= N[s]
  /\ q \in Seq(Acks \cup Incs)
  /\ \E p \in Settlement : /\ Brings(Moves(R, z), p, q, z) /\ Within(p, z)
                           /\ Knows(R, N, p)

\* A move, by its parts
LEMMA MoveParts ==
  \A R, z, p, i, t :
    <<p, i, t>> \in Moves(R, z) <=>
      /\ p \in Settlement /\ i \in Acks \cup Incs /\ t \in Settlement
      /\ Within(p, t) /\ Within(t, z) /\ Settles(R, p, i, t)
  BY DEF Moves

\* Being within is transitive.
LEMMA WithinTrans ==
  ASSUME NEW p \in Settlement, NEW t \in Settlement, NEW z \in Settlement,
         Within(p, t), Within(t, z)
  PROVE  Within(p, z)
<1>1. p.cnt \in Nat /\ t.cnt \in Nat /\ z.cnt \in Nat
  BY DEF Settlement
<1>2. \A s \in Streams : p.acked[s] \in Nat /\ t.acked[s] \in Nat /\ z.acked[s] \in Nat
  BY DEF Settlement
<1>. QED
  BY <1>1, <1>2 DEF Within

\* More is settled: the same moves are possible.
LEMMA MovesStay ==
  ASSUME NEW R, NEW z \in Settlement, NEW y \in Settlement, Within(z, y)
  PROVE  Moves(R, z) \subseteq Moves(R, y)
<1>1. \A t \in Settlement : Within(t, z) => Within(t, y)
  BY WithinTrans
<1>. QED
  BY <1>1 DEF Moves

\* The decoder writes an instruction.
LEMMA SettlingWrite ==
  ASSUME NEW R, NEW N, NEW z, NEW q, Settling(R, N, z, q), UNCHANGED <<krcnt, refs>>,
         NEW y, NEW i, <<z, i, y>> \in Moves(R, y), \A s \in Streams : y.acked[s] <= N[s]
  PROVE  Settling(R, N, y, q \o <<i>>)'
<1>1. /\ z \in Settlement /\ i \in Acks \cup Incs /\ y \in Settlement
      /\ Within(z, y) /\ q \in Seq(Acks \cup Incs)
  BY MoveParts DEF Settling
<1>2. PICK p \in Settlement : /\ Brings(Moves(R, z), p, q, z) /\ Within(p, z)
                              /\ Knows(R, N, p)
  BY DEF Settling
<1>3. Brings(Moves(R, y), p, q, z)
  BY <1>1, <1>2, MovesStay, BringsStill
<1>4. Brings(Moves(R, y), z, <<i>>, y) /\ <<i>> \in Seq(Acks \cup Incs)
  BY <1>1, BringsOne
<1>5. Brings(Moves(R, y), p, q \o <<i>>, y)
  BY <1>1, <1>3, <1>4, BringsOn
<1>6. Within(p, y) /\ q \o <<i>> \in Seq(Acks \cup Incs)
  BY <1>1, <1>2, WithinTrans
<1>7. Knows(R, N, p)'
  BY <1>2 DEF Knows
<1>. QED
  BY <1>1, <1>2, <1>5, <1>6, <1>7 DEF Settling

\* The sections of a stream are a window on its numbers.
LEMMA NumberedTypes ==
  ASSUME NEW R, NEW N, Numbered(R, N), EncP!TypeOK
  PROVE  /\ krcnt \in Nat
         /\ \A s \in Streams :
              /\ N[s] \in Nat /\ refs[s] \in Seq(EncP!Ref) /\ Len(refs[s]) \in Nat
              /\ Len(refs[s]) <= N[s]
              /\ \A j \in Nat : R[s][j].max_cnt \in Nat /\ R[s][j].min_cnt \in Nat
<1>1. krcnt \in Nat /\ \A s \in Streams : refs[s] \in Seq(EncP!Ref)
  BY DEF EncP!TypeOK
<1>2. ASSUME NEW s \in Streams, NEW j \in Nat
      PROVE  R[s][j].max_cnt \in Nat /\ R[s][j].min_cnt \in Nat
  BY DEF Numbered, EncP!Ref
<1>. QED
  BY <1>1, <1>2 DEF Numbered

\* nghttp3_qpack_encoder_read_decoder: the encoder accepts the next
\* instruction and comes to know what it settles.
LEMMA SettlingAck ==
  ASSUME NEW R, NEW N, NEW z, NEW q, Settling(R, N, z, q), Numbered(R, N), EncP!TypeOK,
         q # <<>>, Head(q).op = "Ack", ebad = FALSE, EncP!ReadSectionAck(Head(q).stream)
  PROVE  Settling(R, N, z, Tail(q))' /\ ebad' = FALSE /\ Numbered(R, N)'
<1>. DEFINE s == Head(q).stream
            u == N[s] - Len(refs[s])
<1>1. /\ z \in Settlement /\ q \in Seq(Acks \cup Incs)
      /\ \A x \in Streams : z.acked[x] <= N[x]
  BY DEF Settling
<1>2. PICK p \in Settlement : /\ Brings(Moves(R, z), p, q, z) /\ Within(p, z)
                              /\ Knows(R, N, p)
  BY DEF Settling
<1>3. PICK t : <<p, Head(q), t>> \in Moves(R, z) /\ Brings(Moves(R, z), t, Tail(q), z)
  BY <1>1, <1>2, BringsTail
<1>4. /\ t \in Settlement /\ Within(p, t) /\ Within(t, z)
      /\ Settles(R, p, Head(q), t)
  BY <1>3, MoveParts
<1>5. /\ s \in Streams /\ s \notin p.gone
      /\ t.acked = [p.acked EXCEPT ![s] = p.acked[s] + 1]
      /\ R[s][p.acked[s] + 1].max_cnt <= t.cnt
  BY <1>4 DEF Settles
<1>6. /\ \A x \in Streams : p.acked[x] \in Nat /\ z.acked[x] \in Nat /\ t.acked[x] \in Nat
      /\ p.cnt \in Nat /\ t.cnt \in Nat /\ p.gone \in SUBSET Streams
      /\ p.cnt <= t.cnt /\ p.gone \subseteq t.gone
      /\ t.acked[s] = p.acked[s] + 1
      /\ \A x \in Streams \ {s} : t.acked[x] = p.acked[x]
      /\ \A x \in Streams : t.acked[x] <= z.acked[x]
  <2>1. /\ p.acked \in [Streams -> Nat] /\ z.acked \in [Streams -> Nat]
        /\ t.acked \in [Streams -> Nat]
        /\ p.cnt \in Nat /\ t.cnt \in Nat /\ p.gone \in SUBSET Streams
    BY <1>1, <1>4 DEF Settlement
  <2>2. /\ p.cnt <= t.cnt /\ p.gone \subseteq t.gone
        /\ \A x \in Streams : t.acked[x] <= z.acked[x]
    BY <1>4 DEF Within
  <2>3. t.acked[s] = p.acked[s] + 1 /\ \A x \in Streams \ {s} : t.acked[x] = p.acked[x]
    BY <1>5, <2>1
  <2>. QED
    BY <2>1, <2>2, <2>3
<1>7. /\ krcnt \in Nat /\ refs[s] \in Seq(EncP!Ref) /\ Len(refs[s]) \in Nat
      /\ \A x \in Streams : N[x] \in Nat /\ Len(refs[x]) \in Nat /\ Len(refs[x]) <= N[x]
      /\ \A x \in Streams : \A j \in Nat : R[x][j].max_cnt \in Nat
      /\ refs \in [Streams -> Seq(EncP!Ref)]
  BY <1>5, NumberedTypes DEF EncP!TypeOK
<1>8. u \in Nat /\ u <= p.acked[s] /\ p.acked[s] < N[s] /\ refs[s] # <<>>
  <2>1. u <= p.acked[s] /\ t.acked[s] <= z.acked[s] /\ z.acked[s] <= N[s]
    BY <1>1, <1>2, <1>5, <1>6 DEF Knows
  <2>2. /\ N[s] \in Nat /\ refs[s] \in Seq(EncP!Ref) /\ Len(refs[s]) \in Nat
        /\ Len(refs[s]) <= N[s]
    BY <1>5, <1>7
  <2>3. /\ p.acked[s] \in Nat /\ z.acked[s] \in Nat /\ t.acked[s] = p.acked[s] + 1
    BY <1>5, <1>6
  <2>. HIDE DEF s
  <2>4. PICK n, l, k, a, b : /\ n = N[s] /\ l = Len(refs[s]) /\ k = p.acked[s]
                             /\ a = t.acked[s] /\ b = z.acked[s]
    OBVIOUS
  <2>5. /\ n \in Nat /\ l \in Nat /\ l <= n /\ k \in Nat /\ b \in Nat
        /\ a = k + 1 /\ n - l <= k /\ a <= b /\ b <= n
    BY <2>1, <2>2, <2>3, <2>4
  <2>6. l > 0 /\ n - l \in Nat /\ k < n
    BY <2>5
  <2>7. refs[s] # <<>>
    BY <2>2, <2>4, <2>6
  <2>. QED
    BY <2>1, <2>4, <2>6, <2>7
<1>9. Head(refs[s]).max_cnt = R[s][u + 1].max_cnt
  <2>1. 1 \in 1 .. Len(refs[s]) /\ Head(refs[s]) = refs[s][1]
    BY <1>7, <1>8
  <2>2. refs[s][1] = R[s][N[s] - Len(refs[s]) + 1]
    BY <1>5, <2>1 DEF Numbered
  <2>. QED
    BY <2>1, <2>2
<1>10. ebad' = FALSE /\ \/ UNCHANGED <<krcnt, refs>>
                        \/ /\ refs' = [refs EXCEPT ![s] = Tail(refs[s])]
                           /\ krcnt' = krcnt \/ krcnt' = R[s][u + 1].max_cnt
  <2>1. EncP!AckHeader(s) \/ UNCHANGED <<EncP!ackVars, ebad>>
    BY DEF EncP!ReadSectionAck, EncP!Read
  <2>. QED
    BY <1>8, <1>9, <2>1 DEF EncP!AckHeader, EncP!ackVars
<1>11. R[s][u + 1].max_cnt <= t.cnt
  <2>1. u \in Nat /\ u <= p.acked[s] /\ p.acked[s] \in Nat
    BY <1>5, <1>6, <1>8, Zenon
  <2>2. /\ p.cnt \in Nat /\ t.cnt \in Nat /\ p.cnt <= t.cnt
        /\ \A j \in Nat : R[s][j].max_cnt \in Nat
    <3>1. s \in Streams
      BY <1>5
    <3>2. p.cnt \in Nat /\ t.cnt \in Nat /\ p.cnt <= t.cnt
      BY <1>5, <1>6
    <3>. HIDE DEF s
    <3>. QED
      BY <1>7, <3>1, <3>2
  <2>3. \A j \in 1 .. p.acked[s] : R[s][j].max_cnt <= p.cnt
    BY <1>2, <1>5 DEF Knows
  <2>4. R[s][p.acked[s] + 1].max_cnt <= t.cnt
    BY <1>5
  <2>. HIDE DEF s, u
  <2>5. CASE u = p.acked[s]
    BY <2>4, <2>5
  <2>6. CASE u # p.acked[s]
    <3>1. u + 1 \in 1 .. p.acked[s] /\ u + 1 \in Nat
      BY <2>1, <2>6
    <3>2. R[s][u + 1].max_cnt <= p.cnt /\ R[s][u + 1].max_cnt \in Nat
      BY <2>2, <2>3, <3>1
    <3>. QED
      BY <2>2, <3>2
  <2>. QED
    BY <2>5, <2>6
<1>12. /\ Numbered(R, N)'
       /\ \A x \in Streams \ {s} : refs'[x] = refs[x]
       /\ \/ refs'[s] = refs[s]
          \/ Len(refs'[s]) = Len(refs[s]) - 1
  <2>1. CASE UNCHANGED refs
    BY <2>1 DEF Numbered
  <2>2. CASE refs' = [refs EXCEPT ![s] = Tail(refs[s])]
    <3>1. /\ refs'[s] = Tail(refs[s]) /\ \A x \in Streams \ {s} : refs'[x] = refs[x]
      BY <1>5, <1>7, <2>2
    <3>2. /\ Len(Tail(refs[s])) = Len(refs[s]) - 1
          /\ \A i \in 1 .. Len(refs[s]) - 1 : Tail(refs[s])[i] = refs[s][i + 1]
      BY <1>7, <1>8
    <3>. HIDE DEF s, u
    <3>a. N[s] \in Nat /\ Len(refs[s]) \in Nat /\ Len(refs'[s]) = Len(refs[s]) - 1
      BY <1>5, <1>7, <3>1, <3>2
    <3>3. ASSUME NEW i \in 1 .. Len(refs'[s])
          PROVE  refs'[s][i] = R[s][N[s] - Len(refs'[s]) + i]
      <4>1. i + 1 \in 1 .. Len(refs[s])
        BY <1>7, <3>1, <3>2
      <4>2. refs[s][i + 1] = R[s][N[s] - Len(refs[s]) + (i + 1)]
        BY <1>5, <4>1 DEF Numbered
      <4>3. N[s] - Len(refs[s]) + (i + 1) = N[s] - Len(refs'[s]) + i
        <5>1. PICK n, l, k : n = N[s] /\ l = Len(refs[s]) /\ k = Len(refs'[s])
          OBVIOUS
        <5>2. n \in Nat /\ l \in Nat /\ k = l - 1
          BY <3>a, <5>1
        <5>i. i \in Nat
          BY <3>a
        <5>3. n - l + (i + 1) = n - k + i
          BY <5>2, <5>i
        <5>. QED
          BY <5>1, <5>3
      <4>4. refs'[s][i] = refs[s][i + 1]
        BY <3>1, <3>2, <3>a
      <4>. QED
        BY <4>2, <4>3, <4>4
    <3>4. Len(refs'[s]) <= N[s]
      BY <1>5, <1>7, <3>a
    <3>5. ASSUME NEW x \in Streams
          PROVE  /\ Len(refs'[x]) <= N[x]
                 /\ \A i \in 1 .. Len(refs'[x]) :
                      refs'[x][i] = R[x][N[x] - Len(refs'[x]) + i]
      <4>1. CASE x = s
        BY <3>3, <3>4, <4>1
      <4>2. CASE x # s
        <5>1. refs'[x] = refs[x]
          BY <3>1, <4>2
        <5>. QED
          BY <5>1 DEF Numbered
      <4>. QED
        BY <4>1, <4>2
    <3>6. R \in [Streams -> [Nat -> EncP!Ref]] /\ N \in [Streams -> Nat]
      BY DEF Numbered
    <3>7. Numbered(R, N)'
      BY <3>5, <3>6 DEF Numbered
    <3>. QED
      BY <3>1, <3>7, <3>a
  <2>. QED
    BY <1>10, <2>1, <2>2
<1>13. Knows(R, N, t)'
  <2>1. krcnt' <= t.cnt
    <3>1. krcnt \in Nat /\ p.cnt \in Nat /\ t.cnt \in Nat /\ p.cnt <= t.cnt
      BY <1>6, <1>7
    <3>2. krcnt <= p.cnt
      BY <1>2 DEF Knows
    <3>3. krcnt' = krcnt \/ krcnt' = R[s][u + 1].max_cnt
      BY <1>10
    <3>. QED
      BY <1>11, <3>1, <3>2, <3>3
  <2>2. ASSUME NEW x \in Streams \ t.gone PROVE N[x] - Len(refs'[x]) <= t.acked[x]
    <3>1. N[x] - Len(refs[x]) <= p.acked[x]
      BY <1>2, <1>6 DEF Knows
    <3>2. CASE x = s
      <4>1. t.acked[s] = p.acked[s] + 1 /\ p.acked[s] \in Nat
        BY <1>5, <1>6
      <4>2. Len(refs'[s]) \in {Len(refs[s]), Len(refs[s]) - 1}
        BY <1>12
      <4>3. N[s] \in Nat /\ Len(refs[s]) \in Nat /\ N[s] - Len(refs[s]) <= p.acked[s]
        BY <1>5, <1>7, <1>8
      <4>. HIDE DEF s, u
      <4>. QED
        BY <3>2, <4>1, <4>2, <4>3
    <3>3. CASE x # s
      BY <1>6, <1>12, <3>1, <3>3
    <3>. QED
      BY <3>2, <3>3
  <2>3. ASSUME NEW x \in Streams, NEW j \in 1 .. t.acked[x]
        PROVE  R[x][j].max_cnt <= t.cnt
    <3>1. j \in 1 .. p.acked[x] => R[x][j].max_cnt <= p.cnt
      BY <1>2 DEF Knows
    <3>2. j \in 1 .. p.acked[x] \/ (x = s /\ j = p.acked[s] + 1)
      <4>. HIDE DEF s
      <4>1. p.acked[x] \in Nat /\ t.acked[x] \in Nat
        BY <1>6
      <4>2. t.acked[x] = p.acked[x] \/ (x = s /\ t.acked[x] = p.acked[x] + 1)
        BY <1>6
      <4>. QED
        BY <4>1, <4>2
    <3>3. R[x][j].max_cnt \in Nat
      BY <1>6, <1>7
    <3>. QED
      BY <1>5, <1>6, <3>1, <3>2, <3>3
  <2>. QED
    BY <2>1, <2>2, <2>3 DEF Knows
<1>14. Tail(q) \in Seq(Acks \cup Incs)
  BY <1>1
<1>. QED
  BY <1>1, <1>3, <1>4, <1>10, <1>12, <1>13, <1>14 DEF Settling

\* A cancellation
LEMMA SettlingCancel ==
  ASSUME NEW R, NEW N, NEW z, NEW q, Settling(R, N, z, q), Numbered(R, N), EncP!TypeOK,
         q # <<>>, Head(q).op = "Cancel", ebad = FALSE,
         EncP!ReadStreamCancel(Head(q).stream)
  PROVE  Settling(R, N, z, Tail(q))' /\ ebad' = FALSE /\ Numbered(R, N)'
<1>. DEFINE s == Head(q).stream
<1>1. /\ z \in Settlement /\ q \in Seq(Acks \cup Incs)
      /\ \A x \in Streams : z.acked[x] <= N[x]
  BY DEF Settling
<1>2. PICK p \in Settlement : /\ Brings(Moves(R, z), p, q, z) /\ Within(p, z)
                              /\ Knows(R, N, p)
  BY DEF Settling
<1>3. PICK t : <<p, Head(q), t>> \in Moves(R, z) /\ Brings(Moves(R, z), t, Tail(q), z)
  BY <1>1, <1>2, BringsTail
<1>4. /\ t \in Settlement /\ Within(p, t) /\ Within(t, z)
      /\ t.acked = p.acked /\ s \in t.gone
  <2>1. t \in Settlement /\ Within(p, t) /\ Within(t, z) /\ Settles(R, p, Head(q), t)
    BY <1>3, MoveParts
  <2>. QED
    BY <2>1 DEF Settles
<1>5. /\ p.cnt <= t.cnt /\ p.gone \subseteq t.gone /\ p.cnt \in Nat /\ t.cnt \in Nat
      /\ \A x \in Streams : p.acked[x] \in Nat /\ t.acked[x] = p.acked[x]
      /\ t.gone \in SUBSET Streams
  BY <1>4 DEF Settlement, Within
<1>6. /\ krcnt \in Nat
      /\ \A x \in Streams : \A j \in Nat : R[x][j].max_cnt \in Nat
      /\ refs \in [Streams -> Seq(EncP!Ref)] /\ N \in [Streams -> Nat]
  <2>1. refs \in [Streams -> Seq(EncP!Ref)] /\ N \in [Streams -> Nat]
    BY DEF EncP!TypeOK, Numbered
  <2>. QED
    BY <2>1, NumberedTypes
<1>7. /\ ebad' = FALSE /\ krcnt' = krcnt
      /\ \A x \in Streams \ {s} : refs'[x] = refs[x]
      /\ refs'[s] = <<>> \/ refs'[s] = refs[s]
  <2>1. EncP!CancelStream(s) \/ UNCHANGED <<EncP!ackVars, ebad>>
    BY DEF EncP!ReadStreamCancel, EncP!Read
  <2>2. s \in Streams
    BY <1>4, <1>5
  <2>3. CASE EncP!CancelStream(s)
    <3>1. ebad' = FALSE /\ krcnt' = krcnt /\ refs' = [refs EXCEPT ![s] = <<>>]
      BY <2>3 DEF EncP!CancelStream
    <3>. QED
      BY <1>6, <2>2, <3>1
  <2>4. CASE UNCHANGED <<EncP!ackVars, ebad>>
    BY <2>4 DEF EncP!ackVars
  <2>. QED
    BY <2>1, <2>3, <2>4
<1>8. Numbered(R, N)'
  <2>1. ASSUME NEW x \in Streams
        PROVE  /\ Len(refs'[x]) <= N[x]
               /\ \A i \in 1 .. Len(refs'[x]) :
                    refs'[x][i] = R[x][N[x] - Len(refs'[x]) + i]
    <3>1. CASE refs'[x] = refs[x]
      BY <3>1 DEF Numbered
    <3>2. CASE refs'[x] = <<>>
      <4>1. Len(refs'[x]) = 0 /\ N[x] \in Nat
        BY <1>6, <3>2
      <4>. QED
        BY <4>1
    <3>. QED
      BY <1>7, <3>1, <3>2
  <2>2. R \in [Streams -> [Nat -> EncP!Ref]] /\ N \in [Streams -> Nat]
    BY DEF Numbered
  <2>. QED
    BY <2>1, <2>2 DEF Numbered
<1>9. Knows(R, N, t)'
  <2>1. krcnt' <= t.cnt
    BY <1>2, <1>5, <1>6, <1>7 DEF Knows
  <2>2. ASSUME NEW x \in Streams \ t.gone PROVE N[x] - Len(refs'[x]) <= t.acked[x]
    <3>1. N[x] - Len(refs[x]) <= p.acked[x]
      BY <1>2, <1>5 DEF Knows
    <3>2. refs'[x] = refs[x] /\ t.acked[x] = p.acked[x]
      BY <1>4, <1>5, <1>7
    <3>. QED
      BY <3>1, <3>2
  <2>3. ASSUME NEW x \in Streams, NEW j \in 1 .. t.acked[x]
        PROVE  R[x][j].max_cnt <= t.cnt
    <3>1. R[x][j].max_cnt <= p.cnt
      BY <1>2, <1>5 DEF Knows
    <3>2. R[x][j].max_cnt \in Nat
      BY <1>5, <1>6
    <3>. QED
      BY <1>5, <3>1, <3>2
  <2>. QED
    BY <2>1, <2>2, <2>3 DEF Knows
<1>10. Tail(q) \in Seq(Acks \cup Incs)
  BY <1>1
<1>. QED
  BY <1>1, <1>3, <1>4, <1>7, <1>8, <1>9, <1>10 DEF Settling

\* An Insert Count Increment: not above what the encoder inserted
LEMMA SettlingInc ==
  ASSUME NEW R, NEW N, NEW z, NEW q, Settling(R, N, z, q), Numbered(R, N), EncP!TypeOK,
         q # <<>>, Head(q).op = "Inc", ebad = FALSE, z.cnt <= tab.next,
         EncP!ReadInsertCountIncrement(Head(q).n)
  PROVE  Settling(R, N, z, Tail(q))' /\ ebad' = FALSE /\ Numbered(R, N)'
<1>. DEFINE n == Head(q).n
<1>1. /\ z \in Settlement /\ q \in Seq(Acks \cup Incs)
      /\ \A x \in Streams : z.acked[x] <= N[x]
  BY DEF Settling
<1>2. PICK p \in Settlement : /\ Brings(Moves(R, z), p, q, z) /\ Within(p, z)
                              /\ Knows(R, N, p)
  BY DEF Settling
<1>3. PICK t : <<p, Head(q), t>> \in Moves(R, z) /\ Brings(Moves(R, z), t, Tail(q), z)
  BY <1>1, <1>2, BringsTail
<1>4. /\ t \in Settlement /\ Within(p, t) /\ Within(t, z)
      /\ t.acked = p.acked /\ n \in Nat \ {0} /\ p.cnt + n <= t.cnt
  <2>1. t \in Settlement /\ Within(p, t) /\ Within(t, z) /\ Settles(R, p, Head(q), t)
    BY <1>3, MoveParts
  <2>. QED
    BY <2>1 DEF Settles
<1>5. /\ p.cnt <= t.cnt /\ p.gone \subseteq t.gone /\ p.cnt \in Nat /\ t.cnt \in Nat
      /\ \A x \in Streams : p.acked[x] \in Nat /\ t.acked[x] = p.acked[x]
      /\ t.cnt <= z.cnt /\ z.cnt \in Nat
  BY <1>1, <1>4 DEF Settlement, Within
<1>6. /\ krcnt \in Nat /\ tab.next \in Nat
      /\ \A x \in Streams : \A j \in Nat : R[x][j].max_cnt \in Nat
  BY NumberedTypes DEF EncP!TypeOK, EncP!IsTable
<1>7. krcnt <= p.cnt
  BY <1>2 DEF Knows
<1>. HIDE DEF n
<1>8. ebad' = FALSE /\ refs' = refs /\ (krcnt' = krcnt \/ krcnt' = krcnt + n)
  <2>1. EncP!AddIcnt(n) \/ UNCHANGED <<EncP!ackVars, ebad>>
    BY DEF EncP!ReadInsertCountIncrement, EncP!Read, n
  <2>2. ~(n = 0 \/ tab.next - krcnt < n)
    BY <1>4, <1>5, <1>6, <1>7
  <2>3. CASE EncP!AddIcnt(n)
    BY <2>2, <2>3 DEF EncP!AddIcnt
  <2>4. CASE UNCHANGED <<EncP!ackVars, ebad>>
    BY <2>4 DEF EncP!ackVars
  <2>. QED
    BY <2>1, <2>3, <2>4
<1>9. Numbered(R, N)'
  BY <1>8 DEF Numbered
<1>10. Knows(R, N, t)'
  <2>1. krcnt' <= t.cnt
    BY <1>4, <1>5, <1>6, <1>7, <1>8
  <2>2. ASSUME NEW x \in Streams \ t.gone PROVE N[x] - Len(refs'[x]) <= t.acked[x]
    <3>1. N[x] - Len(refs[x]) <= p.acked[x]
      BY <1>2, <1>5 DEF Knows
    <3>. QED
      BY <1>5, <1>8, <3>1
  <2>3. ASSUME NEW x \in Streams, NEW j \in 1 .. t.acked[x]
        PROVE  R[x][j].max_cnt <= t.cnt
    <3>1. R[x][j].max_cnt <= p.cnt
      BY <1>2, <1>5 DEF Knows
    <3>2. R[x][j].max_cnt \in Nat
      BY <1>5, <1>6
    <3>. QED
      BY <1>5, <3>1, <3>2
  <2>. QED
    BY <2>1, <2>2, <2>3 DEF Knows
<1>11. Tail(q) \in Seq(Acks \cup Incs)
  BY <1>1
<1>. QED
  BY <1>1, <1>3, <1>4, <1>8, <1>9, <1>10, <1>11 DEF Settling

-----------------------------------------------------------------------------
(* The numbers of the sections *)

\* The numbers K and M go on where R and N end.
Longer(R, N, K, M) ==
  \A x \in Streams : N[x] <= M[x] /\ \A j \in 1 .. N[x] : K[x][j] = R[x][j]

\* The counts of the section that FinishEncode ends
CurRef == [max_cnt |-> EncP!Max(cur.cnts), min_cnt |-> EncP!Min(cur.cnts)]

\* The section is numbered if it refers to the table.
Ended(R, N, K, M) ==
  IF cur.cnts = {} THEN K = R /\ M = N
  ELSE LET s == cur.stream IN
       /\ M = [N EXCEPT ![s] = N[s] + 1]
       /\ K = [R EXCEPT ![s] = [R[s] EXCEPT ![N[s] + 1] = CurRef]]

\* A section under construction refers to entries of the table.
LEMMA CurCounts ==
  ASSUME EncP!IInv, cur # NoSection
  PROVE  /\ cur.stream \in Streams
         /\ \A c \in cur.cnts : c \in Nat /\ 1 <= c /\ c <= tab.next
         /\ cur.cnts # {} =>
              /\ CurRef.max_cnt \in cur.cnts /\ CurRef.min_cnt \in cur.cnts
              /\ \A c \in cur.cnts : CurRef.min_cnt <= c /\ c <= CurRef.max_cnt
              /\ CurRef \in EncP!Ref
<1>1. /\ cur.stream \in Streams /\ tab.next \in Nat /\ tab.first \in Nat
      /\ cur.cnts \subseteq tab.first + 1 .. tab.next
  BY DEF EncP!IInv, EncP!TypeOK, EncP!IsSection, EncP!IsTable, EncP!ReferencedEntriesLive
<1>2. \A c \in cur.cnts : c \in Nat /\ 1 <= c /\ c <= tab.next
  BY <1>1
<1>3. ASSUME cur.cnts # {}
      PROVE  /\ CurRef.max_cnt \in cur.cnts /\ CurRef.min_cnt \in cur.cnts
             /\ \A c \in cur.cnts : CurRef.min_cnt <= c /\ c <= CurRef.max_cnt
             /\ CurRef \in EncP!Ref
  <2>1. cur.cnts \in SUBSET Nat
    BY <1>2
  <2>2. /\ EncP!Max(cur.cnts) \in cur.cnts
        /\ \A c \in cur.cnts : c <= EncP!Max(cur.cnts)
    BY <1>1, <1>2, <1>3, <2>1, Constants, EncP!MaxIsGreatest
  <2>3. /\ EncP!Min(cur.cnts) \in cur.cnts
        /\ \A c \in cur.cnts : EncP!Min(cur.cnts) <= c
    BY <1>3, <2>1, Constants, EncP!MinIsLeast
  <2>. QED
    BY <1>2, <2>2, <2>3 DEF CurRef, EncP!Ref
<1>. QED
  BY <1>1, <1>2, <1>3

\* nghttp3_qpack_encoder_encode ends: what it encoded gets the next number.
LEMMA FinishNumbers ==
  ASSUME NEW R, NEW N, Numbered(R, N), EncP!IInv, EncP!FinishEncode,
         NEW K, NEW M, Ended(R, N, K, M)
  PROVE  /\ Longer(R, N, K, M) /\ Numbered(K, M)'
         /\ \A x \in Streams : M[x] - Len(refs'[x]) = N[x] - Len(refs[x])
<1>. DEFINE s == cur.stream
<1>1. cur # NoSection
  BY DEF EncP!FinishEncode
<1>2. /\ s \in Streams /\ refs \in [Streams -> Seq(EncP!Ref)]
      /\ R \in [Streams -> [Nat -> EncP!Ref]] /\ N \in [Streams -> Nat]
      /\ cur.cnts # {} => CurRef \in EncP!Ref
  BY <1>1, CurCounts DEF Numbered, EncP!IInv, EncP!TypeOK
<1>3. CASE cur.cnts = {}
  <2>1. refs' = refs /\ K = R /\ M = N
    BY <1>3 DEF EncP!FinishEncode, Ended
  <2>. QED
    BY <1>2, <2>1 DEF Longer, Numbered
<1>4. CASE cur.cnts # {}
  <2>1. /\ refs' = [refs EXCEPT ![s] = Append(refs[s], CurRef)]
        /\ M = [N EXCEPT ![s] = N[s] + 1]
        /\ K = [R EXCEPT ![s] = [R[s] EXCEPT ![N[s] + 1] = CurRef]]
    BY <1>4 DEF EncP!FinishEncode, EncP!AddStreamRef, Ended, CurRef
  <2>2. /\ \A x \in Streams \ {s} : refs'[x] = refs[x] /\ M[x] = N[x] /\ K[x] = R[x]
        /\ refs'[s] = Append(refs[s], CurRef) /\ M[s] = N[s] + 1 /\ N[s] \in Nat
        /\ K[s][N[s] + 1] = CurRef
        /\ \A j \in Nat : j # N[s] + 1 => K[s][j] = R[s][j]
    BY <1>2, <2>1
  <2>3. /\ K \in [Streams -> [Nat -> EncP!Ref]] /\ M \in [Streams -> Nat]
    <3>1. [R[s] EXCEPT ![N[s] + 1] = CurRef] \in [Nat -> EncP!Ref]
      BY <1>2, <1>4
    <3>. HIDE DEF s
    <3>. QED
      BY <1>2, <2>1, <3>1
  <2>4. Longer(R, N, K, M)
    <3>1. ASSUME NEW x \in Streams
          PROVE  N[x] <= M[x] /\ \A j \in 1 .. N[x] : K[x][j] = R[x][j]
      <4>1. CASE x = s
        BY <2>2, <4>1
      <4>2. CASE x # s
        BY <1>2, <2>2, <4>2
      <4>. QED
        BY <4>1, <4>2
    <3>. QED
      BY <3>1 DEF Longer
  <2>5. /\ Len(refs[s]) \in Nat /\ Len(refs'[s]) = Len(refs[s]) + 1
        /\ \A i \in 1 .. Len(refs[s]) : refs'[s][i] = refs[s][i]
        /\ refs'[s][Len(refs[s]) + 1] = CurRef
    <3>1. refs[s] \in Seq(EncP!Ref)
      BY <1>2
    <3>. QED
      BY <1>2, <1>4, <2>2, <3>1
  <2>6. \A x \in Streams : M[x] - Len(refs'[x]) = N[x] - Len(refs[x])
    <3>1. ASSUME NEW x \in Streams PROVE M[x] - Len(refs'[x]) = N[x] - Len(refs[x])
      <4>1. CASE x = s
        <5>1. PICK n, l : n = N[s] /\ l = Len(refs[s])
          OBVIOUS
        <5>2. n \in Nat /\ l \in Nat /\ M[s] = n + 1 /\ Len(refs'[s]) = l + 1
          BY <2>2, <2>5, <5>1
        <5>3. M[s] - Len(refs'[s]) = n - l
          BY <5>2
        <5>. QED
          BY <4>1, <5>1, <5>3
      <4>2. CASE x # s
        BY <2>2, <4>2
      <4>. QED
        BY <4>1, <4>2
    <3>. QED
      BY <3>1
  <2>7. ASSUME NEW x \in Streams
        PROVE  /\ Len(refs'[x]) <= M[x]
               /\ \A i \in 1 .. Len(refs'[x]) :
                    refs'[x][i] = K[x][M[x] - Len(refs'[x]) + i]
    <3>1. CASE x # s
      BY <2>2, <3>1 DEF Numbered
    <3>2. CASE x = s
      <4>. HIDE DEF s
      <4>1. Len(refs[s]) <= N[s]
        BY <1>2 DEF Numbered
      <4>2. ASSUME NEW i \in 1 .. Len(refs'[s])
            PROVE  refs'[s][i] = K[s][M[s] - Len(refs'[s]) + i]
        <5>1. PICK n, l, m : /\ n = N[s] /\ l = Len(refs[s])
                             /\ m = M[s] - Len(refs'[s]) + i
          OBVIOUS
        <5>2. n \in Nat /\ l \in Nat /\ i \in Nat /\ l <= n
          BY <2>2, <2>5, <4>1, <5>1
        <5>3. m = n - l + i
          <6>1. M[s] - Len(refs'[s]) = N[s] - Len(refs[s])
            BY <1>2, <2>6
          <6>. QED
            BY <5>1, <6>1
        <5>4. CASE i \in 1 .. l
          <6>1. refs[s][i] = R[s][n - l + i]
            BY <1>2, <5>1, <5>4 DEF Numbered
          <6>2. n - l + i \in Nat /\ n - l + i # n + 1
            BY <5>2, <5>4
          <6>. QED
            BY <2>2, <2>5, <5>1, <5>3, <5>4, <6>1, <6>2
        <5>5. CASE i \notin 1 .. l
          <6>1. i = l + 1
            BY <2>5, <5>1, <5>2, <5>5
          <6>2. m = n + 1
            BY <5>2, <5>3, <6>1
          <6>. QED
            BY <2>2, <2>5, <5>1, <6>1, <6>2
        <5>. QED
          BY <5>4, <5>5
      <4>3. Len(refs'[s]) <= M[s]
        BY <2>2, <2>5, <4>1
      <4>. QED
        BY <3>2, <4>2, <4>3
    <3>. QED
      BY <3>1, <3>2
  <2>8. Numbered(K, M)'
    BY <2>3, <2>7 DEF Numbered
  <2>. QED
    BY <2>4, <2>6, <2>8
<1>. QED
  BY <1>3, <1>4

\* What is settled stays so when a section is added.
LEMMA SettlingFinish ==
  ASSUME NEW R, NEW N, NEW z, NEW q, Settling(R, N, z, q), Numbered(R, N),
         EncP!TypeOK, NEW K, NEW M, Longer(R, N, K, M), M \in [Streams -> Nat],
         \A x \in Streams : M[x] - Len(refs'[x]) = N[x] - Len(refs[x]), krcnt' = krcnt
  PROVE  Settling(K, M, z, q)'
<1>1. /\ z \in Settlement /\ q \in Seq(Acks \cup Incs)
      /\ \A x \in Streams : z.acked[x] <= N[x]
  BY DEF Settling
<1>2. PICK p \in Settlement : /\ Brings(Moves(R, z), p, q, z) /\ Within(p, z)
                              /\ Knows(R, N, p)
  BY DEF Settling
<1>3. \A x \in Streams : N[x] \in Nat /\ M[x] \in Nat /\ N[x] <= M[x]
  BY DEF Longer, Numbered
<1>4. \A x \in Streams : z.acked[x] \in Nat /\ p.acked[x] \in Nat /\ p.acked[x] <= N[x]
  <2>1. \A x \in Streams : z.acked[x] \in Nat /\ p.acked[x] \in Nat
    BY <1>1 DEF Settlement
  <2>2. \A x \in Streams : p.acked[x] <= z.acked[x]
    BY <1>2 DEF Within
  <2>. QED
    BY <1>1, <1>3, <2>1, <2>2
<1>5. Moves(R, z) \subseteq Moves(K, z)
  <2>1. ASSUME NEW a, NEW i, NEW t, <<a, i, t>> \in Moves(R, z)
        PROVE  <<a, i, t>> \in Moves(K, z)
    <3>1. /\ a \in Settlement /\ i \in Acks \cup Incs /\ t \in Settlement
          /\ Within(a, t) /\ Within(t, z) /\ Settles(R, a, i, t)
      BY <2>1, MoveParts
    <3>2. Settles(K, a, i, t)
      <4>1. CASE i.op = "Ack"
        <5>1. /\ i.stream \in Streams \ a.gone
              /\ t.acked = [a.acked EXCEPT ![i.stream] = a.acked[i.stream] + 1]
              /\ R[i.stream][a.acked[i.stream] + 1].max_cnt <= t.cnt
          BY <3>1, <4>1 DEF Settles
        <5>2. a.acked[i.stream] + 1 \in 1 .. N[i.stream]
          <6>1. a.acked \in [Streams -> Nat] /\ t.acked[i.stream] <= z.acked[i.stream]
            BY <3>1, <5>1 DEF Settlement, Within
          <6>2. t.acked[i.stream] = a.acked[i.stream] + 1
            BY <5>1, <6>1
          <6>. QED
            BY <1>1, <1>3, <1>4, <5>1, <6>1, <6>2
        <5>3. K[i.stream][a.acked[i.stream] + 1] = R[i.stream][a.acked[i.stream] + 1]
          BY <5>1, <5>2 DEF Longer
        <5>. QED
          BY <4>1, <5>1, <5>3 DEF Settles
      <4>2. CASE i.op # "Ack"
        BY <3>1, <4>2 DEF Settles
      <4>. QED
        BY <4>1, <4>2
    <3>. QED
      BY <3>1, <3>2, MoveParts
  <2>2. \A m \in Moves(R, z) : m = <<m[1], m[2], m[3]>>
    BY DEF Moves
  <2>. QED
    BY <2>1, <2>2
<1>6. Brings(Moves(K, z), p, q, z)
  BY <1>2, <1>5, BringsStill
<1>7. Knows(K, M, p)'
  <2>1. krcnt' <= p.cnt
    BY <1>2 DEF Knows
  <2>2. \A x \in Streams \ p.gone : M[x] - Len(refs'[x]) <= p.acked[x]
    BY <1>2 DEF Knows
  <2>3. ASSUME NEW x \in Streams, NEW j \in 1 .. p.acked[x]
        PROVE  K[x][j].max_cnt <= p.cnt
    <3>1. R[x][j].max_cnt <= p.cnt
      BY <1>2 DEF Knows
    <3>2. j \in 1 .. N[x]
      BY <1>3, <1>4
    <3>. QED
      BY <3>1, <3>2 DEF Longer
  <2>. QED
    BY <2>1, <2>2, <2>3 DEF Knows
<1>8. \A x \in Streams : z.acked[x] <= M[x]
  BY <1>1, <1>3, <1>4
<1>. QED
  BY <1>1, <1>2, <1>6, <1>7, <1>8 DEF Settling

-----------------------------------------------------------------------------
(* The prefix of a section *)

\* What is assumed of the two endpoints: their hard limits allow the same
\* number of entries, and the decoder is never more insertions behind than
\* that when a section is encoded (RFC 9204, 4.5.1.1, cannot express more).
Compatible ==
  /\ EncP!MaxEnts(HardMax) = DecP!MaxEnts(DecHardMax)
  /\ MaxLag \in Nat /\ MaxLag <= EncP!MaxEnts(HardMax)

\* Multiples of a number are at least that number apart.
LEMMA Multiples ==
  \A f, a, b \in Nat : a < b => f * a + f <= f * b
<1>. SUFFICES ASSUME NEW f \in Nat, NEW a \in Nat, NEW b \in Nat, a < b
              PROVE  f * a + f <= f * b
  OBVIOUS
<1>1. PICK d \in Nat : b = a + 1 + d
  <2>1. b - a - 1 \in Nat /\ b = a + 1 + (b - a - 1)
    OBVIOUS
  <2>. QED
    BY <2>1
<1>2. f * b = f * a + f + f * d /\ f * d \in Nat /\ f * a \in Nat
  BY <1>1
<1>. QED
  BY <1>2

\* nghttp3_qpack_decoder_reconstruct_ricnt finds the count that
\* nghttp3_qpack_encoder_write_field_section_prefix wrote modulo 2 * MaxEntries,
\* if it is less than MaxEntries behind what the decoder inserted, and no
\* more than that ahead.
LEMMA RicntSurvives ==
  ASSUME NEW h \in Nat, NEW icnt \in Nat, NEW r \in Nat, r # 0,
         NEW m \in Nat, m = DecP!MaxEnts(h), m # 0, icnt < r + m, r <= icnt + m
  PROVE  DecP!ReconstructRicnt((r % (2 * m)) + 1, icnt, h) = r
<1>. DEFINE full == 2 * m
            max == icnt + m
            k == r \div full
            j == max \div full
            x == r % full
            y == max % full
            e == x + 1
            wrapped == j * full + e - 1
<1>1. full \in Nat /\ full > 0 /\ max \in Nat /\ full = 2 * m /\ max = icnt + m
  OBVIOUS
<1>. HIDE DEF full, max
<1>2. /\ k \in Nat /\ j \in Nat /\ x \in Nat /\ y \in Nat /\ x < full /\ y < full
      /\ r = full * k + x /\ max = full * j + y
  <2>1. \A a \in Nat : /\ a \div full \in Nat /\ a % full \in Nat /\ a % full < full
                       /\ a = full * (a \div full) + (a % full)
    BY <1>1
  <2>. QED
    BY <1>1, <2>1
<1>. HIDE DEF k, j, x, y
<1>. DEFINE a == full * k
            b == full * j
<1>3. /\ a \in Nat /\ b \in Nat /\ j * full = b
      /\ k < j => a + full <= b
      /\ j < k => b + full <= a
      /\ k + 1 < j => a + full + full <= b
  <2>1. a \in Nat /\ b \in Nat /\ j * full = b
    BY <1>1, <1>2
  <2>2. (k < j => a + full <= b) /\ (j < k => b + full <= a)
    BY <1>1, <1>2, Multiples
  <2>3. ASSUME k + 1 < j PROVE a + full + full <= b
    <3>1. full * (k + 1) + full <= b
      BY <1>1, <1>2, <2>3, Multiples
    <3>2. full * (k + 1) = a + full
      BY <1>1, <1>2
    <3>. QED
      BY <3>1, <3>2
  <2>. QED
    BY <2>1, <2>2, <2>3
<1>4. k = j \/ k + 1 = j
  <2>. HIDE DEF a, b
  <2>1. r = a + x /\ max = b + y
    BY <1>2 DEF a, b
  <2>2. ~(j < k)
    BY <1>1, <1>2, <1>3, <2>1
  <2>3. ~(k + 1 < j)
    BY <1>1, <1>2, <1>3, <2>1
  <2>. QED
    BY <1>2, <2>2, <2>3
<1>5. wrapped = IF k = j THEN r ELSE r + full
  <2>1. wrapped = b + x
    BY <1>2, <1>3
  <2>2. k = j => b = a
    OBVIOUS
  <2>3. ASSUME k + 1 = j PROVE b = a + full
    <3>1. full * (k + 1) = full * k + full
      BY <1>1, <1>2
    <3>. QED
      BY <2>3, <3>1
  <2>4. r = a + x
    BY <1>2
  <2>. HIDE DEF a, b, wrapped
  <2>5. CASE k = j
    BY <2>1, <2>2, <2>4, <2>5
  <2>6. CASE k # j
    <3>1. wrapped = a + full + x
      BY <1>4, <2>1, <2>3, <2>6
    <3>. QED
      BY <1>1, <1>2, <1>3, <2>4, <2>6, <3>1
  <2>. QED
    BY <2>5, <2>6
<1>6. k # j => r + full > max
  BY <1>1
<1>7. e # 0 /\ ~(e > full)
  BY <1>1, <1>2
<1>8. DecP!ReconstructRicnt(e, icnt, h) =
        IF wrapped > max /\ wrapped <= full THEN DecP!NoRicnt
        ELSE IF (IF wrapped > max THEN wrapped - full ELSE wrapped) = 0
             THEN DecP!NoRicnt
             ELSE IF wrapped > max THEN wrapped - full ELSE wrapped
  <2>. HIDE DEF e
  <2>1. full = 2 * DecP!MaxEnts(h) /\ max = icnt + DecP!MaxEnts(h)
    BY <1>1
  <2>. QED
    BY <1>7, <2>1 DEF DecP!ReconstructRicnt, j
<1>9. r <= max
  BY <1>1
<1>. HIDE DEF wrapped, e
<1>10. DecP!ReconstructRicnt(e, icnt, h) = r
  <2>1. CASE k = j
    <3>1. wrapped = r
      BY <1>5, <2>1
    <3>. QED
      BY <1>1, <1>8, <1>9, <3>1
  <2>2. CASE k # j
    <3>1. wrapped = r + full
      BY <1>5, <2>2
    <3>. QED
      BY <1>1, <1>6, <1>8, <2>2, <3>1
  <2>. QED
    BY <2>1, <2>2
<1>. QED
  BY <1>10, <1>1 DEF e, x

\* The decoder finds the base again (RS_STATE_DBASE).
LEMMA BaseSurvives ==
  ASSUME NEW r \in Nat, NEW b \in Nat, NEW t,
         t.sign = EncP!EncodePrefix(r, b, HardMax).sign,
         t.delta = EncP!EncodePrefix(r, b, HardMax).delta
  PROVE  DecP!DecodeBase(r, t) = b
<1>1. /\ t.sign = (b < r)
      /\ t.delta = IF b < r THEN r - b - 1 ELSE b - r
  BY DEF EncP!EncodePrefix
<1>2. CASE b < r
  <2>1. ~(r <= r - b - 1) /\ r - (r - b - 1) - 1 = b
    BY <1>2
  <2>. QED
    BY <1>1, <1>2, <2>1 DEF DecP!DecodeBase
<1>3. CASE ~(b < r)
  <2>1. r + (b - r) = b
    OBVIOUS
  <2>. QED
    BY <1>1, <1>3, <2>1 DEF DecP!DecodeBase
<1>. QED
  BY <1>2, <1>3

-----------------------------------------------------------------------------
(* The request streams *)

\* Where the reader of a request stream stands: in which part of a section,
\* with which Required Insert Count and base, and how many sections that refer
\* to the table and how many fields it has behind it.
Place == [state : {"RICNT", "DBASE", "OPCODE"}, ricnt : Nat, base : Nat,
          sec : Nat, pos : Nat]

At(state, ricnt, base, sec, pos) ==
  [state |-> state, ricnt |-> ricnt, base |-> base, sec |-> sec, pos |-> pos]
Between(sec, pos) == At("RICNT", 0, 0, sec, pos)

Field == [name : Names, value : Values]

Refers(l) == l.op \in {"Indexed", "IndexedPB", "Name", "NamePB"}
Index(l, b) == IF l.op \in {"Indexed", "Name"} THEN b - l.idx - 1 ELSE b + l.idx

\* The field line l says f, with the base b, where W[a] is the field that was
\* inserted as entry a.  It refers to an entry with a count in C.
Says(W, l, b, C, f) ==
  IF Refers(l)
  THEN /\ Index(l, b) \in Nat /\ Index(l, b) + 1 \in C
       /\ f = [name  |-> W[Index(l, b)].name,
               value |-> IF l.op \in {"Name", "NamePB"} THEN l.value
                         ELSE W[Index(l, b)].value]
  ELSE f = [name |-> l.name, value |-> l.value]

\* What a token tells the reader of a stream whose sections with references
\* are those of r up to n, and whose fields are those of ws.
ReadsRicnt(r, n, p, t, q) ==
  /\ p.state = "RICNT" /\ t.op = "Ricnt"
  /\ t.encricnt = EncP!EncodePrefix(q.ricnt, 0, HardMax).encricnt
  /\ q = At("DBASE", q.ricnt, 0, p.sec, p.pos)
  /\ q.ricnt # 0 => p.sec < n /\ q.ricnt = r[p.sec + 1].max_cnt

ReadsBase(p, t, q) ==
  /\ p.state = "DBASE" /\ t.op = "Base" /\ DecP!DecodeBase(p.ricnt, t) \in Nat
  /\ t.fin => p.ricnt = 0
  /\ q = IF t.fin THEN Between(p.sec, p.pos)
         ELSE At("OPCODE", p.ricnt, DecP!DecodeBase(p.ricnt, t), p.sec, p.pos)

ReadsLine(r, n, W, ws, p, t, q) ==
  /\ p.state = "OPCODE" /\ t \in DecP!LineTokens /\ p.pos < Len(ws)
  /\ Refers(t) => p.ricnt # 0 /\ p.sec < n
  /\ Says(W, t, p.base, r[p.sec + 1].min_cnt .. r[p.sec + 1].max_cnt, ws[p.pos + 1])
  /\ q = IF t.fin
         THEN Between(IF p.ricnt = 0 THEN p.sec ELSE p.sec + 1, p.pos + 1)
         ELSE At("OPCODE", p.ricnt, p.base, p.sec, p.pos + 1)

Reads(r, n, W, ws) ==
  {m \in Place \X Token \X Place :
     \/ ReadsRicnt(r, n, m[1], m[2], m[3])
     \/ ReadsBase(m[1], m[2], m[3])
     \/ ReadsLine(r, n, W, ws, m[1], m[2], m[3])}

\* A reading step, by its parts
LEMMA ReadParts ==
  \A r, n, W, ws, p, t, q :
    <<p, t, q>> \in Reads(r, n, W, ws) <=>
      /\ p \in Place /\ t \in Token /\ q \in Place
      /\ \/ ReadsRicnt(r, n, p, t, q) \/ ReadsBase(p, t, q)
         \/ ReadsLine(r, n, W, ws, p, t, q)
  BY DEF Reads

\* What a token tells stays true as entries, sections and fields are added.
LEMMA ReadsStay ==
  ASSUME NEW r \in [Nat -> EncP!Ref], NEW k \in [Nat -> EncP!Ref],
         NEW n \in Nat, NEW m \in Nat, n <= m, \A j \in 1 .. n : k[j] = r[j],
         NEW b \in Nat, \A j \in 1 .. n : r[j].max_cnt <= b,
         NEW W, NEW V, \A a \in Nat : a < b => V[a] = W[a],
         NEW ws \in Seq(Field), NEW xs \in Seq(Field), Len(ws) <= Len(xs),
         \A i \in 1 .. Len(ws) : xs[i] = ws[i]
  PROVE  Reads(r, n, W, ws) \subseteq Reads(k, m, V, xs)
<1>1. ASSUME NEW p, NEW t, NEW q, <<p, t, q>> \in Reads(r, n, W, ws)
      PROVE  <<p, t, q>> \in Reads(k, m, V, xs)
  <2>1. /\ p \in Place /\ t \in Token /\ q \in Place
        /\ \/ ReadsRicnt(r, n, p, t, q) \/ ReadsBase(p, t, q)
           \/ ReadsLine(r, n, W, ws, p, t, q)
    BY <1>1, ReadParts
  <2>2. p.sec \in Nat /\ p.pos \in Nat
    BY <2>1 DEF Place
  <2>3. p.sec < n => p.sec < m /\ k[p.sec + 1] = r[p.sec + 1]
    BY <2>2
  <2>4. ReadsRicnt(r, n, p, t, q) => ReadsRicnt(k, m, p, t, q)
    BY <2>3 DEF ReadsRicnt
  <2>5. ASSUME ReadsLine(r, n, W, ws, p, t, q) PROVE ReadsLine(k, m, V, xs, p, t, q)
    <3>1. /\ p.state = "OPCODE" /\ t \in DecP!LineTokens /\ p.pos < Len(ws)
          /\ Refers(t) => p.ricnt # 0 /\ p.sec < n
          /\ Says(W, t, p.base, r[p.sec + 1].min_cnt .. r[p.sec + 1].max_cnt,
                  ws[p.pos + 1])
          /\ q = IF t.fin
                 THEN Between(IF p.ricnt = 0 THEN p.sec ELSE p.sec + 1, p.pos + 1)
                 ELSE At("OPCODE", p.ricnt, p.base, p.sec, p.pos + 1)
      BY <2>5 DEF ReadsLine
    <3>2. p.pos < Len(xs) /\ xs[p.pos + 1] = ws[p.pos + 1]
      <4>1. Len(ws) \in Nat /\ Len(xs) \in Nat
        OBVIOUS
      <4>2. p.pos + 1 \in 1 .. Len(ws)
        BY <2>2, <3>1, <4>1
      <4>. QED
        BY <2>2, <3>1, <4>1, <4>2
    <3>3. Says(V, t, p.base, k[p.sec + 1].min_cnt .. k[p.sec + 1].max_cnt,
               ws[p.pos + 1])
      <4>1. CASE ~Refers(t)
        BY <3>1, <4>1 DEF Says
      <4>2. CASE Refers(t)
        <5>. DEFINE a == Index(t, p.base)
        <5>1. a \in Nat /\ a + 1 \in r[p.sec + 1].min_cnt .. r[p.sec + 1].max_cnt
          BY <3>1, <4>2 DEF Says
        <5>2. r[p.sec + 1].max_cnt <= b /\ r[p.sec + 1] \in EncP!Ref
          BY <2>2, <3>1, <4>2
        <5>. HIDE DEF a
        <5>3. V[a] = W[a]
          <6>1. PICK u, v : u = r[p.sec + 1].min_cnt /\ v = r[p.sec + 1].max_cnt
            OBVIOUS
          <6>2. u \in Nat /\ v \in Nat /\ v <= b /\ a + 1 \in u .. v
            BY <5>1, <5>2, <6>1 DEF EncP!Ref
          <6>3. a < b
            BY <5>1, <6>2
          <6>. QED
            BY <5>1, <6>3
        <5>. QED
          BY <2>3, <3>1, <4>2, <5>1, <5>3 DEF Says, a
      <4>. QED
        BY <4>1, <4>2
    <3>. QED
      BY <2>3, <3>1, <3>2, <3>3 DEF ReadsLine
  <2>. QED
    BY <2>1, <2>4, <2>5, ReadParts
<1>2. \A x \in Reads(r, n, W, ws) : x = <<x[1], x[2], x[3]>>
  BY DEF Reads
<1>. QED
  BY <1>1, <1>2

-----------------------------------------------------------------------------
(* What is known of the sections between the two sides *)

\* Where the reader of stream s stands.
Where(c, sec, pos) ==
  At(IF c.state = "BLOCKED" THEN "OPCODE" ELSE c.state, c.ricnt, c.base, sec, pos)
Here(s, z) == Where(sctx[s], z.acked[s], Len(got[s]))

\* Where it will stand when everything written was read.
Untold(s) == IF cur # NoSection /\ cur.stream = s THEN Len(cur.lines) ELSE 0
There(s, N) == Between(N[s], Len(want[s]) - Untold(s))

\* A section refers to entries that were inserted, and the decoder is not too
\* many insertions behind.
Counts(R, N) ==
  \A s \in Streams : \A j \in 1 .. N[s] :
    /\ 1 <= R[s][j].min_cnt /\ R[s][j].min_cnt <= R[s][j].max_cnt
    /\ R[s][j].max_cnt <= tab.next /\ R[s][j].max_cnt <= dtab.next + MaxLag

\* W[a] is the field that was inserted as entry a.
Content(W) ==
  \A a \in EncP!Live(tab) : tab.ent[a].name = W[a].name /\ tab.ent[a].value = W[a].value

\* The section that is being read is the first one not acknowledged.
Placed(R, N, z) ==
  \A s \in Streams \ closed : sctx[s].ricnt # 0 =>
    z.acked[s] < N[s] /\ sctx[s].ricnt = R[s][z.acked[s] + 1].max_cnt

\* What was written to the request streams tells the decoder the fields.
Told(R, N, z, W) ==
  derr = "none" => \A s \in Streams \ closed :
    Brings(Reads(R[s], N[s], W, want[s]), Here(s, z), inq[s] \o rstream[s], There(s, N))

\* The section under construction says the last fields of its stream.
Telling(W) ==
  cur # NoSection =>
    LET n  == Len(cur.lines)
        ws == want[cur.stream]
    IN  /\ n <= Len(ws)
        /\ \A i \in 1 .. n :
             Says(W, cur.lines[i], cur.base, cur.cnts, ws[Len(ws) - n + i])

\* What is on its way to the encoder settles what the decoder acknowledged.
Settled(R, N, z) ==
  /\ Numbered(R, N) /\ Settling(R, N, z, dstream \o dbuf)
  /\ z.cnt = written /\ z.gone \subseteq closed

\* The next section to be acknowledged refers to entries both sides keep.
LEMMA NextSection ==
  ASSUME ConnInv, NEW R, NEW N, NEW z, Settled(R, N, z),
         NEW s \in Streams \ closed, z.acked[s] < N[s]
  PROVE  LET r == R[s][z.acked[s] + 1] IN
         /\ r.min_cnt \in Nat /\ r.max_cnt \in Nat
         /\ dtab.first < r.min_cnt /\ tab.first < r.min_cnt
         /\ r.min_cnt <= r.max_cnt /\ r.max_cnt <= tab.next
         /\ refs[s] # <<>> /\ r.max_cnt <= EncP!TopCnt(refs[s])
         /\ krcnt <= written
<1>1. /\ EncP!IInv /\ EncP!TypeOK /\ EncP!ReferencedEntriesLive /\ Numbered(R, N)
      /\ Settling(R, N, z, dstream \o dbuf) /\ z.cnt = written /\ z.gone \subseteq closed
  BY DEF ConnInv, Sides, EncoderSide, EncP!IInv, Settled
<1>2. PICK p \in Settlement : Within(p, z) /\ Knows(R, N, p)
  BY <1>1 DEF Settling
<1>3. z \in Settlement
  BY <1>1 DEF Settling
<1>4. /\ p.acked[s] <= z.acked[s] /\ p.acked[s] \in Nat /\ z.acked[s] \in Nat
      /\ s \notin p.gone /\ krcnt <= p.cnt /\ p.cnt <= z.cnt
      /\ p.cnt \in Nat /\ z.cnt \in Nat /\ krcnt \in Nat
  BY <1>1, <1>2, <1>3 DEF Within, Settlement, Knows, EncP!TypeOK
<1>5. /\ N[s] - Len(refs[s]) <= p.acked[s]
      /\ N[s] \in Nat /\ Len(refs[s]) \in Nat /\ Len(refs[s]) <= N[s]
      /\ refs[s] \in Seq(EncP!Ref)
  BY <1>1, <1>2, <1>4, NumberedTypes DEF Knows
<1>. DEFINE i == z.acked[s] + 1 - (N[s] - Len(refs[s]))
<1>6. i \in 1 .. Len(refs[s]) /\ N[s] - Len(refs[s]) + i = z.acked[s] + 1
  <2>1. PICK n, l, k, j : n = N[s] /\ l = Len(refs[s]) /\ k = z.acked[s] /\ j = p.acked[s]
    OBVIOUS
  <2>2. /\ n \in Nat /\ l \in Nat /\ k \in Nat /\ j \in Nat /\ l <= n
        /\ n - l <= j /\ j <= k /\ k < n
    BY <1>4, <1>5, <2>1
  <2>3. k + 1 - (n - l) \in 1 .. l /\ n - l + (k + 1 - (n - l)) = k + 1
    BY <2>2
  <2>. QED
    BY <2>1, <2>3
<1>7. refs[s][i] = R[s][z.acked[s] + 1]
  <2>1. refs[s][i] = R[s][N[s] - Len(refs[s]) + i]
    BY <1>1, <1>6 DEF Numbered
  <2>. QED
    BY <1>6, <2>1
<1>. HIDE DEF i
<1>8. /\ tab.first < refs[s][i].min_cnt /\ refs[s][i].min_cnt <= refs[s][i].max_cnt
      /\ refs[s][i].max_cnt <= tab.next /\ i \in DOMAIN refs[s]
  BY <1>1, <1>5, <1>6 DEF EncP!ReferencedEntriesLive
<1>9. refs[s][i] \in EncP!Ref
  BY <1>5, <1>8
<1>10. refs[s][i].min_cnt \in Nat /\ refs[s][i].max_cnt \in Nat
  BY <1>9 DEF EncP!Ref
<1>11. refs[s][i].max_cnt <= EncP!TopCnt(refs[s]) /\ refs[s] # <<>>
  <2>1. EncP!CountsUpTo(refs[s], tab.next) /\ tab.next \in Nat
    BY <1>1, Constants, EncP!QueuesBounded DEF EncP!QueuesUpTo
  <2>. QED
    BY <1>5, <1>6, <1>8, <2>1, Constants, EncP!TopIsGreatest
<1>12. dtab.first <= tab.first /\ dtab.first \in Nat /\ tab.first \in Nat
  BY SidesType DEF ConnInv, Shared
<1>13. dtab.first < refs[s][i].min_cnt
  BY <1>8, <1>10, <1>12
<1>. QED
  BY <1>1, <1>4, <1>7, <1>8, <1>10, <1>11, <1>13

-----------------------------------------------------------------------------
(* Reading a section *)

\* Every entry takes at least 32 bytes (NGHTTP3_QPACK_ENTRY_OVERHEAD).
Spaced ==
  \A a \in EncP!Live(dtab) : 32 * (dtab.next - a) <= dtab.sum - dtab.ent[a].sum

\* There are no more entries than the capacity has room for.
LEMMA FewEntries ==
  ASSUME ConnInv, Spaced
  PROVE  dtab.next - dtab.first <= DecP!MaxEnts(DecHardMax)
<1>1. /\ DecP!IsTable(dtab) /\ DecP!Size(dtab) <= dcap /\ dcap <= DecHardMax
      /\ dcap \in Nat /\ DecHardMax \in Nat
  BY Constants DEF ConnInv, Sides, DecoderSide, DecP!IInv, DecP!TypeOK, DecP!TableFits
<1>2. dtab.first \in Nat /\ dtab.next \in Nat /\ dtab.first <= dtab.next /\ dtab.sum \in Nat
  BY <1>1 DEF DecP!IsTable
<1>3. CASE dtab.first < dtab.next
  <2>1. dtab.first \in EncP!Live(dtab) /\ dtab.first \in DecP!Live(dtab)
    BY <1>2, <1>3 DEF EncP!Live, DecP!Live
  <2>2. dtab.ent[dtab.first].sum \in Nat
    BY <1>1, <2>1 DEF DecP!IsTable, DecP!Entry
  <2>3. dtab.sum - dtab.ent[dtab.first].sum <= dcap
    BY <1>1, <1>3 DEF DecP!Size, DecP!SizeFrom
  <2>4. 32 * (dtab.next - dtab.first) <= dtab.sum - dtab.ent[dtab.first].sum
    BY <2>1 DEF Spaced
  <2>5. PICK n, x : n = dtab.next - dtab.first /\ x = dtab.sum - dtab.ent[dtab.first].sum
    OBVIOUS
  <2>6. n \in Nat /\ x \in Int /\ 32 * n <= x /\ x <= dcap
    BY <1>2, <2>2, <2>3, <2>4, <2>5
  <2>7. n <= DecHardMax \div 32
    BY <1>1, <2>6
  <2>. QED
    BY <2>5, <2>7 DEF DecP!MaxEnts, DecP!ENTRY_OVERHEAD
<1>4. CASE ~(dtab.first < dtab.next)
  <2>1. DecHardMax \div 32 \in Nat
    BY <1>1
  <2>. QED
    BY <1>2, <1>4, <2>1 DEF DecP!MaxEnts, DecP!ENTRY_OVERHEAD
<1>. QED
  BY <1>3, <1>4

\* The stream s waits or is read; nothing was said of it that is not so.
Reading(R, N, z, s) ==
  /\ ConnInv /\ Spaced /\ Settled(R, N, z) /\ Counts(R, N) /\ Placed(R, N, z)
  /\ s \in Streams \ closed /\ s \notin bq

\* RS_STATE_RICNT: the Required Insert Count is the one that was encoded.
LEMMA RicntIsRead ==
  ASSUME Compatible, NEW R, NEW N, NEW z, NEW s, Reading(R, N, z, s),
         NEW t, NEW q \in Place, ReadsRicnt(R[s], N[s], Here(s, z), t, q)
  PROVE  DecP!ReconstructRicnt(t.encricnt, dtab.next, DecHardMax) = q.ricnt
<1>1. /\ ConnInv /\ Spaced /\ Settled(R, N, z) /\ Counts(R, N) /\ s \in Streams \ closed
  BY DEF Reading
<1>2. /\ t.encricnt = EncP!EncodePrefix(q.ricnt, 0, HardMax).encricnt
      /\ q.ricnt # 0 => z.acked[s] < N[s] /\ q.ricnt = R[s][z.acked[s] + 1].max_cnt
      /\ q.ricnt \in Nat
  BY DEF ReadsRicnt, Here, Where, At, Place
<1>3. t.encricnt = IF q.ricnt = 0 THEN 0
                   ELSE (q.ricnt % (2 * EncP!MaxEnts(HardMax))) + 1
  BY <1>2 DEF EncP!EncodePrefix
<1>4. CASE q.ricnt = 0
  BY <1>3, <1>4 DEF DecP!ReconstructRicnt
<1>5. CASE q.ricnt # 0
  <2>. DEFINE r == q.ricnt
              m == DecP!MaxEnts(DecHardMax)
              k == R[s][z.acked[s] + 1].min_cnt
  <2>1. /\ z.acked[s] < N[s] /\ r = R[s][z.acked[s] + 1].max_cnt
    BY <1>2, <1>5
  <2>2. /\ k \in Nat /\ dtab.first < k /\ k <= r /\ r <= tab.next
    BY <1>1, <2>1, NextSection
  <2>3. r <= dtab.next + MaxLag
    <3>1. z.acked[s] \in Nat /\ N[s] \in Nat
      BY <1>1 DEF Settled, Settling, Settlement, Numbered
    <3>2. z.acked[s] + 1 \in 1 .. N[s]
      BY <2>1, <3>1
    <3>. QED
      BY <1>1, <2>1, <3>2 DEF Counts
  <2>4. /\ dtab.first \in Nat /\ dtab.next \in Nat /\ tab.next \in Nat
        /\ DecHardMax \in Nat /\ HardMax \in Nat
    BY <1>1, SidesType DEF ConnInv
  <2>5. dtab.next - dtab.first <= m
    BY <1>1, FewEntries
  <2>6. m = EncP!MaxEnts(HardMax) /\ MaxLag \in Nat /\ MaxLag <= m
    BY DEF Compatible
  <2>7. m \in Nat /\ m # 0
    <3>1. tab.next > 0
      BY <1>2, <1>5, <2>2, <2>4
    <3>2. HardMax >= 32
      BY <1>1, <3>1 DEF ConnInv, Sides, EncoderSide
    <3>3. HardMax \div 32 \in Nat /\ HardMax \div 32 # 0
      BY <2>4, <3>2
    <3>. QED
      BY <2>6, <3>3 DEF EncP!MaxEnts, EncP!ENTRY_OVERHEAD
  <2>8. t.encricnt = (r % (2 * m)) + 1
    BY <1>3, <1>5, <2>6
  <2>9. r \in Nat /\ r # 0
    BY <1>2, <1>5
  <2>10. m = DecP!MaxEnts(DecHardMax)
    OBVIOUS
  <2>. HIDE DEF r, m, k
  <2>11. dtab.next < r + m /\ r <= dtab.next + m
    BY <2>2, <2>3, <2>4, <2>5, <2>6, <2>7, <2>9
  <2>12. DecP!ReconstructRicnt((r % (2 * m)) + 1, dtab.next, DecHardMax) = r
    BY <2>4, <2>7, <2>9, <2>10, <2>11, RicntSurvives
  <2>. QED
    BY <2>8, <2>12 DEF r
<1>. QED
  BY <1>4, <1>5

\* The state of the reader
LEMMA HereParts ==
  ASSUME NEW s, NEW z
  PROVE  /\ Here(s, z).state = IF sctx[s].state = "BLOCKED" THEN "OPCODE"
                                                             ELSE sctx[s].state
         /\ Here(s, z).ricnt = sctx[s].ricnt /\ Here(s, z).base = sctx[s].base
         /\ Here(s, z).sec = z.acked[s] /\ Here(s, z).pos = Len(got[s])
  BY DEF Here, Where, At

\* A field line is the next field of the stream.
LEMMA LineIsRead ==
  ASSUME NEW R, NEW N, NEW z, NEW W, NEW s, Reading(R, N, z, s), Content(W),
         NEW t, NEW q, ReadsLine(R[s], N[s], W, want[s], Here(s, z), t, q)
  PROVE  /\ ~(DecP!IsDynamic(t) /\ DecP!AbsIndex(t, sctx[s]) = -1)
         /\ DecP!LineField(t, sctx[s]) = want[s][Len(got[s]) + 1]
         /\ Len(got[s]) < Len(want[s])
<1>1. /\ ConnInv /\ Settled(R, N, z) /\ Counts(R, N) /\ Placed(R, N, z)
      /\ s \in Streams \ closed /\ s \notin bq
  BY DEF Reading
<1>2. /\ sctx[s].state \in {"OPCODE", "BLOCKED"} /\ t \in DecP!LineTokens
      /\ Len(got[s]) < Len(want[s])
      /\ Refers(t) => sctx[s].ricnt # 0
      /\ Says(W, t, sctx[s].base,
              R[s][z.acked[s] + 1].min_cnt .. R[s][z.acked[s] + 1].max_cnt,
              want[s][Len(got[s]) + 1])
  BY HereParts DEF ReadsLine
<1>3. DecP!IsDynamic(t) <=> Refers(t)
  BY DEF DecP!IsDynamic, Refers
<1>4. CASE ~Refers(t)
  BY <1>2, <1>3, <1>4 DEF Says, DecP!LineField
<1>5. CASE Refers(t)
  <2>. DEFINE r == R[s][z.acked[s] + 1]
              a == Index(t, sctx[s].base)
  <2>1. /\ z.acked[s] < N[s] /\ sctx[s].ricnt = r.max_cnt
    BY <1>1, <1>2, <1>5 DEF Placed
  <2>2. /\ r.min_cnt \in Nat /\ r.max_cnt \in Nat
        /\ dtab.first < r.min_cnt /\ tab.first < r.min_cnt /\ r.max_cnt <= tab.next
    BY <1>1, <2>1, NextSection
  <2>3. /\ a \in Nat /\ a + 1 \in r.min_cnt .. r.max_cnt
        /\ want[s][Len(got[s]) + 1] =
             [name |-> W[a].name,
              value |-> IF t.op \in {"Name", "NamePB"} THEN t.value ELSE W[a].value]
    BY <1>2, <1>5 DEF Says
  <2>4. /\ tab.first \in Nat /\ tab.next \in Nat /\ dtab.first \in Nat /\ dtab.next \in Nat
    BY <1>1, SidesType DEF ConnInv
  <2>5. sctx[s].ricnt <= dtab.next
    BY <1>1, <1>2 DEF ConnInv, Sides, DecoderSide, DecP!IInv, DecP!ReadingImpliesReceived
  <2>6. DecP!AbsIndex(t, sctx[s]) =
          IF a >= 0 /\ a < sctx[s].ricnt /\ a \in DecP!Live(dtab) THEN a ELSE -1
    BY DEF DecP!AbsIndex, Index
  <2>. HIDE DEF a, r
  <2>7. a \in EncP!Live(tab) /\ a \in EncP!Live(dtab) /\ a \in DecP!Live(dtab)
        /\ a >= 0 /\ a < sctx[s].ricnt
    BY <2>1, <2>2, <2>3, <2>4, <2>5 DEF EncP!Live, DecP!Live
  <2>8. DecP!AbsIndex(t, sctx[s]) = a /\ a # -1
    BY <2>3, <2>6, <2>7
  <2>9. tab.ent[a].name = dtab.ent[a].name /\ tab.ent[a].value = dtab.ent[a].value
    <3>1. PICK L : Shared(L)
      BY <1>1 DEF ConnInv
    <3>2. /\ tab = Window(L, tab.first, tab.next) /\ dtab = Window(L, dtab.first, dtab.next)
      BY <3>1 DEF Shared
    <3>3. PICK x, y : /\ x = Window(L, tab.first, tab.next) /\ y = Window(L, dtab.first, dtab.next)
                      /\ x = tab /\ y = dtab
      BY <3>2
    <3>4. x.ent[a] = L[a] /\ y.ent[a] = L[a]
      BY <2>7, <3>3 DEF Window, EncP!Live
    <3>. QED
      BY <3>3, <3>4
  <2>10. tab.ent[a].name = W[a].name /\ tab.ent[a].value = W[a].value
    BY <2>7 DEF Content
  <2>. QED
    BY <1>2, <1>3, <1>5, <2>3, <2>8, <2>9, <2>10 DEF DecP!LineField
<1>. QED
  BY <1>4, <1>5

-----------------------------------------------------------------------------
(* Parked streams *)

\* The keys of the blocked streams are exact, and as many as allowed.
WithinLimit ==
  /\ EncP!BlockedInv
  /\ EncP!Cardinality(blocked) <= maxBlocked /\ maxBlocked <= BlockedStreams
  /\ ~settings => maxBlocked = 0

\* A parked stream waits for an insertion the encoder knows nothing of.
Parked ==
  /\ \A s \in bq : s \notin closed /\ krcnt < sctx[s].ricnt
  /\ mode = "idle" => \A s \in bq : sctx[s].ricnt > dtab.next
  /\ mode \in Streams => mode \notin closed

\* A parked stream has a section that the encoder counts as blocked.
LEMMA ParkedIsBlocked ==
  ASSUME ConnInv, NEW R, NEW N, NEW z, Settled(R, N, z), Placed(R, N, z), Parked,
         NEW s \in bq
  PROVE  /\ s \in Streams /\ refs[s] # <<>> /\ krcnt < EncP!TopCnt(refs[s])
<1>1. s \in Streams /\ krcnt \in Nat /\ EncP!TypeOK /\ sctx[s].ricnt \in Nat
  BY DEF ConnInv, Sides, EncoderSide, EncP!IInv, EncP!TypeOK, DecoderSide, DecP!IInv,
         DecP!TypeOK, DecP!Context
<1>2. s \notin closed /\ krcnt < sctx[s].ricnt
  BY DEF Parked
<1>3. sctx[s].ricnt # 0
  BY <1>1, <1>2
<1>4. z.acked[s] < N[s] /\ sctx[s].ricnt = R[s][z.acked[s] + 1].max_cnt
  BY <1>1, <1>2, <1>3 DEF Placed
<1>5. refs[s] # <<>> /\ sctx[s].ricnt <= EncP!TopCnt(refs[s])
  BY <1>1, <1>2, <1>4, NextSection
<1>6. EncP!TopCnt(refs[s]) \in Nat
  <2>1. EncP!CountsUpTo(refs[s], tab.next) /\ tab.next \in Nat
    BY <1>1, Constants, EncP!QueuesBounded
    DEF EncP!QueuesUpTo, ConnInv, Sides, EncoderSide
  <2>2. refs[s] \in Seq(EncP!Ref)
    BY <1>1 DEF EncP!TypeOK
  <2>3. EncP!TopCnt(refs[s]) \in 0 .. tab.next
    BY <2>1, <2>2, Constants, EncP!TopIsGreatest
  <2>. QED
    BY <2>1, <2>3
<1>. QED
  BY <1>1, <1>2, <1>5, <1>6

\* Streams with sections the encoder counts as blocked are not more than the
\* decoder allows.
LEMMA BlockedAreFew ==
  ASSUME WithinLimit, EncP!TypeOK, NEW B \in SUBSET Streams,
         \A s \in B : krcnt < EncP!TopCnt(refs[s])
  PROVE  EncP!IsFiniteSet(B) /\ EncP!Cardinality(B) <= BlockedStreams
<1>1. /\ blocked = EncP!KeysOf(refs, krcnt) /\ EncP!IsFiniteSet(blocked)
      /\ EncP!Cardinality(blocked) <= maxBlocked /\ maxBlocked <= BlockedStreams
      /\ maxBlocked \in Nat /\ BlockedStreams \in Nat
  BY DecoderConstants DEF WithinLimit, EncP!BlockedInv, EncP!TypeOK, DecP!DecoderAssumption
<1>. DEFINE f == [s \in B |-> EncP!Key(EncP!TopCnt(refs[s]), s)]
<1>2. \A s \in B : f[s] \in blocked /\ f[s].id = s
  BY <1>1 DEF EncP!KeysOf, EncP!Key
<1>3. f \in [B -> blocked]
  BY <1>2
<1>. HIDE DEF f
<1>4. f \in EncP!Injection(B, blocked)
  BY <1>2, <1>3 DEF EncP!Injection, EncP!IsInjective
<1>5. EncP!IsFiniteSet(B) /\ EncP!Cardinality(B) <= EncP!Cardinality(blocked)
  BY <1>1, <1>4, Constants, EncP!FS_Injection
<1>6. EncP!Cardinality(B) \in Nat /\ EncP!Cardinality(blocked) \in Nat
  BY <1>1, <1>5, Constants, EncP!FS_CardinalityType
<1>. QED
  BY <1>1, <1>5, <1>6

\* conn_decode_headers has room to park another stream whose section the
\* decoder cannot read yet.
LEMMA RoomToPark ==
  ASSUME ConnInv, NEW R, NEW N, NEW z, Settled(R, N, z), Placed(R, N, z), Parked,
         WithinLimit, NEW s \in Streams \ closed, s \notin bq, sctx[s].ricnt > dtab.next
  PROVE  ~DecP!NoRoomToPark /\ krcnt < sctx[s].ricnt
<1>1. /\ krcnt \in Nat /\ EncP!TypeOK /\ sctx[s].ricnt \in Nat /\ dtab.next \in Nat
      /\ bq \in SUBSET Streams /\ written \in Nat /\ written <= dtab.next
      /\ DecP!IsFiniteSet(bq)
  BY SidesType
  DEF ConnInv, Sides, EncoderSide, EncP!IInv, EncP!TypeOK, DecoderSide, DecP!IInv,
      DecP!TypeOK, DecP!Context, DecP!ReadingImpliesReceived
<1>2. z.acked[s] < N[s] /\ sctx[s].ricnt = R[s][z.acked[s] + 1].max_cnt
  BY <1>1 DEF Placed
<1>3. /\ sctx[s].ricnt <= EncP!TopCnt(refs[s]) /\ krcnt <= written
  BY <1>2, NextSection
<1>4. EncP!TopCnt(refs[s]) \in Nat
  <2>1. EncP!CountsUpTo(refs[s], tab.next) /\ tab.next \in Nat
    BY <1>1, Constants, EncP!QueuesBounded
    DEF EncP!QueuesUpTo, ConnInv, Sides, EncoderSide
  <2>2. refs[s] \in Seq(EncP!Ref)
    BY <1>1 DEF EncP!TypeOK
  <2>3. EncP!TopCnt(refs[s]) \in 0 .. tab.next
    BY <2>1, <2>2, Constants, EncP!TopIsGreatest
  <2>. QED
    BY <2>1, <2>3
<1>5. krcnt < sctx[s].ricnt /\ krcnt < EncP!TopCnt(refs[s])
  BY <1>1, <1>3, <1>4
<1>6. EncP!Cardinality(bq \cup {s}) <= BlockedStreams /\ EncP!IsFiniteSet(bq \cup {s})
  <2>1. \A x \in bq \cup {s} : krcnt < EncP!TopCnt(refs[x])
    BY <1>5, ParkedIsBlocked
  <2>. QED
    BY <1>1, <2>1, BlockedAreFew
<1>7. EncP!IsFiniteSet(bq)
  <2>1. bq \in SUBSET (bq \cup {s})
    OBVIOUS
  <2>. QED
    BY <1>6, <2>1, Constants, EncP!FS_Subset
<1>8. EncP!Cardinality(bq \cup {s}) = EncP!Cardinality(bq) + 1 /\ EncP!Cardinality(bq) \in Nat
  BY <1>7, Constants, EncP!FS_AddElement, EncP!FS_CardinalityType
<1>9. EncP!Cardinality(bq) = DecP!Cardinality(bq)
  BY DEF EncP!Cardinality, DecP!Cardinality
<1>10. BlockedStreams \in Nat
  BY DecoderConstants DEF DecP!DecoderAssumption
<1>. QED
  BY <1>5, <1>6, <1>8, <1>9, <1>10 DEF DecP!NoRoomToPark

-----------------------------------------------------------------------------
(* A token *)

\* The decoder acknowledges a section of stream s, or nothing, and what is
\* settled then is y.
Acknowledges(R, N, z, s, y) ==
  \/ y = z /\ UNCHANGED <<dbuf, written>>
  \/ LET i == [op |-> "Ack", stream |-> s] IN
     /\ dbuf' = Append(dbuf, i) /\ <<z, i, y>> \in Moves(R, y)
     /\ y.cnt = written' /\ y.gone = z.gone
     /\ y.acked[s] <= N[s] /\ \A x \in Streams \ {s} : y.acked[x] = z.acked[x]

\* The end of a section, in nghttp3_qpack_decoder_read_request
LEMMA SectionEnds ==
  ASSUME NEW R, NEW N, NEW z, NEW s, Reading(R, N, z, s), DecP!EndSection(s),
         sctx[s].ricnt <= dtab.next
  PROVE  \E y \in Settlement :
           /\ Acknowledges(R, N, z, s, y)
           /\ sctx' = [sctx EXCEPT ![s] = DecP!FreshContext]
           /\ y.acked[s] = IF sctx[s].ricnt = 0 THEN z.acked[s] ELSE z.acked[s] + 1
<1>. DEFINE r == sctx[s].ricnt
            i == [op |-> "Ack", stream |-> s]
            y == [acked |-> [z.acked EXCEPT ![s] = z.acked[s] + 1],
                  cnt |-> written', gone |-> z.gone]
<1>1. /\ ConnInv /\ Settled(R, N, z) /\ Counts(R, N) /\ Placed(R, N, z)
      /\ s \in Streams \ closed /\ s \notin bq
  BY DEF Reading
<1>2. /\ z \in Settlement /\ z.cnt = written /\ z.gone \subseteq closed
      /\ z.acked \in [Streams -> Nat] /\ written \in Nat /\ z.gone \subseteq Streams
  BY <1>1 DEF Settled, Settling, Settlement
<1>3. sctx' = [sctx EXCEPT ![s] = DecP!FreshContext]
  BY DEF DecP!EndSection
<1>4. CASE r = 0
  <2>1. UNCHANGED <<dbuf, written>>
    BY <1>4 DEF DecP!EndSection, DecP!ackVars
  <2>. QED
    BY <1>2, <1>3, <1>4, <2>1 DEF Acknowledges
<1>5. CASE r # 0
  <2>1. dbuf' = Append(dbuf, i) /\ written' = DecP!Max({written, r})
    BY <1>5 DEF DecP!EndSection
  <2>2. z.acked[s] < N[s] /\ r = R[s][z.acked[s] + 1].max_cnt /\ N[s] \in Nat
    BY <1>1, <1>5 DEF Placed, Settled, Numbered
  <2>3. written' \in Nat /\ written <= written' /\ r <= written'
    <3>1. r \in Nat /\ dtab.next \in Nat /\ written <= dtab.next
      BY <1>1, SidesType
      DEF ConnInv, Sides, DecoderSide, DecP!IInv, DecP!TypeOK, DecP!Context,
          DecP!ReadingImpliesReceived
    <3>2. {written, r} \in SUBSET Nat /\ {written, r} # {}
          /\ \A n \in {written, r} : n <= dtab.next
      BY <1>2, <3>1
    <3>3. /\ DecP!Max({written, r}) \in {written, r}
          /\ \A n \in {written, r} : n <= DecP!Max({written, r})
      BY <3>1, <3>2, DecoderConstants, DecP!MaxIsGreatest
    <3>. QED
      BY <1>2, <2>1, <3>1, <3>3
  <2>. HIDE DEF r
  <2>4. y \in Settlement
    <3>1. z.acked[s] + 1 \in Nat
      BY <1>1, <1>2
    <3>2. [z.acked EXCEPT ![s] = z.acked[s] + 1] \in [Streams -> Nat]
      BY <1>2, <3>1
    <3>. QED
      BY <1>2, <2>3, <3>2 DEF Settlement
  <2>5. /\ y.acked[s] = z.acked[s] + 1 /\ y.cnt = written' /\ y.gone = z.gone
        /\ \A x \in Streams \ {s} : y.acked[x] = z.acked[x]
        /\ y.acked = [z.acked EXCEPT ![s] = z.acked[s] + 1]
    BY <1>1, <1>2
  <2>6. \A x \in Streams : z.acked[x] \in Nat /\ y.acked[x] \in Nat
    BY <1>2, <2>4 DEF Settlement
  <2>. HIDE DEF y
  <2>7. Within(z, y)
    <3>1. \A x \in Streams : z.acked[x] <= y.acked[x]
      BY <2>5, <2>6
    <3>. QED
      BY <1>2, <2>3, <2>5, <3>1 DEF Within
  <2>8. Within(y, y)
    BY <2>3, <2>5, <2>6 DEF Within
  <2>9. Settles(R, z, i, y)
    <3>1. i.op = "Ack" /\ i.stream = s /\ s \in Streams \ z.gone
      BY <1>1, <1>2
    <3>. HIDE DEF i
    <3>. QED
      BY <2>2, <2>3, <2>5, <3>1 DEF Settles
  <2>10. i \in Acks \cup Incs
    BY <1>1 DEF Acks
  <2>11. <<z, i, y>> \in Moves(R, y)
    BY <1>2, <2>4, <2>7, <2>8, <2>9, <2>10, MoveParts
  <2>12. y.acked[s] <= N[s]
    BY <1>1, <2>2, <2>5, <2>6
  <2>. QED
    BY <1>3, <1>5, <2>1, <2>4, <2>5, <2>11, <2>12 DEF Acknowledges, r
<1>. QED
  BY <1>4, <1>5

\* Reading a token of stream s brings its reader to q.
Advances(R, N, z, s, q) ==
  /\ derr' = "none" /\ UNCHANGED <<dtab, dcap, shut, closed>>
  /\ \A x \in Streams \ {s} : sctx'[x] = sctx[x] /\ got'[x] = got[x]
  /\ \E y \in Settlement :
       /\ Acknowledges(R, N, z, s, y) /\ Here(s, y)' = q
       /\ sctx'[s].ricnt # 0 =>
            y.acked[s] < N[s] /\ sctx'[s].ricnt = R[s][y.acked[s] + 1].max_cnt
  /\ \/ got' = got
     \/ /\ Len(got[s]) < Len(want[s])
        /\ got' = [got EXCEPT ![s] = Append(got[s], want[s][Len(got[s]) + 1])]
  /\ \/ bq' = bq
     \/ /\ bq' = bq \cup {s} /\ krcnt < sctx'[s].ricnt /\ sctx'[s].ricnt > dtab.next

\* RS_STATE_RICNT
LEMMA RicntAdvances ==
  ASSUME Compatible, NEW R, NEW N, NEW z, NEW s, Reading(R, N, z, s), derr = "none",
         NEW t, NEW q \in Place, ReadsRicnt(R[s], N[s], Here(s, z), t, q),
         DecP!ReadRicnt(s, t), UNCHANGED <<shut, closed>>
  PROVE  Advances(R, N, z, s, q)
<1>1. /\ z \in Settlement /\ s \in Streams
      /\ sctx \in [Streams -> DecP!Context] /\ sctx[s] \in DecP!Context
  BY DEF Reading, Settled, Settling, ConnInv, Sides, DecoderSide, DecP!IInv, DecP!TypeOK
<1>2. DecP!ReconstructRicnt(t.encricnt, dtab.next, DecHardMax) = q.ricnt
  BY RicntIsRead
<1>3. /\ q = At("DBASE", q.ricnt, 0, z.acked[s], Len(got[s]))
      /\ q.ricnt # 0 => z.acked[s] < N[s] /\ q.ricnt = R[s][z.acked[s] + 1].max_cnt
      /\ q.ricnt \in Nat
  BY HereParts DEF ReadsRicnt, Place
<1>4. q.ricnt # DecP!NoRicnt
  BY <1>3 DEF DecP!NoRicnt
<1>5. /\ sctx' = [sctx EXCEPT ![s] = [state |-> "DBASE", ricnt |-> q.ricnt, base |-> 0]]
      /\ UNCHANGED <<DecP!tableVars, DecP!ackVars, elen, bq, got, derr>>
  BY <1>2, <1>4 DEF DecP!ReadRicnt
<1>6. /\ sctx'[s] = [state |-> "DBASE", ricnt |-> q.ricnt, base |-> 0]
      /\ \A x \in Streams \ {s} : sctx'[x] = sctx[x]
  BY <1>1, <1>5
<1>7. /\ UNCHANGED <<dtab, dcap, dbuf, written, bq, got, derr>>
  BY <1>5 DEF DecP!tableVars, DecP!ackVars
<1>8. Here(s, z)' = q
  BY <1>3, <1>6, <1>7 DEF Here, Where
<1>9. Acknowledges(R, N, z, s, z)
  BY <1>7 DEF Acknowledges
<1>10. sctx'[s].ricnt = q.ricnt
  BY <1>6
<1>. QED
  BY <1>1, <1>3, <1>6, <1>7, <1>8, <1>9, <1>10 DEF Advances

\* RS_STATE_DBASE
LEMMA BaseAdvances ==
  ASSUME NEW R, NEW N, NEW z, NEW s, Reading(R, N, z, s), Parked, WithinLimit,
         derr = "none", NEW t, NEW q \in Place, ReadsBase(Here(s, z), t, q),
         DecP!ReadBase(s, t), UNCHANGED <<shut, closed>>
  PROVE  Advances(R, N, z, s, q) \/ DecP!Fail("FATAL")
<1>. DEFINE r == sctx[s].ricnt
            b == DecP!DecodeBase(sctx[s].ricnt, t)
<1>1. /\ ConnInv /\ Settled(R, N, z) /\ Placed(R, N, z) /\ z \in Settlement
      /\ s \in Streams \ closed /\ s \in Streams /\ s \notin bq
      /\ sctx \in [Streams -> DecP!Context] /\ sctx[s] \in DecP!Context
      /\ dtab.next \in Nat
  BY SidesType
  DEF Reading, Settled, Settling, ConnInv, Sides, DecoderSide, DecP!IInv, DecP!TypeOK
<1>2. r \in Nat
  BY <1>1 DEF DecP!Context
<1>3. /\ sctx[s].state = "DBASE" /\ b \in Nat /\ (t.fin => r = 0)
      /\ q = IF t.fin THEN Between(z.acked[s], Len(got[s]))
             ELSE At("OPCODE", r, b, z.acked[s], Len(got[s]))
  <2>1. sctx[s].state \in DecP!States
    BY <1>1 DEF DecP!Context
  <2>. QED
    BY <2>1, HereParts DEF ReadsBase, DecP!States
<1>. HIDE DEF r, b
<1>4. b # DecP!NoRicnt
  BY <1>3 DEF DecP!NoRicnt
<1>5. r # 0 => z.acked[s] < N[s] /\ r = R[s][z.acked[s] + 1].max_cnt
  BY <1>1 DEF Placed, r
<1>6. CASE r > dtab.next
  <2>1. ~DecP!NoRoomToPark /\ krcnt < r
    BY <1>1, <1>6, RoomToPark DEF r
  <2>2. /\ sctx' = [sctx EXCEPT ![s].state = "BLOCKED", ![s].base = b]
        /\ bq' = bq \cup {s}
        /\ UNCHANGED <<DecP!tableVars, DecP!ackVars, elen, got, derr>>
    BY <1>4, <1>6, <2>1 DEF DecP!ReadBase, DecP!MustWait, r, b
  <2>3. /\ sctx'[s].state = "BLOCKED" /\ sctx'[s].base = b /\ sctx'[s].ricnt = r
        /\ \A x \in Streams \ {s} : sctx'[x] = sctx[x]
    BY <1>1, <2>2 DEF DecP!Context, r
  <2>4. ~t.fin
    BY <1>1, <1>2, <1>3, <1>6
  <2>5. UNCHANGED <<dtab, dcap, dbuf, written, got, derr>>
    BY <2>2 DEF DecP!tableVars, DecP!ackVars
  <2>6. Here(s, z)' = q
    BY <1>3, <2>3, <2>4, <2>5 DEF Here, Where
  <2>7. Acknowledges(R, N, z, s, z)
    BY <2>5 DEF Acknowledges
  <2>8. Advances(R, N, z, s, q)
    BY <1>1, <1>5, <1>6, <2>1, <2>2, <2>3, <2>5, <2>6, <2>7 DEF Advances
  <2>. QED
    BY <2>8
<1>7. CASE ~(r > dtab.next) /\ ~DecP!MayEndSection(s, t)
  BY <1>4, <1>7 DEF DecP!ReadBase, DecP!MustWait, r, b
<1>8. CASE ~(r > dtab.next) /\ DecP!MayEndSection(s, t)
  <2>1. /\ IF t.fin THEN DecP!EndSection(s)
           ELSE /\ sctx' = [sctx EXCEPT ![s].state = "OPCODE", ![s].base = b]
                /\ UNCHANGED <<DecP!ackVars, elen>>
        /\ UNCHANGED <<DecP!tableVars, bq, got, derr>>
    BY <1>4, <1>8 DEF DecP!ReadBase, DecP!MustWait, r, b
  <2>2. UNCHANGED <<dtab, dcap, got, derr, bq>>
    BY <2>1 DEF DecP!tableVars
  <2>3. CASE t.fin
    <3>1. r = 0
      BY <1>3, <2>3
    <3>2. /\ sctx' = [sctx EXCEPT ![s] = DecP!FreshContext]
          /\ UNCHANGED <<dbuf, written>>
      BY <2>1, <2>3, <3>1 DEF DecP!EndSection, DecP!ackVars, r
    <3>3. /\ sctx'[s] = DecP!FreshContext /\ \A x \in Streams \ {s} : sctx'[x] = sctx[x]
      BY <1>1, <3>2
    <3>4. Here(s, z)' = q /\ sctx'[s].ricnt = 0
      BY <1>3, <2>2, <2>3, <3>3 DEF Here, Where, Between, DecP!FreshContext
    <3>5. Acknowledges(R, N, z, s, z)
      BY <3>2 DEF Acknowledges
    <3>. QED
      BY <1>1, <2>2, <3>3, <3>4, <3>5 DEF Advances
  <2>4. CASE ~t.fin
    <3>1. /\ sctx' = [sctx EXCEPT ![s].state = "OPCODE", ![s].base = b]
          /\ UNCHANGED <<dbuf, written>>
      BY <2>1, <2>4 DEF DecP!ackVars
    <3>2. /\ sctx'[s].state = "OPCODE" /\ sctx'[s].base = b /\ sctx'[s].ricnt = r
          /\ \A x \in Streams \ {s} : sctx'[x] = sctx[x]
      BY <1>1, <3>1 DEF DecP!Context, r
    <3>3. Here(s, z)' = q
      BY <1>3, <2>2, <2>4, <3>2 DEF Here, Where
    <3>4. Acknowledges(R, N, z, s, z)
      BY <3>1 DEF Acknowledges
    <3>. QED
      BY <1>1, <1>5, <2>2, <3>2, <3>3, <3>4 DEF Advances
  <2>. QED
    BY <2>3, <2>4
<1>. QED
  BY <1>6, <1>7, <1>8

\* RS_STATE_OPCODE and what follows: a field line
LEMMA LineAdvances ==
  ASSUME NEW R, NEW N, NEW z, NEW W, NEW s, Reading(R, N, z, s), Content(W),
         derr = "none", NEW t, NEW q \in Place,
         ReadsLine(R[s], N[s], W, want[s], Here(s, z), t, q),
         DecP!ReadLine(s, t), UNCHANGED <<shut, closed>>
  PROVE  Advances(R, N, z, s, q) \/ DecP!Fail("FATAL")
<1>1. /\ ConnInv /\ Settled(R, N, z) /\ Placed(R, N, z) /\ z \in Settlement
      /\ s \in Streams \ closed /\ s \in Streams /\ s \notin bq
      /\ sctx \in [Streams -> DecP!Context] /\ sctx[s] \in DecP!Context
      /\ got \in [Streams -> Seq([name : Names, value : Values])]
  BY DEF Reading, Settled, Settling, ConnInv, Sides, DecoderSide, DecP!IInv, DecP!TypeOK
<1>. DEFINE f == want[s][Len(got[s]) + 1]
<1>2. /\ ~(DecP!IsDynamic(t) /\ DecP!AbsIndex(t, sctx[s]) = -1)
      /\ DecP!LineField(t, sctx[s]) = f
      /\ Len(got[s]) < Len(want[s])
  BY LineIsRead
<1>3. /\ sctx[s].state \in {"OPCODE", "BLOCKED"}
      /\ q = IF t.fin
             THEN Between(IF sctx[s].ricnt = 0 THEN z.acked[s] ELSE z.acked[s] + 1,
                          Len(got[s]) + 1)
             ELSE At("OPCODE", sctx[s].ricnt, sctx[s].base, z.acked[s], Len(got[s]) + 1)
  BY HereParts DEF ReadsLine
<1>4. sctx[s].ricnt <= dtab.next
  BY <1>1, <1>3 DEF ConnInv, Sides, DecoderSide, DecP!IInv, DecP!ReadingImpliesReceived
<1>5. sctx[s].ricnt # 0 =>
        z.acked[s] < N[s] /\ sctx[s].ricnt = R[s][z.acked[s] + 1].max_cnt
  BY <1>1 DEF Placed
<1>6. CASE ~DecP!MayEndSection(s, t)
  BY <1>2, <1>6 DEF DecP!ReadLine
<1>7. CASE DecP!MayEndSection(s, t)
  <2>1. /\ got' = [got EXCEPT ![s] = Append(got[s], f)]
        /\ IF t.fin THEN DecP!EndSection(s)
           ELSE /\ sctx' = [sctx EXCEPT ![s].state = "OPCODE"]
                /\ UNCHANGED <<DecP!ackVars, elen>>
        /\ UNCHANGED <<DecP!tableVars, bq, derr>>
    BY <1>2, <1>7 DEF DecP!ReadLine
  <2>. HIDE DEF f
  <2>2. UNCHANGED <<dtab, dcap, derr, bq>>
    BY <2>1 DEF DecP!tableVars
  <2>3. /\ Len(got'[s]) = Len(got[s]) + 1 /\ \A x \in Streams \ {s} : got'[x] = got[x]
    <3>1. got'[s] = Append(got[s], f) /\ \A x \in Streams \ {s} : got'[x] = got[x]
      BY <1>1, <2>1
    <3>2. got[s] \in Seq([name : Names, value : Values])
      BY <1>1
    <3>. QED
      BY <3>1, <3>2
  <2>4. CASE t.fin
    <3>1. PICK y \in Settlement :
            /\ Acknowledges(R, N, z, s, y)
            /\ sctx' = [sctx EXCEPT ![s] = DecP!FreshContext]
            /\ y.acked[s] = IF sctx[s].ricnt = 0 THEN z.acked[s] ELSE z.acked[s] + 1
      BY <1>4, <2>1, <2>4, SectionEnds
    <3>2. /\ sctx'[s] = DecP!FreshContext /\ \A x \in Streams \ {s} : sctx'[x] = sctx[x]
      BY <1>1, <3>1
    <3>3. Here(s, y)' = q /\ sctx'[s].ricnt = 0
      BY <1>3, <2>3, <2>4, <3>1, <3>2 DEF Here, Where, Between, DecP!FreshContext
    <3>. QED
      BY <1>2, <2>1, <2>2, <2>3, <3>1, <3>2, <3>3 DEF Advances, f
  <2>5. CASE ~t.fin
    <3>1. /\ sctx' = [sctx EXCEPT ![s].state = "OPCODE"] /\ UNCHANGED <<dbuf, written>>
      BY <2>1, <2>5 DEF DecP!ackVars
    <3>2. /\ sctx'[s].state = "OPCODE" /\ sctx'[s].base = sctx[s].base
          /\ sctx'[s].ricnt = sctx[s].ricnt
          /\ \A x \in Streams \ {s} : sctx'[x] = sctx[x]
      BY <1>1, <3>1 DEF DecP!Context
    <3>3. Here(s, z)' = q
      BY <1>3, <2>3, <2>5, <3>2 DEF Here, Where
    <3>4. Acknowledges(R, N, z, s, z)
      BY <3>1 DEF Acknowledges
    <3>. QED
      BY <1>1, <1>2, <1>5, <2>1, <2>2, <2>3, <3>2, <3>3, <3>4 DEF Advances, f
  <2>. QED
    BY <2>4, <2>5
<1>. QED
  BY <1>6, <1>7

\* nghttp3_qpack_decoder_read_request on a token of this encoder: it fails
\* only when too many acknowledgments wait to be written.
LEMMA TokenAdvances ==
  ASSUME Compatible, NEW R, NEW N, NEW z, NEW W, NEW s, Reading(R, N, z, s),
         Content(W), Parked, WithinLimit, derr = "none",
         NEW t, NEW q, <<Here(s, z), t, q>> \in Reads(R[s], N[s], W, want[s]),
         DecP!ReadToken(s, t), UNCHANGED <<shut, closed>>
  PROVE  Advances(R, N, z, s, q) \/ DecP!Fail("FATAL")
<1>1. /\ q \in Place
      /\ \/ ReadsRicnt(R[s], N[s], Here(s, z), t, q) \/ ReadsBase(Here(s, z), t, q)
         \/ ReadsLine(R[s], N[s], W, want[s], Here(s, z), t, q)
  BY ReadParts
<1>2. sctx[s].state \in DecP!States
  BY DEF Reading, ConnInv, Sides, DecoderSide, DecP!IInv, DecP!TypeOK, DecP!Context
<1>3. CASE ReadsRicnt(R[s], N[s], Here(s, z), t, q)
  <2>1. sctx[s].state = "RICNT"
    BY <1>2, <1>3, HereParts DEF ReadsRicnt, DecP!States
  <2>2. DecP!ReadRicnt(s, t)
    BY <2>1 DEF DecP!ReadToken
  <2>. QED
    BY <1>1, <1>3, <2>2, RicntAdvances
<1>4. CASE ReadsBase(Here(s, z), t, q)
  <2>1. sctx[s].state = "DBASE"
    BY <1>2, <1>4, HereParts DEF ReadsBase, DecP!States
  <2>2. DecP!ReadBase(s, t)
    BY <2>1 DEF DecP!ReadToken
  <2>. QED
    BY <1>1, <1>4, <2>2, BaseAdvances
<1>5. CASE ReadsLine(R[s], N[s], W, want[s], Here(s, z), t, q)
  <2>1. sctx[s].state \in {"OPCODE", "BLOCKED"}
    BY <1>2, <1>5, HereParts DEF ReadsLine, DecP!States
  <2>2. DecP!ReadLine(s, t)
    BY <2>1 DEF DecP!ReadToken
  <2>. QED
    BY <1>1, <1>5, <2>2, LineAdvances
<1>. QED
  BY <1>1, <1>3, <1>4, <1>5

-----------------------------------------------------------------------------
(* The invariant *)

\* A section under construction does not get too far ahead of the decoder.
InReach ==
  cur # NoSection =>
    /\ Len(cur.lines) <= MaxLines
    /\ tab.next + MaxLines - Len(cur.lines) <= dtab.next + MaxLag

Standing ==
  /\ ConnInv /\ ebad = FALSE /\ want \in [Streams -> Seq(Field)]
  /\ Spaced /\ WithinLimit /\ Parked /\ InReach

Agreed(R, N, z, W) ==
  /\ Settled(R, N, z) /\ Counts(R, N) /\ Content(W)
  /\ Placed(R, N, z) /\ Told(R, N, z, W) /\ Telling(W)

DeliveryInv == Standing /\ \E R, N, z, W : Agreed(R, N, z, W)

\* Nothing is acknowledged.
LEMMA SettledRests ==
  ASSUME NEW R, NEW N, NEW z, Settled(R, N, z),
         UNCHANGED <<krcnt, refs, dstream, dbuf, written, closed>>
  PROVE  Settled(R, N, z)'
<1>1. Numbered(R, N)'
  BY DEF Settled, Numbered
<1>2. Settling(R, N, z, dstream \o dbuf)'
  <2>1. PICK p \in Settlement :
          /\ Brings(Moves(R, z), p, dstream \o dbuf, z) /\ Within(p, z) /\ Knows(R, N, p)
    BY DEF Settled, Settling
  <2>2. Knows(R, N, p)' /\ dstream' \o dbuf' = dstream \o dbuf
    BY <2>1 DEF Knows
  <2>3. /\ z \in Settlement /\ \A s \in Streams : z.acked[s] <= N[s]
        /\ dstream \o dbuf \in Seq(Acks \cup Incs)
    BY DEF Settled, Settling
  <2>. QED
    BY <2>1, <2>2, <2>3 DEF Settling
<1>. QED
  BY <1>1, <1>2 DEF Settled

\* The two tables only grow.
LEMMA CountsRest ==
  ASSUME ConnInv, ConnInv', NEW R, NEW N, Numbered(R, N), Counts(R, N),
         tab.next <= tab'.next, dtab.next <= dtab'.next, Compatible
  PROVE  Counts(R, N)'
<1>1. /\ tab.next \in Nat /\ dtab.next \in Nat /\ tab'.next \in Nat /\ dtab'.next \in Nat
      /\ MaxLag \in Nat
  <2>1. tab'.next \in Nat /\ dtab'.next \in Nat
    BY DEF ConnInv, Sides, EncoderSide, EncP!IInv, EncP!TypeOK, EncP!IsTable,
           DecoderSide, DecP!IInv, DecP!TypeOK, DecP!IsTable
  <2>. QED
    BY <2>1, SidesType DEF ConnInv, Compatible
<1>2. SUFFICES ASSUME NEW s \in Streams, NEW j \in 1 .. N[s]
               PROVE  /\ 1 <= R[s][j].min_cnt /\ R[s][j].min_cnt <= R[s][j].max_cnt
                      /\ R[s][j].max_cnt <= tab'.next
                      /\ R[s][j].max_cnt <= dtab'.next + MaxLag
  BY DEF Counts
<1>3. R[s][j].max_cnt \in Nat
  <2>1. R[s] \in [Nat -> EncP!Ref] /\ N[s] \in Nat
    BY DEF Numbered
  <2>2. R[s][j] \in EncP!Ref
    BY <2>1
  <2>. QED
    BY <2>2 DEF EncP!Ref
<1>4. /\ 1 <= R[s][j].min_cnt /\ R[s][j].min_cnt <= R[s][j].max_cnt
      /\ R[s][j].max_cnt <= tab.next /\ R[s][j].max_cnt <= dtab.next + MaxLag
  BY DEF Counts
<1>. QED
  BY <1>1, <1>3, <1>4

\* No reader moves, and nothing new is said to it.
LEMMA ToldRests ==
  ASSUME NEW R, NEW N, NEW z, NEW W, Told(R, N, z, W), derr' = "none" => derr = "none",
         \A s \in Streams \ closed' :
           /\ s \notin closed /\ sctx'[s] = sctx[s] /\ got'[s] = got[s]
           /\ inq'[s] \o rstream'[s] = inq[s] \o rstream[s]
           /\ want'[s] = want[s] /\ Untold(s)' = Untold(s)
  PROVE  Told(R, N, z, W)'
<1>1. SUFFICES ASSUME derr' = "none", NEW s \in Streams \ closed'
               PROVE  Brings(Reads(R[s], N[s], W, want'[s]), Here(s, z)',
                             inq'[s] \o rstream'[s], There(s, N)')
  BY DEF Told
<1>2. Brings(Reads(R[s], N[s], W, want[s]), Here(s, z), inq[s] \o rstream[s], There(s, N))
  BY <1>1 DEF Told
<1>3. Here(s, z)' = Here(s, z) /\ There(s, N)' = There(s, N)
  BY <1>1 DEF Here, There
<1>. QED
  BY <1>1, <1>2, <1>3

\* The encoder rests.
LEMMA EncoderSays ==
  ASSUME NEW W, Content(W), Telling(W), UNCHANGED <<tab, cur, want>>
  PROVE  Content(W)' /\ Telling(W)'
  BY DEF Content, Telling

\* The encoder and its application rest while the decoder's table stays.
LEMMA StandingRests ==
  ASSUME Standing, ConnInv', UNCHANGED <<encVars, want, settings, dtab>>, Parked'
  PROVE  Standing'
<1>1. UNCHANGED <<tab, cap, maxBlocked, krcnt, refs, blocked, ebad, cur>>
      /\ UNCHANGED <<want, settings, dtab>>
  BY DEF encVars
<1>2. Spaced' /\ InReach'
  BY <1>1 DEF Standing, Spaced, InReach
<1>3. WithinLimit'
  <2>1. EncP!IInv' /\ EncP!BlockedInv
    BY DEF ConnInv, Sides, EncoderSide, Standing, WithinLimit
  <2>2. EncP!BlockedInv'
    BY <1>1, <2>1 DEF EncP!BlockedInv, EncP!LeaveToBlock
  <2>. QED
    BY <1>1, <2>2 DEF Standing, WithinLimit
<1>. QED
  BY <1>1, <1>2, <1>3 DEF Standing

\* What the decoder acknowledged is on its way.
LEMMA SettledAdvances ==
  ASSUME NEW R, NEW N, NEW z, Settled(R, N, z), Network, NEW s \in Streams,
         dbuf \in Seq(Acks), UNCHANGED <<krcnt, refs, dstream, closed>>,
         NEW y \in Settlement, Acknowledges(R, N, z, s, y)
  PROVE  Settled(R, N, y)'
<1>1. CASE y = z /\ UNCHANGED <<dbuf, written>>
  BY <1>1, SettledRests
<1>. DEFINE i == [op |-> "Ack", stream |-> s]
<1>2. CASE /\ dbuf' = Append(dbuf, i) /\ <<z, i, y>> \in Moves(R, y)
           /\ y.cnt = written' /\ y.gone = z.gone
           /\ y.acked[s] <= N[s] /\ \A x \in Streams \ {s} : y.acked[x] = z.acked[x]
  <2>1. PICK q : q = dstream \o dbuf
    OBVIOUS
  <2>2. Settling(R, N, z, q) /\ Numbered(R, N) /\ z.gone \subseteq closed
    BY <2>1 DEF Settled
  <2>3. \A x \in Streams : y.acked[x] <= N[x]
    BY <1>2, <2>2 DEF Settling
  <2>. HIDE DEF i
  <2>4. Settling(R, N, y, q \o <<i>>)'
    BY <1>2, <2>2, <2>3, SettlingWrite
  <2>5. dstream' \o dbuf' = q \o <<i>>
    <3>0. i \in Acks
      BY DEF Acks, i
    <3>1. /\ dstream \in Seq(Acks \cup Incs) /\ dbuf \in Seq(Acks \cup Incs)
          /\ i \in Acks \cup Incs
      BY <3>0 DEF Network
    <3>2. dbuf' = dbuf \o <<i>>
      BY <1>2, <3>1
    <3>. HIDE DEF i
    <3>3. dstream \o (dbuf \o <<i>>) = (dstream \o dbuf) \o <<i>>
      BY <3>1, Appended
    <3>. QED
      BY <2>1, <3>2, <3>3
  <2>6. Settling(R, N, y, dstream \o dbuf)'
    BY <2>4, <2>5 DEF Settling
  <2>7. Numbered(R, N)'
    BY <2>2 DEF Numbered
  <2>. QED
    BY <1>2, <2>2, <2>6, <2>7 DEF Settled
<1>. QED
  BY <1>1, <1>2 DEF Acknowledges

\* The decoder's steps change neither what the encoder nor what its
\* application has.
DecodingSide == UNCHANGED <<encVars, dstream, appVars>>

\* A token is read.
LEMMA AdvanceKeeps ==
  ASSUME Standing, ConnInv', NEW R, NEW N, NEW z, NEW W, Agreed(R, N, z, W), Compatible,
         derr = "none", NEW s \in Streams \ closed, s \notin bq, NEW q,
         Advances(R, N, z, s, q), DecodingSide, mode' = mode,
         Brings(Reads(R[s], N[s], W, want[s]), q, inq'[s] \o rstream'[s], There(s, N)),
         \A x \in Streams \ {s} : inq'[x] \o rstream'[x] = inq[x] \o rstream[x]
  PROVE  Standing' /\ \E y : Agreed(R, N, y, W)'
<1>1. /\ UNCHANGED <<tab, cur, krcnt, refs, want, dtab, dstream, shut, closed, settings>>
      /\ derr' = "none"
  BY DEF DecodingSide, encVars, appVars, Advances
<1>2. PICK y \in Settlement :
        /\ Acknowledges(R, N, z, s, y) /\ Here(s, y)' = q
        /\ sctx'[s].ricnt # 0 =>
             y.acked[s] < N[s] /\ sctx'[s].ricnt = R[s][y.acked[s] + 1].max_cnt
  BY DEF Advances
<1>3. /\ \A x \in Streams \ {s} : sctx'[x] = sctx[x] /\ got'[x] = got[x]
      /\ \/ bq' = bq
         \/ /\ bq' = bq \cup {s} /\ krcnt < sctx'[s].ricnt /\ sctx'[s].ricnt > dtab.next
      /\ bq \in SUBSET Streams
  BY DEF Advances, Standing, ConnInv, Sides, DecoderSide, DecP!IInv, DecP!TypeOK
<1>4. Settled(R, N, y)'
  <2>1. dbuf \in Seq(Acks)
    BY DEF Standing, ConnInv, Sides, DecoderSide, DecP!IInv, DecP!TypeOK, Acks
  <2>. QED
    BY <1>1, <1>2, <2>1, SettledAdvances DEF Agreed, Standing, ConnInv, Sides
<1>5. Counts(R, N)' /\ Content(W)' /\ Telling(W)'
  BY <1>1, EncoderSays DEF Agreed, Counts
<1>6. \A x \in Streams \ {s} : y.acked[x] = z.acked[x]
  BY <1>2 DEF Acknowledges
<1>7. Placed(R, N, y)'
  BY <1>1, <1>2, <1>3, <1>6 DEF Agreed, Placed
<1>8. Told(R, N, y, W)'
  <2>1. SUFFICES ASSUME NEW x \in Streams \ closed
                 PROVE  Brings(Reads(R[x], N[x], W, want[x]), Here(x, y)',
                               inq'[x] \o rstream'[x], There(x, N))
    BY <1>1 DEF Told, There, Untold
  <2>2. CASE x = s
    BY <1>2, <2>2
  <2>3. CASE x # s
    <3>1. Here(x, y)' = Here(x, z)
      BY <1>3, <1>6, <2>3 DEF Here
    <3>2. inq'[x] \o rstream'[x] = inq[x] \o rstream[x]
      BY <2>3
    <3>3. Brings(Reads(R[x], N[x], W, want[x]), Here(x, z), inq[x] \o rstream[x],
                 There(x, N))
      BY DEF Agreed, Told
    <3>. QED
      BY <3>1, <3>2, <3>3
  <2>. QED
    BY <2>2, <2>3
<1>9. Parked'
  BY <1>1, <1>3 DEF Standing, Parked
<1>10. Standing'
  BY <1>1, <1>9, StandingRests DEF DecodingSide, appVars
<1>. QED
  BY <1>4, <1>5, <1>7, <1>8, <1>10 DEF Agreed

\* Nothing is read: the readers stay where they are.
LEMMA StillKeeps ==
  ASSUME Standing, ConnInv', NEW R, NEW N, NEW z, NEW W, Agreed(R, N, z, W),
         DecodingSide, derr' = "none" => derr = "none", Parked',
         UNCHANGED <<dtab, dbuf, written, sctx, got, closed>>,
         derr' = "none" =>
           \A x \in Streams : inq'[x] \o rstream'[x] = inq[x] \o rstream[x]
  PROVE  Standing' /\ Agreed(R, N, z, W)'
<1>1. /\ UNCHANGED <<tab, cur, krcnt, refs, want, dstream, settings>>
  BY DEF DecodingSide, encVars, appVars
<1>2. Settled(R, N, z)'
  BY <1>1, SettledRests DEF Agreed
<1>3. Counts(R, N)' /\ Content(W)' /\ Telling(W)' /\ Placed(R, N, z)'
  BY <1>1, EncoderSays DEF Agreed, Counts, Placed
<1>4. Told(R, N, z, W)'
  <2>1. CASE derr' = "none"
    BY <1>1, <2>1, ToldRests DEF Agreed, Untold
  <2>2. CASE derr' # "none"
    BY <2>2 DEF Told
  <2>. QED
    BY <2>1, <2>2
<1>5. Standing'
  BY <1>1, StandingRests DEF DecodingSide, appVars
<1>. QED
  BY <1>2, <1>3, <1>4, <1>5 DEF Agreed

\* A failed call changes nothing.
LEMMA FailKeeps ==
  ASSUME Standing, ConnInv', NEW R, NEW N, NEW z, NEW W, Agreed(R, N, z, W),
         DecodingSide, NEW e, e # "none", DecP!Fail(e)
  PROVE  Standing' /\ Agreed(R, N, z, W)'
<1>1. /\ derr' = e
      /\ UNCHANGED <<dtab, dbuf, written, sctx, bq, closed, got, mode>>
  BY DEF DecP!Fail, DecP!tableVars, DecP!ackVars, DecP!streamVars
<1>2. Parked'
  BY <1>1 DEF Standing, Parked, DecodingSide, encVars
<1>. QED
  BY <1>1, <1>2, StillKeeps

\* What a step may do to the applications: HeaderDelivery.  Calls fail only by
\* the limits on what is buffered.
Tells ==
  /\ UNCHANGED <<want, got>> \/ Delivery!Next
  /\ derr' \in {derr, "FATAL", "ENCODER_STREAM"}

\* A token delivers the next field of its stream, or none.
LEMMA AdvanceTells ==
  ASSUME NEW R, NEW N, NEW z, NEW s \in Streams, NEW q, Advances(R, N, z, s, q),
         want' = want, derr = "none"
  PROVE  Tells
<1>1. \/ got' = got
      \/ /\ Len(got[s]) < Len(want[s])
         /\ got' = [got EXCEPT ![s] = Append(got[s], want[s][Len(got[s]) + 1])]
  BY DEF Advances
<1>2. UNCHANGED <<want, got>> \/ Delivery!Next
  BY <1>1 DEF Delivery!Next, Delivery!Deliver
<1>. QED
  BY <1>2 DEF Advances, Tells

\* A failed call delivers nothing.
LEMMA FailTells ==
  ASSUME NEW e \in {"FATAL", "ENCODER_STREAM"}, DecP!Fail(e), want' = want
  PROVE  Tells
  BY DEF DecP!Fail, DecP!streamVars, Tells

-----------------------------------------------------------------------------
(* The steps of the decoding side *)

\* Tokens are taken from the front, or moved from the stream to its buffer.
LEMMA Rebuffered ==
  ASSUME NEW p \in Seq(Token), NEW r \in Seq(Token), r # <<>>
  PROVE  Append(p, Head(r)) \o Tail(r) = p \o r
<1>1. r = <<Head(r)>> \o Tail(r) /\ Append(p, Head(r)) = p \o <<Head(r)>>
  OBVIOUS
<1>2. (p \o <<Head(r)>>) \o Tail(r) = p \o (<<Head(r)>> \o Tail(r))
  OBVIOUS
<1>. QED
  BY <1>1, <1>2

\* What is buffered is read first.
LEMMA BufferFront ==
  ASSUME NEW p \in Seq(Token), NEW r \in Seq(Token), p # <<>>
  PROVE  p \o r # <<>> /\ Head(p \o r) = Head(p) /\ Tail(p \o r) = Tail(p) \o r
  OBVIOUS

\* nghttp3_conn_read_bidi
LEMMA TokenDelivers ==
  ASSUME Standing, ConnInv', NEW R, NEW N, NEW z, NEW W, Agreed(R, N, z, W), Compatible,
         NEW s \in Streams, ReadRequestStream(s)
  PROVE  Standing' /\ (\E y : Agreed(R, N, y, W)') /\ Tells
<1>. DEFINE tok == Head(rstream[s])
<1>1. /\ DecP!ReadStream(s, tok) /\ rstream[s] # <<>>
      /\ rstream' = [rstream EXCEPT ![s] = Tail(rstream[s])]
      /\ DecodingSide
  BY DecStream DEF ReadRequestStream, DecodingSide
<1>2. /\ derr = "none" /\ mode = "idle" /\ s \notin closed /\ s \notin shut
  BY <1>1 DEF DecP!ReadStream, Standing, ConnInv, Sides, DecoderSide
<1>3. /\ rstream \in [Streams -> Seq(Token)] /\ inq \in [Streams -> Seq(Token)]
      /\ rstream[s] \in Seq(Token) /\ inq[s] \in Seq(Token)
      /\ rstream'[s] = Tail(rstream[s])
      /\ \A x \in Streams \ {s} : rstream'[x] = rstream[x]
  BY <1>1 DEF Standing, ConnInv, Sides, Network, DecoderSide, DecP!IInv, DecP!TypeOK
<1>4. CASE s \in bq
  <2>1. /\ inq' = [inq EXCEPT ![s] = Append(inq[s], tok)]
        /\ UNCHANGED <<DecP!tableVars, DecP!ackVars, sctx, bq, closed, got, mode, derr>>
    BY <1>1, <1>2, <1>4 DEF DecP!ReadStream
  <2>2. /\ inq'[s] = Append(inq[s], tok) /\ \A x \in Streams \ {s} : inq'[x] = inq[x]
    BY <1>3, <2>1
  <2>3. inq'[s] \o rstream'[s] = inq[s] \o rstream[s]
    BY <1>1, <1>3, <2>2, Rebuffered
  <2>4. \A x \in Streams : inq'[x] \o rstream'[x] = inq[x] \o rstream[x]
    BY <1>3, <2>2, <2>3
  <2>5. UNCHANGED <<dtab, dbuf, written, sctx, got, closed, bq, mode, derr>>
    BY <2>1 DEF DecP!tableVars, DecP!ackVars
  <2>6. Parked'
    BY <1>1, <2>5 DEF Standing, Parked, DecodingSide, encVars
  <2>7. Tells
    BY <1>1, <2>5 DEF DecodingSide, appVars, Tells
  <2>. QED
    BY <1>1, <2>4, <2>5, <2>6, <2>7, StillKeeps
<1>5. CASE s \notin bq
  <2>1. DecP!ReadToken(s, tok) /\ UNCHANGED <<inq, shut, closed, mode>>
    BY <1>1, <1>2, <1>5 DEF DecP!ReadStream
  <2>2. inq[s] = <<>>
    <3>1. mode # s
      BY <1>2, DecoderConstants DEF DecP!DecoderAssumption
    <3>. QED
      BY <1>2, <1>5, <3>1
      DEF Standing, ConnInv, Sides, DecoderSide, DecP!IInv, DecP!BufferReadFirst
  <2>3. /\ inq[s] \o rstream[s] = rstream[s] /\ inq'[s] \o rstream'[s] = Tail(rstream[s])
        /\ Tail(rstream[s]) \in Seq(Token)
    <3>1. PICK r \in Seq(Token) : r = rstream[s] /\ r # <<>>
      BY <1>1, <1>3
    <3>2. <<>> \o r = r /\ <<>> \o Tail(r) = Tail(r) /\ Tail(r) \in Seq(Token)
      BY <3>1
    <3>3. inq'[s] = <<>> /\ rstream'[s] = Tail(r)
      BY <1>3, <2>1, <2>2, <3>1
    <3>. QED
      BY <2>2, <3>1, <3>2, <3>3
  <2>4. Brings(Reads(R[s], N[s], W, want[s]), Here(s, z), rstream[s], There(s, N))
    BY <1>2, <2>3 DEF Agreed, Told
  <2>5. PICK q : /\ <<Here(s, z), tok, q>> \in Reads(R[s], N[s], W, want[s])
                 /\ Brings(Reads(R[s], N[s], W, want[s]), q, Tail(rstream[s]), There(s, N))
    BY <1>1, <1>3, <2>4, BringsTail
  <2>6. /\ Reading(R, N, z, s) /\ Content(W) /\ Parked /\ WithinLimit
    BY <1>2, <1>5 DEF Agreed, Standing, Reading
  <2>. HIDE DEF tok
  <2>7. Advances(R, N, z, s, q) \/ DecP!Fail("FATAL")
    BY <1>2, <2>1, <2>5, <2>6, TokenAdvances
  <2>8. \A x \in Streams \ {s} : inq'[x] \o rstream'[x] = inq[x] \o rstream[x]
    BY <1>3, <2>1
  <2>11. want' = want
    BY <1>1 DEF DecodingSide, appVars
  <2>9. CASE Advances(R, N, z, s, q)
    BY <1>1, <1>2, <1>5, <2>1, <2>3, <2>5, <2>8, <2>9, <2>11, AdvanceKeeps, AdvanceTells
  <2>10. CASE DecP!Fail("FATAL")
    BY <1>1, <2>10, <2>11, FailKeeps, FailTells
  <2>. QED
    BY <2>7, <2>9, <2>10
<1>. QED
  BY <1>4, <1>5

\* conn_process_blocked_stream_data
LEMMA BufferDelivers ==
  ASSUME Standing, ConnInv', NEW R, NEW N, NEW z, NEW W, Agreed(R, N, z, W), Compatible,
         NEW s \in Streams, DecP!ProcessBuffered(s), UNCHANGED <<encVars, netVars, appVars>>
  PROVE  Standing' /\ (\E y : Agreed(R, N, y, W)') /\ Tells
<1>1. /\ DecodingSide /\ rstream' = rstream
  BY DEF DecodingSide, netVars
<1>2. /\ derr = "none" /\ mode = s /\ s \notin shut /\ s \notin closed
  BY DEF DecP!ProcessBuffered, Standing, ConnInv, Sides, DecoderSide, Parked
<1>3. /\ rstream \in [Streams -> Seq(Token)] /\ inq \in [Streams -> Seq(Token)]
      /\ rstream[s] \in Seq(Token) /\ inq[s] \in Seq(Token)
  BY DEF Standing, ConnInv, Sides, Network, DecoderSide, DecP!IInv, DecP!TypeOK
<1>4. CASE inq[s] = <<>> \/ s \in bq
  <2>1. /\ mode' = "unblock"
        /\ UNCHANGED <<DecP!tableVars, DecP!ackVars, elen, DecP!streamVars, derr>>
    BY <1>4 DEF DecP!ProcessBuffered
  <2>2. UNCHANGED <<dtab, dbuf, written, sctx, got, closed, bq, inq, derr>>
    BY <2>1 DEF DecP!tableVars, DecP!ackVars, DecP!streamVars
  <2>3. mode' \notin Streams /\ mode' # "idle"
    BY <2>1, DecoderConstants DEF DecP!DecoderAssumption
  <2>4. Parked'
    BY <1>1, <2>2, <2>3 DEF Standing, Parked, DecodingSide, encVars
  <2>5. Tells
    BY <1>1, <2>2 DEF DecodingSide, appVars, Tells
  <2>. QED
    BY <1>1, <2>2, <2>4, <2>5, StillKeeps
<1>5. CASE inq[s] # <<>> /\ s \notin bq
  <2>. DEFINE tok == Head(inq[s])
  <2>1. /\ DecP!ReadToken(s, tok) /\ UNCHANGED <<shut, closed, mode>>
        /\ inq' = IF derr' = "none" THEN [inq EXCEPT ![s] = Tail(inq[s])] ELSE inq
    BY <1>2, <1>5 DEF DecP!ProcessBuffered
  <2>2. /\ inq[s] \o rstream[s] # <<>> /\ Head(inq[s] \o rstream[s]) = tok
        /\ Tail(inq[s] \o rstream[s]) = Tail(inq[s]) \o rstream[s]
        /\ inq[s] \o rstream[s] \in Seq(Token)
    BY <1>3, <1>5, BufferFront
  <2>3. Brings(Reads(R[s], N[s], W, want[s]), Here(s, z), inq[s] \o rstream[s],
               There(s, N))
    BY <1>2 DEF Agreed, Told
  <2>. HIDE DEF tok
  <2>4. PICK q : /\ <<Here(s, z), tok, q>> \in Reads(R[s], N[s], W, want[s])
                 /\ Brings(Reads(R[s], N[s], W, want[s]), q, Tail(inq[s]) \o rstream[s],
                           There(s, N))
    <3>1. PICK r \in Seq(Token) : /\ r = inq[s] \o rstream[s] /\ r # <<>> /\ Head(r) = tok
                                  /\ Tail(r) = Tail(inq[s]) \o rstream[s]
      BY <2>2
    <3>2. PICK q : /\ <<Here(s, z), Head(r), q>> \in Reads(R[s], N[s], W, want[s])
                   /\ Brings(Reads(R[s], N[s], W, want[s]), q, Tail(r), There(s, N))
      BY <2>3, <3>1, BringsTail
    <3>. QED
      BY <3>1, <3>2
  <2>5. /\ Reading(R, N, z, s) /\ Content(W) /\ Parked /\ WithinLimit
    BY <1>2, <1>5 DEF Agreed, Standing, Reading
  <2>6. Advances(R, N, z, s, q) \/ DecP!Fail("FATAL")
    BY <1>2, <2>1, <2>4, <2>5, TokenAdvances
  <2>7. CASE Advances(R, N, z, s, q)
    <3>1. inq' = [inq EXCEPT ![s] = Tail(inq[s])]
      BY <2>1, <2>7 DEF Advances
    <3>2. inq'[s] = Tail(inq[s]) /\ \A x \in Streams \ {s} : inq'[x] = inq[x]
      BY <1>3, <3>1
    <3>3. inq'[s] \o rstream'[s] = Tail(inq[s]) \o rstream[s]
      BY <1>1, <3>2
    <3>4. \A x \in Streams \ {s} : inq'[x] \o rstream'[x] = inq[x] \o rstream[x]
      BY <1>1, <3>2
    <3>5. want' = want
      BY <1>1 DEF DecodingSide, appVars
    <3>6. Tells
      BY <1>2, <2>7, <3>5, AdvanceTells
    <3>. QED
      BY <1>1, <1>2, <1>5, <2>1, <2>4, <2>7, <3>3, <3>4, <3>6, AdvanceKeeps
  <2>8. CASE DecP!Fail("FATAL")
    <3>1. want' = want
      BY <1>1 DEF DecodingSide, appVars
    <3>. QED
      BY <1>1, <2>8, <3>1, FailKeeps, FailTells
  <2>. QED
    BY <2>6, <2>7, <2>8
<1>. QED
  BY <1>4, <1>5

\* The loop of nghttp3_conn_read_qpack_encoder
LEMMA UnblockDelivers ==
  ASSUME Standing, ConnInv', NEW R, NEW N, NEW z, NEW W, Agreed(R, N, z, W),
         DecP!UnblockNext, UNCHANGED <<encVars, netVars, appVars>>
  PROVE  Standing' /\ Agreed(R, N, z, W)'
<1>1. /\ DecodingSide /\ rstream' = rstream
  BY DEF DecodingSide, netVars
<1>2. UNCHANGED <<dtab, dbuf, written, sctx, got, closed, inq, derr>> /\ derr = "none"
  BY DEF DecP!UnblockNext, DecP!tableVars, DecP!ackVars
<1>3. bq' \subseteq bq /\ (mode' = "idle" \/ mode' \in bq)
  BY DEF DecP!UnblockNext, DecP!Unblockable
<1>4. mode' = "idle" => \A s \in bq' : sctx'[s].ricnt > dtab'.next
  BY <1>2 DEF ConnInv, Sides, DecoderSide, DecP!IInv, DecP!ParkedStreamsMustWait
<1>5. Parked'
  <2>1. mode' \in Streams => mode' \notin closed
    BY <1>3, DecoderConstants DEF Standing, Parked, DecP!DecoderAssumption
  <2>. QED
    BY <1>1, <1>2, <1>3, <1>4, <2>1 DEF Standing, Parked, DecodingSide, encVars
<1>. QED
  BY <1>1, <1>2, <1>5, StillKeeps
\* nghttp3_qpack_decoder_write_decoder: the insertions not yet acknowledged
\* are acknowledged by an Insert Count Increment behind what was written.
LEMMA WriteAcknowledges ==
  ASSUME Standing, NEW R, NEW N, NEW z, Settled(R, N, z), WriteDecoderStream
  PROVE  \E y \in Settlement : Settled(R, N, y)' /\ y.acked = z.acked
<1>1. /\ DecP!WriteDecoder /\ dstream' = dstream \o DecP!DecoderStream
      /\ dbuf' = <<>> /\ written' = DecP!Max({written, dtab.next})
      /\ UNCHANGED <<krcnt, refs, closed>>
  BY DecWrite DEF WriteDecoderStream, encVars, DecP!WriteDecoder, DecP!streamVars
<1>2. /\ dbuf \in Seq(Acks) /\ written \in Nat /\ dtab.next \in Nat
      /\ written <= dtab.next /\ dstream \in Seq(Acks \cup Incs)
  BY DEF Standing, ConnInv, Sides, Network, DecoderSide, DecP!IInv, DecP!TypeOK,
         DecP!IsTable, Acks, DecP!ReadingImpliesReceived
<1>3. dbuf \in Seq(Acks \cup Incs)
  <2>1. Acks \subseteq Acks \cup Incs
    OBVIOUS
  <2>. HIDE DEF Acks, Incs
  <2>. QED
    BY <1>2, <2>1
<1>4. written' = dtab.next
  <2>1. {written, dtab.next} \in SUBSET Nat /\ {written, dtab.next} # {}
        /\ \A n \in {written, dtab.next} : n <= dtab.next
    BY <1>2
  <2>2. /\ DecP!Max({written, dtab.next}) \in {written, dtab.next}
        /\ \A n \in {written, dtab.next} : n <= DecP!Max({written, dtab.next})
    BY <1>2, <2>1, DecoderConstants, DecP!MaxIsGreatest
  <2>. QED
    BY <1>1, <1>2, <2>2
<1>5. PICK q \in Seq(Acks \cup Incs) : q = dstream \o dbuf
  BY <1>2, <1>3, Concatenation
<1>6. Settling(R, N, z, q) /\ Numbered(R, N) /\ z.gone \subseteq closed
      /\ z.cnt = written
  BY <1>5 DEF Settled
<1>7. Numbered(R, N)'
  BY <1>1, <1>6 DEF Numbered
<1>8. CASE written = dtab.next
  <2>1. DecP!DecoderStream = dbuf
    <3>1. DecP!DecoderStream = dbuf \o <<>>
      BY <1>2, <1>8 DEF DecP!DecoderStream
    <3>. QED
      BY <1>3, <3>1
  <2>2. dstream' \o dbuf' = q
    BY <1>1, <1>5, <2>1
  <2>3. Settling(R, N, z, dstream \o dbuf)'
    BY <1>1, <1>6, <2>2 DEF Settling, Knows, Moves
  <2>. QED
    BY <1>1, <1>4, <1>6, <1>7, <1>8, <2>3 DEF Settled, Settling
<1>9. CASE written < dtab.next
  <2>0. PICK i, y : /\ i = [op |-> "Inc", n |-> dtab.next - written]
                    /\ y = [acked |-> z.acked, cnt |-> dtab.next, gone |-> z.gone]
    OBVIOUS
  <2>1. i \in Incs /\ i.op = "Inc" /\ i.n \in Nat \ {0} /\ z.cnt + i.n <= dtab.next
    BY <1>2, <1>6, <1>9, <2>0 DEF Incs
  <2>2. y.acked = z.acked /\ y.cnt = dtab.next /\ y.gone = z.gone
    BY <2>0
  <2>3. z \in Settlement /\ y \in Settlement
    BY <1>2, <1>6, <2>0 DEF Settling, Settlement
  <2>4. \A s \in Streams : z.acked[s] \in Nat /\ z.acked[s] <= N[s]
    BY <1>6 DEF Settling, Settlement
  <2>5. DecP!DecoderStream = dbuf \o <<i>>
    BY <1>9, <2>0 DEF DecP!DecoderStream, DecP!Increment
  <2>6. Within(z, y) /\ Within(y, y)
    BY <1>2, <1>6, <1>9, <2>2, <2>4 DEF Within
  <2>7. Settles(R, z, i, y)
    BY <2>1, <2>2 DEF Settles
  <2>8. <<z, i, y>> \in Moves(R, y)
    BY <2>1, <2>3, <2>6, <2>7, MoveParts
  <2>9. Settling(R, N, y, q \o <<i>>)'
    BY <1>1, <1>6, <2>2, <2>4, <2>8, SettlingWrite
  <2>10. dstream' \o dbuf' = q \o <<i>>
    <3>1. dstream \o (dbuf \o <<i>>) = (dstream \o dbuf) \o <<i>>
      BY <1>2, <1>3, <2>1, Appended
    <3>2. PICK w \in Seq(Acks \cup Incs) : w = q \o <<i>>
      <4>. DEFINE S == Acks \cup Incs
      <4>1. i \in S /\ q \in Seq(S)
        BY <2>1
      <4>. HIDE DEF S
      <4>2. q \o <<i>> \in Seq(S)
        BY <4>1
      <4>. QED
        BY <4>2 DEF S
    <3>3. w \o <<>> = w
      BY <3>2
    <3>. QED
      BY <1>1, <1>5, <2>5, <3>1, <3>2, <3>3
  <2>11. Settling(R, N, y, dstream \o dbuf)'
    BY <2>9, <2>10 DEF Settling
  <2>. QED
    BY <1>1, <1>4, <1>6, <1>7, <2>2, <2>3, <2>11 DEF Settled
<1>. QED
  BY <1>2, <1>8, <1>9

\* The decoder stream is written: no reader moves.
LEMMA WriteDelivers ==
  ASSUME Standing, ConnInv', NEW R, NEW N, NEW z, NEW W, Agreed(R, N, z, W),
         WriteDecoderStream
  PROVE  Standing' /\ \E y : Agreed(R, N, y, W)'
<1>1. PICK y \in Settlement : Settled(R, N, y)' /\ y.acked = z.acked
  BY WriteAcknowledges DEF Agreed
<1>2. /\ UNCHANGED <<tab, cur, krcnt, want, settings, rstream>> /\ UNCHANGED encVars
      /\ UNCHANGED <<dtab, sctx, bq, inq, closed, got, mode, derr>>
  BY DecWrite
  DEF WriteDecoderStream, encVars, appVars, DecP!WriteDecoder, DecP!tableVars,
      DecP!streamVars
<1>3. Counts(R, N)' /\ Content(W)' /\ Telling(W)' /\ Placed(R, N, y)'
  BY <1>1, <1>2, EncoderSays DEF Agreed, Counts, Placed
<1>4. Told(R, N, y, W)'
  <2>1. Told(R, N, z, W)'
    BY <1>2, ToldRests DEF Agreed, Untold
  <2>2. \A s : Here(s, y)' = Here(s, z)'
    BY <1>1 DEF Here
  <2>. QED
    BY <2>1, <2>2 DEF Told
<1>5. Parked'
  BY <1>2 DEF Standing, Parked
<1>6. Standing'
  BY <1>2, <1>5, StandingRests
<1>. QED
  BY <1>1, <1>3, <1>4, <1>6 DEF Agreed
\* conn_delete_stream: a stream that is parked is cancelled.
LEMMA CloseCancels ==
  ASSUME Standing, NEW R, NEW N, NEW z, Settled(R, N, z), NEW s \in Streams,
         UNCHANGED <<krcnt, refs, dstream, written>>, closed' = closed \cup {s},
         dbuf' = IF s \in bq THEN DecP!Cancel(s) ELSE dbuf
  PROVE  \E y \in Settlement : Settled(R, N, y)' /\ y.acked = z.acked
<1>1. Settling(R, N, z, dstream \o dbuf) /\ Numbered(R, N) /\ z.gone \subseteq closed
      /\ z.cnt = written
  BY DEF Settled
<1>2. Numbered(R, N)'
  BY <1>1 DEF Numbered
<1>3. z \in Settlement /\ \A x \in Streams : z.acked[x] \in Nat /\ z.acked[x] <= N[x]
  BY <1>1 DEF Settling, Settlement
<1>4. CASE s \notin bq
  <2>1. Settling(R, N, z, dstream \o dbuf)'
    BY <1>1, <1>4 DEF Settling, Knows, Moves
  <2>. QED
    BY <1>1, <1>2, <1>3, <2>1 DEF Settled
<1>5. CASE s \in bq
  <2>1. PICK i, y : /\ i = [op |-> "Cancel", stream |-> s]
                    /\ y = [acked |-> z.acked, cnt |-> z.cnt, gone |-> z.gone \cup {s}]
    OBVIOUS
  <2>2. /\ i \in Acks /\ i.op = "Cancel" /\ i.stream = s
        /\ y.acked = z.acked /\ y.cnt = z.cnt /\ y.gone = z.gone \cup {s}
    BY <2>1 DEF Acks
  <2>3. y \in Settlement
    BY <1>3, <2>1 DEF Settlement
  <2>4. Within(z, y) /\ Within(y, y)
    <3>1. z.cnt \in Nat
      BY <1>3 DEF Settlement
    <3>. QED
      BY <1>3, <2>2, <3>1 DEF Within
  <2>5. <<z, i, y>> \in Moves(R, y)
    <3>1. Settles(R, z, i, y)
      BY <2>2 DEF Settles
    <3>. QED
      BY <1>3, <2>2, <2>3, <2>4, <3>1, MoveParts
  <2>6. PICK q : q = dstream \o dbuf
    OBVIOUS
  <2>7. Settling(R, N, y, q \o <<i>>)'
    <3>1. Settling(R, N, z, q) /\ \A x \in Streams : y.acked[x] <= N[x]
      BY <1>1, <1>3, <2>2, <2>6
    <3>. QED
      BY <2>5, <3>1, SettlingWrite
  <2>8. dstream' \o dbuf' = q \o <<i>>
    <3>1. /\ dstream \in Seq(Acks \cup Incs) /\ dbuf \in Seq(Acks)
      BY DEF Standing, ConnInv, Sides, Network, DecoderSide, DecP!IInv, DecP!TypeOK, Acks
    <3>2. dbuf \in Seq(Acks \cup Incs) /\ i \in Acks \cup Incs
      <4>1. Acks \subseteq Acks \cup Incs
        OBVIOUS
      <4>. HIDE DEF Acks, Incs
      <4>. QED
        BY <2>2, <3>1, <4>1
    <3>3. dbuf' = dbuf \o <<i>>
      <4>1. dbuf' = Append(dbuf, i)
        BY <1>5, <2>1 DEF DecP!Cancel
      <4>. QED
        BY <3>2, <4>1
    <3>4. dstream \o (dbuf \o <<i>>) = (dstream \o dbuf) \o <<i>>
      BY <3>1, <3>2, Appended
    <3>. QED
      BY <2>6, <3>3, <3>4
  <2>9. Settling(R, N, y, dstream \o dbuf)'
    BY <2>7, <2>8 DEF Settling
  <2>. QED
    BY <1>1, <1>2, <2>2, <2>3, <2>9 DEF Settled
<1>. QED
  BY <1>4, <1>5

\* nghttp3_conn_close_stream2: the other streams stay where they are.
LEMMA CloseDelivers ==
  ASSUME Standing, ConnInv', NEW R, NEW N, NEW z, NEW W, Agreed(R, N, z, W),
         NEW s \in Streams, CloseStream(s)
  PROVE  Standing' /\ \E y : Agreed(R, N, y, W)'
<1>1. DecP!CloseStream(s) /\ UNCHANGED <<encVars, netVars, appVars>>
  BY DecClose DEF CloseStream
<1>2. DecodingSide /\ UNCHANGED <<tab, cur, krcnt, refs, want, settings, dstream, rstream>>
  BY <1>1 DEF DecodingSide, encVars, netVars, appVars
<1>3. CASE DecP!Fail("FATAL")
  BY <1>2, <1>3, FailKeeps
<1>4. CASE ~(s \in bq /\ DecP!DbufOverflow)
  <2>1. /\ dbuf' = IF s \in bq THEN DecP!Cancel(s) ELSE dbuf
        /\ bq' = bq \ {s} /\ closed' = closed \cup {s} /\ mode = "idle"
        /\ inq' = [inq EXCEPT ![s] = <<>>]
        /\ sctx' = [sctx EXCEPT ![s] = DecP!FreshContext]
        /\ UNCHANGED <<dtab, written, got, mode, derr>>
    BY <1>1, <1>4
    DEF DecP!CloseStream, DecP!BlockedStreamsRemove, DecP!tableVars
  <2>2. /\ \A x \in Streams \ closed' :
             /\ x \notin closed /\ sctx'[x] = sctx[x] /\ inq'[x] = inq[x] /\ x # s
    <3>1. DOMAIN inq = Streams /\ DOMAIN sctx = Streams
      BY DEF Standing, ConnInv, Sides, DecoderSide, DecP!IInv, DecP!TypeOK
    <3>. QED
      BY <2>1, <3>1
  <2>3. PICK y \in Settlement : Settled(R, N, y)' /\ y.acked = z.acked
    BY <1>2, <2>1, CloseCancels DEF Agreed
  <2>4. Counts(R, N)' /\ Content(W)' /\ Telling(W)' /\ Placed(R, N, y)'
    BY <1>2, <2>1, <2>2, <2>3, EncoderSays DEF Agreed, Counts, Placed
  <2>5. Told(R, N, y, W)'
    <3>1. Told(R, N, z, W)'
      BY <1>2, <2>1, <2>2, ToldRests DEF Agreed, Untold
    <3>2. \A x : Here(x, y)' = Here(x, z)'
      BY <2>3 DEF Here
    <3>. QED
      BY <3>1, <3>2 DEF Told
  <2>6. Parked'
    <3>1. \A x \in bq' : x \in Streams \ {s} /\ x \in bq /\ sctx'[x] = sctx[x]
                          /\ x \notin closed'
      <4>1. bq \in SUBSET Streams /\ DOMAIN sctx = Streams
        BY DEF Standing, ConnInv, Sides, DecoderSide, DecP!IInv, DecP!TypeOK
      <4>. QED
        BY <2>1, <4>1 DEF Standing, Parked
    <3>2. "idle" \notin Streams
      BY DecoderConstants DEF DecP!DecoderAssumption
    <3>. QED
      BY <1>2, <2>1, <3>1, <3>2 DEF Standing, Parked
  <2>7. Standing'
    BY <1>1, <1>2, <2>1, <2>6, StandingRests
  <2>. QED
    BY <2>3, <2>4, <2>5, <2>7 DEF Agreed
<1>. QED
  BY <1>1, <1>3, <1>4 DEF DecP!CloseStream
\* What is inserted takes 32 bytes more than its name and value do.
LEMMA SpacedAdd ==
  ASSUME DecP!IsTable(dtab), Spaced, NEW nm \in Names, NEW v \in Values,
         NEW max \in Nat, DecP!TableSpace(nm, v) <= max,
         dtab' = DecP!TableAdd(dtab, nm, v, max)
  PROVE  Spaced' /\ dtab'.next = dtab.next + 1
<1>. DEFINE sp == DecP!TableSpace(nm, v)
            S == DecP!FitPoints(dtab, sp, max)
<1>1. /\ dtab.first \in Nat /\ dtab.next \in Nat /\ dtab.first <= dtab.next
      /\ dtab.sum \in Nat /\ \A a \in dtab.first .. dtab.next - 1 : dtab.ent[a].sum \in Nat
  BY DEF DecP!IsTable, DecP!Entry, DecP!Live
<1>2. sp \in Nat /\ 32 <= sp
  BY DecoderConstants DEF DecP!LenAssumption, DecP!TableSpace, DecP!ENTRY_OVERHEAD
<1>. HIDE DEF sp
<1>3. PICK d \in dtab.first .. dtab.next : d = DecP!Min(S)
  <2>1. S # {} /\ S \in SUBSET Nat /\ S \subseteq dtab.first .. dtab.next
    <3>1. dtab.next \in S
      BY <1>2, DecoderConstants, DecP!EmptyFits DEF sp
    <3>. QED
      BY <1>1, <3>1 DEF DecP!FitPoints
  <2>2. DecP!Min(S) \in S
    BY <2>1, DecoderConstants, DecP!MinIsLeast
  <2>. QED
    BY <2>1, <2>2
<1>. HIDE DEF S
<1>4. /\ dtab'.next = dtab.next + 1 /\ dtab'.sum = dtab.sum + sp /\ dtab'.first = d
      /\ dtab'.ent = [a \in d .. dtab.next |->
            IF a = dtab.next THEN [name |-> nm, value |-> v, sum |-> dtab.sum]
            ELSE [b \in d .. dtab.next - 1 |-> dtab.ent[b]][a]]
  BY <1>3 DEF DecP!TableAdd, DecP!EvictToFit, DecP!DropTo, S, sp
<1>. DEFINE P(a) == 32 * ((dtab.next + 1) - a) <= (dtab.sum + sp) - dtab'.ent[a].sum
<1>8. EncP!Live(dtab') = d .. dtab.next
  BY <1>1, <1>3, <1>4 DEF EncP!Live
<1>9. (\A a \in d .. dtab.next : P(a)) => Spaced'
  <2>1. dtab'.next = dtab.next + 1 /\ dtab'.sum = dtab.sum + sp
    BY <1>4
  <2>2. SUFFICES ASSUME \A a \in d .. dtab.next : P(a), NEW a \in d .. dtab.next
                 PROVE  32 * (dtab'.next - a) <= dtab'.sum - dtab'.ent[a].sum
    BY <1>8 DEF Spaced
  <2>. QED
    BY <2>1, <2>2
<1>5. SUFFICES ASSUME NEW a \in d .. dtab.next
               PROVE  P(a)
  BY <1>4, <1>9
<1>6. CASE a = dtab.next
  <2>1. dtab'.ent[a].sum = dtab.sum
    BY <1>4, <1>6
  <2>. QED
    BY <1>1, <1>2, <1>6, <2>1
<1>7. CASE a # dtab.next
  <2>1. a \in dtab.first .. dtab.next - 1 /\ dtab'.ent[a] = dtab.ent[a]
    BY <1>1, <1>3, <1>4, <1>7
  <2>2. 32 * (dtab.next - a) <= dtab.sum - dtab.ent[a].sum
    BY <2>1 DEF Spaced, EncP!Live
  <2>3. dtab.ent[a].sum \in Nat
    BY <1>1, <2>1
  <2>4. PICK x, y \in Nat : x = dtab.ent[a].sum /\ y = dtab.sum
    BY <1>1, <2>3
  <2>5. 32 * (dtab.next - a) <= y - x /\ a \in Int /\ a <= dtab.next
    BY <2>1, <2>2, <2>4
  <2>6. 32 * ((dtab.next + 1) - a) <= (y + sp) - x
    BY <1>1, <1>2, <2>4, <2>5
  <2>. QED
    BY <2>1, <2>4, <2>6
<1>. QED
  BY <1>6, <1>7

\* What stays after a smaller capacity is spaced as it was.
LEMMA SpacedEvict ==
  ASSUME DecP!IsTable(dtab), Spaced, NEW max \in Nat,
         dtab' = DecP!EvictToFit(dtab, 0, max)
  PROVE  Spaced' /\ dtab'.next = dtab.next
<1>. DEFINE S == DecP!FitPoints(dtab, 0, max)
<1>1. dtab.first \in Nat /\ dtab.next \in Nat /\ dtab.first <= dtab.next
  BY DEF DecP!IsTable
<1>2. PICK d \in dtab.first .. dtab.next : d = DecP!Min(S)
  <2>1. S # {} /\ S \in SUBSET Nat /\ S \subseteq dtab.first .. dtab.next
    <3>1. dtab.next \in S
      BY DecoderConstants, DecP!EmptyFits
    <3>. QED
      BY <1>1, <3>1 DEF DecP!FitPoints
  <2>2. DecP!Min(S) \in S
    BY <2>1, DecoderConstants, DecP!MinIsLeast
  <2>. QED
    BY <2>1, <2>2
<1>. HIDE DEF S
<1>3. /\ dtab'.next = dtab.next /\ dtab'.sum = dtab.sum /\ dtab'.first = d
      /\ dtab'.ent = [b \in d .. dtab.next - 1 |-> dtab.ent[b]]
  BY <1>2 DEF DecP!EvictToFit, DecP!DropTo, S
<1>4. SUFFICES ASSUME NEW a \in d .. dtab.next - 1
               PROVE  32 * (dtab.next - a) <= dtab.sum - dtab'.ent[a].sum
  BY <1>1, <1>2, <1>3 DEF Spaced, EncP!Live
<1>5. a \in dtab.first .. dtab.next - 1 /\ dtab'.ent[a] = dtab.ent[a]
  BY <1>1, <1>2, <1>3
<1>. QED
  BY <1>5 DEF Spaced, EncP!Live

\* What an instruction inserts has a name and a value.
LEMMA NewEntryType ==
  ASSUME DecP!IsTable(dtab), NEW i \in EncP!Instruction, i.op # "SetCap",
         DecP!NewEntry(i) # DecP!NoEntry
  PROVE  DecP!NewEntry(i).name \in Names /\ DecP!NewEntry(i).value \in Values
<1>. DEFINE e == DecP!NewEntry(i)
<1>1. i.op \in {"InsertStatic", "InsertLiteral", "InsertDynamic", "Duplicate"}
  BY DEF EncP!Instruction
<1>2. /\ i.op \in {"InsertStatic", "InsertLiteral"} => i.name \in Names
      /\ i.op \in {"InsertStatic", "InsertLiteral", "InsertDynamic"} => i.value \in Values
  BY DEF EncP!Instruction
<1>3. CASE i.op \in {"InsertStatic", "InsertLiteral"}
  BY <1>2, <1>3 DEF DecP!NewEntry
<1>4. CASE i.op \in {"InsertDynamic", "Duplicate"}
  <2>. DEFINE a == DecP!RelToAbs(i.idx)
  <2>1. a # -1
    BY <1>4 DEF DecP!NewEntry
  <2>2. a \in DecP!Live(dtab)
    BY <2>1 DEF DecP!RelToAbs
  <2>. HIDE DEF a
  <2>3. dtab.ent[a].name \in Names /\ dtab.ent[a].value \in Values
    BY <2>2 DEF DecP!IsTable, DecP!Entry
  <2>4. e = [name  |-> dtab.ent[a].name,
             value |-> IF i.op = "InsertDynamic" THEN i.value ELSE dtab.ent[a].value]
    BY <1>4, <2>1 DEF DecP!NewEntry, a
  <2>. QED
    BY <1>2, <2>3, <2>4
<1>. QED
  BY <1>1, <1>3, <1>4

\* nghttp3_qpack_decoder_read_encoder: the readers stay where they are.
LEMMA InstructionDelivers ==
  ASSUME Standing, ConnInv', NEW R, NEW N, NEW z, NEW W, Agreed(R, N, z, W), Compatible,
         ReadEncoderStream
  PROVE  Standing' /\ Agreed(R, N, z, W)'
<1>. DEFINE i == Head(estream)
            e == DecP!NewEntry(i)
<1>1. DecP!ReadEncoder(i) /\ UNCHANGED <<encVars, dstream, rstream, appVars>>
  BY DecEncoder DEF ReadEncoderStream
<1>2. DecodingSide /\ UNCHANGED <<tab, cur, krcnt, refs, want, settings, dstream, rstream>>
  BY <1>1 DEF DecodingSide, encVars, appVars
<1>3. CASE DecP!Fail("ENCODER_STREAM")
  BY <1>2, <1>3, FailKeeps
<1>4. ASSUME DecP!Interpreted, Spaced', dtab'.next >= dtab.next
      PROVE  Standing' /\ Agreed(R, N, z, W)'
  <2>1. /\ UNCHANGED <<written, dbuf, sctx, bq, inq, shut, closed, got, derr>>
        /\ mode' = "encoder"
    BY <1>4 DEF DecP!Interpreted, DecP!ackVars, DecP!streamVars
  <2>2. tab.next \in Nat /\ dtab.next \in Nat /\ dtab'.next \in Nat
    <3>1. dtab'.next \in Nat
      BY DEF ConnInv, Sides, DecoderSide, DecP!IInv, DecP!TypeOK, DecP!IsTable
    <3>. QED
      BY <3>1, SidesType DEF Standing, ConnInv
  <2>3. Counts(R, N)'
    BY <1>2, <1>4, <2>2, CountsRest DEF Agreed, Settled, Standing
  <2>4. Settled(R, N, z)' /\ Told(R, N, z, W)'
    BY <1>2, <2>1, SettledRests, ToldRests DEF Agreed, Untold
  <2>5. Content(W)' /\ Telling(W)' /\ Placed(R, N, z)'
    BY <1>2, <2>1, EncoderSays DEF Agreed, Placed
  <2>6. Parked'
    <3>1. "encoder" \notin Streams
      BY DecoderConstants DEF DecP!DecoderAssumption
    <3>. QED
      BY <1>2, <2>1, <3>1 DEF Standing, Parked
  <2>7. InReach'
    BY <1>1, <1>2 DEF InReach, ReadEncoderStream
  <2>8. WithinLimit' /\ ebad' = FALSE /\ want' \in [Streams -> Seq(Field)]
    <3>1. UNCHANGED <<tab, cap, maxBlocked, krcnt, refs, blocked, ebad, cur>>
          /\ UNCHANGED <<want, settings>>
      BY <1>1 DEF encVars, appVars
    <3>2. EncP!IInv' /\ EncP!BlockedInv
      BY DEF ConnInv, Sides, EncoderSide, Standing, WithinLimit
    <3>3. EncP!BlockedInv'
      BY <3>1, <3>2 DEF EncP!BlockedInv, EncP!LeaveToBlock
    <3>. QED
      BY <3>1, <3>3 DEF Standing, WithinLimit
  <2>. QED
    BY <1>4, <2>3, <2>4, <2>5, <2>6, <2>7, <2>8 DEF Standing, Agreed
<1>5. /\ DecP!IsTable(dtab) /\ dcap \in Nat /\ Spaced /\ i \in EncP!Instruction
      /\ dtab.next \in Nat
  <2>1. /\ DecP!TypeOK /\ Spaced /\ estream \in Seq(EncP!Instruction) /\ estream # <<>>
    BY DEF Standing, ConnInv, Sides, Network, DecoderSide, DecP!IInv, ReadEncoderStream
  <2>2. DecP!IsTable(dtab) /\ dcap \in Nat
    BY <2>1, Constants DEF DecP!TypeOK
  <2>. QED
    BY <2>1, <2>2 DEF DecP!IsTable
<1>. HIDE DEF i
<1>6. CASE i.op = "SetCap" /\ ~DecP!Fail("ENCODER_STREAM")
  <2>1. i.cap \in Nat
    BY <1>5, <1>6 DEF EncP!Instruction
  <2>2. dtab' = DecP!EvictToFit(dtab, 0, i.cap) /\ DecP!Interpreted
    BY <1>1, <1>6 DEF DecP!ReadEncoder, DecP!SetCapacity
  <2>. QED
    BY <1>4, <1>5, <2>1, <2>2, SpacedEvict
<1>7. CASE i.op # "SetCap" /\ ~DecP!Fail("ENCODER_STREAM")
  <2>1. DecP!AddEntry(e) /\ e # DecP!NoEntry
    BY <1>1, <1>7 DEF DecP!ReadEncoder, DecP!AddEntry
  <2>2. e.name \in Names /\ e.value \in Values
    BY <1>5, <1>7, <2>1, NewEntryType
  <2>. HIDE DEF e
  <2>3. DecP!TableSpace(e.name, e.value) \in Nat
    BY <2>2, DecoderConstants DEF DecP!LenAssumption, DecP!TableSpace, DecP!ENTRY_OVERHEAD
  <2>4. /\ DecP!TableSpace(e.name, e.value) <= dcap
        /\ dtab' = DecP!TableAdd(dtab, e.name, e.value, dcap) /\ DecP!Interpreted
    BY <1>5, <1>7, <2>1, <2>3 DEF DecP!AddEntry
  <2>5. Spaced' /\ dtab'.next = dtab.next + 1
    BY <1>5, <2>2, <2>4, SpacedAdd
  <2>. QED
    BY <1>4, <1>5, <2>4, <2>5
<1>. QED
  BY <1>3, <1>6, <1>7
-----------------------------------------------------------------------------
(* The steps of the encoding side *)

\* No stream becomes blocked.
LEMMA WithinLimitRests ==
  ASSUME Standing, ConnInv', blocked' = EncP!KeysOf(refs', krcnt'),
         blocked' \subseteq blocked, EncP!LeaveToBlock', UNCHANGED <<maxBlocked, settings>>
  PROVE  WithinLimit'
<1>1. EncP!IInv' /\ maxBlocked \in Nat /\ BlockedStreams \in Nat
  BY DecoderConstants
  DEF Standing, ConnInv, Sides, EncoderSide, EncP!IInv, EncP!TypeOK, DecP!DecoderAssumption
<1>2. /\ EncP!IsFiniteSet(blocked) /\ EncP!Cardinality(blocked) <= maxBlocked
      /\ maxBlocked <= BlockedStreams /\ (~settings => maxBlocked = 0)
  BY DEF Standing, WithinLimit, EncP!BlockedInv
<1>3. /\ EncP!IsFiniteSet(blocked')
      /\ EncP!Cardinality(blocked') <= EncP!Cardinality(blocked)
      /\ EncP!Cardinality(blocked') \in Nat /\ EncP!Cardinality(blocked) \in Nat
  BY <1>2, Constants, EncP!FS_Subset, EncP!FS_CardinalityType
<1>. QED
  BY <1>1, <1>2, <1>3 DEF WithinLimit, EncP!BlockedInv

\* Nothing is encoded, and the decoder and the network rest.
LEMMA QuietKeeps ==
  ASSUME Standing, ConnInv', NEW R, NEW N, NEW z, NEW W, Agreed(R, N, z, W),
         UNCHANGED <<tab, krcnt, refs, cur, decVars, netVars, want>>, WithinLimit',
         ebad' = FALSE
  PROVE  Standing' /\ Agreed(R, N, z, W)'
<1>1. UNCHANGED <<dtab, written, dbuf, sctx, bq, inq, closed, got, mode, derr>>
      /\ UNCHANGED <<estream, dstream, rstream>>
  BY DEF decVars, netVars
<1>2. Settled(R, N, z)' /\ Told(R, N, z, W)'
  BY <1>1, SettledRests, ToldRests DEF Agreed, Untold
<1>3. Counts(R, N)' /\ Content(W)' /\ Telling(W)' /\ Placed(R, N, z)'
  BY <1>1, EncoderSays DEF Agreed, Counts, Placed
<1>4. Spaced' /\ Parked' /\ InReach'
  BY <1>1 DEF Standing, Spaced, Parked, InReach
<1>. QED
  BY <1>2, <1>3, <1>4 DEF Standing, Agreed

\* nghttp3_qpack_encoder_set_max_dtable_capacity
LEMMA SetCapacityDelivers ==
  ASSUME Standing, ConnInv', NEW R, NEW N, NEW z, NEW W, Agreed(R, N, z, W),
         NEW c \in Capacities, SetCapacity(c)
  PROVE  Standing' /\ Agreed(R, N, z, W)'
<1>1. /\ UNCHANGED <<tab, maxBlocked, krcnt, refs, blocked, cur, ebad>> /\ cur = NoSection
      /\ UNCHANGED <<decVars, netVars, want, settings>>
  BY EncSetCapacity DEF SetCapacity, EncP!SetMaxDtableCapacity, EncP!ackVars
<1>2. WithinLimit'
  BY <1>1, WithinLimitRests
  DEF Standing, WithinLimit, EncP!BlockedInv, EncP!LeaveToBlock
<1>. QED
  BY <1>1, <1>2, QuietKeeps DEF Standing

\* nghttp3_conn_on_settings_entry_received
LEMMA SettingsDeliver ==
  ASSUME Standing, ConnInv', NEW R, NEW N, NEW z, NEW W, Agreed(R, N, z, W),
         ReceiveSettings
  PROVE  Standing' /\ Agreed(R, N, z, W)'
<1>1. /\ UNCHANGED <<tab, krcnt, refs, blocked, cur, ebad>> /\ cur = NoSection
      /\ UNCHANGED <<decVars, netVars, want>> /\ ~settings /\ settings' = TRUE
      /\ maxBlocked' = Min({100, BlockedStreams})
  BY DEF ReceiveSettings
<1>2. WithinLimit'
  <2>1. /\ EncP!IInv' /\ EncP!BlockedInv /\ EncP!Cardinality(blocked) <= 0
    BY <1>1 DEF Standing, ConnInv, Sides, EncoderSide, WithinLimit
  <2>2. EncP!BlockedInv'
    BY <1>1, <2>1 DEF EncP!BlockedInv, EncP!LeaveToBlock
  <2>3. /\ Min({100, BlockedStreams}) \in Nat
        /\ Min({100, BlockedStreams}) <= BlockedStreams
    BY Constants, DecoderConstants, EncP!MinOfPair
    DEF Min, EncP!Min, DecP!DecoderAssumption
  <2>4. EncP!Cardinality(blocked) \in Nat
    BY <2>1, Constants, EncP!FS_CardinalityType DEF EncP!BlockedInv
  <2>. QED
    BY <1>1, <2>1, <2>2, <2>3, <2>4 DEF WithinLimit
<1>. QED
  BY <1>1, <1>2, QuietKeeps DEF Standing
\* What the decoder stream says next
LEMMA NextAcknowledgment ==
  ASSUME Standing, dstream # <<>>
  PROVE  \E q \in Seq(Acks \cup Incs) :
           /\ q = dstream \o dbuf /\ q # <<>> /\ Head(q) = Head(dstream)
           /\ Tail(q) = Tail(dstream) \o dbuf
           /\ Head(q).op \in {"Ack", "Cancel"} => Head(q).stream \in Streams
           /\ Head(q).op = "Inc" => Head(q).n \in Nat
           /\ Head(q).op \in {"Ack", "Cancel", "Inc"}
<1>1. dbuf \in Seq(Acks) /\ dstream \in Seq(Acks \cup Incs)
  BY DEF Standing, ConnInv, Sides, Network, DecoderSide, DecP!IInv, DecP!TypeOK, Acks
<1>2. dbuf \in Seq(Acks \cup Incs)
  <2>1. Acks \subseteq Acks \cup Incs
    OBVIOUS
  <2>. HIDE DEF Acks, Incs
  <2>. QED
    BY <1>1, <2>1
<1>3. Head(dstream) \in Acks \cup Incs
  <2>. HIDE DEF Acks, Incs
  <2>. QED
    BY <1>1
<1>4. /\ Head(dstream).op \in {"Ack", "Cancel"} => Head(dstream).stream \in Streams
      /\ Head(dstream).op = "Inc" => Head(dstream).n \in Nat
      /\ Head(dstream).op \in {"Ack", "Cancel", "Inc"}
  BY <1>3 DEF Acks, Incs
<1>5. PICK q \in Seq(Acks \cup Incs) : q = dstream \o dbuf
  BY <1>1, <1>2, Concatenation
<1>6. q # <<>> /\ q[1] = dstream[1] /\ Tail(q) = Tail(dstream) \o dbuf
  BY <1>1, <1>2, <1>5, Concatenation
<1>7. Head(q) = Head(dstream)
  <2>. HIDE DEF Acks, Incs
  <2>. QED
    BY <1>1, <1>6
<1>. QED
  BY <1>4, <1>5, <1>6, <1>7

\* The keys of the blocked streams when an instruction is read
LEMMA AcknowledgmentKeepsKeys ==
  ASSUME EncP!BlockedInv, ebad' = FALSE, NEW i,
         \/ i.op = "Ack" /\ i.stream \in Streams /\ EncP!ReadSectionAck(i.stream)
         \/ i.op = "Cancel" /\ i.stream \in Streams /\ EncP!ReadStreamCancel(i.stream)
         \/ i.op = "Inc" /\ i.n \in Nat /\ EncP!ReadInsertCountIncrement(i.n)
  PROVE  /\ blocked' = EncP!KeysOf(refs', krcnt') /\ blocked' \subseteq blocked
         /\ cur' = NoSection /\ cur = NoSection /\ UNCHANGED <<tab, maxBlocked>>
<1>1. /\ EncP!QueuesUpTo(refs, tab.next) /\ tab.next \in Nat /\ krcnt \in Nat
      /\ blocked = EncP!KeysOf(refs, krcnt)
  BY Constants, EncP!QueuesBounded DEF EncP!BlockedInv
<1>2. CASE UNCHANGED EncP!ackVars /\ cur' = NoSection /\ cur = NoSection
           /\ UNCHANGED <<tab, maxBlocked>>
  BY <1>1, <1>2 DEF EncP!ackVars
<1>3. CASE i.op = "Ack" /\ i.stream \in Streams /\ EncP!ReadSectionAck(i.stream)
  <2>1. /\ EncP!AckHeader(i.stream) \/ UNCHANGED EncP!ackVars
        /\ cur' = NoSection /\ cur = NoSection /\ UNCHANGED <<tab, maxBlocked>>
    BY <1>3 DEF EncP!ReadSectionAck, EncP!Read
  <2>. QED
    BY <1>2, <1>3, <2>1, Constants, EncP!AckKeepsKeys
<1>4. CASE i.op = "Cancel" /\ i.stream \in Streams /\ EncP!ReadStreamCancel(i.stream)
  <2>1. /\ EncP!CancelStream(i.stream) \/ UNCHANGED EncP!ackVars
        /\ cur' = NoSection /\ cur = NoSection /\ UNCHANGED <<tab, maxBlocked>>
    BY <1>4 DEF EncP!ReadStreamCancel, EncP!Read
  <2>. QED
    BY <1>2, <1>4, <2>1, Constants, EncP!CancelKeepsKeys
<1>5. CASE i.op = "Inc" /\ i.n \in Nat /\ EncP!ReadInsertCountIncrement(i.n)
  <2>1. /\ EncP!AddIcnt(i.n) \/ UNCHANGED EncP!ackVars
        /\ cur' = NoSection /\ cur = NoSection /\ UNCHANGED <<tab, maxBlocked>>
    BY <1>5 DEF EncP!ReadInsertCountIncrement, EncP!Read
  <2>2. CASE EncP!AddIcnt(i.n)
    <3>1. /\ krcnt' = krcnt + i.n /\ blocked' = EncP!KeysAbove(krcnt + i.n)
          /\ refs' = refs
      BY <2>2 DEF EncP!AddIcnt
    <3>2. PICK d \in Nat : d = krcnt + i.n /\ krcnt <= d
      BY <1>1, <1>5
    <3>3. blocked' = {k \in EncP!KeysOf(refs, krcnt) : k.max_cnt > d}
      BY <1>1, <3>1, <3>2 DEF EncP!KeysAbove
    <3>4. {k \in EncP!KeysOf(refs, krcnt) : k.max_cnt > d} = EncP!KeysOf(refs, d)
      BY <1>1, <3>2, Constants, EncP!KeysUnblocked
    <3>. QED
      BY <1>1, <2>1, <3>1, <3>2, <3>3, <3>4
  <2>. QED
    BY <1>2, <2>1, <2>2
<1>. QED
  BY <1>3, <1>4, <1>5

\* nghttp3_qpack_encoder_read_decoder accepts what the decoder writes.
LEMMA AcknowledgmentDelivers ==
  ASSUME Standing, ConnInv', NEW R, NEW N, NEW z, NEW W, Agreed(R, N, z, W),
         ReadDecoderStream
  PROVE  Standing' /\ Agreed(R, N, z, W)'
<1>1. PICK q \in Seq(Acks \cup Incs) :
        /\ q = dstream \o dbuf /\ q # <<>> /\ Head(q) = Head(dstream)
        /\ Tail(q) = Tail(dstream) \o dbuf
        /\ Head(q).op \in {"Ack", "Cancel"} => Head(q).stream \in Streams
        /\ Head(q).op = "Inc" => Head(q).n \in Nat
        /\ Head(q).op \in {"Ack", "Cancel", "Inc"}
  BY NextAcknowledgment DEF ReadDecoderStream
<1>2. /\ dstream' = Tail(dstream) /\ mode = "idle"
      /\ UNCHANGED <<dtab, written, dbuf, sctx, bq, inq, closed, got, mode, derr>>
      /\ UNCHANGED <<rstream, want, settings>>
  BY DEF ReadDecoderStream, decVars, appVars
<1>3. \/ Head(q).op = "Ack" /\ EncP!ReadSectionAck(Head(q).stream)
      \/ Head(q).op = "Cancel" /\ EncP!ReadStreamCancel(Head(q).stream)
      \/ Head(q).op = "Inc" /\ EncP!ReadInsertCountIncrement(Head(q).n)
  <2>1. PICK i : i = Head(dstream)
    OBVIOUS
  <2>2. \/ i.op = "Ack" /\ Enc!ReadSectionAck(i.stream)
        \/ i.op = "Cancel" /\ Enc!ReadStreamCancel(i.stream)
        \/ i.op = "Inc" /\ Enc!ReadInsertCountIncrement(i.n)
    BY <1>1, <2>1 DEF ReadDecoderStream
  <2>. QED
    BY <1>1, <2>1, <2>2, EncAck, EncCancel, EncIncrement
<1>4. /\ Numbered(R, N) /\ Settling(R, N, z, q) /\ z.cnt = written /\ z.gone \subseteq closed
  BY <1>1 DEF Agreed, Settled
<1>5. Settling(R, N, z, Tail(q))' /\ ebad' = FALSE /\ Numbered(R, N)'
  <2>1. EncP!TypeOK /\ ebad = FALSE
    BY DEF Standing, ConnInv, Sides, EncoderSide, EncP!IInv
  <2>2. z.cnt <= tab.next
    <3>1. written <= dtab.next /\ dtab.next <= tab.next
      BY DEF Standing, ConnInv, Shared, Sides, DecoderSide, DecP!IInv,
             DecP!ReadingImpliesReceived
    <3>2. written \in Nat /\ dtab.next \in Nat /\ tab.next \in Nat
      BY SidesType DEF Standing, ConnInv, Sides, DecoderSide, DecP!IInv, DecP!TypeOK
    <3>. QED
      BY <1>4, <3>1, <3>2
  <2>. QED
    BY <1>1, <1>3, <1>4, <2>1, <2>2, SettlingAck, SettlingCancel, SettlingInc
<1>6. /\ blocked' = EncP!KeysOf(refs', krcnt') /\ blocked' \subseteq blocked
      /\ cur' = NoSection /\ cur = NoSection /\ UNCHANGED <<tab, maxBlocked>>
  <2>1. PICK i : i = Head(q)
    OBVIOUS
  <2>. QED
    BY <1>1, <1>3, <1>5, <2>1, AcknowledgmentKeepsKeys DEF Standing, WithinLimit
<1>7. WithinLimit'
  BY <1>2, <1>6, WithinLimitRests DEF EncP!LeaveToBlock
<1>8. Settled(R, N, z)'
  <2>1. dstream' \o dbuf' = Tail(q)
    BY <1>1, <1>2
  <2>2. Settling(R, N, z, dstream \o dbuf)'
    BY <1>5, <2>1 DEF Settling
  <2>. QED
    BY <1>2, <1>4, <1>5, <2>2 DEF Settled
<1>9. Parked'
  <2>1. krcnt' <= written
    <3>1. PICK p \in Settlement : Within(p, z) /\ krcnt' <= p.cnt
      BY <1>5 DEF Settling, Knows
    <3>2. krcnt' \in Nat
      BY DEF ConnInv, Sides, EncoderSide, EncP!IInv, EncP!TypeOK
    <3>3. p.cnt \in Nat /\ z.cnt \in Nat
      BY <1>4, <3>1 DEF Settling, Settlement
    <3>. QED
      BY <1>4, <3>1, <3>2, <3>3 DEF Within
  <2>2. written <= dtab.next /\ written \in Nat /\ dtab.next \in Nat /\ krcnt' \in Nat
        /\ bq \subseteq Streams /\ \A s \in Streams : sctx[s].ricnt \in Nat
    <3>1. krcnt' \in Nat
      BY DEF ConnInv, Sides, EncoderSide, EncP!IInv, EncP!TypeOK
    <3>2. DecP!TypeOK /\ DecP!ReadingImpliesReceived
      BY DEF Standing, ConnInv, Sides, DecoderSide, DecP!IInv
    <3>. QED
      BY <3>1, <3>2
      DEF DecP!TypeOK, DecP!IsTable, DecP!Context, DecP!ReadingImpliesReceived
  <2>3. \A s \in bq : sctx[s].ricnt > dtab.next /\ s \notin closed
    BY <1>2 DEF Standing, Parked
  <2>4. \A s \in bq : krcnt' < sctx[s].ricnt
    <3>1. TAKE s \in bq
    <3>2. sctx[s].ricnt > dtab.next /\ sctx[s].ricnt \in Nat
      BY <2>2, <2>3
    <3>. QED
      BY <2>1, <2>2, <3>2
  <2>5. mode' \notin Streams
    BY <1>2, DecoderConstants DEF DecP!DecoderAssumption
  <2>. QED
    BY <1>2, <2>3, <2>4, <2>5 DEF Parked
<1>10. Told(R, N, z, W)'
  BY <1>2, <1>6, ToldRests DEF Agreed, Untold
<1>11. Counts(R, N)' /\ Content(W)' /\ Telling(W)' /\ Placed(R, N, z)'
  BY <1>2, <1>6, EncoderSays DEF Agreed, Counts, Placed
<1>12. Spaced' /\ InReach'
  BY <1>2, <1>6 DEF Standing, Spaced, InReach
<1>. QED
  BY <1>2, <1>5, <1>7, <1>8, <1>9, <1>10, <1>11, <1>12 DEF Standing, Agreed
\* nghttp3_qpack_encoder_encode up to the first field: no field is said yet.
LEMMA BeginDelivers ==
  ASSUME Standing, ConnInv', NEW R, NEW N, NEW z, NEW W, Agreed(R, N, z, W),
         NEW s \in Streams, BeginEncode(s), Compatible
  PROVE  Standing' /\ Agreed(R, N, z, W)'
<1>1. /\ EncP!BeginEncode(s) /\ tab.next + MaxLines <= dtab.next + MaxLag
      /\ UNCHANGED <<decVars, netVars, want, settings>>
  BY EncBegin DEF BeginEncode
<1>2. /\ UNCHANGED <<maxBlocked, krcnt, refs, blocked, ebad>> /\ cur = NoSection
      /\ cur'.stream = s /\ cur'.allow = EncP!MayBlock(s) /\ cur'.lines = <<>>
      /\ tab' = EncP!ShrunkTable
  BY <1>1 DEF EncP!BeginEncode, EncP!ackVars
<1>3. UNCHANGED <<dtab, written, dbuf, sctx, bq, inq, closed, got, mode, derr>>
      /\ UNCHANGED <<dstream, rstream>>
  BY <1>1 DEF decVars, netVars
<1>4. /\ EncP!TypeOK /\ EncP!ReferencedEntriesLive /\ tab.next \in Nat /\ tab.first \in Nat
  BY SidesType DEF Standing, ConnInv, Sides, EncoderSide, EncP!IInv
<1>5. tab'.next = tab.next /\ tab'.first \in tab.first .. tab.next
  BY <1>2, <1>4, Constants, EncP!ShrinkKeepsPins
<1>6. Content(W)'
  <2>1. PICK L : Shared(L) /\ Shared(L)'
    <3>1. PICK L : Shared(L)
      BY DEF Standing, ConnInv
    <3>2. Shared(L)'
      BY <3>1, BeginShared DEF Standing, ConnInv
    <3>. QED
      BY <3>1, <3>2
  <2>2. /\ tab.ent = [a \in tab.first .. tab.next - 1 |-> L[a]]
        /\ tab'.ent = [a \in tab'.first .. tab'.next - 1 |-> L[a]]
    BY <2>1 DEF Shared, Window
  <2>3. SUFFICES ASSUME NEW a \in tab'.first .. tab'.next - 1
                 PROVE  tab'.ent[a].name = W[a].name /\ tab'.ent[a].value = W[a].value
    BY DEF Content, EncP!Live
  <2>4. a \in tab.first .. tab.next - 1
    BY <1>4, <1>5
  <2>5. tab'.ent[a] = tab.ent[a]
    BY <2>2, <2>4
  <2>. QED
    BY <2>4, <2>5 DEF Agreed, Content, EncP!Live
<1>7. Settled(R, N, z)' /\ Counts(R, N)' /\ Placed(R, N, z)'
  BY <1>2, <1>3, <1>5, SettledRests DEF Agreed, Counts, Placed
<1>8. Told(R, N, z, W)'
  <2>1. \A x : Untold(x)' = Untold(x)
    BY <1>2 DEF Untold
  <2>. QED
    BY <1>1, <1>3, <2>1, ToldRests DEF Agreed
<1>9. Telling(W)'
  <2>1. want'[cur'.stream] \in Seq(Field)
    BY <1>1, <1>2 DEF Standing
  <2>2. Len(want'[cur'.stream]) \in Nat /\ Len(cur'.lines) = 0
    BY <1>2, <2>1
  <2>. QED
    BY <2>2 DEF Telling
<1>10. InReach'
  <2>1. MaxLines \in Nat /\ Len(cur'.lines) = 0 /\ dtab.next \in Nat /\ MaxLag \in Nat
    BY <1>2, Constants, SidesType
    DEF EncP!EncoderAssumption, Standing, ConnInv, Compatible
  <2>. QED
    BY <1>1, <1>3, <1>4, <1>5, <2>1 DEF InReach
<1>11. WithinLimit'
  <2>1. EncP!LeaveToBlock'
    BY <1>2 DEF EncP!LeaveToBlock, EncP!MayBlock, EncP!IsBlocked
  <2>. QED
    BY <1>1, <1>2, <2>1, WithinLimitRests DEF Standing, WithinLimit, EncP!BlockedInv
<1>12. Spaced' /\ Parked'
  BY <1>2, <1>3 DEF Standing, Spaced, Parked
<1>. QED
  BY <1>1, <1>2, <1>6, <1>7, <1>8, <1>9, <1>10, <1>11, <1>12 DEF Standing, Agreed
\* The contents of all entries when f was inserted, or is about to be.
Filled(W, f) ==
  [a \in Nat |-> IF a = tab.next THEN [name |-> f.name, value |-> f.value] ELSE W[a]]

\* nghttp3_qpack_encoder_encode_nv inserts no other field than f.
LEMMA FilledContent ==
  ASSUME Standing, cur # NoSection, NEW W, Content(W), NEW f \in Fields, EncP!EncodeNv(f),
         NEW V, V = Filled(W, f)
  PROVE  /\ Content(V)' /\ tab'.next \in Nat
         /\ tab.next <= tab'.next /\ tab'.next <= tab.next + 1
<1>1. EncP!IInv /\ cur \in EncP!Section /\ EncP!IsTable(tab)
      /\ tab.next \in Nat /\ tab.first \in Nat
  BY SidesType DEF Standing, ConnInv, Sides, EncoderSide, Building
<1>2. tab' = tab \/ \E i \in EncP!Instruction : EncP!Inserted(f, i)
  BY <1>1, Constants, EncP!EncodeWrites
<1>3. \A a \in EncP!Live(tab) : V[a] = W[a] /\ a < tab.next
  BY <1>1 DEF Filled, EncP!Live
<1>4. CASE tab' = tab
  BY <1>1, <1>3, <1>4 DEF Content
<1>5. CASE \E i \in EncP!Instruction : EncP!Inserted(f, i)
  <2>. DEFINE sp == EncP!TableSpace(f.name, f.value)
  <2>1. sp \in Nat /\ f.name \in Names /\ f.value \in Values
    BY Constants, EncP!SpaceType
  <2>2. tab' = EncP!TableAdd(tab, f.name, f.value, cap) /\ sp <= cap /\ cap \in Nat
    BY <1>1, <1>5, Constants DEF EncP!Inserted, EncP!IInv, EncP!TypeOK
  <2>3. tab'.next = tab.next + 1 /\ tab'.first \in tab.first .. tab.next
    BY <1>1, <2>1, <2>2, Constants, EncP!TableAddTable
  <2>4. tab'.ent = [a \in tab'.first .. tab.next |->
                      IF a = tab.next
                      THEN [name |-> f.name, value |-> f.value, sum |-> tab.sum]
                      ELSE [b \in tab'.first .. tab.next - 1 |-> tab.ent[b]][a]]
    BY <2>2 DEF EncP!TableAdd, EncP!EvictToFit, EncP!DropTo
  <2>5. SUFFICES ASSUME NEW a \in tab'.first .. tab.next
                 PROVE  tab'.ent[a].name = V[a].name /\ tab'.ent[a].value = V[a].value
    BY <1>1, <2>3 DEF Content, EncP!Live
  <2>6. CASE a = tab.next
    BY <1>1, <2>4, <2>6 DEF Filled
  <2>7. CASE a # tab.next
    <3>1. a \in tab'.first .. tab.next - 1 /\ a \in EncP!Live(tab)
      BY <1>1, <2>3, <2>7 DEF EncP!Live
    <3>2. tab'.ent[a] = tab.ent[a]
      BY <2>4, <2>7, <3>1
    <3>. QED
      BY <1>3, <3>1, <3>2 DEF Content
  <2>. QED
    BY <2>6, <2>7
<1>. QED
  BY <1>2, <1>4, <1>5

\* A field line says the field it was written for.
LEMMA LineSays ==
  ASSUME tab.next \in Nat, tab.first \in Nat, NEW W, Content(W), NEW f,
         NEW V, V = Filled(W, f), NEW l, NEW used, EncP!SaysOf(l, f, used),
         NEW C, used \subseteq C, cur.base \in Nat
  PROVE  Says(V, l, cur.base, C, [name |-> f.name, value |-> f.value])
<1>1. CASE /\ l.op \in {"StaticIndexed", "StaticName", "Literal"}
           /\ l.name = f.name /\ l.value = f.value
  BY <1>1 DEF Says, Refers
<1>2. ASSUME NEW a \in Nat, a + 1 \in used,
             \/ a \in EncP!Live(tab) /\ tab.ent[a].name = f.name
             \/ a = tab.next /\ tab' = EncP!TableAdd(tab, f.name, f.value, cap),
             \/ l = EncP!NameLine(a, f.value)
             \/ /\ l = EncP!IndexedLine(a)
                /\ a \in EncP!Live(tab) => tab.ent[a].value = f.value
      PROVE  Says(V, l, cur.base, C, [name |-> f.name, value |-> f.value])
  <2>1. V[a].name = f.name
    <3>1. CASE a = tab.next
      BY <1>2, <3>1 DEF Filled
    <3>2. CASE a # tab.next
      BY <1>2, <3>2 DEF Filled, Content
    <3>. QED
      BY <3>1, <3>2
  <2>2. CASE l = EncP!NameLine(a, f.value)
    <3>1. Refers(l) /\ Index(l, cur.base) = a /\ l.op \in {"Name", "NamePB"}
          /\ l.value = f.value
      BY <2>2 DEF EncP!NameLine, Refers, Index
    <3>. QED
      BY <1>2, <2>1, <3>1 DEF Says
  <2>3. CASE l = EncP!IndexedLine(a) /\ (a \in EncP!Live(tab) => tab.ent[a].value = f.value)
    <3>1. Refers(l) /\ Index(l, cur.base) = a /\ l.op \notin {"Name", "NamePB"}
      BY <2>3 DEF EncP!IndexedLine, Refers, Index
    <3>2. V[a].value = f.value
      <4>1. CASE a = tab.next
        BY <1>2, <4>1 DEF Filled
      <4>2. CASE a # tab.next
        BY <1>2, <2>3, <4>2 DEF Filled, Content
      <4>. QED
        BY <4>1, <4>2
    <3>. QED
      BY <1>2, <2>1, <3>1, <3>2 DEF Says
  <2>. QED
    BY <1>2, <2>2, <2>3
<1>. QED
  BY <1>1, <1>2 DEF EncP!SaysOf

\* nghttp3_qpack_encoder_encode_nv: the section says one more field.
LEMMA EncodeTells ==
  ASSUME Standing, cur # NoSection, cur' # NoSection,
         NEW W, Content(W), Telling(W), NEW f \in Fields, EncP!EncodeNv(f),
         NEW V, V = Filled(W, f),
         want' = [want EXCEPT ![cur.stream] =
                    Append(want[cur.stream], [name |-> f.name, value |-> f.value])]
  PROVE  Telling(V)' /\ cur'.stream = cur.stream /\ Len(cur'.lines) = Len(cur.lines) + 1
<1>. DEFINE ws == want[cur.stream]
            n == Len(cur.lines)
            g == [name |-> f.name, value |-> f.value]
<1>1. /\ EncP!IInv /\ cur \in EncP!Section /\ tab.next \in Nat /\ tab.first \in Nat
  BY SidesType DEF Standing, ConnInv, Sides, EncoderSide, Building
<1>2. cur.stream \in Streams /\ cur.base \in Nat /\ cur.lines \in Seq(EncP!FieldLine)
      /\ n \in Nat
  BY <1>1 DEF EncP!Section
<1>3. PICK l, used :
        /\ cur'.lines = cur.lines \o <<l>> /\ cur'.cnts = cur.cnts \cup used
        /\ cur'.stream = cur.stream /\ cur'.base = cur.base /\ EncP!SaysOf(l, f, used)
  BY <1>1, Constants, EncP!EncodeSays
<1>4. ws \in Seq(Field) /\ Len(ws) \in Nat
  BY <1>2 DEF Standing
<1>5. want'[cur.stream] = Append(ws, g)
  BY <1>2 DEF Standing
<1>6. /\ n <= Len(ws)
      /\ \A i \in 1 .. n : Says(W, cur.lines[i], cur.base, cur.cnts, ws[Len(ws) - n + i])
  BY DEF Telling
<1>7. /\ Len(cur'.lines) = n + 1 /\ cur'.lines[n + 1] = l
      /\ \A i \in 1 .. n : cur'.lines[i] = cur.lines[i]
  BY <1>2, <1>3
<1>8. /\ Len(Append(ws, g)) = Len(ws) + 1 /\ Append(ws, g)[Len(ws) + 1] = g
      /\ \A i \in 1 .. Len(ws) : Append(ws, g)[i] = ws[i]
  BY <1>4
<1>. HIDE DEF ws, n, g
<1>9. Says(V, l, cur.base, cur'.cnts, g)
  BY <1>1, <1>2, <1>3, LineSays DEF g
<1>10. ASSUME NEW i \in 1 .. n
       PROVE  Says(V, cur'.lines[i], cur.base, cur'.cnts, Append(ws, g)[Len(ws) - n + i])
  <2>1. PICK j : j = Len(ws) - n + i /\ j \in 1 .. Len(ws)
    BY <1>2, <1>4, <1>6, <1>10
  <2>2. PICK k, h : k = cur.lines[i] /\ h = ws[j] /\ Says(W, k, cur.base, cur.cnts, h)
    BY <1>6, <1>10, <2>1
  <2>3. Says(V, k, cur.base, cur'.cnts, h)
    <3>1. CASE ~Refers(k)
      BY <2>2, <3>1 DEF Says
    <3>2. CASE Refers(k)
      <4>1. PICK a \in Nat : a = Index(k, cur.base) /\ a + 1 \in cur.cnts
        BY <2>2, <3>2 DEF Says
      <4>2. a < tab.next
        <5>1. a + 1 <= tab.next
          BY <1>1, <4>1, CurCounts
        <5>. QED
          BY <1>1, <5>1
      <4>3. V[a] = W[a]
        BY <4>2, <1>1 DEF Filled
      <4>. QED
        BY <1>3, <2>2, <3>2, <4>1, <4>3 DEF Says
    <3>. QED
      BY <3>1, <3>2
  <2>. QED
    BY <1>7, <1>8, <2>1, <2>2, <2>3
<1>11. SUFFICES ASSUME NEW i \in 1 .. n + 1
                PROVE  Says(V, cur'.lines[i], cur.base, cur'.cnts,
                            Append(ws, g)[(Len(ws) + 1) - (n + 1) + i])
  <2>1. /\ Len(cur'.lines) = n + 1 /\ want'[cur'.stream] = Append(ws, g)
        /\ Len(Append(ws, g)) = Len(ws) + 1 /\ n + 1 <= Len(ws) + 1
        /\ cur'.stream = cur.stream /\ cur'.base = cur.base
    BY <1>2, <1>3, <1>4, <1>5, <1>6, <1>7, <1>8
  <2>2. Len(want'[cur'.stream]) = Len(ws) + 1
    BY <2>1
  <2>3. Len(cur'.lines) = Len(cur.lines) + 1
    BY <2>1 DEF n
  <2>. HIDE DEF n, ws, g
  <2>. QED
    BY <2>1, <2>2, <2>3 DEF Telling
<1>12. (Len(ws) + 1) - (n + 1) + i = Len(ws) - n + i
  BY <1>2, <1>4 DEF n, ws
<1>13. CASE i = n + 1
  <2>1. Len(ws) - n + i = Len(ws) + 1
    BY <1>2, <1>4, <1>13
  <2>. QED
    BY <1>7, <1>8, <1>9, <1>12, <1>13, <2>1
<1>14. CASE i # n + 1
  <2>1. i \in 1 .. n
    BY <1>2, <1>14 DEF n
  <2>. QED
    BY <1>10, <1>12, <2>1
<1>. QED
  BY <1>13, <1>14
\* What was said on the request streams stays true while a field is encoded.
LEMMA EncodeTold ==
  ASSUME Standing, NEW R, NEW N, NEW z, NEW W, Agreed(R, N, z, W), cur # NoSection,
         NEW f \in Fields, NEW V, V = Filled(W, f),
         UNCHANGED <<sctx, inq, rstream, got, closed, derr>>,
         want' = [want EXCEPT ![cur.stream] =
                    Append(want[cur.stream], [name |-> f.name, value |-> f.value])],
         cur' # NoSection, cur'.stream = cur.stream, Len(cur'.lines) = Len(cur.lines) + 1
  PROVE  Told(R, N, z, V)' /\ want' \in [Streams -> Seq(Field)]
<1>. DEFINE c == cur.stream
            ws == want[c]
            g == [name |-> f.name, value |-> f.value]
<1>1. /\ EncP!IInv /\ cur \in EncP!Section /\ tab.next \in Nat /\ tab.first \in Nat
      /\ want \in [Streams -> Seq(Field)]
  BY SidesType DEF Standing, ConnInv, Sides, EncoderSide, Building
<1>2. c \in Streams /\ Len(cur.lines) \in Nat
  BY <1>1 DEF EncP!Section
<1>3. g \in Field
  BY Constants, EncP!SpaceType DEF Field
<1>. HIDE DEF g, c
<1>4. ws \in Seq(Field) /\ Append(ws, g) \in Seq(Field)
      /\ Len(ws) \in Nat /\ Len(Append(ws, g)) = Len(ws) + 1
      /\ \A i \in 1 .. Len(ws) : Append(ws, g)[i] = ws[i]
  BY <1>1, <1>2, <1>3
<1>5. want' = [want EXCEPT ![c] = Append(ws, g)]
  BY DEF c, g
<1>6. want' \in [Streams -> Seq(Field)] /\ want'[c] = Append(ws, g)
      /\ \A x \in Streams \ {c} : want'[x] = want[x]
  <2>. HIDE DEF ws
  <2>. QED
    BY <1>1, <1>2, <1>4, <1>5
<1>7. SUFFICES ASSUME derr = "none", NEW s \in Streams \ closed
               PROVE  Brings(Reads(R[s], N[s], V, want'[s]), Here(s, z)',
                             inq[s] \o rstream[s], There(s, N)')
  BY <1>6 DEF Told
<1>8. Brings(Reads(R[s], N[s], W, want[s]), Here(s, z), inq[s] \o rstream[s], There(s, N))
  BY <1>7 DEF Agreed, Told
<1>9. Here(s, z)' = Here(s, z)
  BY DEF Here
<1>10. There(s, N)' = There(s, N)
  <2>1. Len(want'[s]) - Untold(s)' = Len(want[s]) - Untold(s)
    <3>1. CASE s # c
      BY <1>6, <1>7, <3>1 DEF Untold, c
    <3>2. CASE s = c
      <4>1. Untold(s)' = Len(cur.lines) + 1 /\ Untold(s) = Len(cur.lines)
        BY <3>2 DEF Untold, c
      <4>2. Len(want'[s]) = Len(ws) + 1 /\ want[s] = ws
        BY <1>4, <1>6, <3>2
      <4>. HIDE DEF ws
      <4>. QED
        BY <1>2, <1>4, <4>1, <4>2
    <3>. QED
      BY <3>1, <3>2
  <2>. QED
    BY <2>1 DEF There
<1>11. Reads(R[s], N[s], W, want[s]) \subseteq Reads(R[s], N[s], V, want'[s])
  <2>1. Numbered(R, N) /\ Counts(R, N)
    BY DEF Agreed, Settled
  <2>2. R[s] \in [Nat -> EncP!Ref] /\ N[s] \in Nat
    BY <2>1 DEF Numbered
  <2>3. \A j \in 1 .. N[s] : R[s][j].max_cnt <= tab.next
    BY <2>1 DEF Counts
  <2>4. \A a \in Nat : a < tab.next => V[a] = W[a]
    BY <1>1 DEF Filled
  <2>5. /\ want[s] \in Seq(Field) /\ want'[s] \in Seq(Field) /\ Len(want[s]) <= Len(want'[s])
        /\ \A i \in 1 .. Len(want[s]) : want'[s][i] = want[s][i]
    <3>1. CASE s # c
      <4>1. want'[s] = want[s] /\ want[s] \in Seq(Field)
        BY <1>1, <1>6, <3>1
      <4>2. PICK x \in Seq(Field) : x = want[s] /\ x = want'[s]
        BY <4>1
      <4>3. Len(x) \in Nat /\ Len(x) <= Len(x)
        BY <4>2
      <4>. QED
        BY <4>2, <4>3
    <3>2. CASE s = c
      <4>1. want'[s] = Append(ws, g) /\ want[s] = ws
        BY <1>6, <3>2
      <4>. HIDE DEF ws
      <4>. QED
        BY <1>4, <4>1
    <3>. QED
      BY <3>1, <3>2
  <2>6. PICK ys, xs, r, n, b : ys = want[s] /\ xs = want'[s] /\ r = R[s] /\ n = N[s]
                               /\ b = tab.next
    OBVIOUS
  <2>7. Reads(r, n, W, ys) \subseteq Reads(r, n, V, xs)
    <3>1. r \in [Nat -> EncP!Ref] /\ n \in Nat /\ b \in Nat /\ n <= n
      BY <1>1, <2>2, <2>6
    <3>2. \A j \in 1 .. n : r[j] = r[j] /\ r[j].max_cnt <= b
      BY <2>3, <2>6
    <3>3. \A a \in Nat : a < b => V[a] = W[a]
      BY <2>4, <2>6
    <3>4. /\ ys \in Seq(Field) /\ xs \in Seq(Field) /\ Len(ys) <= Len(xs)
          /\ \A i \in 1 .. Len(ys) : xs[i] = ys[i]
      BY <2>5, <2>6
    <3>. QED
      BY <3>1, <3>2, <3>3, <3>4, ReadsStay
  <2>. QED
    BY <2>6, <2>7
<1>. QED
  BY <1>8, <1>9, <1>10, <1>11, BringsStill

\* nghttp3_qpack_encoder_encode_nv
LEMMA EncodeDelivers ==
  ASSUME Standing, ConnInv', NEW R, NEW N, NEW z, NEW W, Agreed(R, N, z, W), Compatible,
         NEW f \in Fields, EncodeNv(f)
  PROVE  Standing' /\ \E V : Agreed(R, N, z, V)'
<1>1. /\ EncP!EncodeNv(f) /\ UNCHANGED <<decVars, netVars, settings>>
      /\ want' = [want EXCEPT ![cur.stream] =
                    Append(want[cur.stream], [name |-> f.name, value |-> f.value])]
  BY EncField DEF EncodeNv
<1>2. /\ UNCHANGED <<maxBlocked, krcnt, refs, blocked, ebad>> /\ cur # NoSection
      /\ Len(cur.lines) < MaxLines
  BY <1>1 DEF EncP!EncodeNv, EncP!ackVars
<1>3. UNCHANGED <<dtab, written, dbuf, sctx, bq, inq, closed, got, mode, derr>>
      /\ UNCHANGED <<dstream, rstream>>
  BY <1>1 DEF decVars, netVars
<1>4. /\ EncP!IInv /\ cur \in EncP!Section /\ tab.next \in Nat
      /\ Content(W) /\ Telling(W) /\ Settled(R, N, z)
  BY <1>2, SidesType DEF Standing, ConnInv, Sides, EncoderSide, Building, Agreed
<1>5. cur' # NoSection
  BY <1>1, <1>2, <1>4, Constants, EncP!EncodeWrites DEF EncP!NoSectionAssumption
<1>6. PICK V : V = Filled(W, f)
  OBVIOUS
<1>7. /\ Content(V)' /\ tab'.next \in Nat
      /\ tab.next <= tab'.next /\ tab'.next <= tab.next + 1
  BY <1>1, <1>2, <1>4, <1>6, FilledContent
<1>8. Telling(V)' /\ cur'.stream = cur.stream /\ Len(cur'.lines) = Len(cur.lines) + 1
  BY <1>1, <1>2, <1>4, <1>5, <1>6, EncodeTells
<1>9. Told(R, N, z, V)' /\ want' \in [Streams -> Seq(Field)]
  BY <1>1, <1>2, <1>3, <1>5, <1>6, <1>8, EncodeTold
<1>10. Settled(R, N, z)'
  BY <1>2, <1>3, <1>4, SettledRests
<1>11. Placed(R, N, z)'
  BY <1>3 DEF Agreed, Placed
<1>12. dtab.next \in Nat /\ Len(cur.lines) \in Nat /\ MaxLag \in Nat /\ MaxLines \in Nat
  BY <1>4, Constants, SidesType
  DEF Standing, ConnInv, EncP!Section, Compatible, EncP!EncoderAssumption
<1>13. Counts(R, N)'
  BY <1>3, <1>4, <1>7, <1>12, CountsRest DEF Agreed, Settled, Standing
<1>14. InReach'
  <2>1. tab.next + MaxLines - Len(cur.lines) <= dtab.next + MaxLag
    BY <1>2 DEF Standing, InReach
  <2>2. PICK t, u, d, e, m, y : /\ t = tab.next /\ u = tab'.next /\ d = dtab.next
                                /\ e = Len(cur.lines) /\ m = Len(cur'.lines)
                                /\ y = dtab'.next
    OBVIOUS
  <2>3. /\ t \in Nat /\ u \in Nat /\ d \in Nat /\ e \in Nat /\ m = e + 1 /\ y = d
        /\ u <= t + 1 /\ e < MaxLines /\ t + MaxLines - e <= d + MaxLag
    BY <1>2, <1>3, <1>4, <1>7, <1>8, <1>12, <2>1, <2>2
  <2>4. m <= MaxLines /\ u + MaxLines - m <= y + MaxLag
    BY <1>12, <2>3
  <2>. QED
    BY <2>2, <2>4 DEF InReach
<1>15. WithinLimit'
  <2>1. EncP!BlockedInv'
    <3>1. EncP!Next
      BY <1>1 DEF EncP!Next
    <3>. QED
      BY <3>1, Constants, EncP!NextKeepsBlockedInv DEF Standing, WithinLimit
  <2>. QED
    BY <1>1, <1>2, <2>1, WithinLimitRests DEF EncP!BlockedInv
<1>16. Spaced' /\ Parked'
  BY <1>2, <1>3 DEF Standing, Spaced, Parked
<1>. QED
  BY <1>2, <1>7, <1>8, <1>9, <1>10, <1>11, <1>13, <1>14, <1>15, <1>16
  DEF Standing, Agreed

\* A field line as the decoder meets it says what it said.
LEMMA DeliveredSays ==
  ASSUME NEW l \in EncP!FieldLine, NEW e \in BOOLEAN, NEW d, d = Delivered(l, e)
  PROVE  /\ Refers(d) = Refers(l)
         /\ \A W, b, C, f : Says(W, l, b, C, f) => Says(W, d, b, C, f)
<1>1. \/ l \in [op : {"Indexed", "IndexedPB"}, idx : Nat]
      \/ l \in [op : {"Name", "NamePB"}, idx : Nat, value : Values]
      \/ l \in [op : {"StaticIndexed", "StaticName", "Literal"}, name : Names,
                value : Values]
  BY DEF EncP!FieldLine
<1>2. d = [x \in DOMAIN l \cup {"fin"} |-> IF x = "fin" THEN e ELSE l[x]]
  BY DEF Delivered
<1>3. CASE l \in [op : {"Indexed", "IndexedPB"}, idx : Nat]
  <2>1. DOMAIN l = {"op", "idx"} /\ l.op \in {"Indexed", "IndexedPB"}
    BY <1>3
  <2>2. d.op = l.op /\ d.idx = l.idx
    BY <1>2, <2>1
  <2>. QED
    BY <2>1, <2>2 DEF Says, Refers, Index
<1>4. CASE l \in [op : {"Name", "NamePB"}, idx : Nat, value : Values]
  <2>1. DOMAIN l = {"op", "idx", "value"} /\ l.op \in {"Name", "NamePB"}
    BY <1>4
  <2>2. d.op = l.op /\ d.idx = l.idx /\ d.value = l.value
    BY <1>2, <2>1
  <2>. QED
    BY <2>1, <2>2 DEF Says, Refers, Index
<1>5. CASE l \in [op : {"StaticIndexed", "StaticName", "Literal"}, name : Names,
                  value : Values]
  <2>1. DOMAIN l = {"op", "name", "value"}
        /\ l.op \in {"StaticIndexed", "StaticName", "Literal"}
    BY <1>5
  <2>2. d.op = l.op /\ d.name = l.name /\ d.value = l.value
    BY <1>2, <2>1
  <2>. QED
    BY <2>1, <2>2 DEF Says, Refers
<1>. QED
  BY <1>1, <1>3, <1>4, <1>5

\* What FinishEncode writes to the request stream, token by token
Spelt(w, l, p) ==
  LET n == Len(l) IN
  /\ w \in Seq(Token) /\ Len(w) = n + 2 /\ n \in Nat
  /\ w[1] = [op |-> "Ricnt", encricnt |-> p.encricnt]
  /\ w[2] = [op |-> "Base", sign |-> p.sign, delta |-> p.delta, fin |-> n = 0]
  /\ \A i \in 1 .. n : w[i + 2] = Delivered(l[i], i = n)

\* The section that is put on the stream is written like this.
LEMMA WireTokens ==
  ASSUME EncoderSide, cur # NoSection
  PROVE  Spelt(Wire(EncP!CurSection), cur.lines,
                EncP!EncodePrefix(EncP!CurRicnt, cur.base, HardMax))
<1>. PICK n, p, w :
       /\ n = Len(cur.lines) /\ p = EncP!EncodePrefix(EncP!CurRicnt, cur.base, HardMax)
       /\ w = Wire(EncP!CurSection)
  OBVIOUS
<1>. DEFINE l == cur.lines
            a == [op |-> "Ricnt", encricnt |-> p.encricnt]
            b == [op |-> "Base", sign |-> p.sign, delta |-> p.delta, fin |-> n = 0]
            d == [i \in 1 .. n |-> Delivered(l[i], i = n)]
<1>1. l \in Seq(EncP!FieldLine) /\ n \in Nat
  BY DEF EncoderSide, Building, EncP!Section
<1>2. w = <<a, b>> \o d
  BY DEF EncP!CurSection, Wire
<1>3. w \in Seq(Token)
  BY WireIsSection DEF IsSections
<1>4. /\ Len(<<a, b>>) = 2 /\ <<a, b>>[1] = a /\ <<a, b>>[2] = b
      /\ Len(d) = n /\ \A i \in 1 .. n : d[i] = Delivered(l[i], i = n)
  BY <1>1
<1>5. \E S : <<a, b>> \in Seq(S) /\ d \in Seq(S)
  <2>1. PICK S : S = {a, b} \cup {d[i] : i \in 1 .. n}
    OBVIOUS
  <2>2. <<a, b>> \in Seq(S)
    BY <2>1
  <2>3. d \in Seq(S)
    <3>1. \A i \in 1 .. n : d[i] \in S
      BY <2>1
    <3>2. d = [i \in 1 .. n |-> d[i]]
      OBVIOUS
    <3>. HIDE DEF d
    <3>. QED
      BY <1>1, <3>1, <3>2
  <2>. QED
    BY <2>2, <2>3
<1>6. PICK v, e : v = <<a, b>> /\ e = d
  OBVIOUS
<1>7. PICK S : v \in Seq(S) /\ e \in Seq(S)
  BY <1>5, <1>6
<1>8. /\ Len(v) = 2 /\ v[1] = a /\ v[2] = b /\ Len(e) = n
      /\ \A i \in 1 .. n : e[i] = Delivered(l[i], i = n)
  BY <1>4, <1>6
<1>. HIDE DEF a, b, d, l
<1>9. /\ w = v \o e
  BY <1>2, <1>6
<1>10. Len(w) = n + 2 /\ w[1] = a /\ w[2] = b /\ \A i \in 1 .. n : w[i + 2] = e[i]
  <2>1. /\ Len(v \o e) = Len(v) + Len(e)
        /\ \A i \in 1 .. Len(v) : (v \o e)[i] = v[i]
        /\ \A i \in 1 .. Len(v) + Len(e) :
             (v \o e)[i] = IF i <= Len(v) THEN v[i] ELSE e[i - Len(v)]
    BY <1>7
  <2>2. ASSUME NEW i \in 1 .. n PROVE w[i + 2] = e[i]
    <3>1. i + 2 \in 1 .. Len(v) + Len(e) /\ ~(i + 2 <= Len(v)) /\ (i + 2) - Len(v) = i
      BY <1>1, <1>8
    <3>. QED
      BY <1>9, <2>1, <3>1
  <2>. QED
    BY <1>1, <1>8, <1>9, <2>1, <2>2
<1>11. PICK k : k = cur.lines
  OBVIOUS
<1>12. /\ w \in Seq(Token) /\ Len(w) = n + 2 /\ n \in Nat /\ n = Len(k)
       /\ w[1] = [op |-> "Ricnt", encricnt |-> p.encricnt]
       /\ w[2] = [op |-> "Base", sign |-> p.sign, delta |-> p.delta, fin |-> n = 0]
       /\ \A i \in 1 .. n : w[i + 2] = Delivered(k[i], i = n)
  BY <1>1, <1>3, <1>8, <1>10, <1>11 DEF a, b, l
<1>13. Spelt(w, k, p)
  BY <1>12 DEF Spelt
<1>. QED
  BY <1>11, <1>13

\* A line that refers to fewer entries says the same of more.
LEMMA SaysMore ==
  ASSUME NEW W, NEW l, NEW b, NEW C, NEW D, NEW f, Says(W, l, b, C, f),
         C \subseteq D \/ C = {}
  PROVE  Says(W, l, b, D, f) /\ (C = {} => ~Refers(l))
  BY DEF Says

\* The counts of the section that ends, and its Required Insert Count
LEMMA EndedCounts ==
  ASSUME EncP!IInv, cur # NoSection, NEW R, NEW N, Numbered(R, N),
         NEW K, NEW M, Ended(R, N, K, M)
  PROVE  LET s == cur.stream IN
         /\ s \in Streams /\ N[s] \in Nat /\ EncP!CurRicnt \in Nat
         /\ cur.cnts = {} => EncP!CurRicnt = 0 /\ M[s] = N[s]
         /\ cur.cnts # {} =>
              /\ EncP!CurRicnt # 0 /\ M[s] = N[s] + 1 /\ N[s] < M[s]
              /\ EncP!CurRicnt = K[s][N[s] + 1].max_cnt
              /\ cur.cnts \subseteq K[s][N[s] + 1].min_cnt .. K[s][N[s] + 1].max_cnt
<1>. DEFINE s == cur.stream
<1>1. /\ s \in Streams /\ N \in [Streams -> Nat] /\ R \in [Streams -> [Nat -> EncP!Ref]]
      /\ \A c \in cur.cnts : c \in Nat /\ 1 <= c
      /\ cur.cnts # {} =>
           /\ CurRef.max_cnt \in cur.cnts /\ CurRef.min_cnt \in cur.cnts
           /\ \A c \in cur.cnts : CurRef.min_cnt <= c /\ c <= CurRef.max_cnt
  BY CurCounts DEF Numbered
<1>2. CASE cur.cnts = {}
  BY <1>1, <1>2 DEF Ended, EncP!CurRicnt
<1>3. CASE cur.cnts # {}
  <2>1. /\ M = [N EXCEPT ![s] = N[s] + 1]
        /\ K = [R EXCEPT ![s] = [R[s] EXCEPT ![N[s] + 1] = CurRef]]
    BY <1>3 DEF Ended
  <2>2. M[s] = N[s] + 1 /\ K[s][N[s] + 1] = CurRef /\ N[s] \in Nat
    BY <1>1, <2>1
  <2>3. EncP!CurRicnt = CurRef.max_cnt
    BY <1>3 DEF EncP!CurRicnt, CurRef
  <2>4. PICK x, y : x = CurRef.max_cnt /\ y = CurRef.min_cnt
    OBVIOUS
  <2>5. x \in Nat /\ x # 0 /\ y \in Nat
    BY <1>1, <1>3, <2>4
  <2>6. cur.cnts \subseteq y .. x
    BY <1>1, <1>3, <2>4, <2>5
  <2>. HIDE DEF s
  <2>. QED
    BY <1>1, <1>3, <2>2, <2>3, <2>4, <2>5, <2>6 DEF s
<1>. QED
  BY <1>2, <1>3

\* The section tells the reader of its stream the fields that were encoded.
LEMMA SectionTells ==
  ASSUME EncoderSide, cur # NoSection, NEW W, Telling(W), NEW s, s = cur.stream,
         want \in [Streams -> Seq(Field)], NEW R, NEW N, Numbered(R, N),
         NEW K, NEW M, Ended(R, N, K, M)
  PROVE  Brings(Reads(K[s], M[s], W, want[s]), There(s, N), Wire(EncP!CurSection),
                Between(M[s], Len(want[s])))
<1>0. PICK n, rc, b, w, p, ws, l, C, a, m, k :
       /\ n = Len(cur.lines) /\ rc = EncP!CurRicnt /\ b = cur.base
       /\ w = Wire(EncP!CurSection) /\ p = EncP!EncodePrefix(rc, b, HardMax)
       /\ ws = want[s] /\ l = cur.lines /\ C = cur.cnts
       /\ a = N[s] /\ m = M[s] /\ k = K[s]
  OBVIOUS
<1>1. /\ EncP!IInv /\ b \in Nat /\ l \in Seq(EncP!FieldLine) /\ n = Len(l)
      /\ l = <<>> => C = {}
  BY <1>0 DEF EncoderSide, Building, EncP!Section
<1>2. /\ s \in Streams /\ a \in Nat /\ rc \in Nat
      /\ C = {} => rc = 0 /\ m = a
      /\ C # {} => /\ rc # 0 /\ m = a + 1 /\ a < m /\ rc = k[a + 1].max_cnt
                   /\ C \subseteq k[a + 1].min_cnt .. k[a + 1].max_cnt
  BY <1>0, <1>1, EndedCounts
<1>3. /\ w \in Seq(Token) /\ Len(w) = n + 2 /\ n \in Nat
      /\ w[1] = [op |-> "Ricnt", encricnt |-> p.encricnt]
      /\ w[2] = [op |-> "Base", sign |-> p.sign, delta |-> p.delta, fin |-> n = 0]
      /\ \A i \in 1 .. n : w[i + 2] = Delivered(l[i], i = n)
  <2>1. Spelt(w, l, p)
    BY <1>0, WireTokens
  <2>. QED
    BY <1>1, <2>1 DEF Spelt
<1>15. PICK e : e = Len(ws)
  OBVIOUS
<1>4. /\ ws \in Seq(Field) /\ e \in Nat /\ n <= e
      /\ \A i \in 1 .. n : Says(W, l[i], b, C, ws[e - n + i])
  <2>1. ws \in Seq(Field)
    BY <1>0, <1>2
  <2>2. /\ Len(cur.lines) <= Len(want[cur.stream])
        /\ \A i \in 1 .. Len(cur.lines) :
             Says(W, cur.lines[i], cur.base, cur.cnts,
                  want[cur.stream][Len(want[cur.stream]) - Len(cur.lines) + i])
    BY DEF Telling
  <2>3. e \in Nat
    BY <1>15, <2>1
  <2>. QED
    BY <1>0, <1>15, <2>1, <2>2, <2>3
<1>16. \E o \in Nat : o = e - n
  BY <1>3, <1>4
<1>5. PICK o \in Nat : o = e - n
  BY <1>16
<1>6. There(s, N) = Between(a, o)
  BY <1>0, <1>5, <1>15 DEF There, Untold
<1>. DEFINE h == [j \in 1 .. n + 3 |->
                    CASE j = 1 -> Between(a, o)
                      [] j = 2 -> At("DBASE", rc, 0, a, o)
                      [] j = n + 3 -> Between(m, e)
                      [] OTHER -> At("OPCODE", rc, b, a, o + (j - 3))]
<1>7. /\ h[1] = Between(a, o) /\ h[2] = At("DBASE", rc, 0, a, o)
      /\ h[n + 3] = Between(m, e)
      /\ \A j \in 3 .. n + 2 : h[j] = At("OPCODE", rc, b, a, o + (j - 3))
  BY <1>3
<1>. HIDE DEF h
<1>8. m \in Nat
  BY <1>2
<1>9. <<h[1], w[1], h[2]>> \in Reads(k, m, W, ws)
  <2>1. h[1] \in Place /\ h[2] \in Place /\ w[1] \in Token
    BY <1>2, <1>3, <1>5, <1>7 DEF Place, At, Between
  <2>2. w[1].encricnt = EncP!EncodePrefix(rc, 0, HardMax).encricnt /\ w[1].op = "Ricnt"
    BY <1>0, <1>3 DEF EncP!EncodePrefix
  <2>3. ReadsRicnt(k, m, h[1], w[1], h[2])
    BY <1>2, <1>7, <2>2 DEF ReadsRicnt, At, Between
  <2>. QED
    BY <2>1, <2>3, ReadParts
<1>10. <<h[2], w[2], h[3]>> \in Reads(k, m, W, ws)
  <2>1. w[2].op = "Base" /\ w[2].fin = (n = 0) /\ w[2].sign = p.sign /\ w[2].delta = p.delta
    BY <1>3
  <2>2. DecP!DecodeBase(rc, w[2]) = b
    <3>1. PICK t : t = w[2]
      OBVIOUS
    <3>2. /\ t.sign = EncP!EncodePrefix(rc, b, HardMax).sign
          /\ t.delta = EncP!EncodePrefix(rc, b, HardMax).delta
      BY <1>0, <2>1, <3>1
    <3>3. DecP!DecodeBase(rc, t) = b
      BY <1>1, <1>2, <3>2, BaseSurvives
    <3>. QED
      BY <3>1, <3>3
  <2>3. n = 0 => rc = 0 /\ m = a /\ o = e
    <3>1. n = 0 => l = <<>>
      <4>1. \A q \in Seq(EncP!FieldLine) : Len(q) = 0 => q = <<>>
        OBVIOUS
      <4>. QED
        BY <1>1, <4>1
    <3>2. n = 0 => o = e
      BY <1>4, <1>5
    <3>. QED
      BY <1>1, <1>2, <3>1, <3>2
  <2>4. h[3] = IF n = 0 THEN Between(a, o) ELSE At("OPCODE", rc, b, a, o)
    <3>1. CASE n = 0
      BY <1>7, <2>3, <3>1
    <3>2. CASE n # 0
      <4>1. 3 \in 3 .. n + 2 /\ o + (3 - 3) = o
        BY <1>3, <1>5, <3>2
      <4>. QED
        BY <1>7, <3>2, <4>1
    <3>. QED
      BY <3>1, <3>2
  <2>5. h[2] \in Place /\ h[3] \in Place /\ w[2] \in Token
    <3>1. w[2] \in Token
      BY <1>3
    <3>. QED
      BY <1>1, <1>2, <1>5, <1>7, <2>4, <3>1 DEF Place, At, Between
  <2>6. ReadsBase(h[2], w[2], h[3])
    <3>1. PICK u, t, v : u = h[2] /\ t = w[2] /\ v = h[3]
      OBVIOUS
    <3>2. /\ t.op = "Base" /\ (t.fin <=> n = 0) /\ DecP!DecodeBase(rc, t) = b
          /\ u = At("DBASE", rc, 0, a, o)
          /\ v = IF n = 0 THEN Between(a, o) ELSE At("OPCODE", rc, b, a, o)
      BY <1>7, <2>1, <2>2, <2>4, <3>1
    <3>3. u.state = "DBASE" /\ u.ricnt = rc /\ u.sec = a /\ u.pos = o
      BY <3>2 DEF At
    <3>4. ReadsBase(u, t, v)
      BY <1>1, <2>3, <3>2, <3>3 DEF ReadsBase
    <3>. QED
      BY <3>1, <3>4
  <2>. QED
    BY <2>5, <2>6, ReadParts
<1>11. ASSUME NEW i \in 1 .. n PROVE <<h[i + 2], w[i + 2], h[(i + 2) + 1]>> \in Reads(k, m, W, ws)
  <2>0. PICK t, f : t = w[i + 2] /\ f = (i = n)
    OBVIOUS
  <2>1. t = w[i + 2] /\ (f <=> i = n)
    BY <2>0
  <2>2. l[i] \in EncP!FieldLine /\ f \in BOOLEAN /\ t = Delivered(l[i], f)
    BY <1>1, <1>3, <1>11, <2>0
  <2>3. t \in DecP!LineTokens /\ t.fin = f
    BY <2>2, DeliveredType
  <2>4. Refers(t) = Refers(l[i]) /\ Says(W, t, b, C, ws[o + i])
    <3>1. Says(W, l[i], b, C, ws[o + i])
      BY <1>4, <1>5
    <3>. QED
      BY <2>2, <3>1, DeliveredSays
  <2>5. /\ Says(W, t, b, k[a + 1].min_cnt .. k[a + 1].max_cnt, ws[o + i])
        /\ C = {} => ~Refers(t)
    BY <1>2, <2>4, SaysMore
  <2>6. PICK x \in Nat : x = (o + i) - 1
    BY <1>3, <1>5
  <2>7. /\ h[i + 2] = At("OPCODE", rc, b, a, x) /\ x < e /\ x + 1 = o + i
    <3>1. i + 2 \in 3 .. n + 2 /\ o + ((i + 2) - 3) = x
      BY <1>3, <1>5, <2>6
    <3>2. x < e /\ x + 1 = o + i
      BY <1>3, <1>4, <1>5, <2>6
    <3>. QED
      BY <1>7, <3>1, <3>2
  <2>8. h[(i + 2) + 1] = IF f THEN Between(IF rc = 0 THEN a ELSE a + 1, x + 1)
                               ELSE At("OPCODE", rc, b, a, x + 1)
    <3>1. CASE f
      <4>1. (i + 2) + 1 = n + 3 /\ x + 1 = e
        BY <1>3, <1>4, <1>5, <2>1, <2>6, <3>1
      <4>2. m = IF rc = 0 THEN a ELSE a + 1
        BY <1>2
      <4>. QED
        BY <1>7, <3>1, <4>1, <4>2
    <3>2. CASE ~f
      <4>1. (i + 2) + 1 \in 3 .. n + 2 /\ o + (((i + 2) + 1) - 3) = x + 1
        BY <1>3, <1>5, <2>1, <2>6, <3>2
      <4>. QED
        BY <1>7, <3>2, <4>1
    <3>. QED
      BY <2>2, <3>1, <3>2
  <2>9. h[i + 2] \in Place /\ h[(i + 2) + 1] \in Place
    <3>1. x + 1 \in Nat /\ a + 1 \in Nat
      BY <1>2, <2>6
    <3>. QED
      BY <1>1, <1>2, <2>6, <2>7, <2>8, <3>1 DEF Place, At, Between
  <2>10. t \in Token
    BY <2>3 DEF DecP!LineTokens
  <2>11. PICK u, v : u = h[i + 2] /\ v = h[(i + 2) + 1]
    OBVIOUS
  <2>12. ReadsLine(k, m, W, ws, u, t, v)
    <3>1. /\ u.state = "OPCODE" /\ u.ricnt = rc /\ u.base = b /\ u.sec = a /\ u.pos = x
      BY <2>7, <2>11 DEF At
    <3>2. Refers(t) => rc # 0 /\ a < m
      BY <1>2, <2>5
    <3>3. ws[x + 1] = ws[o + i]
      BY <2>7
    <3>. QED
      BY <1>15, <2>3, <2>5, <2>7, <2>8, <2>11, <3>1, <3>2, <3>3 DEF ReadsLine
  <2>. QED
    BY <2>1, <2>9, <2>10, <2>11, <2>12, ReadParts
<1>12. ASSUME NEW j \in 1 .. Len(w) PROVE <<h[j], w[j], h[j + 1]>> \in Reads(k, m, W, ws)
  <2>1. CASE j = 1
    BY <1>9, <2>1
  <2>2. CASE j = 2
    BY <1>10, <2>2
  <2>3. CASE j # 1 /\ j # 2
    <3>1. PICK i \in 1 .. n : j = i + 2
      <4>1. j - 2 \in 1 .. n /\ j = (j - 2) + 2
        BY <1>3, <2>3
      <4>. QED
        BY <4>1
    <3>. QED
      BY <1>11, <3>1
  <2>. QED
    BY <2>1, <2>2, <2>3
<1>13. h[Len(w) + 1] = Between(m, e)
  <2>1. Len(w) + 1 = n + 3
    BY <1>3
  <2>. QED
    BY <1>7, <2>1
<1>. QED
  BY <1>0, <1>6, <1>7, <1>12, <1>13, <1>15 DEF Brings

\* All fields that were said to a stream are said to it by more numbers.
LEMMA ToldLonger ==
  ASSUME Standing, NEW R, NEW N, NEW z, NEW W, Agreed(R, N, z, W), derr = "none",
         NEW K, NEW M, Longer(R, N, K, M), NEW s \in Streams \ closed,
         K \in [Streams -> [Nat -> EncP!Ref]], M \in [Streams -> Nat]
  PROVE  Brings(Reads(K[s], M[s], W, want[s]), Here(s, z), inq[s] \o rstream[s],
                There(s, N))
<1>1. PICK r, n, k, m, ws, b : r = R[s] /\ n = N[s] /\ k = K[s] /\ m = M[s]
                               /\ ws = want[s] /\ b = tab.next
  OBVIOUS
<1>2. Numbered(R, N) /\ Counts(R, N)
  BY DEF Agreed, Settled
<1>3. r \in [Nat -> EncP!Ref] /\ n \in Nat /\ k \in [Nat -> EncP!Ref] /\ m \in Nat
  BY <1>1, <1>2 DEF Numbered
<1>4. n <= m /\ \A j \in 1 .. n : k[j] = r[j]
  BY <1>1 DEF Longer
<1>5. b \in Nat /\ \A j \in 1 .. n : r[j].max_cnt <= b
  <2>1. tab.next \in Nat
    BY SidesType DEF Standing, ConnInv
  <2>2. \A j \in 1 .. N[s] : R[s][j].max_cnt <= tab.next
    BY <1>2 DEF Counts
  <2>. QED
    BY <1>1, <2>1, <2>2
<1>6. ws \in Seq(Field)
  BY <1>1 DEF Standing
<1>7. Len(ws) <= Len(ws) /\ \A i \in 1 .. Len(ws) : ws[i] = ws[i]
  <2>1. Len(ws) \in Nat
    BY <1>6
  <2>. QED
    BY <2>1
<1>8. \A a \in Nat : a < b => W[a] = W[a]
  OBVIOUS
<1>9. Reads(r, n, W, ws) \subseteq Reads(k, m, W, ws)
  BY <1>3, <1>4, <1>5, <1>6, <1>7, <1>8, ReadsStay
<1>10. Brings(Reads(R[s], N[s], W, want[s]), Here(s, z), inq[s] \o rstream[s], There(s, N))
  BY DEF Agreed, Told
<1>. QED
  BY <1>1, <1>9, <1>10, BringsStill

\* nghttp3_qpack_encoder_encode ends: the section is behind what was said.
LEMMA FinishTold ==
  ASSUME Standing, NEW R, NEW N, NEW z, NEW W, Agreed(R, N, z, W), FinishEncode,
         NEW K, NEW M, Ended(R, N, K, M), Longer(R, N, K, M),
         K \in [Streams -> [Nat -> EncP!Ref]], M \in [Streams -> Nat]
  PROVE  Told(K, M, z, W)'
<1>. DEFINE w == Wire(EncP!CurSection)
            c == cur.stream
<1>1. /\ EncP!FinishEncode /\ rstream' = [rstream EXCEPT ![c] = rstream[c] \o w]
      /\ UNCHANGED <<sctx, inq, got, closed, derr, want>>
  BY EncFinish, EncSection DEF FinishEncode, decVars, appVars
<1>2. cur # NoSection /\ cur' = NoSection /\ EncoderSide
  BY <1>1 DEF EncP!FinishEncode, Standing, ConnInv, Sides
<1>3. c \in Streams /\ EncP!IInv
  BY <1>2 DEF EncoderSide, Building, EncP!Section
<1>4. w \in Seq(Token)
  BY <1>2, WireIsSection DEF IsSections
<1>5. /\ rstream \in [Streams -> Seq(Token)] /\ inq \in [Streams -> Seq(Token)]
      /\ want \in [Streams -> Seq(Field)]
  BY DEF Standing, ConnInv, Sides, Network, DecoderSide, DecP!IInv, DecP!TypeOK
<1>6. Numbered(R, N) /\ Telling(W)
  BY DEF Agreed, Settled
<1>. HIDE DEF w, c
<1>7. rstream'[c] = rstream[c] \o w /\ \A x \in Streams \ {c} : rstream'[x] = rstream[x]
  BY <1>1, <1>3, <1>5
<1>8. SUFFICES ASSUME derr = "none", NEW s \in Streams \ closed
               PROVE  Brings(Reads(K[s], M[s], W, want[s]), Here(s, z)',
                             inq[s] \o rstream'[s], There(s, M)')
  BY <1>1 DEF Told
<1>9. Here(s, z)' = Here(s, z)
  BY <1>1 DEF Here
<1>10. There(s, M)' = Between(M[s], Len(want[s]))
  <2>1. Untold(s)' = 0 /\ want'[s] = want[s]
    BY <1>1, <1>2 DEF Untold
  <2>2. Len(want[s]) \in Nat
    BY <1>5, <1>8
  <2>3. Len(want[s]) - 0 = Len(want[s])
    BY <2>2
  <2>. QED
    BY <2>1, <2>3 DEF There
<1>11. Brings(Reads(K[s], M[s], W, want[s]), Here(s, z), inq[s] \o rstream[s], There(s, N))
  BY <1>8, ToldLonger
<1>12. CASE s # c
  <2>1. M[s] = N[s]
    BY <1>3, <1>6, <1>8, <1>12 DEF Ended, c, Numbered
  <2>2. Untold(s) = 0
    BY <1>12 DEF Untold, c
  <2>3. Len(want[s]) \in Nat
    BY <1>5, <1>8
  <2>4. Len(want[s]) - 0 = Len(want[s])
    BY <2>3
  <2>5. There(s, N) = Between(M[s], Len(want[s]))
    BY <2>1, <2>2, <2>4 DEF There
  <2>6. rstream'[s] = rstream[s]
    BY <1>7, <1>8, <1>12
  <2>. QED
    BY <1>9, <1>10, <1>11, <2>5, <2>6
<1>13. CASE s = c
  <2>1. Brings(Reads(K[s], M[s], W, want[s]), There(s, N), w, Between(M[s], Len(want[s])))
    BY <1>2, <1>5, <1>6, <1>13, SectionTells DEF w, c
  <2>2. /\ inq[s] \in Seq(Token) /\ rstream[s] \in Seq(Token)
        /\ inq[s] \o rstream[s] \in Seq(Token)
    <3>1. PICK p, q : p = inq[s] /\ q = rstream[s]
      OBVIOUS
    <3>2. p \in Seq(Token) /\ q \in Seq(Token)
      BY <1>5, <1>8, <3>1
    <3>3. p \o q \in Seq(Token)
      BY <3>2
    <3>. QED
      BY <3>1, <3>2, <3>3
  <2>3. inq[s] \o rstream'[s] = (inq[s] \o rstream[s]) \o w
    <3>1. rstream'[s] = rstream[s] \o w
      BY <1>7, <1>13
    <3>2. inq[s] \o (rstream[s] \o w) = (inq[s] \o rstream[s]) \o w
      BY <1>4, <2>2, TokensAssociate
    <3>. QED
      BY <3>1, <3>2
  <2>4. Brings(Reads(K[s], M[s], W, want[s]), Here(s, z), (inq[s] \o rstream[s]) \o w,
               Between(M[s], Len(want[s])))
    BY <1>4, <1>11, <2>1, <2>2, BringsOn
  <2>. QED
    BY <1>9, <1>10, <2>3, <2>4
<1>. QED
  BY <1>12, <1>13

\* qpack_encoder_add_stream_ref blocks a stream only below the limit.
LEMMA FinishLimit ==
  ASSUME Standing, ConnInv', EncP!FinishEncode, settings' = settings
  PROVE  WithinLimit'
<1>1. /\ EncP!BlockedInv /\ EncP!IsFiniteSet(blocked)
      /\ EncP!Cardinality(blocked) <= maxBlocked
      /\ maxBlocked <= BlockedStreams /\ (~settings => maxBlocked = 0)
      /\ maxBlocked' = maxBlocked /\ cur' = NoSection
  BY DEF Standing, WithinLimit, EncP!BlockedInv, EncP!FinishEncode
<1>2. /\ blocked' = EncP!KeysOf(refs', krcnt') /\ EncP!IsFiniteSet(blocked')
      /\ EncP!Cardinality(blocked') > EncP!Cardinality(blocked)
           => EncP!Cardinality(blocked) < maxBlocked
  BY <1>1, Constants, EncP!FinishKeepsKeys
<1>3. EncP!IInv' /\ maxBlocked \in Nat
  BY DEF Standing, ConnInv, Sides, EncoderSide, EncP!IInv, EncP!TypeOK
<1>4. PICK moved, k : moved \subseteq blocked /\ blocked' \subseteq moved \cup {k}
  <2>1. CASE cur.cnts = {}
    BY <2>1 DEF EncP!FinishEncode
  <2>2. CASE cur.cnts # {}
    BY <2>2 DEF EncP!FinishEncode, EncP!AddStreamRef
  <2>. QED
    BY <2>1, <2>2
<1>5. /\ EncP!Cardinality(blocked) \in Nat /\ EncP!Cardinality(blocked') \in Nat
      /\ EncP!Cardinality(blocked') <= EncP!Cardinality(blocked) + 1
  <2>1. /\ EncP!IsFiniteSet(blocked \cup {k})
        /\ EncP!Cardinality(blocked \cup {k}) =
             IF k \in blocked THEN EncP!Cardinality(blocked)
                              ELSE EncP!Cardinality(blocked) + 1
    BY <1>1, Constants, EncP!FS_AddElement
  <2>2. blocked' \subseteq blocked \cup {k}
    BY <1>4
  <2>3. EncP!Cardinality(blocked') <= EncP!Cardinality(blocked \cup {k})
    BY <2>1, <2>2, Constants, EncP!FS_Subset
  <2>4. /\ EncP!Cardinality(blocked) \in Nat /\ EncP!Cardinality(blocked') \in Nat
        /\ EncP!Cardinality(blocked \cup {k}) \in Nat
    BY <1>1, <1>2, <2>1, Constants, EncP!FS_CardinalityType
  <2>. QED
    BY <2>1, <2>3, <2>4
<1>6. EncP!Cardinality(blocked') <= maxBlocked
  BY <1>1, <1>2, <1>3, <1>5
<1>7. EncP!LeaveToBlock'
  BY <1>1 DEF EncP!LeaveToBlock
<1>. QED
  BY <1>1, <1>2, <1>3, <1>6, <1>7 DEF WithinLimit, EncP!BlockedInv

\* The section that ends refers to entries that were inserted.
LEMMA FinishCounts ==
  ASSUME Standing, cur # NoSection, NEW R, NEW N, Numbered(R, N), Counts(R, N),
         Compatible, UNCHANGED <<tab, dtab>>, NEW K, NEW M, Ended(R, N, K, M),
         Longer(R, N, K, M)
  PROVE  Counts(K, M)'
<1>1. /\ EncP!IInv /\ tab.next \in Nat /\ dtab.next \in Nat
      /\ MaxLag \in Nat /\ MaxLines \in Nat
      /\ cur \in EncP!Section
  BY Constants, SidesType
  DEF Standing, ConnInv, Sides, EncoderSide, Building, Compatible, EncP!EncoderAssumption
<1>2. Len(cur.lines) \in Nat
  BY <1>1 DEF EncP!Section
<1>3. tab.next <= dtab.next + MaxLag
  <2>1. /\ Len(cur.lines) <= MaxLines
        /\ tab.next + MaxLines - Len(cur.lines) <= dtab.next + MaxLag
    BY DEF Standing, InReach
  <2>2. PICK t, d, e : t = tab.next /\ d = dtab.next /\ e = Len(cur.lines)
    OBVIOUS
  <2>3. t \in Nat /\ d \in Nat /\ e \in Nat /\ e <= MaxLines /\ t + MaxLines - e <= d + MaxLag
    BY <1>1, <1>2, <2>1, <2>2
  <2>4. t <= d + MaxLag
    BY <1>1, <2>3
  <2>. QED
    BY <2>2, <2>4
<1>4. N \in [Streams -> Nat] /\ R \in [Streams -> [Nat -> EncP!Ref]] /\ cur.stream \in Streams
  BY <1>1 DEF Numbered, EncP!Section
<1>5. SUFFICES ASSUME NEW s \in Streams, NEW j \in 1 .. M[s]
               PROVE  /\ 1 <= K[s][j].min_cnt /\ K[s][j].min_cnt <= K[s][j].max_cnt
                      /\ K[s][j].max_cnt <= tab.next
                      /\ K[s][j].max_cnt <= dtab.next + MaxLag
  BY DEF Counts
<1>6. CASE j \in 1 .. N[s]
  <2>1. K[s][j] = R[s][j]
    BY <1>6 DEF Longer
  <2>. QED
    BY <1>6, <2>1 DEF Counts
<1>7. CASE j \notin 1 .. N[s]
  <2>1. cur.cnts # {} /\ s = cur.stream
    BY <1>4, <1>7 DEF Ended
  <2>2. M[s] = N[s] + 1 /\ K[s][N[s] + 1] = CurRef /\ N[s] \in Nat
    BY <1>4, <2>1 DEF Ended
  <2>3. j = N[s] + 1
    BY <1>5, <1>7, <2>2
  <2>4. PICK x, y : x = CurRef.max_cnt /\ y = CurRef.min_cnt
    OBVIOUS
  <2>5. /\ x \in cur.cnts /\ y \in cur.cnts
        /\ \A c \in cur.cnts : c \in Nat /\ 1 <= c /\ c <= tab.next
        /\ \A c \in cur.cnts : y <= c /\ c <= x
    BY <1>1, <2>1, <2>4, CurCounts
  <2>6. x \in Nat /\ y \in Nat /\ 1 <= y /\ y <= x /\ x <= tab.next
    BY <2>5
  <2>7. x <= dtab.next + MaxLag
    <3>1. PICK t, d : t = tab.next /\ d = dtab.next
      OBVIOUS
    <3>. QED
      BY <1>1, <1>3, <2>6, <3>1
  <2>. QED
    BY <2>2, <2>3, <2>4, <2>6, <2>7
<1>. QED
  BY <1>6, <1>7

\* nghttp3_stream_write_header_block: the section is on its stream.
LEMMA FinishDelivers ==
  ASSUME Standing, ConnInv', NEW R, NEW N, NEW z, NEW W, Agreed(R, N, z, W), Compatible,
         FinishEncode
  PROVE  Standing' /\ \E K, M : Agreed(K, M, z, W)'
<1>1. /\ EncP!FinishEncode /\ UNCHANGED <<decVars, dstream, appVars>>
  BY EncFinish DEF FinishEncode
<1>2. /\ cur # NoSection /\ cur' = NoSection /\ UNCHANGED <<tab, krcnt, ebad>>
      /\ UNCHANGED <<dtab, written, dbuf, sctx, bq, closed, got, mode, derr, want, settings>>
  BY <1>1 DEF EncP!FinishEncode, decVars, appVars
<1>3. /\ EncP!IInv /\ EncP!TypeOK /\ Numbered(R, N) /\ Settling(R, N, z, dstream \o dbuf)
      /\ Counts(R, N) /\ Placed(R, N, z) /\ Content(W) /\ z.cnt = written
      /\ z.gone \subseteq closed
  BY DEF Standing, ConnInv, Sides, EncoderSide, EncP!IInv, Agreed, Settled
<1>4. PICK K, M : Ended(R, N, K, M)
  BY DEF Ended
<1>5. /\ Longer(R, N, K, M) /\ Numbered(K, M)'
      /\ \A x \in Streams : M[x] - Len(refs'[x]) = N[x] - Len(refs[x])
  BY <1>1, <1>3, <1>4, FinishNumbers
<1>6. K \in [Streams -> [Nat -> EncP!Ref]] /\ M \in [Streams -> Nat]
  BY <1>5 DEF Numbered
<1>7. Settled(K, M, z)'
  <2>1. PICK q : q = dstream \o dbuf
    OBVIOUS
  <2>2. Settling(K, M, z, q)'
    BY <1>2, <1>3, <1>5, <1>6, <2>1, SettlingFinish
  <2>3. dstream' = dstream /\ dbuf' = dbuf
    BY <1>1, <1>2
  <2>4. Settling(K, M, z, dstream \o dbuf)'
    BY <2>1, <2>2, <2>3 DEF Settling
  <2>. QED
    BY <1>2, <1>3, <1>5, <2>4 DEF Settled
<1>8. Counts(K, M)'
  BY <1>2, <1>3, <1>4, <1>5, FinishCounts
<1>9. Placed(K, M, z)'
  <2>1. SUFFICES ASSUME NEW s \in Streams \ closed, sctx[s].ricnt # 0
                 PROVE  z.acked[s] < M[s] /\ sctx[s].ricnt = K[s][z.acked[s] + 1].max_cnt
    BY <1>2 DEF Placed
  <2>2. z.acked[s] < N[s] /\ sctx[s].ricnt = R[s][z.acked[s] + 1].max_cnt
    BY <1>3, <2>1 DEF Placed
  <2>3. PICK a, n, m : a = z.acked[s] /\ n = N[s] /\ m = M[s]
    OBVIOUS
  <2>4. a \in Nat /\ n \in Nat /\ m \in Nat /\ n <= m /\ a < n
    BY <1>3, <1>5, <1>6, <2>2, <2>3 DEF Settling, Settlement, Longer, Numbered
  <2>5. a + 1 \in 1 .. n /\ a < m
    BY <2>4
  <2>6. K[s][a + 1] = R[s][a + 1]
    BY <1>5, <2>3, <2>5 DEF Longer
  <2>. QED
    BY <2>2, <2>3, <2>5, <2>6
<1>10. Told(K, M, z, W)'
  BY <1>4, <1>5, <1>6, FinishTold
<1>11. Content(W)' /\ Telling(W)'
  BY <1>2, <1>3 DEF Content, Telling
<1>12. WithinLimit'
  BY <1>1, <1>2, FinishLimit
<1>13. Spaced' /\ Parked' /\ InReach' /\ ebad' = FALSE /\ want' \in [Streams -> Seq(Field)]
  BY <1>2 DEF Standing, Spaced, Parked, InReach
<1>. QED
  BY <1>7, <1>8, <1>9, <1>10, <1>11, <1>12, <1>13 DEF Standing, Agreed

-----------------------------------------------------------------------------
(* The connection delivers *)

\* Nothing is submitted or delivered.
LEMMA QuietTells ==
  ASSUME UNCHANGED <<want, got, derr>>
  PROVE  Tells
  BY DEF Tells

\* nghttp3_qpack_encoder_encode_nv is handed a field.
LEMMA EncodeSubmits ==
  ASSUME Standing, NEW f \in Fields, EncodeNv(f)
  PROVE  Tells
<1>. DEFINE g == [name |-> f.name, value |-> f.value]
<1>1. /\ EncP!EncodeNv(f) /\ UNCHANGED decVars
      /\ want' = [want EXCEPT ![cur.stream] = Append(want[cur.stream], g)]
  BY EncField DEF EncodeNv
<1>2. cur # NoSection /\ UNCHANGED <<got, derr>>
  BY <1>1 DEF EncP!EncodeNv, decVars
<1>3. cur.stream \in Streams
  BY <1>2 DEF Standing, ConnInv, Sides, EncoderSide, Building, EncP!Section
<1>4. g \in [name : Names, value : Values]
  BY Constants, EncP!SpaceType
<1>. HIDE DEF g
<1>5. Delivery!Submit(cur.stream, g)
  BY <1>1, <1>2 DEF Delivery!Submit
<1>. QED
  BY <1>2, <1>3, <1>4, <1>5 DEF Delivery!Next, Tells

\* nghttp3_qpack_decoder_read_encoder delivers nothing.
LEMMA InstructionTells ==
  ASSUME ReadEncoderStream
  PROVE  Tells
<1>1. DecP!ReadEncoder(Head(estream)) /\ want' = want
  BY DecEncoder DEF ReadEncoderStream, appVars
<1>2. DecP!Fail("ENCODER_STREAM") \/ DecP!Interpreted
  BY <1>1 DEF DecP!ReadEncoder, DecP!SetCapacity, DecP!AddEntry
<1>3. CASE DecP!Fail("ENCODER_STREAM")
  BY <1>1, <1>3, FailTells
<1>4. CASE DecP!Interpreted
  BY <1>1, <1>4, QuietTells DEF DecP!Interpreted, DecP!streamVars
<1>. QED
  BY <1>2, <1>3, <1>4

\* conn_delete_stream delivers nothing.
LEMMA CloseTells ==
  ASSUME NEW s \in Streams, CloseStream(s)
  PROVE  Tells
<1>1. DecP!CloseStream(s) /\ want' = want
  BY DecClose DEF CloseStream, appVars
<1>2. CASE DecP!Fail("FATAL")
  BY <1>1, <1>2, FailTells
<1>3. CASE ~DecP!Fail("FATAL")
  BY <1>1, <1>3, QuietTells DEF DecP!CloseStream
<1>. QED
  BY <1>2, <1>3

\* A connection starts with nothing said, nothing owed and nobody waiting.
LEMMA InitDelivery ==
  ASSUME Init
  PROVE  DeliveryInv
<1>1. /\ ConnInv /\ EncP!Init /\ DecP!Init /\ estream = <<>> /\ dstream = <<>>
      /\ rstream = [s \in Streams |-> <<>>] /\ want = [s \in Streams |-> <<>>]
      /\ settings = FALSE
  BY EncInit, DecInit, InitSides, InitShared DEF Init, ConnInv
<1>2. /\ tab.next = 0 /\ tab.first = 0 /\ maxBlocked = 0 /\ krcnt = 0 /\ blocked = {}
      /\ ebad = FALSE /\ cur = NoSection /\ refs = [s \in Streams |-> <<>>]
  BY <1>1 DEF EncP!Init, EncP!EmptyTable
<1>3. /\ dtab.next = 0 /\ dtab.first = 0 /\ written = 0 /\ dbuf = <<>> /\ bq = {}
      /\ inq = [s \in Streams |-> <<>>] /\ closed = {} /\ mode = "idle"
      /\ sctx = [s \in Streams |-> DecP!FreshContext] /\ got = [s \in Streams |-> <<>>]
  BY <1>1 DEF DecP!Init, DecP!EmptyTable
<1>4. WithinLimit
  <2>1. EncP!BlockedInv
    BY <1>1, Constants, EncP!InitBlockedInv
  <2>2. EncP!Cardinality(blocked) = 0 /\ BlockedStreams \in Nat
    BY <1>2, Constants, DecoderConstants, EncP!FS_EmptySet DEF DecP!DecoderAssumption
  <2>. QED
    BY <1>1, <1>2, <2>1, <2>2 DEF WithinLimit
<1>5. Standing
  <2>1. want \in [Streams -> Seq(Field)]
    BY <1>1
  <2>2. "idle" \notin Streams
    BY DecoderConstants DEF DecP!DecoderAssumption
  <2>3. Spaced
    BY <1>3 DEF Spaced, EncP!Live
  <2>4. Parked /\ InReach
    BY <1>2, <1>3, <2>2 DEF Parked, InReach
  <2>. QED
    BY <1>1, <1>2, <1>4, <2>1, <2>3, <2>4 DEF Standing
<1>6. PICK R, N, z, W :
        /\ R = [s \in Streams |-> [j \in Nat |-> [max_cnt |-> 0, min_cnt |-> 0]]]
        /\ N = [s \in Streams |-> 0] /\ W = [a \in Nat |-> 0]
        /\ z = [acked |-> [s \in Streams |-> 0], cnt |-> 0, gone |-> {}]
  OBVIOUS
<1>7. Numbered(R, N)
  <2>1. R \in [Streams -> [Nat -> EncP!Ref]] /\ N \in [Streams -> Nat]
    BY <1>6 DEF EncP!Ref
  <2>2. \A s \in Streams : refs[s] = <<>> /\ Len(refs[s]) = 0 /\ N[s] = 0
    BY <1>2, <1>6
  <2>. QED
    BY <2>1, <2>2 DEF Numbered
<1>8. z \in Settlement /\ \A s \in Streams : z.acked[s] = 0 /\ N[s] = 0
  BY <1>6 DEF Settlement
<1>9. Settled(R, N, z)
  <2>1. z.cnt = 0 /\ z.gone = {}
    BY <1>6
  <2>2. dstream \o dbuf = <<>>
    BY <1>1, <1>3
  <2>3. Within(z, z) /\ Knows(R, N, z)
    <3>1. \A s \in Streams : N[s] - Len(refs[s]) <= z.acked[s]
      <4>1. \A s \in Streams : N[s] = 0 /\ Len(refs[s]) = 0 /\ z.acked[s] = 0
        BY <1>2, <1>8
      <4>. QED
        BY <4>1
    <3>. QED
      BY <1>2, <1>8, <2>1, <3>1 DEF Within, Knows
  <2>4. Brings(Moves(R, z), z, <<>>, z)
    BY BringsNowhere
  <2>5. <<>> \in Seq(Acks \cup Incs)
    OBVIOUS
  <2>6. Settling(R, N, z, <<>>)
    BY <1>8, <2>3, <2>4, <2>5 DEF Settling
  <2>. QED
    BY <1>3, <1>7, <2>1, <2>2, <2>6 DEF Settled
<1>10. Counts(R, N) /\ Content(W) /\ Placed(R, N, z) /\ Telling(W)
  <2>1. \A s \in Streams : sctx[s].ricnt = 0
    BY <1>3 DEF DecP!FreshContext
  <2>. QED
    BY <1>2, <1>8, <2>1 DEF Counts, Content, Placed, Telling, EncP!Live
<1>11. Told(R, N, z, W)
  <2>1. SUFFICES ASSUME NEW s \in Streams
                 PROVE  Brings(Reads(R[s], N[s], W, want[s]), Here(s, z),
                               inq[s] \o rstream[s], There(s, N))
    BY DEF Told
  <2>2. inq[s] \o rstream[s] = <<>> /\ Len(got[s]) = 0 /\ Len(want[s]) = 0
    BY <1>1, <1>3
  <2>3. Here(s, z) = Between(0, 0)
    BY <1>3, <1>8, <2>2 DEF Here, Where, Between, At, DecP!FreshContext
  <2>4. There(s, N) = Between(0, 0)
    BY <1>2, <1>8, <2>2 DEF There, Untold
  <2>. QED
    BY <2>2, <2>3, <2>4, BringsNowhere
<1>. QED
  BY <1>5, <1>9, <1>10, <1>11 DEF Agreed, DeliveryInv

\* Nothing happens at all.
LEMMA StutterDelivers ==
  ASSUME Standing, ConnInv', NEW R, NEW N, NEW z, NEW W, Agreed(R, N, z, W),
         UNCHANGED vars
  PROVE  Standing' /\ Agreed(R, N, z, W)' /\ Tells
<1>1. UNCHANGED <<encVars, decVars, netVars, want, settings>>
  BY DEF vars, appVars
<1>2. /\ UNCHANGED <<tab, krcnt, refs, blocked, maxBlocked, ebad, cur>>
      /\ UNCHANGED <<got, derr>>
  BY <1>1 DEF encVars, decVars
<1>3. EncP!BlockedInv /\ EncP!LeaveToBlock'
  BY <1>2 DEF Standing, WithinLimit, EncP!BlockedInv, EncP!LeaveToBlock
<1>4. WithinLimit'
  BY <1>1, <1>2, <1>3, WithinLimitRests DEF EncP!BlockedInv
<1>5. ebad' = FALSE
  BY <1>2 DEF Standing
<1>. QED
  BY <1>1, <1>2, <1>4, <1>5, QuietKeeps, QuietTells

\* One step of the connection: what is known of the two sides stays so, and
\* the applications see a step of HeaderDelivery.
LEMMA NextKeepsDelivery ==
  ASSUME DeliveryInv, [Next]_vars, Compatible
  PROVE  DeliveryInv' /\ Tells
<1>1. Standing /\ ConnInv
  BY DEF DeliveryInv, Standing
<1>2. PICK R, N, z, W : Agreed(R, N, z, W)
  BY DEF DeliveryInv
<1>3. ConnInv'
  BY <1>1, NextKeepsConnInv
<1>4. CASE \E c \in Capacities : SetCapacity(c)
  <2>1. UNCHANGED <<want, got, derr>>
    BY <1>4 DEF SetCapacity, decVars
  <2>. QED
    BY <1>1, <1>2, <1>3, <1>4, <2>1, SetCapacityDelivers, QuietTells DEF DeliveryInv
<1>5. CASE ReceiveSettings
  <2>1. UNCHANGED <<want, got, derr>>
    BY <1>5 DEF ReceiveSettings, decVars
  <2>. QED
    BY <1>1, <1>2, <1>3, <1>5, <2>1, SettingsDeliver, QuietTells DEF DeliveryInv
<1>6. CASE \E s \in Streams : BeginEncode(s)
  <2>1. UNCHANGED <<want, got, derr>>
    BY <1>6 DEF BeginEncode, decVars
  <2>. QED
    BY <1>1, <1>2, <1>3, <1>6, <2>1, BeginDelivers, QuietTells DEF DeliveryInv
<1>7. CASE \E f \in Fields : EncodeNv(f)
  BY <1>1, <1>2, <1>3, <1>7, EncodeDelivers, EncodeSubmits DEF DeliveryInv
<1>8. CASE FinishEncode
  <2>1. UNCHANGED <<want, got, derr>>
    BY <1>8 DEF FinishEncode, decVars, appVars
  <2>. QED
    BY <1>1, <1>2, <1>3, <1>8, <2>1, FinishDelivers, QuietTells DEF DeliveryInv
<1>9. CASE ReadEncoderStream
  BY <1>1, <1>2, <1>3, <1>9, InstructionDelivers, InstructionTells DEF DeliveryInv
<1>10. CASE ReadDecoderStream
  <2>1. UNCHANGED <<want, got, derr>>
    BY <1>10 DEF ReadDecoderStream, decVars, appVars
  <2>. QED
    BY <1>1, <1>2, <1>3, <1>10, <2>1, AcknowledgmentDelivers, QuietTells DEF DeliveryInv
<1>11. CASE Resume
  <2>1. UNCHANGED <<encVars, netVars, appVars>>
    BY <1>11 DEF Resume
  <2>2. CASE DecP!UnblockNext
    <3>1. UNCHANGED <<want, got, derr>>
      BY <2>1, <2>2 DEF DecP!UnblockNext, appVars
    <3>. QED
      BY <1>1, <1>2, <1>3, <2>1, <2>2, <3>1, UnblockDelivers, QuietTells DEF DeliveryInv
  <2>3. CASE \E s \in Streams : DecP!ProcessBuffered(s)
    BY <1>1, <1>2, <1>3, <2>1, <2>3, BufferDelivers DEF DeliveryInv
  <2>. QED
    BY <1>11, <2>2, <2>3, DecUnblock, DecBuffered DEF Resume
<1>12. CASE \E s \in Streams : ReadRequestStream(s)
  BY <1>1, <1>2, <1>3, <1>12, TokenDelivers DEF DeliveryInv
<1>13. CASE WriteDecoderStream
  <2>1. UNCHANGED <<want, got, derr>>
    BY <1>13, DecWrite DEF WriteDecoderStream, appVars, DecP!WriteDecoder, DecP!streamVars
  <2>. QED
    BY <1>1, <1>2, <1>3, <1>13, <2>1, WriteDelivers, QuietTells DEF DeliveryInv
<1>14. CASE \E s \in MayClose : CloseStream(s)
  <2>1. PICK s \in Streams : CloseStream(s)
    BY <1>14, QpackAssumption
  <2>. QED
    BY <1>1, <1>2, <1>3, <2>1, CloseDelivers, CloseTells DEF DeliveryInv
<1>15. CASE UNCHANGED vars
  BY <1>1, <1>2, <1>3, <1>15, StutterDelivers DEF DeliveryInv
<1>. QED
  BY <1>4, <1>5, <1>6, <1>7, <1>8, <1>9, <1>10, <1>11, <1>12, <1>13, <1>14, <1>15
  DEF Next, Encode, Deliver

\* Between two endpoints with the same limits, and as long as the decoder does
\* not fall too far behind, the two sides agree on what every stream says.
THEOREM QpackDelivery ==
  ASSUME Compatible
  PROVE  Spec => [](DeliveryInv /\ SectionsDecodable)
<1>1. Init => DeliveryInv /\ SectionsDecodable
  <2>1. Init => derr = "none"
    BY DecInit DEF Init, DecP!Init
  <2>. QED
    BY <2>1, InitDelivery DEF SectionsDecodable
<1>2. DeliveryInv /\ SectionsDecodable /\ [Next]_vars => DeliveryInv' /\ SectionsDecodable'
  BY NextKeepsDelivery DEF SectionsDecodable, Tells
<1>. QED
  BY <1>1, <1>2, PTL DEF Spec

\* Every section of the encoder can be decoded by the decoder: the Required
\* Insert Count survives its conversion, and no reference misses
\* (nghttp3_qpack_decoder_reconstruct_ricnt, rel2abs, brel2abs, pbrel2abs).
THEOREM QpackSectionsDecodable ==
  ASSUME Compatible
  PROVE  Spec => []SectionsDecodable
  BY QpackDelivery, PTL

\* The encoder comes to know of no insertion before the decoder announced it:
\* krcnt of nghttp3_qpack_encoder never runs ahead of what was written.
THEOREM QpackCountsOrdered ==
  ASSUME Compatible
  PROVE  Spec => []CountsOrdered
<1>1. DeliveryInv /\ NeverAhead => CountsOrdered
  <2>. SUFFICES ASSUME DeliveryInv, NeverAhead PROVE CountsOrdered
    OBVIOUS
  <2>1. PICK R, N, z, W : Agreed(R, N, z, W)
    BY DEF DeliveryInv
  <2>2. Settling(R, N, z, dstream \o dbuf) /\ z.cnt = written
    BY <2>1 DEF Agreed, Settled
  <2>3. PICK p \in Settlement : p.cnt <= z.cnt /\ krcnt <= p.cnt /\ z \in Settlement
    BY <2>2 DEF Settling, Within, Knows
  <2>4. krcnt \in Nat /\ p.cnt \in Nat /\ z.cnt \in Nat
    BY <2>3
    DEF Settlement, DeliveryInv, Standing, ConnInv, Sides, EncoderSide, EncP!IInv,
        EncP!TypeOK
  <2>. QED
    BY <2>2, <2>3, <2>4 DEF CountsOrdered, NeverAhead
<1>. QED
  BY <1>1, QpackDelivery, QpackDecoderNeverAhead, PTL

\* The encoder refuses no acknowledgment.
AcknowledgmentsAccepted == ~ebad

\* nghttp3_qpack_encoder_read_decoder accepts everything
\* nghttp3_qpack_decoder_write_decoder writes: no section is acknowledged that
\* the encoder does not wait for, no insertion that it did not make.
THEOREM QpackAcknowledgmentsAccepted ==
  ASSUME Compatible
  PROVE  Spec => []AcknowledgmentsAccepted
<1>1. DeliveryInv => AcknowledgmentsAccepted
  BY DEF DeliveryInv, Standing, AcknowledgmentsAccepted
<1>. QED
  BY <1>1, QpackDelivery, PTL

\* Every stream in qpack_blocked_streams of the decoding side counts as blocked
\* in blocked_streams of the encoding side.
THEOREM QpackParkedStreamsCounted ==
  ASSUME Compatible
  PROVE  Spec => []ParkedStreamsCounted
<1>1. DeliveryInv => ParkedStreamsCounted
  <2>. SUFFICES ASSUME DeliveryInv, NEW s \in bq PROVE Enc!IsBlocked(s)
    BY DEF ParkedStreamsCounted
  <2>1. PICK R, N, z, W : Agreed(R, N, z, W)
    BY DEF DeliveryInv
  <2>2. s \in Streams /\ refs[s] # <<>> /\ krcnt < EncP!TopCnt(refs[s])
    BY <2>1, ParkedIsBlocked DEF Agreed, DeliveryInv, Standing
  <2>. QED
    BY <2>2 DEF Enc!IsBlocked, Enc!KnownStreams, Enc!TopCnt, EncP!TopCnt, Enc!Max, EncP!Max
<1>. QED
  BY <1>1, QpackDelivery, PTL

\* Header compression is invisible: every stream delivers the fields that were
\* submitted on it, in order and unchanged
\* (nghttp3_qpack_encoder_encode, nghttp3_qpack_decoder_read_request).
THEOREM QpackDeliversHeaders ==
  ASSUME Compatible
  PROVE  Spec => DeliversHeaders
<1>1. Init => Delivery!Init
  BY DecInit DEF Init, DecP!Init, Delivery!Init
<1>2. DeliveryInv /\ SectionsDecodable /\ [Next]_vars => [Delivery!Next]_<<want, got>>
  BY NextKeepsDelivery DEF Tells
<1>. QED
  BY <1>1, <1>2, QpackDelivery, PTL DEF Spec, DeliversHeaders, Delivery!Spec

-----------------------------------------------------------------------------
(* The limits are all that can end a connection *)

\* A section, a cancellation or a close fails only by the limit on what is
\* buffered for the decoder stream.
LEMMA NextKeepsFatal ==
  ASSUME DecP!FatalIsOverflow, [Next]_vars
  PROVE  DecP!FatalIsOverflow'
<1>1. CASE UNCHANGED decVars
  <2>1. UNCHANGED <<derr, dbuf>>
    BY <1>1 DEF decVars
  <2>. QED
    BY <2>1 DEF DecP!FatalIsOverflow, DecP!DbufOverflow
<1>2. CASE ReadEncoderStream
  BY <1>2, DecEncoder, DecP!CallsFailByOverflow,
     DecoderConstants DEF ReadEncoderStream
<1>3. CASE Resume
  BY <1>3, DecUnblock, DecBuffered, DecP!CallsFailByOverflow,
     DecoderConstants DEF Resume
<1>4. ASSUME NEW s \in Streams, ReadRequestStream(s)
      PROVE  DecP!FatalIsOverflow'
  BY <1>4, DecStream, DecP!CallsFailByOverflow,
     DecoderConstants DEF ReadRequestStream
<1>5. CASE WriteDecoderStream
  BY <1>5, DecWrite, DecP!CallsFailByOverflow,
     DecoderConstants DEF WriteDecoderStream
<1>6. ASSUME NEW s \in MayClose, CloseStream(s)
      PROVE  DecP!FatalIsOverflow'
  BY <1>6, DecClose, DecP!CallsFailByOverflow,
     DecoderConstants DEF CloseStream
<1>7. \/ UNCHANGED decVars
      \/ ReadEncoderStream \/ Resume \/ \E s \in Streams : ReadRequestStream(s)
      \/ WriteDecoderStream \/ \E s \in MayClose : CloseStream(s)
  BY DEF Next, Encode, Deliver, SetCapacity, ReceiveSettings, BeginEncode,
         EncodeNv, FinishEncode, ReadDecoderStream, vars
<1>. QED
  BY <1>1, <1>2, <1>3, <1>4, <1>5, <1>6, <1>7

\* More was sent or buffered than nghttp3 accepts at once: the encoder stream
\* between two sections (NGHTTP3_QPACK_MAX_ENCODERLEN), the decoder stream
\* between two sections (NGHTTP3_QPACK_MAX_DECODERLEN), or what the decoder
\* has still to write (qpack_decoder_dbuf_overflow).
OverLimit ==
  \/ derr = "ENCODER_STREAM" /\ elen >= MaxEncoderLen
  \/ derr = "FATAL" /\ Len(dbuf) > MaxDbuf
  \/ declen > MaxDecoderLen

\* nghttp3_qpack_encoder_* and nghttp3_qpack_decoder_* never fail the
\* connection of each other but at one of these limits, whatever is delivered
\* when, closed or evicted.
THEOREM QpackFailsOnlyAtLimits ==
  ASSUME Compatible, AskedWithin
  PROVE  Spec => [](NoConnectionError \/ OverLimit)
<1>1. Init => DecP!FatalIsOverflow
  BY DecInit DEF Init, DecP!Init, DecP!FatalIsOverflow
<1>2. Spec => []DecP!FatalIsOverflow
  BY <1>1, NextKeepsFatal, PTL DEF Spec
<1>3. DeliveryInv /\ SectionsDecodable /\ InstructionsAccepted /\ DecP!FatalIsOverflow
        => NoConnectionError \/ OverLimit
  <2>. SUFFICES ASSUME DeliveryInv, SectionsDecodable, InstructionsAccepted,
                       DecP!FatalIsOverflow
                PROVE  NoConnectionError \/ OverLimit
    OBVIOUS
  <2>1. /\ derr \in {"none", "ENCODER_STREAM", "DECOMPRESSION_FAILED", "FATAL"}
        /\ ~ebad /\ declen \in Nat /\ MaxDecoderLen \in Nat
    BY Constants, QpackAssumption
    DEF DeliveryInv, Standing, ConnInv, Sides, DecoderSide, DecP!IInv, DecP!TypeOK,
        DecP!Errors, EncoderSide, EncP!IInv, EncP!TypeOK
  <2>2. derr = "FATAL" => Len(dbuf) > MaxDbuf
    BY DEF DecP!FatalIsOverflow, DecP!DbufOverflow
  <2>. QED
    BY <2>1, <2>2 DEF NoConnectionError, SectionsDecodable, InstructionsAccepted, OverLimit
<1>. QED
  BY <1>2, <1>3, QpackDelivery, QpackInstructionsAccepted, PTL
=============================================================================
