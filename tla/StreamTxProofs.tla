--------------------------- MODULE StreamTxProofs ---------------------------
(***************************************************************************)
(* What TLAPS proves of the write side of a request stream and of its      *)
(* output queue, for any chunk, frame, section and body sizes and any      *)
(* number of calls.                                                        *)
(***************************************************************************)
EXTENDS StreamTxProps, FiniteSetTheorems, SequenceTheorems, TLAPS

-----------------------------------------------------------------------------
(* Induction and recursion on the natural numbers *)

\* A set of natural numbers that is not empty has a least element.
LEMMA LeastNat ==
  ASSUME NEW S \in SUBSET Nat, S # {}
  PROVE  \E m \in S : \A n \in S : m <= n
<1>. DEFINE R == {ss \in Nat \X Nat : ss[1] < ss[2]}
<1>1. IsWellFoundedOn(R, Nat)
  BY NatLessThanWellFounded DEF OpToRel
<1>2. PICK m \in S : \A n \in S : ~ (<<n, m>> \in R)
  BY <1>1, WFMin, Zenon
<1>3. \A n \in S : ~ (n < m)
  BY <1>2
<1>. QED
  BY <1>3

\* A set with 0 and the successors of its members holds every number.
LEMMA InductionOverSet ==
  ASSUME NEW P \in SUBSET Nat, 0 \in P, \A n \in P : n + 1 \in P
  PROVE  P = Nat
<1>. SUFFICES ASSUME Nat \ P # {} PROVE FALSE
  OBVIOUS
<1>1. PICK m \in Nat \ P : \A n \in Nat \ P : m <= n
  BY LeastNat
<1>2. m # 0 /\ m - 1 \in Nat /\ m - 1 \in P
  BY <1>1
<1>3. (m - 1) + 1 \in P
  BY <1>2
<1>. QED
  BY <1>1, <1>2, <1>3

\* The first n + 1 values of the function b, g[1, b], g[2, g[1, b]], ...
Approx(S, b, g, n) ==
  {h \in [0..n -> S] : h[0] = b /\ \A k \in 0..(n - 1) : h[k + 1] = g[<<k + 1, h[k]>>]}

\* Every such beginning can be found.
LEMMA ApproxExists ==
  ASSUME NEW S, NEW b \in S, NEW g \in [Nat \X S -> S]
  PROVE  \A n \in Nat : Approx(S, b, g, n) # {}
<1>. DEFINE P == {n \in Nat : Approx(S, b, g, n) # {}}
<1>1. 0 \in P
  <2>1. [k \in 0..0 |-> b] \in Approx(S, b, g, 0)
    BY DEF Approx
  <2>. QED
    BY <2>1
<1>2. ASSUME NEW n \in P PROVE n + 1 \in P
  <2>1. PICK h \in Approx(S, b, g, n) : TRUE
    BY <1>2
  <2>. DEFINE e == [k \in 0..(n + 1) |-> IF k = n + 1 THEN g[<<n + 1, h[n]>>] ELSE h[k]]
  <2>2. h \in [0..n -> S] /\ h[0] = b
        /\ \A k \in 0..(n - 1) : h[k + 1] = g[<<k + 1, h[k]>>]
    BY <2>1 DEF Approx
  <2>3. n \in Nat /\ n \in 0..n /\ 0 \in 0..n
    BY <1>2
  <2>4. h[n] \in S /\ <<n + 1, h[n]>> \in Nat \X S
    BY <2>2, <2>3
  <2>5. g[<<n + 1, h[n]>>] \in S
    BY <2>4
  <2>6. e \in [0..(n + 1) -> S]
    BY <2>2, <2>3, <2>5
  <2>7. e[0] = b
    BY <2>2, <2>3
  <2>8. ASSUME NEW k \in 0..((n + 1) - 1) PROVE e[k + 1] = g[<<k + 1, e[k]>>]
    BY <2>2, <2>3, <2>8
  <2>9. e \in Approx(S, b, g, n + 1)
    BY <2>6, <2>7, <2>8, Zenon DEF Approx
  <2>. QED
    BY <2>3, <2>9
<1>3. P = Nat
  BY <1>1, <1>2, InductionOverSet
<1>. QED
  BY <1>3

\* Two of them agree as far as both go.
LEMMA ApproxUnique ==
  ASSUME NEW S, NEW b, NEW g
  PROVE  \A m, n \in Nat : m <= n =>
           \A f \in Approx(S, b, g, m), h \in Approx(S, b, g, n) : f[m] = h[m]
<1>. SUFFICES ASSUME NEW m \in Nat, NEW n \in Nat, m <= n,
                     NEW f \in Approx(S, b, g, m), NEW h \in Approx(S, b, g, n)
              PROVE  f[m] = h[m]
  BY Zenon
<1>. DEFINE P == {k \in Nat : k <= m => f[k] = h[k]}
<1>1. 0 \in P
  BY DEF Approx
<1>2. ASSUME NEW k \in P PROVE k + 1 \in P
  <2>1. CASE k + 1 <= m
    <3>1. k \in 0..(m - 1) /\ k \in 0..(n - 1) /\ f[k] = h[k]
      BY <1>2, <2>1
    <3>2. f[k + 1] = g[<<k + 1, f[k]>>]
      BY <3>1, Zenon DEF Approx
    <3>3. h[k + 1] = g[<<k + 1, h[k]>>]
      BY <3>1, Zenon DEF Approx
    <3>. QED
      BY <1>2, <3>1, <3>2, <3>3
  <2>. QED
    BY <1>2, <2>1
<1>3. m \in P
  BY <1>1, <1>2, InductionOverSet
<1>. QED
  BY <1>3

\* h starts with b, and g gives each value from the one before.
Recurs(h, b, g) == h[0] = b /\ \A n \in Nat : h[n + 1] = g[<<n + 1, h[n]>>]

\* A function can be defined by recursion from a first value and a step.
LEMMA Recursion ==
  ASSUME NEW S, NEW b \in S, NEW g \in [Nat \X S -> S]
  PROVE  \E h \in [Nat -> S] : Recurs(h, b, g)
<1>. DEFINE a(n) == CHOOSE h \in Approx(S, b, g, n) : TRUE
            H == [n \in Nat |-> a(n)[n]]
<1>1. ASSUME NEW n \in Nat PROVE a(n) \in Approx(S, b, g, n)
  BY ApproxExists, Zenon
<1>2. ASSUME NEW n \in Nat PROVE a(n) \in [0..n -> S] /\ a(n)[0] = b
  BY <1>1, Zenon DEF Approx
<1>3. H \in [Nat -> S]
  BY <1>2
<1>4. H[0] = b
  BY <1>2
<1>5. ASSUME NEW n \in Nat PROVE H[n + 1] = g[<<n + 1, H[n]>>]
  <2>1. n + 1 \in Nat /\ n <= n + 1 /\ n \in 0..((n + 1) - 1)
    OBVIOUS
  <2>2. a(n) \in Approx(S, b, g, n) /\ a(n + 1) \in Approx(S, b, g, n + 1)
    BY <1>1, <2>1
  <2>3. a(n)[n] = a(n + 1)[n]
    <3>. DEFINE x == a(n)
                y == a(n + 1)
    <3>1. x \in Approx(S, b, g, n) /\ y \in Approx(S, b, g, n + 1)
      BY <2>2
    <3>. HIDE DEF x, y
    <3>2. x[n] = y[n]
      <4>1. PICK p \in Nat : p = n + 1
        BY <2>1
      <4>2. n <= p /\ x \in Approx(S, b, g, n) /\ y \in Approx(S, b, g, p)
        BY <2>1, <3>1, <4>1
      <4>3. \A i, j \in Nat : i <= j =>
              \A u \in Approx(S, b, g, i), v \in Approx(S, b, g, j) : u[i] = v[i]
        BY ApproxUnique
      <4>. QED
        BY <4>2, <4>3, Zenon
    <3>. QED
      BY <3>2 DEF x, y
  <2>4. a(n + 1)[n + 1] = g[<<n + 1, a(n + 1)[n]>>]
    BY <2>1, <2>2, Zenon DEF Approx
  <2>. QED
    BY <2>1, <2>3, <2>4
<1>. QED
  BY <1>3, <1>4, <1>5, Zenon DEF Recurs
-----------------------------------------------------------------------------
(* Sums *)

Weights(m) == [1..m -> Nat]

\* SumTo adds one element at a time.
LEMMA SumStep ==
  ASSUME NEW m \in Nat, NEW f \in Weights(m)
  PROVE  /\ SumTo(f, 0) = 0
         /\ \A n \in Nat : SumTo(f, n) \in Nat
         /\ \A n \in Nat : n < m => SumTo(f, n + 1) = SumTo(f, n) + f[n + 1]
<1>. DEFINE g == [p \in Nat \X Nat |-> IF p[1] \in DOMAIN f THEN p[2] + f[p[1]] ELSE p[2]]
            F(sum) == [k \in Nat |-> IF k = 0 THEN 0
                                     ELSE IF k \in DOMAIN f THEN sum[k - 1] + f[k]
                                     ELSE sum[k - 1]]
            s == CHOOSE sum : sum = F(sum)
<1>1. g \in [Nat \X Nat -> Nat]
  BY DEF Weights
<1>2. PICK h \in [Nat -> Nat] : h[0] = 0 /\ \A n \in Nat : h[n + 1] = g[<<n + 1, h[n]>>]
  <2>1. 0 \in Nat
    OBVIOUS
  <2>. HIDE DEF g
  <2>2. \E h \in [Nat -> Nat] : Recurs(h, 0, g)
    BY <1>1, <2>1, Recursion, Zenon
  <2>. QED
    BY <2>2, Zenon DEF Recurs
<1>3. ASSUME NEW k \in Nat PROVE h[k] = F(h)[k]
  <2>1. CASE k = 0
    BY <1>2, <2>1
  <2>2. CASE k # 0
    <3>1. k - 1 \in Nat /\ (k - 1) + 1 = k
      BY <2>2
    <3>2. h[k] = g[<<k, h[k - 1]>>]
      BY <1>2, <3>1
    <3>. QED
      BY <2>2, <3>1, <3>2
  <2>. QED
    BY <2>1, <2>2
<1>4. h = F(h)
  BY <1>3
<1>5. s = F(s)
  <2>. HIDE DEF F
  <2>. QED
    BY <1>4, Zenon
<1>6. \A n \in Nat : SumTo(f, n) = s[n]
  BY DEF SumTo
<1>. HIDE DEF s
<1>7. s[0] = 0
  BY <1>5
<1>8. ASSUME NEW n \in Nat PROVE s[n + 1] = IF n + 1 \in DOMAIN f THEN s[n] + f[n + 1] ELSE s[n]
  <2>1. n + 1 \in Nat /\ n + 1 # 0 /\ (n + 1) - 1 = n
    OBVIOUS
  <2>2. F(s)[n + 1] = IF n + 1 \in DOMAIN f THEN s[n] + f[n + 1] ELSE s[n]
    BY <2>1
  <2>3. s[n + 1] = F(s)[n + 1]
    <3>. HIDE DEF F
    <3>. QED
      BY <1>5, Zenon
  <2>. QED
    BY <2>2, <2>3, Zenon
<1>9. \A n \in Nat : s[n] \in Nat
  <2>. DEFINE P == {n \in Nat : s[n] \in Nat}
  <2>1. 0 \in P
    BY <1>7
  <2>2. ASSUME NEW n \in P PROVE n + 1 \in P
    <3>1. n \in Nat /\ n + 1 \in Nat /\ s[n] \in Nat
      BY <2>2
    <3>2. s[n + 1] = IF n + 1 \in DOMAIN f THEN s[n] + f[n + 1] ELSE s[n]
      BY <1>8, <3>1
    <3>3. n + 1 \in DOMAIN f => f[n + 1] \in Nat
      BY DEF Weights
    <3>4. s[n + 1] \in Nat
      <4>1. CASE n + 1 \in DOMAIN f
        <5>. DEFINE x == s[n]
                    y == f[n + 1]
        <5>1. x \in Nat /\ y \in Nat
          BY <3>1, <3>3, <4>1
        <5>2. s[n + 1] = x + y
          BY <3>2, <4>1
        <5>. HIDE DEF x, y
        <5>. QED
          BY <5>1, <5>2
      <4>. QED
        BY <3>1, <3>2, <4>1
    <3>. QED
      BY <3>1, <3>4
  <2>3. P = Nat
    <3>. HIDE DEF P
    <3>1. P \subseteq Nat
      BY DEF P
    <3>. QED
      BY <2>1, <2>2, <3>1, InductionOverSet
  <2>. QED
    BY <2>3
<1>10. ASSUME NEW n \in Nat, n < m PROVE s[n + 1] = s[n] + f[n + 1]
  <2>1. n + 1 \in DOMAIN f
    BY <1>10 DEF Weights
  <2>. QED
    BY <1>8, <2>1
<1>11. ASSUME NEW n \in Nat, n < m PROVE SumTo(f, n + 1) = SumTo(f, n) + f[n + 1]
  <2>1. n + 1 \in Nat
    OBVIOUS
  <2>2. SumTo(f, n + 1) = s[n + 1] /\ SumTo(f, n) = s[n]
    BY <1>6, <2>1, Zenon
  <2>. QED
    BY <1>10, <1>11, <2>2, Zenon
<1>. QED
  BY <1>6, <1>7, <1>9, <1>11

\* n elements of g from a + 1 are those of f from c + 1.
Alike(g, a, f, c, n) == \A k \in 1..n : g[a + k] = f[c + k]

\* Equal stretches of two functions add the same to their sums.
LEMMA SumStretch ==
  ASSUME NEW m \in Nat, NEW f \in Weights(m), NEW l \in Nat, NEW g \in Weights(l),
         NEW c \in Nat, NEW a \in Nat, NEW n \in Nat, c + n <= m, a + n <= l,
         Alike(g, a, f, c, n)
  PROVE  SumTo(g, a + n) - SumTo(g, a) = SumTo(f, c + n) - SumTo(f, c)
<1>. DEFINE P == {k \in Nat : k <= n =>
                    SumTo(g, a + k) - SumTo(g, a) = SumTo(f, c + k) - SumTo(f, c)}
<1>0. /\ \A k \in Nat : SumTo(f, k) \in Nat /\ SumTo(g, k) \in Nat
      /\ \A k \in Nat : k < m => SumTo(f, k + 1) = SumTo(f, k) + f[k + 1]
      /\ \A k \in Nat : k < l => SumTo(g, k + 1) = SumTo(g, k) + g[k + 1]
  BY SumStep
<1>1. 0 \in P
  BY <1>0
<1>2. ASSUME NEW k \in P PROVE k + 1 \in P
  <2>. SUFFICES ASSUME k + 1 <= n PROVE k + 1 \in P
    BY <1>2
  <2>1. /\ c + k \in Nat /\ c + k < m /\ a + k \in Nat /\ a + k < l
        /\ (c + k) + 1 = c + (k + 1) /\ (a + k) + 1 = a + (k + 1) /\ k + 1 \in 1..n
    BY <1>2
  <2>2. /\ SumTo(f, c + (k + 1)) = SumTo(f, c + k) + f[c + (k + 1)]
        /\ SumTo(g, a + (k + 1)) = SumTo(g, a + k) + g[a + (k + 1)]
    BY <1>0, <2>1
  <2>3. g[a + (k + 1)] = f[c + (k + 1)]
    BY <2>1 DEF Alike
  <2>4. f[c + (k + 1)] \in Nat
    BY <2>1 DEF Weights
  <2>5. SumTo(g, a + k) - SumTo(g, a) = SumTo(f, c + k) - SumTo(f, c)
    BY <1>2
  <2>6. SumTo(g, a + (k + 1)) - SumTo(g, a) = SumTo(f, c + (k + 1)) - SumTo(f, c)
    <3>. DEFINE x1 == SumTo(g, a + k) x2 == SumTo(g, a) x3 == SumTo(f, c + k)
                x4 == SumTo(f, c) y == f[c + (k + 1)]
    <3>1. x1 \in Nat /\ x2 \in Nat /\ x3 \in Nat /\ x4 \in Nat /\ y \in Nat
      BY <1>0, <2>1, <2>4
    <3>2. x1 - x2 = x3 - x4 /\ SumTo(f, c + (k + 1)) = x3 + y /\ SumTo(g, a + (k + 1)) = x1 + y
      BY <2>2, <2>3, <2>5
    <3>. HIDE DEF x1, x2, x3, x4, y
    <3>3. (x1 + y) - x2 = (x3 + y) - x4
      BY <3>1, <3>2
    <3>. QED
      BY <3>2, <3>3 DEF x2, x4
  <2>. QED
    BY <1>2, <2>6
<1>3. n \in P
  <2>. HIDE DEF P
  <2>1. P \subseteq Nat
    BY DEF P
  <2>. QED
    BY <1>1, <1>2, <2>1, InductionOverSet
<1>. QED
  BY <1>3

\* Functions with equal beginnings have equal sums, as far as those go.
LEMMA SumPrefix ==
  ASSUME NEW m \in Nat, NEW f \in Weights(m), NEW l \in Nat, NEW g \in Weights(l),
         NEW n \in Nat, n <= m, n <= l, Alike(g, 0, f, 0, n)
  PROVE  \A k \in 0..n : SumTo(g, k) = SumTo(f, k)
<1>. SUFFICES ASSUME NEW k \in 0..n PROVE SumTo(g, k) = SumTo(f, k)
  OBVIOUS
<1>1. PICK z \in Nat : z = 0
  OBVIOUS
<1>2. SumTo(g, k) - SumTo(g, 0) = SumTo(f, k) - SumTo(f, 0)
  <2>1. k \in Nat /\ z + k <= m /\ z + k <= l /\ Alike(g, z, f, z, k)
    BY <1>1 DEF Alike
  <2>2. SumTo(g, z + k) - SumTo(g, z) = SumTo(f, z + k) - SumTo(f, z)
    BY <2>1, SumStretch
  <2>3. z + k = k
    BY <1>1, <2>1
  <2>. QED
    BY <1>1, <2>2, <2>3
<1>3. SumTo(g, 0) = 0 /\ SumTo(g, k) \in Nat
  BY SumStep
<1>4. SumTo(f, 0) = 0 /\ SumTo(f, k) \in Nat
  BY SumStep
<1>. QED
  BY <1>2, <1>3, <1>4

\* A longer sum is not smaller, and larger by each element between.
LEMMA SumMonotone ==
  ASSUME NEW m \in Nat, NEW f \in Weights(m), NEW a \in Nat, NEW n \in Nat, a <= n, n <= m
  PROVE  /\ SumTo(f, a) <= SumTo(f, n)
         /\ \A k \in (a + 1)..n : SumTo(f, a) + f[k] <= SumTo(f, n)
<1>0. /\ \A k \in Nat : SumTo(f, k) \in Nat
      /\ \A k \in Nat : k < m => SumTo(f, k + 1) = SumTo(f, k) + f[k + 1]
  BY SumStep
<1>1. ASSUME NEW b \in Nat, NEW d \in Nat, b + d <= m PROVE SumTo(f, b) <= SumTo(f, b + d)
  <2>. DEFINE P == {k \in Nat : k <= d => SumTo(f, b) <= SumTo(f, b + k)}
  <2>1. 0 \in P
    BY <1>0
  <2>2. ASSUME NEW k \in P PROVE k + 1 \in P
    <3>. SUFFICES ASSUME k + 1 <= d PROVE k + 1 \in P
      BY <2>2
    <3>1. b + k \in Nat /\ b + k < m /\ (b + k) + 1 = b + (k + 1) /\ b + (k + 1) \in 1..m
      BY <1>1, <2>2
    <3>2. SumTo(f, b + (k + 1)) = SumTo(f, b + k) + f[b + (k + 1)]
      BY <1>0, <3>1
    <3>3. f[b + (k + 1)] \in Nat /\ SumTo(f, b) <= SumTo(f, b + k)
      BY <2>2, <3>1 DEF Weights
    <3>4. SumTo(f, b) \in Nat /\ SumTo(f, b + k) \in Nat
      BY <1>0, <3>1
    <3>5. SumTo(f, b) <= SumTo(f, b + (k + 1))
      BY <3>2, <3>3, <3>4
    <3>. QED
      BY <2>2, <3>5
  <2>3. d \in P
    <3>. HIDE DEF P
    <3>1. P \subseteq Nat
      BY DEF P
    <3>. QED
      BY <2>1, <2>2, <3>1, InductionOverSet
  <2>. QED
    BY <2>3
<1>2. SumTo(f, a) <= SumTo(f, n)
  <2>1. n - a \in Nat /\ a + (n - a) = n
    OBVIOUS
  <2>. QED
    BY <1>1, <2>1
<1>3. ASSUME NEW k \in (a + 1)..n PROVE SumTo(f, a) + f[k] <= SumTo(f, n)
  <2>1. k - 1 \in Nat /\ (k - 1) + 1 = k /\ k - 1 < m /\ k \in 1..m /\ k \in Nat
        /\ (k - 1) - a \in Nat /\ a + ((k - 1) - a) = k - 1
        /\ n - k \in Nat /\ k + (n - k) = n
    BY <1>3
  <2>2. SumTo(f, k) = SumTo(f, k - 1) + f[k]
    BY <1>0, <2>1
  <2>3. SumTo(f, a) <= SumTo(f, k - 1)
    <3>1. a + ((k - 1) - a) <= m
      BY <2>1
    <3>2. SumTo(f, a) <= SumTo(f, a + ((k - 1) - a))
      BY <1>1, <2>1, <3>1
    <3>. QED
      BY <2>1, <3>2
  <2>4. SumTo(f, k) <= SumTo(f, n)
    <3>1. SumTo(f, k) <= SumTo(f, k + (n - k))
      BY <1>1, <2>1
    <3>. QED
      BY <2>1, <3>1
  <2>5. f[k] \in Nat /\ SumTo(f, a) \in Nat /\ SumTo(f, k - 1) \in Nat
        /\ SumTo(f, k) \in Nat /\ SumTo(f, n) \in Nat
    BY <1>0, <2>1 DEF Weights
  <2>. QED
    BY <2>2, <2>3, <2>4, <2>5
<1>. QED
  BY <1>2, <1>3

\* Nothing adds up to nothing.
LEMMA SumOfZeros ==
  ASSUME NEW m \in Nat, NEW f \in Weights(m), NEW n \in Nat, n <= m,
         \A k \in 1..n : f[k] = 0
  PROVE  SumTo(f, n) = 0
<1>. DEFINE P == {k \in Nat : k <= n => SumTo(f, k) = 0}
<1>0. /\ SumTo(f, 0) = 0
      /\ \A k \in Nat : k < m => SumTo(f, k + 1) = SumTo(f, k) + f[k + 1]
  BY SumStep
<1>1. 0 \in P
  BY <1>0
<1>2. ASSUME NEW k \in P PROVE k + 1 \in P
  BY <1>0, <1>2
<1>3. P = Nat
  BY <1>1, <1>2, InductionOverSet
<1>. QED
  BY <1>3
-----------------------------------------------------------------------------
(* The inductive invariant *)

Buf == [type : {"SHARED", "PRIVATE", "ALIEN"}, chunk : Nat,
        begin : Nat, pos : Nat, last : Nat]
\* Queues whose buffers have their pointers in order.
Bufs == {q \in Seq(Buf) : \A k \in DOMAIN q : q[k].begin <= q[k].pos /\ q[k].pos <= q[k].last}

Chunk == [id : Nat, last : Nat, cap : Nat]
Queue == [outq : Seq(Buf), idx : Nat, chunks : Seq(Chunk), allocated : Nat,
          unsent : Nat, ackBase : Nat, ackOff : Nat, content : Seq(BOOLEAN)]

TypeOK ==
  /\ frq \in Seq({Headers, Data})
  /\ tx \in [TxStreams -> Queue]
  /\ endStream \in BOOLEAN /\ readBlocked \in BOOLEAN /\ shut \in BOOLEAN
  /\ fc \subseteq TxStreams /\ scheduled \in BOOLEAN
  /\ call \in {"idle", "fill", "write"}
  /\ offer \in [stream : TxStreams \cup {"none"}, bytes : Nat, fin : BOOLEAN]
  /\ accepted \in [TxStreams -> Nat] /\ finSent \in BOOLEAN /\ reported \in Nat
  /\ submitted \in Seq({"info", "response", "trailers"})
  /\ reads \in Nat /\ stalls \in Nat

HeldLens(q) == [k \in DOMAIN q |-> Held(q[k])]
BufLens(q) == [k \in DOMAIN q |-> BufLen(q[k])]

(* The buffers before idx are written, those after the one at idx are      *)
(* not begun and have something to write; together they are what is not    *)
(* acknowledged and what is not sent of the stream.  The bytes of a buffer *)
(* are the application's if it is ALIEN.                                   *)
Shape(q, idx, ackBase, unsent, content) ==
  /\ q \in Bufs /\ idx <= Len(q)
  /\ \A k \in 1..Len(q) :
       /\ k <= idx => q[k].pos = q[k].last
       /\ k > idx + 1 => q[k].pos = q[k].begin /\ q[k].pos < q[k].last
       /\ \A j \in (SumTo(HeldLens(q), k - 1) + 1)..SumTo(HeldLens(q), k) :
            content[ackBase + j] = (q[k].type = "ALIEN")
  /\ ackBase + SumTo(HeldLens(q), Len(q)) = Len(content)
  /\ unsent = SumTo(BufLens(q), Len(q))

QueueInv(t) == Shape(t.outq, t.idx, t.ackBase, t.unsent, t.content)

(* a is what has been accepted of the stream: acknowledgments follow it,  *)
(* and the first buffer is the one where they have stopped.               *)
TxInv(t, a) ==
  /\ QueueInv(t)
  /\ t.ackBase <= t.ackOff /\ t.ackOff <= a
  /\ a + t.unsent = Len(t.content)
  /\ t.outq # <<>> => t.ackOff <= t.ackBase + Held(t.outq[1])

(* What is on offer is still in the queue, and an offer of the end is one *)
(* of all that is left.                                                   *)
OfferInv ==
  /\ offer.stream = "none" => offer = NoOffer
  /\ offer # NoOffer => call = "idle" /\ offer.bytes <= tx[offer.stream].unsent
  /\ offer.fin => /\ offer.stream = REQ /\ offer.bytes = tx[REQ].unsent
                  /\ frq = <<>> /\ endStream
  /\ offer.stream = REQ /\ endStream /\ frq = <<>> /\ ~offer.fin
       => offer.bytes < tx[REQ].unsent

(* After the end of the stream nothing is submitted, and the frame that   *)
(* is last in the queue is no DATA frame, which might add nothing.        *)
FrameInv ==
  /\ \A j, k \in DOMAIN frq : frq[j] = Data /\ frq[k] = Data => j = k
  /\ endStream \/ (\E k \in DOMAIN frq : frq[k] = Data)
       => \E k \in DOMAIN submitted : submitted[k] = "response"
  /\ endStream /\ frq # <<>> => frq[Len(frq)] = Headers

(* A stream that may be written and has something to write is scheduled;  *)
(* one that has ended has something to write until its end is sent.       *)
SchedInv ==
  /\ call # "idle" => scheduled
  /\ call = "idle" /\ REQ \notin fc /\ ~shut
     /\ (~WriteDone(tx[REQ]) \/ (frq # <<>> /\ ~readBlocked)) => scheduled
  /\ endStream /\ frq = <<>> /\ ~finSent => ~WriteDone(tx[REQ])

FinInv ==
  finSent => /\ WriteDone(tx[REQ]) /\ tx[REQ].unsent = 0
             /\ frq = <<>> /\ endStream
             /\ offer.stream # REQ /\ ~scheduled

\* The bytes of the application among the first n.
OwnSet(c, n) == {k \in 1..n : c[k]}

(* What acknowledgments reported is what they covered.                    *)
ReportInv == reported = Cardinality(OwnSet(tx[REQ].content, tx[REQ].ackOff))

IInv ==
  /\ TypeOK
  /\ \A s \in TxStreams : TxInv(tx[s], accepted[s])
  /\ OfferInv /\ FrameInv /\ SchedInv /\ FinInv /\ ReportInv
-----------------------------------------------------------------------------
(* The lengths of a queue *)

\* What a queue holds, and has left to write, are natural numbers.
LEMMA LensAreNat ==
  ASSUME NEW q \in Bufs
  PROVE  /\ Len(q) \in Nat /\ DOMAIN q = 1..Len(q)
         /\ HeldLens(q) \in Weights(Len(q)) /\ BufLens(q) \in Weights(Len(q))
         /\ \A k \in 1..Len(q) : /\ q[k] \in Buf
                                 /\ HeldLens(q)[k] = q[k].last - q[k].begin
                                 /\ BufLens(q)[k] = q[k].last - q[k].pos
                                 /\ BufLens(q)[k] <= HeldLens(q)[k]
<1>1. q \in Seq(Buf) /\ Len(q) \in Nat /\ DOMAIN q = 1..Len(q)
  BY DEF Bufs
<1>2. \A k \in 1..Len(q) : q[k] \in Buf /\ q[k].begin <= q[k].pos /\ q[k].pos <= q[k].last
  BY <1>1 DEF Bufs
<1>3. \A k \in 1..Len(q) : /\ Held(q[k]) \in Nat /\ BufLen(q[k]) \in Nat
                           /\ BufLen(q[k]) <= Held(q[k])
  BY <1>2 DEF Buf, Held, BufLen
<1>. QED
  BY <1>1, <1>2, <1>3 DEF HeldLens, BufLens, Held, BufLen, Weights

\* r is q, of n buffers, with b at the end, or with its last one up to z.
Appends(q, n, b, r) == n = Len(q) /\ r = Append(q, b)
Lengthens(q, n, z, r) == n = Len(q) /\ n > 0 /\ r = [q EXCEPT ![n].last = z]

\* A buffer at the end adds its length to the last sum only.
LEMMA AppendLens ==
  ASSUME NEW q \in Bufs, NEW n \in Nat,
         NEW b \in Buf, b.begin <= b.pos, b.pos <= b.last,
         NEW r, Appends(q, n, b, r)
  PROVE  /\ r \in Bufs /\ Len(r) = n + 1 /\ r[n + 1] = b /\ \A k \in 1..n : r[k] = q[k]
         /\ \A k \in 0..n : /\ SumTo(HeldLens(r), k) = SumTo(HeldLens(q), k)
                            /\ SumTo(BufLens(r), k) = SumTo(BufLens(q), k)
         /\ SumTo(HeldLens(r), n + 1) = SumTo(HeldLens(q), n) + Held(b)
         /\ SumTo(BufLens(r), n + 1) = SumTo(BufLens(q), n) + BufLen(b)
<1>1. n = Len(q)
  BY DEF Appends
<1>a. PICK m \in Nat : m = n + 1
  BY <1>1
<1>2. Append(q, b) \in Seq(Buf)
  BY DEF Bufs
<1>3. PICK p \in Seq(Buf) : p = Append(q, b)
  BY <1>2, Zenon
<1>4. /\ Len(p) = n + 1 /\ p[n + 1] = b /\ \A k \in 1..n : p[k] = q[k]
      /\ \A k \in 1..n : q[k].begin <= q[k].pos /\ q[k].pos <= q[k].last
  BY <1>1, <1>3 DEF Bufs
<1>5. p \in Bufs
  BY <1>4 DEF Bufs
<1>6. /\ HeldLens(p) \in Weights(m) /\ BufLens(p) \in Weights(m)
      /\ HeldLens(q) \in Weights(n) /\ BufLens(q) \in Weights(n)
  BY <1>1, <1>a, <1>4, <1>5, LensAreNat
<1>7. /\ \A k \in 1..n : HeldLens(p)[k] = HeldLens(q)[k] /\ BufLens(p)[k] = BufLens(q)[k]
      /\ HeldLens(p)[n + 1] = Held(b) /\ BufLens(p)[n + 1] = BufLen(b)
  <2>1. DOMAIN p = 1..(n + 1) /\ DOMAIN q = 1..n
    BY <1>1, <1>4, <1>5, LensAreNat
  <2>. QED
    BY <1>4, <2>1 DEF HeldLens, BufLens
<1>8. /\ \A k \in 0..n : SumTo(HeldLens(p), k) = SumTo(HeldLens(q), k)
      /\ SumTo(HeldLens(p), n + 1) = SumTo(HeldLens(q), n) + Held(b)
  <2>1. \A k \in 0..n : SumTo(HeldLens(p), k) = SumTo(HeldLens(q), k)
    <3>1. n <= m /\ n <= n /\ Alike(HeldLens(p), 0, HeldLens(q), 0, n)
      BY <1>a, <1>7 DEF Alike
    <3>. QED
      BY <1>6, <3>1, SumPrefix
  <2>2. SumTo(HeldLens(p), n + 1) = SumTo(HeldLens(p), n) + HeldLens(p)[n + 1]
    <3>1. n < m
      BY <1>a
    <3>. QED
      BY <1>6, <3>1, SumStep
  <2>. QED
    BY <1>7, <2>1, <2>2
<1>9. /\ \A k \in 0..n : SumTo(BufLens(p), k) = SumTo(BufLens(q), k)
      /\ SumTo(BufLens(p), n + 1) = SumTo(BufLens(q), n) + BufLen(b)
  <2>1. \A k \in 0..n : SumTo(BufLens(p), k) = SumTo(BufLens(q), k)
    <3>1. n <= m /\ n <= n /\ Alike(BufLens(p), 0, BufLens(q), 0, n)
      BY <1>a, <1>7 DEF Alike
    <3>. QED
      BY <1>6, <3>1, SumPrefix
  <2>2. SumTo(BufLens(p), n + 1) = SumTo(BufLens(p), n) + BufLens(p)[n + 1]
    <3>1. n < m
      BY <1>a
    <3>. QED
      BY <1>6, <3>1, SumStep
  <2>. QED
    BY <1>7, <2>1, <2>2
<1>10. p = r
  BY <1>3 DEF Appends
<1>. QED
  BY <1>4, <1>5, <1>8, <1>9, <1>10

\* What a queue holds grows with its end; none of it is more than is held.
LEMMA LensUpTo ==
  ASSUME NEW q \in Bufs
  PROVE  /\ SumTo(HeldLens(q), 0) = 0 /\ SumTo(BufLens(q), 0) = 0
         /\ \A k \in Nat : SumTo(HeldLens(q), k) \in Nat /\ SumTo(BufLens(q), k) \in Nat
         /\ \A k \in 1..Len(q) :
              /\ SumTo(HeldLens(q), k) = SumTo(HeldLens(q), k - 1) + Held(q[k])
              /\ SumTo(BufLens(q), k) = SumTo(BufLens(q), k - 1) + BufLen(q[k])
              /\ Held(q[k]) \in Nat /\ BufLen(q[k]) \in Nat
<1>1. PICK n \in Nat : n = Len(q)
  BY LensAreNat
<1>2. HeldLens(q) \in Weights(n) /\ BufLens(q) \in Weights(n)
  BY <1>1, LensAreNat
<1>3. /\ SumTo(HeldLens(q), 0) = 0
      /\ \A k \in Nat : SumTo(HeldLens(q), k) \in Nat
      /\ \A k \in Nat : k < n => SumTo(HeldLens(q), k + 1) = SumTo(HeldLens(q), k) + HeldLens(q)[k + 1]
  BY <1>2, SumStep
<1>4. /\ SumTo(BufLens(q), 0) = 0
      /\ \A k \in Nat : SumTo(BufLens(q), k) \in Nat
      /\ \A k \in Nat : k < n => SumTo(BufLens(q), k + 1) = SumTo(BufLens(q), k) + BufLens(q)[k + 1]
  BY <1>2, SumStep
<1>5. \A k \in 1..n : /\ HeldLens(q)[k] = Held(q[k]) /\ BufLens(q)[k] = BufLen(q[k])
                      /\ HeldLens(q)[k] \in Nat /\ BufLens(q)[k] \in Nat
  <2>1. DOMAIN q = 1..n
    BY <1>1, LensAreNat
  <2>. QED
    BY <1>2, <2>1 DEF HeldLens, BufLens, Weights
<1>6. ASSUME NEW k \in 1..n
      PROVE  /\ SumTo(HeldLens(q), k) = SumTo(HeldLens(q), k - 1) + Held(q[k])
             /\ SumTo(BufLens(q), k) = SumTo(BufLens(q), k - 1) + BufLen(q[k])
  <2>1. PICK j \in Nat : k = j + 1
    <3>1. k - 1 \in Nat /\ k = (k - 1) + 1
      OBVIOUS
    <3>. QED
      BY <3>1
  <2>2. j < n /\ k - 1 = j
    BY <2>1
  <2>3. SumTo(HeldLens(q), j + 1) = SumTo(HeldLens(q), j) + HeldLens(q)[j + 1]
    BY <1>3, <2>2
  <2>4. SumTo(BufLens(q), j + 1) = SumTo(BufLens(q), j) + BufLens(q)[j + 1]
    BY <1>4, <2>2
  <2>. QED
    BY <1>5, <2>1, <2>2, <2>3, <2>4
<1>. QED
  BY <1>1, <1>3, <1>4, <1>5, <1>6

\* A last buffer that is extended adds its new bytes to the last sum only.
LEMMA ExtendLens ==
  ASSUME NEW q \in Bufs, NEW n \in Nat, NEW z \in Nat, q[n].last <= z,
         NEW r0, Lengthens(q, n, z, r0)
  PROVE  /\ r0 \in Bufs /\ Len(r0) = n /\ \A k \in 1..n : k # n => r0[k] = q[k]
         /\ r0[n] = [q[n] EXCEPT !.last = z]
         /\ \A k \in 0..(n - 1) : /\ SumTo(HeldLens(r0), k) = SumTo(HeldLens(q), k)
                                  /\ SumTo(BufLens(r0), k) = SumTo(BufLens(q), k)
         /\ SumTo(HeldLens(r0), n) = SumTo(HeldLens(q), n) + (z - q[n].last)
         /\ SumTo(BufLens(r0), n) = SumTo(BufLens(q), n) + (z - q[n].last)
<1>1. n = Len(q) /\ n > 0 /\ q[n].last <= z
  BY DEF Lengthens
<1>2. PICK m \in Nat : n = m + 1
  <2>1. n - 1 \in Nat /\ n = (n - 1) + 1
    BY <1>1
  <2>. QED
    BY <2>1
<1>3. PICK b : b = [q[n] EXCEPT !.last = z]
  OBVIOUS
<1>4. /\ q \in Seq(Buf) /\ n \in 1..n /\ q[n] \in Buf
      /\ q[n].begin <= q[n].pos /\ q[n].pos <= q[n].last
      /\ DOMAIN q = 1..n
  BY <1>1, LensAreNat DEF Bufs
<1>5. /\ b \in Buf /\ b.last = z /\ b.begin = q[n].begin /\ b.pos = q[n].pos
      /\ b.begin <= b.pos /\ b.pos <= b.last
  <2>1. PICK w \in Buf : w = q[n]
    BY <1>4
  <2>2. /\ w.type \in {"SHARED", "PRIVATE", "ALIEN"} /\ w.chunk \in Nat
        /\ w.begin \in Nat /\ w.pos \in Nat /\ w.last \in Nat
    BY DEF Buf
  <2>3. b = [w EXCEPT !.last = z]
    BY <1>3, <2>1
  <2>4. b = [type |-> w.type, chunk |-> w.chunk, begin |-> w.begin, pos |-> w.pos, last |-> z]
    BY <2>3 DEF Buf
  <2>5. w.begin <= w.pos /\ w.pos <= w.last /\ w.last <= z
    BY <1>1, <1>4, <2>1
  <2>6. b \in Buf
    BY <2>2, <2>4 DEF Buf
  <2>7. b.last = z /\ b.begin = w.begin /\ b.pos = w.pos
    BY <2>4
  <2>. QED
    BY <2>1, <2>2, <2>5, <2>6, <2>7
<1>6. PICK r \in Seq(Buf) : r = [q EXCEPT ![n].last = z]
  <2>1. [q EXCEPT ![n].last = z] = [q EXCEPT ![n] = b]
    BY <1>3, <1>4
  <2>2. [q EXCEPT ![n] = b] \in Seq(Buf)
    BY <1>1, <1>4, <1>5, ExceptSeq
  <2>. QED
    BY <2>1, <2>2
<1>7. /\ Len(r) = n /\ DOMAIN r = 1..n /\ r[n] = b /\ \A k \in 1..m : r[k] = q[k]
  BY <1>1, <1>2, <1>3, <1>4, <1>6
<1>8. r \in Bufs
  <2>1. \A k \in 1..m : q[k].begin <= q[k].pos /\ q[k].pos <= q[k].last
    BY <1>2, <1>4 DEF Bufs
  <2>2. ASSUME NEW k \in 1..n PROVE r[k].begin <= r[k].pos /\ r[k].pos <= r[k].last
    <3>1. CASE k = n
      BY <1>5, <1>7, <3>1
    <3>2. CASE k # n
      <4>1. k \in 1..m
        BY <1>2, <3>2
      <4>. QED
        BY <1>7, <2>1, <4>1
    <3>. QED
      BY <3>1, <3>2
  <2>. QED
    BY <1>6, <1>7, <2>2 DEF Bufs
<1>9. /\ HeldLens(r) \in Weights(n) /\ BufLens(r) \in Weights(n)
      /\ HeldLens(q) \in Weights(n) /\ BufLens(q) \in Weights(n)
  BY <1>1, <1>7, <1>8, LensAreNat
<1>10. \A k \in 0..m : /\ SumTo(HeldLens(r), k) = SumTo(HeldLens(q), k)
                       /\ SumTo(BufLens(r), k) = SumTo(BufLens(q), k)
  <2>1. Alike(HeldLens(r), 0, HeldLens(q), 0, m) /\ Alike(BufLens(r), 0, BufLens(q), 0, m)
    BY <1>2, <1>4, <1>7 DEF Alike, HeldLens, BufLens
  <2>2. m <= n
    BY <1>2
  <2>3. \A k \in 0..m : SumTo(HeldLens(r), k) = SumTo(HeldLens(q), k)
    BY <1>9, <2>1, <2>2, SumPrefix
  <2>4. \A k \in 0..m : SumTo(BufLens(r), k) = SumTo(BufLens(q), k)
    BY <1>9, <2>1, <2>2, SumPrefix
  <2>. QED
    BY <2>3, <2>4
<1>11. /\ SumTo(HeldLens(r), n) = SumTo(HeldLens(r), m) + Held(b)
       /\ SumTo(BufLens(r), n) = SumTo(BufLens(r), m) + BufLen(b)
  <2>1. n \in 1..Len(r) /\ n - 1 = m
    BY <1>1, <1>2, <1>7
  <2>. QED
    BY <1>7, <1>8, <2>1, LensUpTo
<1>12. /\ SumTo(HeldLens(q), n) = SumTo(HeldLens(q), m) + Held(q[n])
       /\ SumTo(BufLens(q), n) = SumTo(BufLens(q), m) + BufLen(q[n])
  <2>1. n \in 1..Len(q) /\ n - 1 = m
    BY <1>1, <1>2
  <2>. QED
    BY <2>1, LensUpTo
<1>13. Held(b) = Held(q[n]) + (z - q[n].last) /\ BufLen(b) = BufLen(q[n]) + (z - q[n].last)
  BY <1>4, <1>5 DEF Held, BufLen, Buf
<1>14. SumTo(HeldLens(q), m) \in Nat /\ SumTo(BufLens(q), m) \in Nat
       /\ Held(q[n]) \in Nat /\ BufLen(q[n]) \in Nat /\ z - q[n].last \in Int
  <2>1. n \in 1..Len(q)
    BY <1>1
  <2>2. SumTo(HeldLens(q), m) \in Nat /\ SumTo(BufLens(q), m) \in Nat
    BY LensUpTo
  <2>3. Held(q[n]) \in Nat /\ BufLen(q[n]) \in Nat
    BY <2>1, LensUpTo
  <2>. QED
    BY <1>4, <2>2, <2>3 DEF Buf
<1>15. /\ SumTo(HeldLens(r), n) = SumTo(HeldLens(q), n) + (z - q[n].last)
       /\ SumTo(BufLens(r), n) = SumTo(BufLens(q), n) + (z - q[n].last)
  <2>. DEFINE h == SumTo(HeldLens(q), m)
              l == SumTo(BufLens(q), m)
              d == z - q[n].last
              x == Held(q[n])
              y == BufLen(q[n])
  <2>1. h \in Nat /\ l \in Nat /\ x \in Nat /\ y \in Nat /\ d \in Int
    BY <1>14
  <2>2. m \in 0..m
    OBVIOUS
  <2>3. /\ SumTo(HeldLens(r), n) = h + (x + d) /\ SumTo(HeldLens(q), n) = h + x
        /\ SumTo(BufLens(r), n) = l + (y + d) /\ SumTo(BufLens(q), n) = l + y
    BY <1>10, <1>11, <1>12, <1>13, <2>2
  <2>4. h + (x + d) = (h + x) + d /\ l + (y + d) = (l + y) + d
    <3>. HIDE DEF h, l, d, x, y
    <3>. QED
      BY <2>1
  <2>. QED
    BY <2>3, <2>4
<1>16. m = n - 1 /\ r = r0
  BY <1>2, <1>6 DEF Lengthens
<1>17. \A k \in 1..n : k # n => r[k] = q[k]
  BY <1>2, <1>7
<1>. QED
  BY <1>3, <1>7, <1>8, <1>10, <1>15, <1>16, <1>17
-----------------------------------------------------------------------------
(* nghttp3_stream_outq_add *)

Extends(t, b) ==
  /\ Len(t.outq) > 0
  /\ b.type = "SHARED" /\ t.outq[Len(t.outq)].type = "SHARED"
  /\ b.chunk = t.outq[Len(t.outq)].chunk /\ b.pos = t.outq[Len(t.outq)].last

\* The bytes of a buffer, each marked with whose it is.
Marks(n, type) == [k \in 1..n |-> type = "ALIEN"]

\* e is c with n bytes of that type after it.
Follows(e, c, n, type) == e = c \o Marks(n, type)

\* What a stream has sent is what it had before, and then the new bytes.
LEMMA ContentGrows ==
  ASSUME NEW c \in Seq(BOOLEAN), NEW n \in Nat, NEW type, NEW e, Follows(e, c, n, type)
  PROVE  /\ e \in Seq(BOOLEAN) /\ Len(e) = Len(c) + n
         /\ \A k \in 1..Len(c) : e[k] = c[k]
         /\ \A k \in (Len(c) + 1)..(Len(c) + n) : e[k] = (type = "ALIEN")
<1>1. Marks(n, type) \in Seq(BOOLEAN)
  BY DEF Marks
<1>2. PICK m \in Seq(BOOLEAN) : m = Marks(n, type)
  BY <1>1, Zenon
<1>3. Len(m) = n /\ \A k \in 1..n : m[k] = (type = "ALIEN")
  BY <1>2 DEF Marks
<1>4. /\ c \o m \in Seq(BOOLEAN) /\ Len(c \o m) = Len(c) + Len(m)
      /\ \A k \in 1..Len(c) + Len(m) : (c \o m)[k] = IF k <= Len(c) THEN c[k] ELSE m[k - Len(c)]
  BY ConcatProperties
<1>l. PICK l \in Nat : l = Len(c)
  OBVIOUS
<1>5. \A k \in (l + 1)..(l + n) : k - l \in 1..n /\ ~(k <= l) /\ k \in 1..(l + n)
  OBVIOUS
<1>6. \A k \in 1..l : k <= l /\ k \in 1..(l + n)
  OBVIOUS
<1>7. ASSUME NEW k \in (l + 1)..(l + n) PROVE (c \o m)[k] = (type = "ALIEN")
  <2>1. (c \o m)[k] = m[k - l]
    BY <1>3, <1>4, <1>5, <1>l
  <2>. QED
    BY <1>3, <1>5, <2>1
<1>8. ASSUME NEW k \in 1..l PROVE (c \o m)[k] = c[k]
  BY <1>3, <1>4, <1>6, <1>l
<1>9. e = c \o m
  BY <1>2 DEF Follows
<1>. QED
  BY <1>3, <1>4, <1>7, <1>8, <1>9, <1>l

\* The fields of a queue to which a buffer is added.
LEMMA OutqAddFields ==
  ASSUME NEW t \in Queue, t.outq \in Bufs, t.idx <= Len(t.outq),
         NEW b \in Buf, b.begin = b.pos, b.pos <= b.last
  PROVE  LET u == OutqAdd(t, b)
             n == Len(t.outq)
         IN /\ u \in Queue
            /\ u.chunks = t.chunks /\ u.allocated = t.allocated
            /\ u.ackBase = t.ackBase /\ u.ackOff = t.ackOff
            /\ u.unsent = t.unsent + BufLen(b)
            /\ u.content = t.content \o Marks(BufLen(b), b.type)
            /\ Extends(t, b) => /\ u.outq = [t.outq EXCEPT ![n].last = b.last]
                                /\ u.idx = IF t.idx = n THEN n - 1 ELSE t.idx
            /\ ~Extends(t, b) => u.outq = Append(t.outq, b) /\ u.idx = t.idx
<1>1. PICK n \in Nat : n = Len(t.outq)
  BY LensAreNat
<1>2. BufLen(b) \in Nat
  BY DEF BufLen, Buf
<1>3. /\ t.unsent + BufLen(b) \in Nat
      /\ t.content \o Marks(BufLen(b), b.type) \in Seq(BOOLEAN)
  <2>1. PICK m \in Nat : m = BufLen(b)
    BY <1>2
  <2>2. t.content \in Seq(BOOLEAN) /\ t.unsent \in Nat
    BY DEF Queue
  <2>3. t.content \o Marks(m, b.type) \in Seq(BOOLEAN)
    <3>1. PICK e : e = t.content \o Marks(m, b.type)
      OBVIOUS
    <3>2. Follows(e, t.content, m, b.type)
      BY <3>1, Zenon DEF Follows
    <3>3. e \in Seq(BOOLEAN)
      BY <2>2, <3>2, ContentGrows
    <3>. QED
      BY <3>1, <3>3, Zenon
  <2>. QED
    BY <1>2, <2>1, <2>2, <2>3
<1>4. PICK z \in Nat : z = t.unsent + BufLen(b)
  BY <1>3
<1>5. PICK c \in Seq(BOOLEAN) : c = t.content \o Marks(BufLen(b), b.type)
  BY <1>3, Zenon
<1>6. PICK counted : counted = [t EXCEPT !.unsent = z, !.content = c]
  OBVIOUS
<1>7. /\ counted \in Queue
      /\ counted = [outq |-> t.outq, idx |-> t.idx, chunks |-> t.chunks,
                    allocated |-> t.allocated, unsent |-> z, ackBase |-> t.ackBase,
                    ackOff |-> t.ackOff, content |-> c]
  BY <1>6 DEF Queue
<1>8. counted = [t EXCEPT !.unsent = @ + BufLen(b),
                          !.content = @ \o [k \in 1..BufLen(b) |-> b.type = "ALIEN"]]
  BY <1>4, <1>5, <1>6 DEF Marks
<1>9. CASE Extends(t, b)
  <2>1. n > 0 /\ t.outq[n].last <= b.last /\ b.last \in Nat
    BY <1>1, <1>9 DEF Extends, Buf
  <2>2. PICK r \in Seq(Buf) : r = [t.outq EXCEPT ![n].last = b.last]
    <3>1. PICK q \in Bufs, y \in Nat : q = t.outq /\ y = b.last
      BY <2>1
    <3>2. [q EXCEPT ![n].last = y] \in Bufs
      <4>1. PICK r : r = [q EXCEPT ![n].last = y]
        OBVIOUS
      <4>2. Lengthens(q, n, y, r) /\ q[n].last <= y
        BY <1>1, <2>1, <3>1, <4>1 DEF Lengthens
      <4>3. r \in Bufs
        BY <4>2, ExtendLens
      <4>. QED
        BY <4>1, <4>3
    <3>. QED
      BY <3>1, <3>2, Zenon DEF Bufs
  <2>3. PICK i \in Nat : i = IF t.idx = n THEN n - 1 ELSE t.idx
    <3>1. t.idx \in Nat /\ n - 1 \in Nat
      BY <2>1 DEF Queue
    <3>. QED
      BY <3>1
  <2>4. OutqAdd(t, b) = [counted EXCEPT !.outq[n].last = b.last,
                                        !.idx = IF @ = n THEN n - 1 ELSE @]
    BY <1>1, <1>8, <1>9, Zenon DEF OutqAdd, Extends
  <2>5. OutqAdd(t, b) = [outq |-> r, idx |-> i, chunks |-> t.chunks,
                         allocated |-> t.allocated, unsent |-> z, ackBase |-> t.ackBase,
                         ackOff |-> t.ackOff, content |-> c]
    BY <1>7, <2>2, <2>3, <2>4
  <2>. QED
    BY <1>1, <1>4, <1>5, <1>9, <2>2, <2>3, <2>5 DEF Queue
<1>10. CASE ~Extends(t, b)
  <2>1. PICK r \in Seq(Buf) : r = Append(t.outq, b)
    <3>1. Append(t.outq, b) \in Seq(Buf)
      BY DEF Bufs
    <3>. QED
      BY <3>1, Zenon
  <2>2. OutqAdd(t, b) = [counted EXCEPT !.outq = Append(@, b)]
    BY <1>8, <1>10, Zenon DEF OutqAdd, Extends
  <2>3. OutqAdd(t, b) = [outq |-> r, idx |-> t.idx, chunks |-> t.chunks,
                         allocated |-> t.allocated, unsent |-> z, ackBase |-> t.ackBase,
                         ackOff |-> t.ackOff, content |-> c]
    BY <1>7, <2>1, <2>2
  <2>. QED
    BY <1>1, <1>4, <1>5, <1>10, <2>1, <2>3, SMTT(60) DEF Queue
<1>. QED
  BY <1>9, <1>10, Zenon

\* The part of a queue holds no more than the whole.
LEMMA HeldWithin ==
  ASSUME NEW q \in Bufs, NEW n \in Nat, n = Len(q)
  PROVE  \A k \in 0..n : /\ SumTo(HeldLens(q), k) \in Nat
                         /\ SumTo(HeldLens(q), k) <= SumTo(HeldLens(q), n)
<1>1. \A k \in Nat : SumTo(HeldLens(q), k) \in Nat
  BY LensUpTo
<1>2. HeldLens(q) \in Weights(n)
  BY LensAreNat
<1>3. ASSUME NEW k \in 0..n PROVE SumTo(HeldLens(q), k) <= SumTo(HeldLens(q), n)
  <2>1. k \in Nat /\ k <= n /\ n <= n
    OBVIOUS
  <2>. QED
    BY <1>2, <2>1, SumMonotone
<1>. QED
  BY <1>1, <1>3

\* A buffer at the end of a queue with nothing to write, or with bytes.
LEMMA AppendShape ==
  ASSUME NEW q, NEW i \in Nat, NEW base \in Nat, NEW y \in Nat, NEW c \in Seq(BOOLEAN),
         Shape(q, i, base, y, c),
         NEW b \in Buf, b.begin = b.pos, b.pos <= b.last,
         NEW n \in Nat, b.pos < b.last \/ i >= n,
         NEW w, Appends(q, n, b, w),
         NEW e, Follows(e, c, BufLen(b), b.type)
  PROVE  /\ Shape(w, i, base, y + BufLen(b), e) /\ i < Len(w)
         /\ q # <<>> => w # <<>> /\ Held(q[1]) <= Held(w[1])
<1>1. n = Len(q) /\ (b.pos < b.last \/ i >= n)
  BY Zenon DEF Appends
<1>d. PICK d \in Nat : d = BufLen(b)
  BY DEF BufLen, Buf
<1>s. PICK type : type = b.type
  OBVIOUS
<1>2. PICK h \in Nat : h = SumTo(HeldLens(q), n)
  BY <1>1, LensUpTo DEF Shape
<1>3. PICK l \in Nat : l = Len(c)
  OBVIOUS
<1>4. /\ q \in Bufs /\ i <= n
      /\ \A k \in 1..n :
           /\ k <= i => q[k].pos = q[k].last
           /\ k > i + 1 => q[k].pos = q[k].begin /\ q[k].pos < q[k].last
           /\ \A j \in (SumTo(HeldLens(q), k - 1) + 1)..SumTo(HeldLens(q), k) :
                c[base + j] = (q[k].type = "ALIEN")
      /\ base + h = l /\ y = SumTo(BufLens(q), n)
  BY <1>1, <1>2, <1>3, Zenon DEF Shape
<1>5. d = Held(b) /\ b.begin <= b.pos /\ b.begin = b.pos /\ b.pos <= b.last
  BY <1>d DEF BufLen, Held, Buf
<1>6. /\ w \in Bufs /\ Len(w) = n + 1 /\ w[n + 1] = b /\ \A k \in 1..n : w[k] = q[k]
      /\ \A k \in 0..n : /\ SumTo(HeldLens(w), k) = SumTo(HeldLens(q), k)
                         /\ SumTo(BufLens(w), k) = SumTo(BufLens(q), k)
      /\ SumTo(HeldLens(w), n + 1) = SumTo(HeldLens(q), n) + Held(b)
      /\ SumTo(BufLens(w), n + 1) = SumTo(BufLens(q), n) + BufLen(b)
  <2>1. q \in Bufs /\ b.begin <= b.pos /\ b.pos <= b.last /\ Appends(q, n, b, w)
    BY <1>4, <1>5
  <2>. QED
    BY <2>1, AppendLens
<1>8. /\ Len(e) = l + d /\ \A k \in 1..l : e[k] = c[k]
      /\ \A k \in (l + 1)..(l + d) : e[k] = (type = "ALIEN")
  <2>1. Follows(e, c, d, type)
    BY <1>d, <1>s
  <2>. QED
    BY <1>3, <2>1, ContentGrows
<1>9. \A k \in 0..n : SumTo(HeldLens(q), k) \in Nat /\ SumTo(HeldLens(q), k) <= h
  BY <1>1, <1>2, <1>4, HeldWithin
<1>10. ASSUME NEW k \in 1..(n + 1)
       PROVE  /\ k <= i => w[k].pos = w[k].last
              /\ k > i + 1 => w[k].pos = w[k].begin /\ w[k].pos < w[k].last
  <2>1. CASE k \in 1..n
    BY <1>4, <1>6, <2>1
  <2>2. CASE k = n + 1
    <3>1. w[k] = b /\ ~(k <= i)
      BY <1>4, <1>6, <2>2
    <3>2. k > i + 1 => b.pos < b.last
      BY <1>1, <1>4, <2>2
    <3>. QED
      BY <1>5, <3>1, <3>2
  <2>. QED
    BY <2>1, <2>2
<1>11. ASSUME NEW k \in 1..(n + 1),
              NEW j \in (SumTo(HeldLens(w), k - 1) + 1)..SumTo(HeldLens(w), k)
       PROVE  e[base + j] = (w[k].type = "ALIEN")
  <2>1. PICK p \in 0..n : p = k - 1
    OBVIOUS
  <2>2. SumTo(HeldLens(w), p) = SumTo(HeldLens(q), p) /\ SumTo(HeldLens(q), p) \in Nat
    BY <1>6, <1>9
  <2>3. CASE k \in 1..n
    <3>1. SumTo(HeldLens(w), k) = SumTo(HeldLens(q), k) /\ w[k] = q[k] /\ k \in 0..n
      BY <1>6, <2>3
    <3>2. SumTo(HeldLens(q), k) <= h /\ SumTo(HeldLens(q), k) \in Nat
      BY <1>9, <3>1
    <3>3. base + j \in 1..l
      BY <1>4, <2>1, <2>2, <3>1, <3>2
    <3>4. c[base + j] = (q[k].type = "ALIEN")
      BY <1>4, <2>1, <2>2, <2>3, <3>1
    <3>5. e[base + j] = c[base + j]
      BY <1>8, <3>3
    <3>. QED
      BY <3>1, <3>4, <3>5
  <2>4. CASE k = n + 1
    <3>1. p = n /\ SumTo(HeldLens(w), k) = h + d /\ SumTo(HeldLens(w), k - 1) = h
      BY <1>2, <1>5, <1>6, <2>1, <2>2, <2>4
    <3>2. base + j \in (l + 1)..(l + d)
      BY <1>4, <3>1
    <3>3. e[base + j] = (type = "ALIEN")
      BY <1>8, <3>2
    <3>4. w[k] = b
      BY <1>6, <2>4
    <3>. QED
      BY <1>s, <3>3, <3>4, Zenon
  <2>. QED
    BY <2>3, <2>4
<1>12. base + SumTo(HeldLens(w), Len(w)) = Len(e) /\ y + d = SumTo(BufLens(w), Len(w))
  <2>1. SumTo(HeldLens(w), n + 1) = h + d /\ SumTo(BufLens(w), n + 1) = y + d
    BY <1>2, <1>4, <1>5, <1>6, <1>d
  <2>2. base + (h + d) = Len(e)
    BY <1>4, <1>8
  <2>3. Len(w) = n + 1
    BY <1>6
  <2>. QED
    BY <2>1, <2>2, <2>3, Zenon
<1>13. i <= Len(w) /\ i < Len(w)
  BY <1>4, <1>6
<1>14. q # <<>> => w # <<>> /\ Held(q[1]) <= Held(w[1])
  <2>. SUFFICES ASSUME q # <<>> PROVE w # <<>> /\ Held(q[1]) <= Held(w[1])
    OBVIOUS
  <2>1. 1 \in 1..n /\ w # <<>>
    BY <1>1, <1>4, <1>6 DEF Bufs
  <2>2. Held(q[1]) \in Nat
    BY <1>1, <1>4, <2>1, LensUpTo
  <2>. QED
    BY <1>6, <2>1, <2>2
<1>15. Shape(w, i, base, y + d, e)
  <2>1. Len(w) = n + 1 /\ w \in Bufs
    BY <1>6
  <2>. QED
    BY <1>10, <1>11, <1>12, <1>13, <2>1, Zenon DEF Shape
<1>. QED
  BY <1>d, <1>13, <1>14, <1>15

\* The position i of a queue of n buffers goes back to the last of them.
Retreats(i, n, i1) == i1 = IF i = n THEN n - 1 ELSE i

\* A last buffer whose bytes go on where they ended; it is written no more.
LEMMA ExtendShape ==
  ASSUME NEW q, NEW i \in Nat, NEW base \in Nat, NEW y \in Nat, NEW c \in Seq(BOOLEAN),
         Shape(q, i, base, y, c),
         NEW n \in Nat, q[n].type = "SHARED",
         NEW d \in Nat, NEW z \in Nat, q[n].last + d = z,
         NEW w, Lengthens(q, n, z, w),
         NEW i1 \in Nat, Retreats(i, n, i1),
         NEW e, Follows(e, c, d, "SHARED")
  PROVE  /\ Shape(w, i1, base, y + d, e) /\ i1 < Len(w)
         /\ w # <<>> /\ Held(q[1]) <= Held(w[1])
<1>1. /\ n = Len(q) /\ n > 0
      /\ q[n].type = "SHARED" /\ q[n].last + d = z
  BY Zenon DEF Lengthens
<1>2. PICK h \in Nat : h = SumTo(HeldLens(q), n)
  BY <1>1, LensUpTo DEF Shape
<1>3. PICK l \in Nat : l = Len(c)
  OBVIOUS
<1>4. /\ q \in Bufs /\ i <= n
      /\ \A k \in 1..n :
           /\ k <= i => q[k].pos = q[k].last
           /\ k > i + 1 => q[k].pos = q[k].begin /\ q[k].pos < q[k].last
           /\ \A j \in (SumTo(HeldLens(q), k - 1) + 1)..SumTo(HeldLens(q), k) :
                c[base + j] = (q[k].type = "ALIEN")
      /\ base + h = l /\ y = SumTo(BufLens(q), n)
  BY <1>1, <1>2, <1>3, Zenon DEF Shape
<1>5. q[n] \in Buf /\ q[n].last \in Nat /\ q[n].last <= z /\ z - q[n].last = d
  <2>1. q[n] \in Buf
    BY <1>1, <1>4, LensAreNat
  <2>. QED
    BY <1>1, <2>1 DEF Buf
<1>6. /\ w \in Bufs /\ Len(w) = n /\ \A k \in 1..n : k # n => w[k] = q[k]
      /\ w[n] = [q[n] EXCEPT !.last = z]
      /\ \A k \in 0..(n - 1) : /\ SumTo(HeldLens(w), k) = SumTo(HeldLens(q), k)
                               /\ SumTo(BufLens(w), k) = SumTo(BufLens(q), k)
      /\ SumTo(HeldLens(w), n) = SumTo(HeldLens(q), n) + (z - q[n].last)
      /\ SumTo(BufLens(w), n) = SumTo(BufLens(q), n) + (z - q[n].last)
  <2>1. q \in Bufs /\ q[n].last <= z /\ Lengthens(q, n, z, w)
    BY <1>4, <1>5
  <2>. QED
    BY <2>1, ExtendLens
<1>a. /\ w[n].type = "SHARED" /\ w[n].last = z
      /\ w[n].begin = q[n].begin /\ w[n].pos = q[n].pos
  BY <1>5, <1>6 DEF Buf
<1>8. /\ Len(e) = l + d /\ \A k \in 1..l : e[k] = c[k]
      /\ \A k \in (l + 1)..(l + d) : e[k] = FALSE
  <2>1. PICK type : type = "SHARED"
    OBVIOUS
  <2>2. Follows(e, c, d, type)
    BY <2>1
  <2>3. /\ Len(e) = Len(c) + d /\ \A k \in 1..Len(c) : e[k] = c[k]
        /\ \A k \in (Len(c) + 1)..(Len(c) + d) : e[k] = (type = "ALIEN")
    BY <2>2, ContentGrows
  <2>4. (type = "ALIEN") = FALSE
    BY <2>1
  <2>. QED
    BY <1>3, <2>3, <2>4, Zenon
<1>9. \A k \in 0..n : SumTo(HeldLens(q), k) \in Nat /\ SumTo(HeldLens(q), k) <= h
  BY <1>1, <1>2, <1>4, HeldWithin
<1>b. i1 < n /\ i1 = IF i = n THEN n - 1 ELSE i
  BY <1>1, <1>4 DEF Retreats
<1>10. ASSUME NEW k \in 1..n
       PROVE  /\ k <= i1 => w[k].pos = w[k].last
              /\ k > i1 + 1 => w[k].pos = w[k].begin /\ w[k].pos < w[k].last
  <2>1. CASE k # n
    BY <1>4, <1>6, <1>b, <2>1, SMTT(60)
  <2>2. CASE k = n
    <3>1. ~(k <= i1)
      BY <1>b, <2>2
    <3>2. CASE k > i1 + 1
      <4>1. i # n /\ k > i + 1
        BY <1>4, <1>b, <2>2, <3>2
      <4>2. q[n].pos = q[n].begin /\ q[n].pos < q[n].last
        BY <1>4, <2>2, <4>1
      <4>. QED
        BY <1>5, <1>a, <2>2, <3>1, <4>2 DEF Buf
    <3>. QED
      BY <3>1, <3>2
  <2>. QED
    BY <2>1, <2>2
<1>11. ASSUME NEW k \in 1..n,
              NEW j \in (SumTo(HeldLens(w), k - 1) + 1)..SumTo(HeldLens(w), k)
       PROVE  e[base + j] = (w[k].type = "ALIEN")
  <2>1. PICK p \in 0..(n - 1) : p = k - 1 /\ p \in 0..n
    OBVIOUS
  <2>2. SumTo(HeldLens(w), p) = SumTo(HeldLens(q), p) /\ SumTo(HeldLens(q), p) \in Nat
    BY <1>6, <1>9, <2>1
  <2>3. CASE k # n
    <3>1. k \in 0..(n - 1) /\ k \in 0..n
      BY <2>3
    <3>2. SumTo(HeldLens(w), k) = SumTo(HeldLens(q), k) /\ w[k] = q[k]
      BY <1>6, <2>3, <3>1
    <3>3. SumTo(HeldLens(q), k) <= h /\ SumTo(HeldLens(q), k) \in Nat
      BY <1>9, <3>1
    <3>4. base + j \in 1..l
      BY <1>4, <2>1, <2>2, <3>2, <3>3
    <3>5. c[base + j] = (q[k].type = "ALIEN")
      BY <1>4, <2>1, <2>2, <3>2
    <3>6. e[base + j] = c[base + j]
      BY <1>8, <3>4
    <3>. QED
      BY <3>2, <3>5, <3>6
  <2>4. CASE k = n
    <3>1. /\ SumTo(HeldLens(w), k) = h + d
          /\ SumTo(HeldLens(w), k - 1) = SumTo(HeldLens(q), n - 1)
          /\ SumTo(HeldLens(q), n - 1) \in Nat
      BY <1>2, <1>5, <1>6, <2>1, <2>2, <2>4
    <3>2. CASE j <= h
      <4>a. PICK a \in Nat : a = SumTo(HeldLens(q), n - 1)
        BY <3>1
      <4>b. j \in (a + 1)..(h + d) /\ base + h = l /\ h = SumTo(HeldLens(q), n)
        BY <1>2, <1>4, <3>1, <4>a, <2>4
      <4>1. base + j \in 1..l /\ j \in (SumTo(HeldLens(q), n - 1) + 1)..SumTo(HeldLens(q), n)
        BY <4>a, <4>b, <3>2, SMTT(60)
      <4>2. c[base + j] = (q[n].type = "ALIEN")
        BY <1>4, <2>4, <4>1
      <4>3. e[base + j] = c[base + j]
        BY <1>8, <4>1
      <4>. QED
        BY <1>a, <2>4, <4>2, <4>3
    <3>3. CASE j > h
      <4>1. base + j \in (l + 1)..(l + d)
        BY <1>4, <3>1, <3>3
      <4>2. e[base + j] = FALSE
        BY <1>8, <4>1
      <4>. QED
        BY <1>a, <2>4, <4>2
    <3>. QED
      BY <3>1, <3>2, <3>3
  <2>. QED
    BY <2>3, <2>4
<1>12. base + SumTo(HeldLens(w), Len(w)) = Len(e) /\ y + d = SumTo(BufLens(w), Len(w))
  <2>1. SumTo(HeldLens(w), n) = h + d /\ SumTo(BufLens(w), n) = y + d
    BY <1>2, <1>4, <1>5, <1>6
  <2>. QED
    BY <1>4, <1>6, <1>8, <2>1
<1>13. i1 <= Len(w) /\ i1 < Len(w)
  BY <1>b, <1>6
<1>14. w # <<>> /\ Held(q[1]) <= Held(w[1])
  <2>1. w # <<>>
    BY <1>1, <1>6
  <2>2. Held(q[1]) \in Nat
    <3>1. 1 \in 1..Len(q)
      BY <1>1
    <3>. QED
      BY <1>4, <3>1, LensUpTo
  <2>3. CASE n = 1
    BY <1>5, <1>a, <2>1, <2>3, SMTT(60) DEF Held, Buf
  <2>4. CASE n # 1
    <3>1. w[1] = q[1]
      BY <1>1, <1>6, <2>4
    <3>. QED
      BY <2>1, <2>2, <3>1
  <2>. QED
    BY <2>3, <2>4
<1>15. Shape(w, i1, base, y + d, e)
  <2>1. Len(w) = n /\ w \in Bufs
    BY <1>6
  <2>. QED
    BY <1>10, <1>11, <1>12, <1>13, <2>1, Zenon DEF Shape
<1>. QED
  BY <1>13, <1>14, <1>15

(* u is t with bytes added at the end of it.                              *)
Written(t, u) ==
  /\ u \in Queue /\ QueueInv(u)
  /\ u.ackBase = t.ackBase /\ u.ackOff = t.ackOff
  /\ t.unsent <= u.unsent /\ Len(u.content) - Len(t.content) = u.unsent - t.unsent
  /\ \A k \in 1..Len(t.content) : u.content[k] = t.content[k]
  /\ t.outq # <<>> => u.outq # <<>> /\ Held(t.outq[1]) <= Held(u.outq[1])
  /\ ~WriteDone(t) => ~WriteDone(u)

\* What the fields of a queue are.
LEMMA QueueFields ==
  ASSUME NEW t \in Queue
  PROVE  /\ t.outq \in Seq(Buf) /\ t.idx \in Nat /\ t.chunks \in Seq(Chunk)
         /\ t.allocated \in Nat /\ t.unsent \in Nat /\ t.ackBase \in Nat
         /\ t.ackOff \in Nat /\ t.content \in Seq(BOOLEAN)
         /\ Len(t.outq) \in Nat /\ Len(t.content) \in Nat /\ Len(t.chunks) \in Nat
BY DEF Queue

\* The first buffer of a queue has a length.
LEMMA FirstHeld ==
  ASSUME NEW q \in Bufs, q # <<>>
  PROVE  Held(q[1]) \in Nat /\ 1 \in 1..Len(q)
<1>1. 1 \in 1..Len(q)
  BY DEF Bufs
<1>. QED
  BY <1>1, LensUpTo

\* Bytes can be added more than once.
LEMMA WrittenTwice ==
  ASSUME NEW t \in Queue, QueueInv(t), NEW u, NEW v, Written(t, u), Written(u, v)
  PROVE  Written(t, v)
<1>1. u \in Queue /\ v \in Queue /\ QueueInv(u) /\ QueueInv(v)
  BY Zenon DEF Written
<1>2. /\ t.unsent \in Nat /\ u.unsent \in Nat /\ v.unsent \in Nat
      /\ Len(t.content) \in Nat /\ Len(u.content) \in Nat /\ Len(v.content) \in Nat
  BY <1>1, QueueFields
<1>3. /\ v.ackBase = t.ackBase /\ v.ackOff = t.ackOff
      /\ (~WriteDone(t) => ~WriteDone(v))
  BY Zenon DEF Written
<1>4. t.unsent <= u.unsent /\ u.unsent <= v.unsent
      /\ Len(u.content) - Len(t.content) = u.unsent - t.unsent
      /\ Len(v.content) - Len(u.content) = v.unsent - u.unsent
  BY Zenon DEF Written
<1>5. t.unsent <= v.unsent /\ Len(v.content) - Len(t.content) = v.unsent - t.unsent
      /\ Len(t.content) <= Len(u.content)
  <2>. DEFINE y == t.unsent y1 == u.unsent y2 == v.unsent
              l == Len(t.content) l1 == Len(u.content) l2 == Len(v.content)
  <2>1. y \in Nat /\ y1 \in Nat /\ y2 \in Nat /\ l \in Nat /\ l1 \in Nat /\ l2 \in Nat
    BY <1>2
  <2>2. y <= y1 /\ y1 <= y2 /\ l1 - l = y1 - y /\ l2 - l1 = y2 - y1
    BY <1>4
  <2>3. y <= y2 /\ l2 - l = y2 - y /\ l <= l1
    <3>. HIDE DEF y, y1, y2, l, l1, l2
    <3>. QED
      BY <2>1, <2>2
  <2>. QED
    BY <2>3
<1>6. \A k \in 1..Len(t.content) : v.content[k] = t.content[k]
  <2>1. \A k \in 1..Len(t.content) : u.content[k] = t.content[k]
    BY Zenon DEF Written
  <2>2. \A k \in 1..Len(u.content) : v.content[k] = u.content[k]
    BY Zenon DEF Written
  <2>. QED
    BY <1>2, <1>5, <2>1, <2>2
<1>7. ASSUME t.outq # <<>> PROVE v.outq # <<>> /\ Held(t.outq[1]) <= Held(v.outq[1])
  <2>1. u.outq # <<>> /\ Held(t.outq[1]) <= Held(u.outq[1])
    BY <1>7, Zenon DEF Written
  <2>2. v.outq # <<>> /\ Held(u.outq[1]) <= Held(v.outq[1])
    BY <2>1, Zenon DEF Written
  <2>3. t.outq \in Bufs /\ u.outq \in Bufs /\ v.outq \in Bufs
    BY <1>1, Zenon DEF QueueInv, Shape
  <2>4. Held(t.outq[1]) \in Nat /\ Held(u.outq[1]) \in Nat /\ Held(v.outq[1]) \in Nat
    BY <1>7, <2>1, <2>2, <2>3, FirstHeld
  <2>. QED
    BY <2>1, <2>2, <2>4
<1>. QED
  BY <1>1, <1>3, <1>5, <1>6, <1>7, Zenon DEF Written

\* nghttp3_stream_outq_add adds the bytes of the buffer, which are then to be
\* written.
LEMMA OutqAddGood ==
  ASSUME NEW t \in Queue, QueueInv(t),
         NEW b \in Buf, b.begin = b.pos, b.pos <= b.last, b.pos < b.last \/ WriteDone(t)
  PROVE  Written(t, OutqAdd(t, b)) /\ ~WriteDone(OutqAdd(t, b))
<1>1. PICK u : u = OutqAdd(t, b)
  OBVIOUS
<1>2. PICK n \in Nat : n = Len(t.outq)
  BY QueueFields
<1>3. PICK d \in Nat : d = BufLen(b) /\ d = b.last - b.pos
  BY DEF BufLen, Buf
<1>4. Shape(t.outq, t.idx, t.ackBase, t.unsent, t.content) /\ t.outq \in Bufs /\ t.idx <= Len(t.outq)
  BY Zenon DEF QueueInv, Shape
<1>5. /\ u \in Queue
      /\ u.ackBase = t.ackBase /\ u.ackOff = t.ackOff
      /\ u.unsent = t.unsent + BufLen(b)
      /\ u.content = t.content \o Marks(BufLen(b), b.type)
      /\ Extends(t, b) => /\ u.outq = [t.outq EXCEPT ![n].last = b.last]
                          /\ u.idx = IF t.idx = n THEN n - 1 ELSE t.idx
      /\ ~Extends(t, b) => u.outq = Append(t.outq, b) /\ u.idx = t.idx
  <2>1. b.begin = b.pos /\ b.pos <= b.last
    OBVIOUS
  <2>. QED
    BY <1>1, <1>2, <1>4, <2>1, OutqAddFields
<1>f. /\ t.idx \in Nat /\ t.ackBase \in Nat /\ t.unsent \in Nat /\ t.content \in Seq(BOOLEAN)
      /\ u.idx \in Nat /\ Len(t.content) \in Nat
  BY <1>5, QueueFields
<1>6. Follows(u.content, t.content, BufLen(b), b.type)
  BY <1>5, Zenon DEF Follows
<1>g. PICK q \in Bufs, i \in Nat, base \in Nat, y \in Nat, c \in Seq(BOOLEAN) :
        q = t.outq /\ i = t.idx /\ base = t.ackBase /\ y = t.unsent /\ c = t.content
  BY <1>4, <1>f, Zenon
<1>h. PICK q1 \in Seq(Buf), i1 \in Nat, c1 \in Seq(BOOLEAN) :
        q1 = u.outq /\ i1 = u.idx /\ c1 = u.content
  BY <1>5, QueueFields, Zenon
<1>i. Shape(q, i, base, y, c) /\ Follows(c1, c, BufLen(b), b.type)
  BY <1>4, <1>6, <1>g, <1>h, Zenon
<1>7. /\ Shape(u.outq, u.idx, t.ackBase, t.unsent + BufLen(b), u.content) /\ u.idx < Len(u.outq)
      /\ t.outq # <<>> => u.outq # <<>> /\ Held(t.outq[1]) <= Held(u.outq[1])
  <2>1. CASE Extends(t, b)
    <3>1. /\ n > 0 /\ t.outq[n].type = "SHARED" /\ b.type = "SHARED" /\ b.pos = t.outq[n].last
      BY <1>2, <2>1 DEF Extends
    <3>2. Lengthens(t.outq, n, b.last, u.outq) /\ Retreats(t.idx, n, u.idx)
      BY <1>2, <1>5, <2>1, <3>1, Zenon DEF Lengthens, Retreats
    <3>3. b.last \in Nat /\ b.pos \in Nat /\ t.outq[n].last + d = b.last
      BY <1>3, <3>1 DEF Buf
    <3>4. Follows(c1, c, d, "SHARED")
      BY <1>3, <1>i, <3>1, Zenon
    <3>5. PICK z \in Nat : z = b.last
      BY <3>3
    <3>6. /\ Lengthens(q, n, z, q1) /\ Retreats(i, n, i1)
          /\ q[n].type = "SHARED" /\ q[n].last + d = z
      BY <1>g, <1>h, <3>1, <3>2, <3>3, <3>5, Zenon
    <3>7. Shape(q1, i1, base, y + d, c1) /\ i1 < Len(q1)
          /\ q1 # <<>> /\ Held(q[1]) <= Held(q1[1])
      BY <1>i, <3>4, <3>6, ExtendShape, SMTT(60)
    <3>. QED
      BY <1>3, <1>g, <1>h, <3>7, Zenon
  <2>2. CASE ~Extends(t, b)
    <3>1. Appends(t.outq, n, b, u.outq) /\ u.idx = t.idx
      BY <1>2, <1>5, <2>2, Zenon DEF Appends
    <3>2. b.begin = b.pos /\ b.pos <= b.last /\ (b.pos < b.last \/ t.idx >= n)
      BY <1>2 DEF WriteDone
    <3>3. Appends(q, n, b, q1) /\ (b.pos < b.last \/ i >= n) /\ i1 = i
      BY <1>g, <1>h, <3>1, <3>2, Zenon
    <3>4. /\ Shape(q1, i, base, y + BufLen(b), c1) /\ i < Len(q1)
          /\ q # <<>> => q1 # <<>> /\ Held(q[1]) <= Held(q1[1])
      BY <1>i, <3>2, <3>3, AppendShape
    <3>. QED
      BY <1>g, <1>h, <3>3, <3>4, Zenon
  <2>. QED
    BY <2>1, <2>2, Zenon
<1>8. QueueInv(u)
  BY <1>5, <1>7, Zenon DEF QueueInv
<1>9. ~WriteDone(u)
  <2>1. Len(u.outq) \in Nat
    BY <1>5, QueueFields
  <2>. QED
    BY <1>7, <1>f, <2>1 DEF WriteDone
<1>10. /\ t.unsent <= u.unsent /\ Len(u.content) - Len(t.content) = u.unsent - t.unsent
       /\ \A k \in 1..Len(t.content) : u.content[k] = t.content[k]
  <2>1. PICK type : type = b.type
    OBVIOUS
  <2>2. Follows(c1, c, d, type)
    BY <1>3, <1>i, <2>1, Zenon
  <2>3. Len(c1) = Len(c) + d /\ \A k \in 1..Len(c) : c1[k] = c[k]
    BY <2>2, ContentGrows
  <2>4. PICK y1 : y1 = u.unsent /\ y1 = y + d
    BY <1>3, <1>5, <1>g
  <2>5. Len(c) \in Nat
    OBVIOUS
  <2>6. y <= y1 /\ Len(c1) - Len(c) = y1 - y
    <3>1. PICK l \in Nat : l = Len(c)
      BY <2>5
    <3>2. PICK l1 : l1 = Len(c1)
      OBVIOUS
    <3>3. l1 = l + d
      BY <2>3, <3>1, <3>2
    <3>4. y <= y1 /\ l1 - l = y1 - y
      BY <2>4, <3>3
    <3>. QED
      BY <3>1, <3>2, <3>4
  <2>. QED
    BY <1>g, <1>h, <2>3, <2>4, <2>6, Zenon
<1>11. Written(t, u)
  BY <1>5, <1>7, <1>8, <1>9, <1>10, Zenon DEF Written
<1>. QED
  BY <1>1, <1>9, <1>11, Zenon
-----------------------------------------------------------------------------
(* The operations built on it *)

\* A new buffer of n bytes that lie nowhere else.
LEMMA OwnGood ==
  ASSUME NEW n \in Nat
  PROVE  /\ Own(n) \in Buf /\ Own(n).begin = 0 /\ Own(n).pos = 0 /\ Own(n).last = n
         /\ Own(n).type = "PRIVATE"
         /\ Alien(n) \in Buf /\ Alien(n).begin = 0 /\ Alien(n).pos = 0 /\ Alien(n).last = n
         /\ Alien(n).type = "ALIEN"
BY DEF Own, Alien, Buf

\* Adding such a buffer.
LEMMA AddOwnGood ==
  ASSUME NEW t \in Queue, QueueInv(t), NEW n \in Nat, n > 0 \/ WriteDone(t)
  PROVE  Written(t, OutqAdd(t, Own(n))) /\ ~WriteDone(OutqAdd(t, Own(n)))
<1>1. PICK b \in Buf : b = Own(n)
  BY OwnGood, Zenon
<1>2. b.begin = b.pos /\ b.pos <= b.last /\ (b.pos < b.last \/ WriteDone(t))
  BY <1>1, OwnGood
<1>3. Written(t, OutqAdd(t, b)) /\ ~WriteDone(OutqAdd(t, b))
  BY <1>2, OutqAddGood
<1>. QED
  BY <1>1, <1>3, Zenon

\* u is t but for its chunks.
Rechunked(t, u) ==
  /\ u \in Queue
  /\ u.outq = t.outq /\ u.idx = t.idx /\ u.unsent = t.unsent
  /\ u.ackBase = t.ackBase /\ u.ackOff = t.ackOff /\ u.content = t.content

\* Chunks say nothing of what is written.
LEMMA RechunkedWritten ==
  ASSUME NEW t \in Queue, QueueInv(t), NEW u, Rechunked(t, u), NEW v, Written(u, v)
  PROVE  QueueInv(u) /\ Written(t, v)
<1>1. QueueInv(u)
  BY Zenon DEF Rechunked, QueueInv
<1>2. WriteDone(u) = WriteDone(t)
  BY Zenon DEF Rechunked, WriteDone
<1>. QED
  BY <1>1, <1>2, Zenon DEF Rechunked, Written

\* A chunk can always be doubled until it has room.
LEMMA ChunkCapacityRoom ==
  ASSUME NEW need \in Nat
  PROVE  ChunkCapacity(need) \in Nat /\ need <= ChunkCapacity(need)
<1>. DEFINE F(size) == [k \in Nat |-> IF k = 0 THEN MIN_CHUNK_SIZE ELSE 2 * size[k - 1]]
            size == CHOOSE size : size = F(size)
            S == {n \in {size[k] : k \in 0..need} : n >= need}
<1>1. PICK h \in [Nat -> Nat] : h[0] = MIN_CHUNK_SIZE /\ \A n \in Nat : h[n + 1] = 2 * h[n]
  <2>. DEFINE g == [p \in Nat \X Nat |-> 2 * p[2]]
  <2>1. g \in [Nat \X Nat -> Nat] /\ MIN_CHUNK_SIZE \in Nat
    BY OutQueueAssumption
  <2>2. PICK h \in [Nat -> Nat] : Recurs(h, MIN_CHUNK_SIZE, g)
    <3>. HIDE DEF g
    <3>. QED
      BY <2>1, Recursion, Zenon
  <2>3. h[0] = MIN_CHUNK_SIZE /\ \A n \in Nat : h[n + 1] = g[<<n + 1, h[n]>>]
    BY <2>2, Zenon DEF Recurs
  <2>4. \A n \in Nat : g[<<n + 1, h[n]>>] = 2 * h[n]
    OBVIOUS
  <2>. QED
    BY <2>3, <2>4
<1>2. h = F(h)
  <2>1. ASSUME NEW k \in Nat PROVE h[k] = F(h)[k]
    <3>1. CASE k = 0
      BY <1>1, <3>1
    <3>2. CASE k # 0
      <4>1. k - 1 \in Nat /\ (k - 1) + 1 = k
        BY <3>2
      <4>. QED
        BY <1>1, <3>2, <4>1
    <3>. QED
      BY <3>1, <3>2
  <2>. QED
    BY <2>1
<1>3. size = F(size)
  <2>. HIDE DEF F
  <2>. QED
    BY <1>2, Zenon
<1>4. ChunkCapacity(need) = Min(S)
  BY DEF ChunkCapacity
<1>. HIDE DEF size
<1>5. size[0] = MIN_CHUNK_SIZE /\ \A k \in Nat : size[k + 1] = 2 * size[k]
  <2>1. size[0] = MIN_CHUNK_SIZE
    BY <1>3
  <2>2. ASSUME NEW k \in Nat PROVE size[k + 1] = 2 * size[k]
    <3>1. k + 1 \in Nat /\ k + 1 # 0 /\ (k + 1) - 1 = k
      OBVIOUS
    <3>2. F(size)[k + 1] = 2 * size[k]
      BY <3>1
    <3>3. size[k + 1] = F(size)[k + 1]
      <4>. HIDE DEF F
      <4>. QED
        BY <1>3, Zenon
    <3>. QED
      BY <3>2, <3>3
  <2>. QED
    BY <2>1, <2>2
<1>6. \A k \in Nat : size[k] \in Nat /\ k + 1 <= size[k]
  <2>. DEFINE P == {k \in Nat : size[k] \in Nat /\ k + 1 <= size[k]}
  <2>1. 0 \in P
    BY <1>5, OutQueueAssumption
  <2>2. ASSUME NEW k \in P PROVE k + 1 \in P
    <3>1. PICK x \in Nat : x = size[k] /\ k + 1 <= x /\ k \in Nat
      BY <2>2
    <3>2. size[k + 1] = 2 * x
      BY <1>5, <3>1
    <3>. QED
      BY <3>1, <3>2
  <2>3. P = Nat
    <3>. HIDE DEF P
    <3>1. P \subseteq Nat
      BY DEF P
    <3>. QED
      BY <2>1, <2>2, <3>1, InductionOverSet
  <2>. QED
    BY <2>3
<1>7. S \in SUBSET Nat /\ size[need] \in S
  BY <1>6
<1>8. PICK m \in S : \A n \in S : m <= n
  <2>. HIDE DEF S
  <2>1. S # {}
    BY <1>7
  <2>. QED
    BY <1>7, <2>1, LeastNat
<1>9. Min(S) \in S
  <2>. HIDE DEF S
  <2>. QED
    BY <1>8, Zenon DEF Min
<1>. QED
  BY <1>4, <1>7, <1>9

\* Is there room for so many bytes in the last chunk?
HasRoom(t, need) ==
  Len(t.chunks) > 0 /\ t.chunks[Len(t.chunks)].cap - t.chunks[Len(t.chunks)].last >= need

\* The last n bytes of the chunks f of u are new, in the last chunk of t's or
\* in one more.
Filled(t, u, need, n) ==
  \/ /\ HasRoom(t, need)
     /\ u.chunks = [t.chunks EXCEPT ![Len(t.chunks)].last = @ + n]
     /\ u.allocated = t.allocated
  \/ /\ ~HasRoom(t, need)
     /\ u.chunks = Append(t.chunks, [id |-> t.allocated + 1, last |-> n,
                                     cap |-> ChunkCapacity(need)])
     /\ u.allocated = t.allocated + 1

\* Filling a chunk leaves the queue alone.
LEMMA FillChunkFields ==
  ASSUME NEW t \in Queue, NEW need \in Nat, NEW n \in Nat
  PROVE  Rechunked(t, FillChunk(t, need, n)) /\ Filled(t, FillChunk(t, need, n), need, n)
<1>1. PICK m \in Nat : m = Len(t.chunks)
  BY QueueFields
<1>2. PICK u : u = FillChunk(t, need, n)
  OBVIOUS
<1>3. PICK cap \in Nat : cap = ChunkCapacity(need)
  BY ChunkCapacityRoom, Zenon
<1>4. t.chunks \in Seq(Chunk) /\ t.allocated \in Nat
  BY QueueFields
<1>5. CASE HasRoom(t, need)
  <2>1. EnsureChunk(t, need) = t
    BY <1>5 DEF EnsureChunk, HasRoom
  <2>2. m > 0 /\ t.chunks[m] \in Chunk
    BY <1>1, <1>4, <1>5 DEF HasRoom
  <2>3. PICK c \in Seq(Chunk) : c = [t.chunks EXCEPT ![m].last = @ + n]
    <3>1. PICK f \in Seq(Chunk) : f = t.chunks
      BY <1>4
    <3>2. PICK x \in Chunk : x = [f[m] EXCEPT !.last = @ + n]
      <4>1. PICK y \in Chunk : y = f[m]
        BY <2>2, <3>1
      <4>2. y.last \in Nat /\ y.last + n \in Nat
        BY DEF Chunk
      <4>3. [y EXCEPT !.last = @ + n] \in Chunk
        BY <4>2 DEF Chunk
      <4>. QED
        BY <4>1, <4>3
    <3>3. [f EXCEPT ![m] = x] \in Seq(Chunk)
      BY <1>1, <2>2, <3>1, ExceptSeq
    <3>4. [f EXCEPT ![m].last = @ + n] = [f EXCEPT ![m] = x]
      BY <3>2
    <3>. QED
      BY <3>1, <3>3, <3>4
  <2>4. u = [t EXCEPT !.chunks[m].last = @ + n]
    BY <1>1, <1>2, <2>1 DEF FillChunk
  <2>5. u = [t EXCEPT !.chunks = c]
    BY <2>3, <2>4 DEF Queue
  <2>6. Rechunked(t, u) /\ u.chunks = c /\ u.allocated = t.allocated
    BY <2>5 DEF Queue, Rechunked
  <2>. QED
    BY <1>1, <1>2, <1>5, <2>3, <2>6, Zenon DEF Filled
<1>6. CASE ~HasRoom(t, need)
  <2>1. PICK d : d = [id |-> t.allocated + 1, last |-> 0, cap |-> cap]
    OBVIOUS
  <2>2. PICK e : e = [id |-> t.allocated + 1, last |-> n, cap |-> cap]
    OBVIOUS
  <2>3. d \in Chunk /\ e \in Chunk /\ e = [d EXCEPT !.last = @ + n]
    <3>1. t.allocated + 1 \in Nat
      BY <1>4
    <3>2. d \in Chunk /\ e \in Chunk
      BY <2>1, <2>2, <3>1 DEF Chunk
    <3>3. d.last + n = n
      BY <2>1
    <3>4. e = [d EXCEPT !.last = n]
      BY <2>1, <2>2
    <3>. QED
      BY <3>2, <3>3, <3>4
  <2>4. PICK f \in Seq(Chunk) : f = Append(t.chunks, d)
    <3>1. Append(t.chunks, d) \in Seq(Chunk)
      BY <1>4, <2>3, AppendProperties
    <3>. QED
      BY <3>1, Zenon
  <2>5. PICK g \in Seq(Chunk) : g = Append(t.chunks, e)
    <3>1. Append(t.chunks, e) \in Seq(Chunk)
      BY <1>4, <2>3, AppendProperties
    <3>. QED
      BY <3>1, Zenon
  <2>6. /\ Len(f) = m + 1 /\ Len(g) = m + 1 /\ f[m + 1] = d /\ g[m + 1] = e
        /\ \A k \in 1..m : f[k] = g[k]
    BY <1>1, <1>4, <2>3, <2>4, <2>5
  <2>7. g = [f EXCEPT ![m + 1].last = @ + n]
    <3>1. [f EXCEPT ![m + 1].last = @ + n] = [f EXCEPT ![m + 1] = e]
      BY <2>3, <2>6
    <3>2. DOMAIN f = 1..(m + 1) /\ DOMAIN g = 1..(m + 1)
      BY <1>1, <2>6
    <3>3. PICK h : h = [f EXCEPT ![m + 1] = e]
      OBVIOUS
    <3>4. DOMAIN h = 1..(m + 1) /\ \A k \in 1..(m + 1) : h[k] = g[k]
      <4>1. h[m + 1] = e
        BY <3>2, <3>3
      <4>2. \A k \in 1..m : h[k] = f[k]
        BY <3>2, <3>3
      <4>3. DOMAIN h = 1..(m + 1)
        BY <3>2, <3>3
      <4>. QED
        BY <2>6, <4>1, <4>2, <4>3
    <3>5. h = g
      <4>1. g \in [1..(m + 1) -> Chunk]
        BY <3>2
      <4>2. f \in [1..(m + 1) -> Chunk]
        BY <3>2
      <4>3. h \in [1..(m + 1) -> Chunk]
        BY <2>3, <3>3, <4>2
      <4>. QED
        BY <3>4, <4>1, <4>3
    <3>. QED
      BY <3>1, <3>3, <3>5
  <2>8. EnsureChunk(t, need) = [t EXCEPT !.allocated = @ + 1, !.chunks = f]
    <3>1. EnsureChunk(t, need) = [t EXCEPT !.allocated = @ + 1,
                                           !.chunks = Append(@, [id |-> t.allocated + 1, last |-> 0,
                                                                 cap |-> ChunkCapacity(need)])]
      BY <1>6, Zenon DEF EnsureChunk, HasRoom
    <3>. QED
      BY <1>3, <2>1, <2>4, <3>1 DEF Queue
  <2>9. PICK v : v = [t EXCEPT !.allocated = @ + 1, !.chunks = f]
    OBVIOUS
  <2>10. v \in Queue /\ v.chunks = f /\ v.allocated = t.allocated + 1 /\ Rechunked(t, v)
    <3>1. PICK a \in Nat : a = t.allocated + 1
      BY <1>4
    <3>2. v = [t EXCEPT !.allocated = a, !.chunks = f]
      BY <2>9, <3>1 DEF Queue
    <3>. QED
      BY <3>1, <3>2 DEF Queue, Rechunked
  <2>11. u = [v EXCEPT !.chunks[m + 1].last = @ + n]
    BY <1>2, <2>6, <2>8, <2>9, <2>10 DEF FillChunk
  <2>12. u = [v EXCEPT !.chunks = g]
    BY <2>7, <2>10, <2>11 DEF Queue
  <2>13. Rechunked(t, u) /\ u.chunks = g /\ u.allocated = t.allocated + 1
    BY <2>10, <2>12 DEF Queue, Rechunked
  <2>. QED
    BY <1>2, <1>3, <1>6, <2>2, <2>5, <2>13, Zenon DEF Filled
<1>. QED
  BY <1>5, <1>6

\* The new bytes of the last chunk.
SharedBuf(u, n) ==
  LET c == u.chunks[Len(u.chunks)]
  IN [type |-> "SHARED", chunk |-> c.id, begin |-> c.last - n, pos |-> c.last - n, last |-> c.last]

\* They make a buffer.
LEMMA SharedBufGood ==
  ASSUME NEW t \in Queue, NEW n \in Nat, NEW u, Rechunked(t, u), Filled(t, u, n, n)
  PROVE  /\ SharedBuf(u, n) \in Buf /\ SharedBuf(u, n).type = "SHARED"
         /\ SharedBuf(u, n).begin = SharedBuf(u, n).pos
         /\ SharedBuf(u, n).pos + n = SharedBuf(u, n).last
         /\ Len(u.chunks) > 0 /\ u.chunks[Len(u.chunks)] \in Chunk
         /\ SharedBuf(u, n).last = u.chunks[Len(u.chunks)].last
         /\ SharedBuf(u, n).chunk = u.chunks[Len(u.chunks)].id
<1>1. t.chunks \in Seq(Chunk) /\ u.chunks \in Seq(Chunk) /\ t.allocated \in Nat
  BY QueueFields DEF Rechunked
<1>2. PICK m \in Nat : m = Len(t.chunks)
  BY <1>1
<1>3. Len(u.chunks) > 0 /\ n <= u.chunks[Len(u.chunks)].last
  <2>1. CASE HasRoom(t, n)
    <3>1. m > 0 /\ u.chunks = [t.chunks EXCEPT ![m].last = @ + n]
      BY <1>2, <2>1 DEF Filled, HasRoom
    <3>2. t.chunks[m].last \in Nat
      BY <1>1, <1>2, <3>1 DEF Chunk
    <3>3. Len(u.chunks) = m /\ u.chunks[m].last = t.chunks[m].last + n
      BY <1>1, <1>2, <3>1, <3>2
    <3>. QED
      BY <3>1, <3>2, <3>3
  <2>2. CASE ~HasRoom(t, n)
    <3>1. PICK e : e = [id |-> t.allocated + 1, last |-> n, cap |-> ChunkCapacity(n)]
      OBVIOUS
    <3>2. u.chunks = Append(t.chunks, e)
      BY <2>2, <3>1, Zenon DEF Filled
    <3>3. Len(u.chunks) = m + 1 /\ u.chunks[m + 1] = e
      BY <1>1, <1>2, <3>2
    <3>. QED
      BY <3>1, <3>3
  <2>. QED
    BY <2>1, <2>2
<1>4. PICK c \in Chunk : c = u.chunks[Len(u.chunks)]
  BY <1>1, <1>3
<1>5. SharedBuf(u, n) = [type |-> "SHARED", chunk |-> c.id, begin |-> c.last - n,
                         pos |-> c.last - n, last |-> c.last]
  BY <1>4 DEF SharedBuf
<1>6. c.last \in Nat /\ c.id \in Nat /\ c.last - n \in Nat
  BY <1>3, <1>4 DEF Chunk
<1>. QED
  BY <1>3, <1>4, <1>5, <1>6 DEF Buf

\* Bytes of the stream's own, in a chunk.
LEMMA AddSharedGood ==
  ASSUME NEW t \in Queue, QueueInv(t), NEW n \in Nat \ {0}
  PROVE  Written(t, AddShared(t, n)) /\ ~WriteDone(AddShared(t, n))
<1>1. PICK u : u = FillChunk(t, n, n)
  OBVIOUS
<1>2. Rechunked(t, u) /\ Filled(t, u, n, n)
  BY <1>1, FillChunkFields
<1>3. PICK b \in Buf : b = SharedBuf(u, n)
  BY <1>2, SharedBufGood
<1>4. b.begin = b.pos /\ b.pos <= b.last /\ b.pos < b.last
  <2>1. b.begin = b.pos /\ b.pos + n = b.last
    BY <1>2, <1>3, SharedBufGood
  <2>. QED
    BY <2>1 DEF Buf
<1>5. AddShared(t, n) = OutqAdd(u, b)
  BY <1>1, <1>3, Zenon DEF AddShared, SharedBuf, Last
<1>6. u \in Queue /\ QueueInv(u)
  <2>1. u \in Queue
    BY <1>2 DEF Rechunked
  <2>2. QueueInv(u)
    BY <1>2, Zenon DEF Rechunked, QueueInv
  <2>. QED
    BY <2>1, <2>2
<1>7. Written(u, OutqAdd(u, b)) /\ ~WriteDone(OutqAdd(u, b))
  BY <1>4, <1>6, OutqAddGood
<1>8. PICK v : v = OutqAdd(u, b)
  OBVIOUS
<1>9. Written(t, v)
  BY <1>2, <1>7, <1>8, RechunkedWritten
<1>. QED
  BY <1>5, <1>7, <1>8, <1>9

\* What two sequences make together.
LEMMA Concatenation ==
  ASSUME NEW S, NEW c \in Seq(S), NEW r \in Seq(S)
  PROVE  \E a \in Seq(S) : a = c \o r /\ Len(a) = Len(c) + Len(r)
                          /\ \A k \in 1..Len(c) + Len(r) :
                               a[k] = IF k <= Len(c) THEN c[k] ELSE r[k - Len(c)]
<1>1. /\ c \o r \in Seq(S) /\ Len(c \o r) = Len(c) + Len(r)
      /\ \A k \in 1..Len(c) + Len(r) : (c \o r)[k] = IF k <= Len(c) THEN c[k] ELSE r[k - Len(c)]
  BY ConcatProperties
<1>2. WITNESS c \o r \in Seq(S)
<1>. QED
  BY <1>1

\* A buffer after more buffers.
LEMMA AppendToConcat ==
  \A c, r \in Seq(Buf), x \in Buf : c \o Append(r, x) = Append(c \o r, x)
<1>. SUFFICES ASSUME NEW c \in Seq(Buf), NEW r \in Seq(Buf), NEW x \in Buf
              PROVE  c \o Append(r, x) = Append(c \o r, x)
  BY Zenon
<1>1. PICK a \in Seq(Buf) : a = c \o r /\ Len(a) = Len(c) + Len(r)
                          /\ \A k \in 1..Len(c) + Len(r) :
                               a[k] = IF k <= Len(c) THEN c[k] ELSE r[k - Len(c)]
  BY Concatenation, ZenonT(60)
<1>2. PICK b \in Seq(Buf) : b = Append(r, x)
  BY AppendProperties, Zenon
<1>3. Len(b) = Len(r) + 1 /\ b[Len(r) + 1] = x /\ \A k \in 1..Len(r) : b[k] = r[k]
  BY <1>2
<1>4. PICK d \in Seq(Buf) : d = c \o b /\ Len(d) = Len(c) + Len(b)
                          /\ \A k \in 1..Len(c) + Len(b) :
                               d[k] = IF k <= Len(c) THEN c[k] ELSE b[k - Len(c)]
  BY Concatenation, ZenonT(60)
<1>5. PICK e \in Seq(Buf) : e = Append(a, x)
  BY AppendProperties, Zenon
<1>6. Len(e) = Len(a) + 1 /\ e[Len(a) + 1] = x /\ \A k \in 1..Len(a) : e[k] = a[k]
  BY <1>5
<1>7. PICK m \in Nat, n \in Nat : m = Len(c) /\ n = Len(r)
  OBVIOUS
<1>8. ASSUME NEW k \in 1..((m + n) + 1) PROVE d[k] = e[k]
  <2>1. CASE k = (m + n) + 1
    <3>1. d[k] = b[n + 1]
      BY <1>3, <1>4, <1>7, <2>1
    <3>2. e[k] = x
      BY <1>1, <1>6, <1>7, <2>1
    <3>. QED
      BY <1>3, <1>7, <3>1, <3>2
  <2>2. CASE k \in 1..m
    <3>1. d[k] = c[k]
      BY <1>3, <1>4, <1>7, <2>2
    <3>2. e[k] = c[k]
      BY <1>1, <1>6, <1>7, <2>2
    <3>. QED
      BY <3>1, <3>2
  <2>3. CASE k \in (m + 1)..(m + n)
    <3>1. k - m \in 1..n /\ ~(k <= m) /\ k \in 1..(m + n) /\ k \in 1..(m + (n + 1))
      BY <2>3
    <3>2. d[k] = b[k - m]
      BY <1>3, <1>4, <1>7, <3>1
    <3>3. e[k] = r[k - m]
      BY <1>1, <1>6, <1>7, <3>1
    <3>. QED
      BY <1>3, <1>7, <3>1, <3>2, <3>3
  <2>. QED
    BY <2>1, <2>2, <2>3
<1>9. Len(d) = (m + n) + 1 /\ Len(e) = (m + n) + 1
  BY <1>1, <1>3, <1>4, <1>6, <1>7
<1>10. d = e
  BY <1>8, <1>9, SeqEqual
<1>. QED
  BY <1>1, <1>2, <1>4, <1>5, <1>10

\* Marks of so many bytes and of so many more.
LEMMA MarksConcat ==
  \A type : \A a, b \in Nat : Marks(a + b, type) = Marks(a, type) \o Marks(b, type)
<1>. SUFFICES ASSUME NEW type, NEW a \in Nat, NEW b \in Nat
              PROVE  Marks(a + b, type) = Marks(a, type) \o Marks(b, type)
  BY Zenon
<1>s. PICK s \in Nat : s = a + b
  OBVIOUS
<1>1. PICK y \in BOOLEAN : y = (type = "ALIEN")
  OBVIOUS
<1>2. PICK f \in Seq(BOOLEAN) : f = Marks(a, type) /\ Len(f) = a /\ \A k \in 1..a : f[k] = y
  <2>1. [k \in 1..a |-> y] \in Seq(BOOLEAN)
    OBVIOUS
  <2>2. Marks(a, type) = [k \in 1..a |-> y]
    BY <1>1, Zenon DEF Marks
  <2>3. Len([k \in 1..a |-> y]) = a /\ \A k \in 1..a : [j \in 1..a |-> y][k] = y
    OBVIOUS
  <2>. QED
    BY <2>1, <2>2, <2>3
<1>3. PICK g \in Seq(BOOLEAN) : g = Marks(b, type) /\ Len(g) = b /\ \A k \in 1..b : g[k] = y
  <2>1. [k \in 1..b |-> y] \in Seq(BOOLEAN)
    OBVIOUS
  <2>2. Marks(b, type) = [k \in 1..b |-> y]
    BY <1>1, Zenon DEF Marks
  <2>3. Len([k \in 1..b |-> y]) = b /\ \A k \in 1..b : [j \in 1..b |-> y][k] = y
    OBVIOUS
  <2>. QED
    BY <2>1, <2>2, <2>3
<1>4. PICK h \in Seq(BOOLEAN) : h = Marks(s, type) /\ Len(h) = s /\ \A k \in 1..s : h[k] = y
  <2>1. [k \in 1..s |-> y] \in Seq(BOOLEAN)
    OBVIOUS
  <2>2. Marks(s, type) = [k \in 1..s |-> y]
    BY <1>1, Zenon DEF Marks
  <2>3. Len([k \in 1..s |-> y]) = s /\ \A k \in 1..s : [j \in 1..s |-> y][k] = y
    OBVIOUS
  <2>. QED
    BY <2>1, <2>2, <2>3
<1>5. PICK d \in Seq(BOOLEAN) : d = f \o g /\ Len(d) = Len(f) + Len(g)
                                /\ \A k \in 1..Len(f) + Len(g) :
                                     d[k] = IF k <= Len(f) THEN f[k] ELSE g[k - Len(f)]
  BY Concatenation, ZenonT(60)
<1>6. ASSUME NEW k \in 1..s PROVE d[k] = h[k]
  <2>1. CASE k <= a
    BY <1>2, <1>3, <1>4, <1>5, <1>s, <2>1
  <2>2. CASE ~(k <= a)
    <3>1. k - a \in 1..b /\ k \in 1..(a + b)
      BY <1>s, <2>2
    <3>2. d[k] = g[k - a]
      BY <1>2, <1>3, <1>5, <2>2, <3>1
    <3>. QED
      BY <1>3, <1>4, <3>1, <3>2
  <2>. QED
    BY <2>1, <2>2
<1>7. d = h
  <2>1. Len(d) = s
    BY <1>2, <1>3, <1>5, <1>s
  <2>. QED
    BY <1>4, <1>6, <2>1, SeqEqual
<1>. QED
  BY <1>2, <1>3, <1>4, <1>5, <1>7, <1>s

\* Concatenation is associative.
LEMMA ConcatThree ==
  \A s, t, u \in Seq(BOOLEAN) : (s \o t) \o u = s \o (t \o u)
BY ConcatAssociative

\* The buffers of the first k vectors.
Aliens(lens, k) == [j \in 1..k |-> Alien(lens[j])]

\* The application's vectors, one after the other.
LEMMA AliensShape ==
  ASSUME NEW q \in Bufs, NEW i \in Nat, NEW base \in Nat, NEW y \in Nat, NEW c \in Seq(BOOLEAN),
         Shape(q, i, base, y, c),
         NEW lens \in Seq(Nat \ {0}), NEW m \in Nat, m = Len(lens)
  PROVE  /\ SumTo(lens, m) \in Nat
         /\ Aliens(lens, m) \in Seq(Buf) /\ Len(Aliens(lens, m)) = m
         /\ Shape(q \o Aliens(lens, m), i, base, y + SumTo(lens, m),
                  c \o Marks(SumTo(lens, m), "ALIEN"))
<1>m. m = Len(lens) /\ DOMAIN lens = 1..m
  OBVIOUS
<1>1. PICK type : type = "ALIEN"
  OBVIOUS
<1>2. lens \in Weights(m) /\ \A k \in 1..m : lens[k] \in Nat /\ lens[k] > 0
  BY <1>m DEF Weights
<1>3. /\ SumTo(lens, 0) = 0
      /\ \A n \in Nat : SumTo(lens, n) \in Nat
      /\ \A n \in Nat : n < m => SumTo(lens, n + 1) = SumTo(lens, n) + lens[n + 1]
  BY <1>2, SumStep
<1>4. \A k \in Nat : k <= m => Aliens(lens, k) \in Seq(Buf) /\ Len(Aliens(lens, k)) = k
  <2>1. ASSUME NEW k \in Nat, k <= m
        PROVE  Aliens(lens, k) \in Seq(Buf) /\ Len(Aliens(lens, k)) = k
    <3>1. \A j \in 1..k : Alien(lens[j]) \in Buf
      BY <1>2, <2>1, OwnGood
    <3>. QED
      BY <3>1 DEF Aliens
  <2>. QED
    BY <2>1
<1>. DEFINE W(k) == q \o Aliens(lens, k)
            E(k) == c \o Marks(SumTo(lens, k), type)
            P == {k \in Nat : k <= m => Shape(W(k), i, base, y + SumTo(lens, k), E(k))}
<1>5. 0 \in P
  <2>1. Aliens(lens, 0) = <<>>
    <3>1. Aliens(lens, 0) \in Seq(Buf) /\ Len(Aliens(lens, 0)) = 0
      BY <1>4
    <3>. QED
      BY <3>1, EmptySeq
  <2>2. W(0) = q
    BY <2>1 DEF Bufs
  <2>3. Marks(0, type) = <<>>
    BY DEF Marks
  <2>4. E(0) = c
    <3>1. E(0) = c \o Marks(0, type)
      BY <1>3
    <3>2. c \o <<>> = c
      BY ConcatEmptySeq
    <3>. QED
      BY <2>3, <3>1, <3>2, Zenon
  <2>5. y + SumTo(lens, 0) = y
    BY <1>3
  <2>6. Shape(W(0), i, base, y + SumTo(lens, 0), E(0))
    <3>. HIDE DEF W, E
    <3>. QED
      BY <2>2, <2>4, <2>5
  <2>. QED
    BY <2>6
<1>6. ASSUME NEW k \in P PROVE k + 1 \in P
  <2>. SUFFICES ASSUME k + 1 <= m PROVE Shape(W(k + 1), i, base, y + SumTo(lens, k + 1), E(k + 1))
    BY <1>6
  <2>1. k \in Nat /\ k <= m /\ k < m /\ k + 1 \in 1..m /\ k + 1 \in Nat
    BY <1>6
  <2>2. PICK n \in Nat : n = k + 1
    BY <2>1
  <2>3. PICK x \in Nat : x = lens[n] /\ x > 0
    BY <1>2, <2>1, <2>2
  <2>4. PICK b \in Buf : b = Alien(x) /\ b.begin = 0 /\ b.pos = 0 /\ b.last = x /\ b.type = type
    BY <1>1, OwnGood, Zenon
  <2>5. PICK s \in Nat : s = SumTo(lens, k)
    BY <1>3, <2>1
  <2>6. SumTo(lens, n) = s + x
    BY <1>3, <2>1, <2>2, <2>3, <2>5
  <2>7. PICK f \in Seq(Buf), g \in Seq(Buf) : f = Aliens(lens, k) /\ g = Aliens(lens, n)
    BY <1>4, <2>1, <2>2, Zenon
  <2>8. g = Append(f, b)
    <3>1. Len(f) = k /\ Len(g) = n /\ \A j \in 1..k : f[j] = Alien(lens[j])
      BY <1>4, <2>1, <2>2, <2>7 DEF Aliens
    <3>2. \A j \in 1..n : g[j] = Alien(lens[j])
      BY <2>7 DEF Aliens
    <3>3. PICK a \in Seq(Buf) : a = Append(f, b)
      BY AppendProperties, Zenon
    <3>4. Len(a) = n /\ a[n] = b /\ \A j \in 1..k : a[j] = f[j]
      BY <2>2, <3>1, <3>3
    <3>5. ASSUME NEW j \in 1..n PROVE g[j] = a[j]
      <4>1. CASE j = n
        BY <2>3, <2>4, <3>2, <3>4, <4>1
      <4>2. CASE j # n
        <5>1. j \in 1..k
          BY <2>2, <4>2
        <5>. QED
          BY <3>1, <3>2, <3>4, <5>1
      <4>. QED
        BY <4>1, <4>2
    <3>6. g = a
      BY <3>1, <3>4, <3>5, SeqEqual
    <3>. QED
      BY <3>3, <3>6
  <2>9. PICK r \in Seq(Buf), w \in {W(n)} : r = W(k) /\ w = W(n)
    <3>1. q \in Seq(Buf)
      BY DEF Bufs
    <3>2. q \o f \in Seq(Buf)
      BY <3>1, ConcatProperties
    <3>. QED
      BY <2>7, <3>2
  <2>10. w = Append(r, b)
    <3>1. q \in Seq(Buf)
      BY DEF Bufs
    <3>2. q \o Append(f, b) = Append(q \o f, b)
      BY <3>1, AppendToConcat, Zenon
    <3>3. w = q \o g /\ r = q \o f
      BY <2>7, <2>9, Zenon
    <3>. QED
      BY <2>8, <3>1, <3>2, <3>3, Zenon
  <2>11. PICK l \in Nat : l = Len(r)
    OBVIOUS
  <2>12. PICK e \in Seq(BOOLEAN), d \in {E(n)} : e = E(k) /\ d = E(n)
    <3>1. Marks(s, type) \in Seq(BOOLEAN)
      BY DEF Marks
    <3>2. c \o Marks(s, type) \in Seq(BOOLEAN)
      BY <3>1, ConcatProperties
    <3>. QED
      BY <2>5, <3>2
  <2>13. Follows(d, e, BufLen(b), b.type)
    <3>1. s + x \in Nat
      OBVIOUS
    <3>2. PICK z \in Nat : z = s + x
      BY <3>1
    <3>3. Marks(z, type) = Marks(s, type) \o Marks(x, type)
      <4>1. Marks(s + x, type) = Marks(s, type) \o Marks(x, type)
        BY MarksConcat, Zenon
      <4>. QED
        BY <3>2, <4>1, Zenon
    <3>4. PICK f1 \in Seq(BOOLEAN), g1 \in Seq(BOOLEAN) :
            f1 = Marks(s, type) /\ g1 = Marks(x, type)
      <4>1. Marks(s, type) \in Seq(BOOLEAN) /\ Marks(x, type) \in Seq(BOOLEAN)
        BY DEF Marks
      <4>. QED
        BY <4>1, Zenon
    <3>5. (c \o Marks(s, type)) \o Marks(x, type) = c \o (Marks(s, type) \o Marks(x, type))
      <4>1. (c \o f1) \o g1 = c \o (f1 \o g1)
        BY ConcatThree, Zenon
      <4>. QED
        BY <3>4, <4>1, Zenon
    <3>6. d = c \o Marks(z, type) /\ e = c \o Marks(s, type)
      BY <2>5, <2>6, <2>12, <3>2
    <3>7. BufLen(b) = x
      BY <2>4 DEF BufLen
    <3>. QED
      BY <2>4, <3>3, <3>5, <3>6, <3>7, Zenon DEF Follows
  <2>14. Shape(r, i, base, y + s, e)
    BY <1>6, <2>1, <2>5, <2>9, <2>12
  <2>15. Shape(w, i, base, (y + s) + BufLen(b), d)
    <3>1. y + s \in Nat /\ b.begin = b.pos /\ b.pos <= b.last /\ (b.pos < b.last \/ i >= l)
      BY <2>3, <2>4
    <3>2. Appends(r, l, b, w)
      BY <2>10, <2>11, Zenon DEF Appends
    <3>3. PICK z \in Nat : z = y + s
      BY <3>1
    <3>4. Shape(r, i, base, z, e)
      BY <2>14, <3>3
    <3>5. Shape(w, i, base, z + BufLen(b), d)
      BY <2>13, <3>1, <3>2, <3>4, AppendShape
    <3>. QED
      BY <3>3, <3>5
  <2>16. (y + s) + BufLen(b) = y + SumTo(lens, n)
    <3>1. BufLen(b) = x
      BY <2>4 DEF BufLen
    <3>. QED
      BY <2>6, <3>1
  <2>. QED
    <3>. HIDE DEF W, E
    <3>. QED
      BY <2>2, <2>9, <2>12, <2>15, <2>16
<1>7. m \in P
  <2>. HIDE DEF P
  <2>1. P \subseteq Nat
    BY DEF P
  <2>. QED
    BY <1>5, <1>6, <2>1, InductionOverSet
<1>8. Shape(W(m), i, base, y + SumTo(lens, m), E(m))
  <2>. HIDE DEF W, E
  <2>. QED
    BY <1>7
<1>9. SumTo(lens, m) \in Nat /\ Aliens(lens, m) \in Seq(Buf) /\ Len(Aliens(lens, m)) = m
  <2>1. m <= m
    OBVIOUS
  <2>. QED
    BY <1>3, <1>4, <2>1, Zenon
<1>. QED
  BY <1>1, <1>8, <1>9, Zenon

\* The body's vectors are added to the queue.
LEMMA AddAliensGood ==
  ASSUME NEW t \in Queue, QueueInv(t), NEW lens \in Seq(Nat \ {0})
  PROVE  Written(t, AddAliens(t, lens))
<1>1. PICK m \in Nat : m = Len(lens)
  OBVIOUS
<1>2. PICK q \in Bufs, i \in Nat, base \in Nat, y \in Nat, c \in Seq(BOOLEAN) :
        /\ q = t.outq /\ i = t.idx /\ base = t.ackBase /\ y = t.unsent /\ c = t.content
        /\ Shape(q, i, base, y, c)
  <2>1. t.idx \in Nat /\ t.ackBase \in Nat /\ t.unsent \in Nat /\ t.content \in Seq(BOOLEAN)
    BY QueueFields
  <2>. QED
    BY <2>1, Zenon DEF QueueInv, Shape
<1>3. /\ SumTo(lens, m) \in Nat
      /\ Aliens(lens, m) \in Seq(Buf) /\ Len(Aliens(lens, m)) = m
      /\ Shape(q \o Aliens(lens, m), i, base, y + SumTo(lens, m), c \o Marks(SumTo(lens, m), "ALIEN"))
  BY <1>1, <1>2, AliensShape
<1>4. PICK n \in Nat, f \in Seq(Buf) : n = SumTo(lens, m) /\ f = Aliens(lens, m)
  BY <1>3
<1>5. PICK e \in Seq(BOOLEAN) :
        /\ e = c \o Marks(n, "ALIEN")
        /\ Len(e) = Len(c) + n /\ \A k \in 1..Len(c) : e[k] = c[k]
  <2>1. PICK type : type = "ALIEN"
    OBVIOUS
  <2>2. PICK e : Follows(e, c, n, type)
    BY DEF Follows
  <2>3. e \in Seq(BOOLEAN) /\ Len(e) = Len(c) + n /\ \A k \in 1..Len(c) : e[k] = c[k]
    BY <2>2, ContentGrows
  <2>. QED
    BY <2>1, <2>2, <2>3, Zenon DEF Follows
<1>6. PICK g \in Seq(Buf) : g = q \o f /\ Len(g) = Len(q) + Len(f)
                            /\ \A k \in 1..Len(q) + Len(f) :
                                 g[k] = IF k <= Len(q) THEN q[k] ELSE f[k - Len(q)]
  <2>1. q \in Seq(Buf)
    BY DEF Bufs
  <2>. QED
    BY <2>1, Concatenation, ZenonT(60)
<1>7. PICK u : u = AddAliens(t, lens)
  OBVIOUS
<1>8. u = [t EXCEPT !.outq = g, !.unsent = y + n, !.content = e]
  <2>1. [k \in DOMAIN lens |-> Alien(lens[k])] = f
    BY <1>1, <1>4 DEF Aliens
  <2>2. [k \in 1..n |-> TRUE] = Marks(n, "ALIEN")
    BY DEF Marks
  <2>3. u = [t EXCEPT !.outq = @ \o f, !.unsent = @ + n, !.content = @ \o Marks(n, "ALIEN")]
    BY <1>1, <1>4, <1>7, <2>1, <2>2, Zenon DEF AddAliens
  <2>. QED
    BY <1>2, <1>5, <1>6, <2>3 DEF Queue
<1>9. /\ u \in Queue /\ u.outq = g /\ u.idx = i /\ u.unsent = y + n /\ u.content = e
      /\ u.ackBase = t.ackBase /\ u.ackOff = t.ackOff
  <2>1. y + n \in Nat
    OBVIOUS
  <2>. QED
    BY <1>2, <1>8, <2>1 DEF Queue
<1>10. QueueInv(u)
  <2>1. Shape(g, i, base, y + n, e)
    BY <1>3, <1>4, <1>5, <1>6, Zenon
  <2>. QED
    BY <1>2, <1>9, <2>1, Zenon DEF QueueInv
<1>11. Len(f) \in Nat /\ Len(q) \in Nat /\ DOMAIN q = 1..Len(q)
  BY DEF Bufs
<1>12. ASSUME q # <<>> PROVE g # <<>> /\ Held(q[1]) <= Held(g[1])
  <2>1. Held(q[1]) \in Nat /\ 1 \in 1..Len(q)
    BY <1>12, FirstHeld
  <2>2. g[1] = q[1] /\ g # <<>>
    BY <1>6, <1>11, <2>1
  <2>. QED
    BY <2>1, <2>2
<1>13. ~WriteDone(t) => ~WriteDone(u)
  BY <1>2, <1>6, <1>9, <1>11 DEF WriteDone
<1>14. /\ t.unsent <= u.unsent /\ Len(u.content) - Len(t.content) = u.unsent - t.unsent
       /\ \A k \in 1..Len(t.content) : u.content[k] = t.content[k]
  <2>1. PICK l \in Nat : l = Len(c)
    OBVIOUS
  <2>2. Len(e) - Len(c) = (y + n) - y /\ y <= y + n
    BY <1>5, <2>1
  <2>. QED
    BY <1>2, <1>5, <1>9, <2>2, Zenon
<1>15. Written(t, u)
  BY <1>2, <1>9, <1>10, <1>12, <1>13, <1>14, Zenon DEF Written
<1>. QED
  BY <1>7, <1>15

\* A HEADERS frame is added.
LEMMA AddSectionGood ==
  ASSUME NEW t \in Queue, QueueInv(t), NEW r \in Nat \ {0}
  PROVE  Written(t, AddSection(t, r)) /\ ~WriteDone(AddSection(t, r))
<1>1. HeadersLen \in Nat \ {0} /\ HeadersLen + r \in Nat \ {0}
  BY StreamTxAssumption
<1>2. CASE r > MAX_COPY_THRES
  <2>1. PICK u : u = AddShared(t, HeadersLen)
    OBVIOUS
  <2>2. Written(t, u)
    BY <1>1, <2>1, AddSharedGood
  <2>3. u \in Queue /\ QueueInv(u)
    BY <2>2 DEF Written
  <2>4. Written(u, OutqAdd(u, Own(r))) /\ ~WriteDone(OutqAdd(u, Own(r)))
    <3>1. r \in Nat /\ r > 0
      OBVIOUS
    <3>. QED
      BY <2>3, <3>1, AddOwnGood
  <2>5. PICK v : v = OutqAdd(u, Own(r))
    OBVIOUS
  <2>6. Written(t, v)
    BY <2>2, <2>4, <2>5, WrittenTwice
  <2>7. AddSection(t, r) = v
    BY <1>2, <2>1, <2>5, Zenon DEF AddSection
  <2>. QED
    BY <2>4, <2>5, <2>6, <2>7, Zenon
<1>3. CASE ~(r > MAX_COPY_THRES)
  <2>1. AddSection(t, r) = AddShared(t, HeadersLen + r)
    BY <1>3, Zenon DEF AddSection
  <2>2. PICK n \in Nat \ {0} : n = HeadersLen + r
    BY <1>1
  <2>3. Written(t, AddShared(t, n)) /\ ~WriteDone(AddShared(t, n))
    BY AddSharedGood
  <2>. QED
    BY <2>1, <2>2, <2>3, Zenon
<1>. QED
  BY <1>2, <1>3, Zenon

\* Nothing added is added too.
LEMMA WrittenNothing ==
  ASSUME NEW t \in Queue, QueueInv(t)
  PROVE  Written(t, t)
<1>1. t.unsent <= t.unsent /\ Len(t.content) - Len(t.content) = t.unsent - t.unsent
  BY QueueFields
<1>2. t.outq # <<>> => Held(t.outq[1]) <= Held(t.outq[1])
  <2>1. t.outq \in Bufs
    BY Zenon DEF QueueInv, Shape
  <2>2. t.outq # <<>> => Held(t.outq[1]) \in Nat
    BY <2>1, FirstHeld
  <2>. QED
    BY <2>2
<1>. QED
  BY <1>1, <1>2, Zenon DEF Written

\* The instructions that go with it.
LEMMA AddInstructionsGood ==
  ASSUME NEW t \in Queue, QueueInv(t), NEW e \in Nat
  PROVE  Written(t, AddInstructions(t, e))
<1>1. CASE e > MAX_COPY_THRES
  <2>1. AddInstructions(t, e) = OutqAdd(t, Own(e))
    BY <1>1, StreamTxAssumption DEF AddInstructions
  <2>2. e > 0
    BY <1>1, StreamTxAssumption
  <2>. QED
    BY <2>1, <2>2, AddOwnGood
<1>2. CASE ~(e > MAX_COPY_THRES) /\ e \in 1..MAX_COPY_THRES
  <2>1. AddInstructions(t, e) = AddShared(t, e)
    BY <1>2, StreamTxAssumption DEF AddInstructions
  <2>2. e \in Nat \ {0}
    BY <1>2
  <2>. QED
    BY <2>1, <2>2, AddSharedGood
<1>3. CASE ~(e > MAX_COPY_THRES) /\ e \notin 1..MAX_COPY_THRES
  <2>1. AddInstructions(t, e) = t
    BY <1>3, StreamTxAssumption DEF AddInstructions
  <2>. QED
    BY <2>1, WrittenNothing
<1>. QED
  BY <1>1, <1>2, <1>3, Zenon

\* A DATA frame is added; after the last one there is something to write.
LEMMA AddBodyGood ==
  ASSUME NEW t \in Queue, QueueInv(t), NEW lens \in Seq(Nat \ {0}), NEW last \in BOOLEAN
  PROVE  Written(t, AddBody(t, lens, last)) /\ (last => ~WriteDone(AddBody(t, lens, last)))
<1>1. CASE lens # <<>>
  <2>1. PICK u : u = AddShared(t, DataLen)
    OBVIOUS
  <2>2. Written(t, u) /\ ~WriteDone(u)
    BY <2>1, StreamTxAssumption, AddSharedGood
  <2>3. u \in Queue /\ QueueInv(u)
    BY <2>2 DEF Written
  <2>4. PICK v : v = AddAliens(u, lens)
    OBVIOUS
  <2>5. Written(u, v)
    BY <2>3, <2>4, AddAliensGood
  <2>6. Written(t, v) /\ ~WriteDone(v)
    <3>1. ~WriteDone(v)
      BY <2>2, <2>5, Zenon DEF Written
    <3>2. Written(t, v)
      BY <2>2, <2>5, WrittenTwice
    <3>. QED
      BY <3>1, <3>2
  <2>7. AddBody(t, lens, last) = v
    BY <1>1, <2>1, <2>4 DEF AddBody
  <2>. QED
    BY <2>6, <2>7, Zenon
<1>2. CASE lens = <<>> /\ last /\ WriteDone(t)
  <2>1. AddBody(t, lens, last) = OutqAdd(t, Own(0))
    BY <1>2 DEF AddBody
  <2>2. PICK z \in Nat : z = 0
    OBVIOUS
  <2>3. Written(t, OutqAdd(t, Own(z))) /\ ~WriteDone(OutqAdd(t, Own(z)))
    BY <1>2, AddOwnGood
  <2>. QED
    BY <2>1, <2>2, <2>3, Zenon
<1>3. CASE lens = <<>> /\ ~(last /\ WriteDone(t))
  <2>1. AddBody(t, lens, last) = t
    BY <1>3 DEF AddBody
  <2>. QED
    BY <1>3, <2>1, WrittenNothing
<1>. QED
  BY <1>1, <1>2, <1>3, Zenon
-----------------------------------------------------------------------------
(* nghttp3_stream_add_outq_offset *)

\* A set of numbers up to a bound has a greatest element.
LEMMA GreatestNat ==
  ASSUME NEW m \in Nat, NEW S \in SUBSET (0..m), S # {}
  PROVE  Max(S) \in S /\ \A k \in S : k <= Max(S)
<1>. DEFINE D == {d \in Nat : m - d \in S}
<1>1. ASSUME NEW k \in S PROVE m - k \in D /\ k \in Nat
  <2>1. k \in 0..m
    OBVIOUS
  <2>2. m - k \in Nat /\ m - (m - k) = k
    BY <2>1
  <2>. QED
    BY <2>1, <2>2
<1>2. PICK d \in D : \A e \in D : d <= e
  <2>1. D \in SUBSET Nat /\ D # {}
    BY <1>1
  <2>. HIDE DEF D
  <2>. QED
    BY <2>1, LeastNat
<1>3. PICK j \in S : j = m - d /\ d \in Nat /\ j \in Nat
  <2>1. m - d \in S /\ d \in Nat
    BY <1>2
  <2>. QED
    BY <1>1, <2>1
<1>4. ASSUME NEW k \in S PROVE j >= k
  <2>1. d <= m - k /\ k \in Nat
    BY <1>1, <1>2
  <2>. QED
    BY <1>3, <2>1
<1>5. Max(S) \in S /\ \A k \in S : Max(S) >= k
  BY <1>4, Zenon DEF Max
<1>. QED
  BY <1>5

\* The positions up to which n bytes suffice.
Reached(q, i, n) ==
  {k \in i..Len(q) : SumTo(BufLens(q), k) - SumTo(BufLens(q), i) <= n}

\* The queue q after the buffers up to j are written, and rest bytes more.
Taken(q, i, j, rest) ==
  [k \in DOMAIN q |->
     LET b == q[k]
     IN CASE k \in (i + 1)..j -> [b EXCEPT !.pos = b.last]
          [] k = j + 1 -> [b EXCEPT !.pos = @ + rest]
          [] OTHER -> b]

\* Nothing before the position is left to write.
LEMMA WrittenBefore ==
  ASSUME NEW q \in Bufs, NEW m \in Nat, m = Len(q), NEW i \in Nat, i <= m,
         \A k \in 1..m : k <= i => q[k].pos = q[k].last
  PROVE  SumTo(BufLens(q), i) = 0
<1>0. m = Len(q) /\ i <= m
  OBVIOUS
<1>1. BufLens(q) \in Weights(m)
  BY <1>0, LensAreNat
<1>2. ASSUME NEW k \in 1..i PROVE BufLens(q)[k] = 0
  <2>1. k \in 1..m /\ k <= i
    BY <1>0
  <2>2. q[k].pos = q[k].last /\ q[k] \in Buf
    BY <1>0, <2>1, LensAreNat
  <2>3. BufLens(q)[k] = q[k].last - q[k].pos
    BY <1>0, <2>1, LensAreNat
  <2>. QED
    BY <2>2, <2>3 DEF Buf
<1>. QED
  BY <1>0, <1>1, <1>2, SumOfZeros

\* n bytes of q are taken, up to the position j; r remains.
Takes(q, i, n, j, r) ==
  /\ j = Max(Reached(q, i, n))
  /\ r = Taken(q, i, j, n - (SumTo(BufLens(q), j) - SumTo(BufLens(q), i)))

\* What is right of them then.
Remains(q, base, y, c, n, j, r) ==
  /\ j \in Nat /\ r \in Seq(Buf) /\ Len(r) = Len(q)
  /\ Shape(r, j, base, y - n, c)
  /\ \A k \in 1..Len(q) : /\ r[k].type = q[k].type /\ r[k].chunk = q[k].chunk
                          /\ r[k].begin = q[k].begin /\ r[k].last = q[k].last
  /\ (n = y => j = Len(q)) /\ (n < y => j < Len(q))

\* Bytes are written from the position on, and it moves behind them.
LEMMA TakenShape ==
  ASSUME NEW q, NEW i \in Nat, NEW base \in Nat, NEW y \in Nat, NEW c \in Seq(BOOLEAN),
         Shape(q, i, base, y, c), NEW n \in 0..y, NEW j, NEW r, Takes(q, i, n, j, r)
  PROVE  Remains(q, base, y, c, n, j, r)
<1>1. PICK m \in Nat : m = Len(q)
  BY LensAreNat DEF Shape
<1>2. /\ q \in Bufs /\ i <= m
      /\ \A k \in 1..m :
           /\ k <= i => q[k].pos = q[k].last
           /\ k > i + 1 => q[k].pos = q[k].begin /\ q[k].pos < q[k].last
      /\ y = SumTo(BufLens(q), m)
  BY <1>1, Zenon DEF Shape
<1>3. \A k \in 1..m : /\ q[k] \in Buf /\ q[k].type \in {"SHARED", "PRIVATE", "ALIEN"}
                      /\ q[k].chunk \in Nat /\ q[k].begin \in Nat
                      /\ q[k].pos \in Nat /\ q[k].last \in Nat
                      /\ q[k].begin <= q[k].pos /\ q[k].pos <= q[k].last
  <2>1. \A k \in 1..m : q[k] \in Buf
    BY <1>1, <1>2, LensAreNat
  <2>2. \A k \in 1..m : q[k].begin <= q[k].pos /\ q[k].pos <= q[k].last
    BY <1>1, <1>2 DEF Bufs
  <2>. QED
    BY <2>1, <2>2 DEF Buf
<1>4. SumTo(BufLens(q), i) = 0
  BY <1>1, <1>2, WrittenBefore
<1>5. /\ \A k \in Nat : SumTo(BufLens(q), k) \in Nat
      /\ \A k \in 1..m : /\ SumTo(BufLens(q), k) = SumTo(BufLens(q), k - 1) + BufLen(q[k])
                         /\ BufLen(q[k]) \in Nat
      /\ BufLens(q) \in Weights(m) /\ HeldLens(q) \in Weights(m)
  <2>1. BufLens(q) \in Weights(m) /\ HeldLens(q) \in Weights(m)
    BY <1>1, <1>2, LensAreNat
  <2>. QED
    BY <1>1, <1>2, <2>1, LensUpTo
<1>6. j \in Reached(q, i, n) /\ \A k \in Reached(q, i, n) : k <= j
  <2>1. Reached(q, i, n) \in SUBSET (0..m)
    BY <1>1 DEF Reached
  <2>2. i \in Reached(q, i, n)
    BY <1>1, <1>2, <1>4 DEF Reached
  <2>3. PICK K \in SUBSET (0..m) : K = Reached(q, i, n)
    BY <2>1, Zenon
  <2>4. Max(K) \in K /\ \A k \in K : k <= Max(K)
    BY <2>2, <2>3, GreatestNat
  <2>. QED
    BY <2>3, <2>4, Zenon DEF Takes
<1>7. j \in Nat /\ i <= j /\ j <= m /\ SumTo(BufLens(q), j) <= n
  BY <1>1, <1>4, <1>5, <1>6 DEF Reached
<1>8. PICK rest \in Nat : /\ rest = n - (SumTo(BufLens(q), j) - SumTo(BufLens(q), i))
                          /\ rest = n - SumTo(BufLens(q), j)
  <2>1. PICK a \in Nat : a = SumTo(BufLens(q), j)
    BY <1>5, <1>7
  <2>2. n - a \in Nat /\ n - (a - 0) = n - a
    BY <1>7, <2>1
  <2>. QED
    BY <1>4, <2>1, <2>2
<1>9. j < m => rest < BufLen(q[j + 1])
  <2>. SUFFICES ASSUME j < m PROVE rest < BufLen(q[j + 1])
    OBVIOUS
  <2>1. j + 1 \in i..m /\ j + 1 \in 1..m /\ (j + 1) - 1 = j /\ ~(j + 1 <= j) /\ j + 1 \in Nat
    BY <1>7
  <2>2. j + 1 \notin Reached(q, i, n)
    BY <1>6, <2>1
  <2>3. SumTo(BufLens(q), j + 1) > n
    <3>1. ~(SumTo(BufLens(q), j + 1) - SumTo(BufLens(q), i) <= n)
      BY <1>1, <2>1, <2>2, Zenon DEF Reached
    <3>2. PICK a \in Nat : a = SumTo(BufLens(q), j + 1)
      BY <1>5, <2>1
    <3>. QED
      BY <1>4, <3>1, <3>2
  <2>4. SumTo(BufLens(q), j + 1) = SumTo(BufLens(q), j) + BufLen(q[j + 1])
    BY <1>5, <2>1
  <2>5. PICK a \in Nat, x \in Nat : a = SumTo(BufLens(q), j) /\ x = BufLen(q[j + 1])
    BY <1>5, <1>7, <2>1
  <2>. QED
    BY <1>8, <2>3, <2>4, <2>5
<1>10. j = m => n = y /\ rest = 0
  BY <1>2, <1>7, <1>8
<1>11. n = y => j = m
  <2>. SUFFICES ASSUME n = y PROVE m <= j
    BY <1>7
  <2>1. m \in i..m /\ SumTo(BufLens(q), m) - 0 <= n
    BY <1>2
  <2>2. m \in Reached(q, i, n)
    BY <1>1, <1>4, <2>1 DEF Reached
  <2>. QED
    BY <1>6, <2>2
<1>12. r = Taken(q, i, j, rest)
  BY <1>8, Zenon DEF Takes
<1>13. /\ DOMAIN r = 1..m
       /\ \A k \in 1..m :
            /\ k \in (i + 1)..j => r[k] = [q[k] EXCEPT !.pos = q[k].last]
            /\ k = j + 1 => r[k] = [q[k] EXCEPT !.pos = @ + rest]
            /\ k \notin (i + 1)..j /\ k # j + 1 => r[k] = q[k]
  <2>1. DOMAIN q = 1..m
    BY <1>1, <1>2, LensAreNat
  <2>. QED
    BY <1>7, <1>12, <2>1 DEF Taken
<1>14. ASSUME NEW k \in 1..m
       PROVE  /\ r[k] \in Buf
              /\ r[k].type = q[k].type /\ r[k].chunk = q[k].chunk
              /\ r[k].begin = q[k].begin /\ r[k].last = q[k].last
              /\ r[k].pos = IF k <= j THEN q[k].last
                            ELSE IF k = j + 1 THEN q[k].pos + rest ELSE q[k].pos
              /\ r[k].begin <= r[k].pos /\ r[k].pos <= r[k].last
  <2>1. PICK b \in Buf : /\ b = q[k] /\ b.begin \in Nat /\ b.pos \in Nat /\ b.last \in Nat
                         /\ b.begin <= b.pos /\ b.pos <= b.last
    BY <1>3
  <2>2. ASSUME NEW p \in Nat, p <= b.last, b.begin <= p, r[k] = [b EXCEPT !.pos = p]
        PROVE  /\ r[k] \in Buf /\ r[k].type = b.type /\ r[k].chunk = b.chunk
               /\ r[k].begin = b.begin /\ r[k].last = b.last /\ r[k].pos = p
               /\ r[k].begin <= r[k].pos /\ r[k].pos <= r[k].last
    BY <2>2 DEF Buf
  <2>3. CASE k \in (i + 1)..j
    <3>1. r[k] = [b EXCEPT !.pos = b.last]
      BY <1>13, <2>1, <2>3
    <3>2. /\ r[k] \in Buf /\ r[k].type = b.type /\ r[k].chunk = b.chunk
          /\ r[k].begin = b.begin /\ r[k].last = b.last /\ r[k].pos = b.last
          /\ r[k].begin <= r[k].pos /\ r[k].pos <= r[k].last
      <4>1. b.last \in Nat /\ b.last <= b.last /\ b.begin <= b.last
        BY <2>1
      <4>. QED
        BY <2>2, <3>1, <4>1
    <3>3. k <= j
      BY <2>3
    <3>. QED
      BY <2>1, <3>2, <3>3, Zenon
  <2>4. CASE k = j + 1
    <3>1. r[k] = [b EXCEPT !.pos = @ + rest]
      BY <1>13, <2>1, <2>4
    <3>2. PICK p \in Nat : p = b.pos + rest
      BY <2>1
    <3>3. rest < b.last - b.pos
      <4>1. j < m
        BY <1>7, <2>4
      <4>2. rest < BufLen(q[j + 1])
        BY <1>9, <4>1
      <4>. QED
        BY <2>1, <2>4, <4>2 DEF BufLen
    <3>4. p <= b.last /\ b.begin <= p
      <4>1. PICK p0 \in Nat, l0 \in Nat, g0 \in Nat :
              p0 = b.pos /\ l0 = b.last /\ g0 = b.begin
        BY <2>1, Zenon
      <4>2. g0 <= p0 /\ rest < l0 - p0 /\ p = p0 + rest
        BY <2>1, <3>2, <3>3, <4>1
      <4>3. p <= l0 /\ g0 <= p
        BY <4>2
      <4>. QED
        BY <4>1, <4>3
    <3>5. r[k] = [b EXCEPT !.pos = p]
      BY <3>1, <3>2
    <3>6. /\ r[k] \in Buf /\ r[k].type = b.type /\ r[k].chunk = b.chunk
          /\ r[k].begin = b.begin /\ r[k].last = b.last /\ r[k].pos = p
          /\ r[k].begin <= r[k].pos /\ r[k].pos <= r[k].last
      BY <2>2, <3>4, <3>5
    <3>7. ~(k <= j)
      BY <1>7, <2>4
    <3>. QED
      BY <2>1, <2>4, <3>2, <3>6, <3>7, Zenon
  <2>5. CASE k \notin (i + 1)..j /\ k # j + 1
    <3>1. r[k] = b
      BY <1>13, <2>1, <2>5
    <3>2. k <= j => k <= i
      BY <1>7, <2>5
    <3>3. k <= j => b.pos = b.last
      BY <1>2, <2>1, <3>2
    <3>. QED
      BY <2>1, <2>5, <3>1, <3>3, Zenon
  <2>. QED
    BY <2>3, <2>4, <2>5, Zenon
<1>15. r \in Bufs /\ r \in Seq(Buf) /\ Len(r) = m
  <2>1. \A k \in 1..m : r[k] \in Buf /\ r[k].begin <= r[k].pos /\ r[k].pos <= r[k].last
    BY <1>14
  <2>2. r = [k \in 1..m |-> r[k]]
    BY <1>13, <1>12 DEF Taken
  <2>3. r \in Seq(Buf) /\ Len(r) = m
    BY <2>1, <2>2
  <2>. QED
    BY <1>13, <2>1, <2>3 DEF Bufs
<1>16. HeldLens(r) = HeldLens(q)
  <2>1. DOMAIN q = 1..m
    BY <1>1, <1>2, LensAreNat
  <2>2. \A k \in 1..m : Held(r[k]) = Held(q[k])
    BY <1>14, Zenon DEF Held
  <2>. QED
    BY <1>13, <2>1, <2>2 DEF HeldLens
<1>17. y - n = SumTo(BufLens(r), m)
  <2>1. BufLens(r) \in Weights(m) /\ \A k \in 1..m : BufLens(r)[k] = r[k].last - r[k].pos
    BY <1>15, LensAreNat
  <2>2. \A k \in 1..m : BufLens(q)[k] = q[k].last - q[k].pos
    BY <1>1, <1>2, LensAreNat
  <2>3. SumTo(BufLens(r), j) = 0
    <3>1. \A k \in 1..m : k <= j => r[k].pos = r[k].last
      BY <1>14
    <3>. QED
      BY <1>7, <1>15, <3>1, WrittenBefore
  <2>4. CASE j = m
    BY <1>10, <2>3, <2>4
  <2>5. CASE j < m
    <3>1. PICK z \in Nat : z = j + 1
      BY <1>7
    <3>2. z \in 1..m /\ z <= m /\ z - 1 = j /\ m - z \in Nat /\ z + (m - z) = m
      BY <1>7, <2>5, <3>1
    <3>3. /\ SumTo(BufLens(r), z) = SumTo(BufLens(r), z - 1) + BufLen(r[z])
          /\ \A k \in Nat : SumTo(BufLens(r), k) \in Nat
      <4>1. z \in 1..Len(r)
        BY <1>15, <3>2
      <4>. QED
        BY <1>15, <4>1, LensUpTo
    <3>4. BufLen(r[z]) = BufLen(q[z]) - rest
      <4>1. ~(z <= j) /\ z = j + 1
        BY <1>7, <3>1
      <4>2. r[z].pos = q[z].pos + rest /\ r[z].last = q[z].last
        BY <1>14, <3>2, <4>1
      <4>. QED
        BY <1>3, <3>2, <4>2 DEF BufLen
    <3>5. SumTo(BufLens(q), z) = SumTo(BufLens(q), j) + BufLen(q[z]) /\ BufLen(q[z]) \in Nat
      BY <1>5, <3>2
    <3>6. PICK d \in Nat : d = m - z
      BY <3>2
    <3>7. Alike(BufLens(r), z, BufLens(q), z, d)
      <4>1. ASSUME NEW k \in 1..d PROVE BufLens(r)[z + k] = BufLens(q)[z + k]
        <5>1. z + k \in 1..m /\ ~(z + k <= j) /\ z + k # j + 1
          BY <1>7, <3>1, <3>6
        <5>2. r[z + k].pos = q[z + k].pos /\ r[z + k].last = q[z + k].last
          BY <1>14, <5>1
        <5>. QED
          BY <2>1, <2>2, <5>1, <5>2
      <4>. QED
        BY <4>1 DEF Alike
    <3>8. SumTo(BufLens(r), z + d) - SumTo(BufLens(r), z) = SumTo(BufLens(q), z + d) - SumTo(BufLens(q), z)
      <4>1. z + d <= m
        BY <3>2, <3>6
      <4>. QED
        BY <1>5, <2>1, <3>7, <4>1, SumStretch, SMTT(60)
    <3>9. z + d = m
      BY <3>2, <3>6
    <3>10. PICK a \in Nat, x \in Nat, e \in Nat, f \in Nat :
             /\ a = SumTo(BufLens(q), j) /\ x = BufLen(q[z])
             /\ e = SumTo(BufLens(r), m) /\ f = SumTo(BufLens(r), z)
      BY <1>5, <1>7, <3>3, <3>5
    <3>11. f = x - rest
      <4>1. SumTo(BufLens(r), z) = 0 + (x - rest)
        BY <2>3, <3>2, <3>3, <3>4, <3>10
      <4>. QED
        BY <3>10, <4>1
    <3>12. rest = n - a
      BY <1>8, <3>10
    <3>13. e - f = y - (a + x)
      <4>1. SumTo(BufLens(q), z) = a + x
        BY <3>5, <3>10
      <4>. QED
        BY <1>2, <3>8, <3>9, <3>10, <4>1
    <3>14. e = y - n
      BY <3>11, <3>12, <3>13
    <3>. QED
      BY <3>10, <3>14
  <2>. QED
    BY <1>7, <2>4, <2>5
<1>18. ASSUME NEW k \in 1..m
       PROVE  /\ k <= j => r[k].pos = r[k].last
              /\ k > j + 1 => r[k].pos = r[k].begin /\ r[k].pos < r[k].last
              /\ \A l \in (SumTo(HeldLens(r), k - 1) + 1)..SumTo(HeldLens(r), k) :
                   c[base + l] = (r[k].type = "ALIEN")
  <2>1. k <= j => r[k].pos = r[k].last
    BY <1>14
  <2>2. k > j + 1 => r[k].pos = r[k].begin /\ r[k].pos < r[k].last
    <3>. SUFFICES ASSUME k > j + 1 PROVE r[k].pos = r[k].begin /\ r[k].pos < r[k].last
      OBVIOUS
    <3>1. ~(k <= j) /\ k # j + 1 /\ k > i + 1
      BY <1>7
    <3>2. r[k].pos = q[k].pos /\ r[k].begin = q[k].begin /\ r[k].last = q[k].last
      BY <1>14, <3>1
    <3>. QED
      BY <1>2, <3>1, <3>2
  <2>3. \A l \in (SumTo(HeldLens(q), k - 1) + 1)..SumTo(HeldLens(q), k) :
          c[base + l] = (q[k].type = "ALIEN")
    BY <1>1, Zenon DEF Shape
  <2>. QED
    BY <1>14, <1>16, <2>1, <2>2, <2>3, Zenon
<1>19. base + SumTo(HeldLens(r), m) = Len(c)
  BY <1>1, <1>16, Zenon DEF Shape
<1>20. Shape(r, j, base, y - n, c)
  BY <1>7, <1>15, <1>17, <1>18, <1>19, Zenon DEF Shape
<1>21. n < y => j < m
  BY <1>7, <1>10
<1>22. \A k \in 1..m : /\ r[k].type = q[k].type /\ r[k].chunk = q[k].chunk
                       /\ r[k].begin = q[k].begin /\ r[k].last = q[k].last
  BY <1>14
<1>. QED
  BY <1>1, <1>6, <1>7, <1>8, <1>11, <1>12, <1>15, <1>20, <1>21, <1>22, Zenon DEF Remains

\* The bytes QUIC accepts are written.
LEMMA AddOutqOffsetGood ==
  ASSUME NEW t \in Queue, QueueInv(t), NEW n \in 0..t.unsent
  PROVE  LET u == AddOutqOffset(t, n)
         IN /\ u \in Queue /\ QueueInv(u)
            /\ u.unsent = t.unsent - n /\ u.content = t.content
            /\ u.ackBase = t.ackBase /\ u.ackOff = t.ackOff
            /\ u.chunks = t.chunks /\ u.allocated = t.allocated
            /\ Len(u.outq) = Len(t.outq)
            /\ \A k \in 1..Len(t.outq) :
                 /\ u.outq[k].type = t.outq[k].type /\ u.outq[k].chunk = t.outq[k].chunk
                 /\ u.outq[k].begin = t.outq[k].begin /\ u.outq[k].last = t.outq[k].last
            /\ (n = t.unsent => WriteDone(u)) /\ (n < t.unsent => ~WriteDone(u))
<1>1. PICK q \in Bufs, i \in Nat, base \in Nat, y \in Nat, c \in Seq(BOOLEAN) :
        /\ q = t.outq /\ i = t.idx /\ base = t.ackBase /\ y = t.unsent /\ c = t.content
        /\ Shape(q, i, base, y, c)
  <2>1. t.idx \in Nat /\ t.ackBase \in Nat /\ t.unsent \in Nat /\ t.content \in Seq(BOOLEAN)
    BY QueueFields
  <2>. QED
    BY <2>1, Zenon DEF QueueInv, Shape
<1>2. PICK j, r : Takes(q, i, n, j, r)
  BY Zenon DEF Takes
<1>3. /\ j \in Nat /\ r \in Seq(Buf) /\ Len(r) = Len(q)
      /\ Shape(r, j, base, y - n, c)
      /\ \A k \in 1..Len(q) : /\ r[k].type = q[k].type /\ r[k].chunk = q[k].chunk
                              /\ r[k].begin = q[k].begin /\ r[k].last = q[k].last
      /\ (n = y => j = Len(q)) /\ (n < y => j < Len(q))
  <2>1. n \in 0..y
    BY <1>1
  <2>2. Remains(q, base, y, c, n, j, r)
    BY <1>1, <1>2, <2>1, TakenShape
  <2>. QED
    BY <2>2, Zenon DEF Remains
<1>4. PICK u : u = AddOutqOffset(t, n)
  OBVIOUS
<1>. DEFINE K == {k \in t.idx..Len(t.outq) : UnsentFrom(t, k) <= n}
<1>5. K = Reached(q, i, n)
  BY <1>1, Zenon DEF UnsentFrom, LenUpTo, BufLens, Reached
<1>6. u = [t EXCEPT !.unsent = @ - n, !.idx = Max(K),
                    !.outq = Taken(t.outq, t.idx, Max(K), n - UnsentFrom(t, Max(K)))]
  BY <1>4 DEF AddOutqOffset, Taken
<1>7. u = [t EXCEPT !.unsent = y - n, !.idx = j, !.outq = r]
  <2>. HIDE DEF K
  <2>1. Max(K) = j
    BY <1>2, <1>5, Zenon DEF Takes
  <2>2. Taken(t.outq, t.idx, j, n - UnsentFrom(t, j)) = r
    BY <1>1, <1>2, Zenon DEF Takes, UnsentFrom, LenUpTo, BufLens
  <2>3. u = [t EXCEPT !.unsent = @ - n, !.idx = j, !.outq = r]
    BY <1>6, <2>1, <2>2, Zenon
  <2>. QED
    BY <1>1, <2>3
<1>8. /\ u \in Queue /\ u.unsent = y - n /\ u.idx = j /\ u.outq = r
      /\ u.content = t.content /\ u.ackBase = t.ackBase /\ u.ackOff = t.ackOff
      /\ u.chunks = t.chunks /\ u.allocated = t.allocated
  <2>1. y - n \in Nat
    BY <1>1
  <2>. QED
    BY <1>3, <1>7, <2>1 DEF Queue
<1>9. QueueInv(u)
  BY <1>1, <1>3, <1>8, Zenon DEF QueueInv
<1>10. (n = y => WriteDone(u)) /\ (n < y => ~WriteDone(u))
  <2>1. Len(q) \in Nat
    BY LensAreNat
  <2>. QED
    BY <1>3, <1>8, <2>1 DEF WriteDone
<1>. QED
  BY <1>1, <1>3, <1>4, <1>8, <1>9, <1>10, Zenon
-----------------------------------------------------------------------------
(* nghttp3_stream_update_ack_offset *)

\* r is q without its first p buffers.
Suffix(r, q, p) == r = SubSeq(q, p + 1, Len(q))

\* What it holds comes after what they held.
Kept(r, q, i, base, y, c, p) ==
  /\ r \in Seq(Buf) /\ Len(r) = Len(q) - p /\ \A k \in 1..Len(r) : r[k] = q[p + k]
  /\ SumTo(HeldLens(q), p) \in Nat
  /\ Shape(r, i - p, base + SumTo(HeldLens(q), p), y, c)

\* What becomes of the queue.
LEMMA SuffixShape ==
  ASSUME NEW q, NEW i \in Nat, NEW base \in Nat, NEW y \in Nat, NEW c \in Seq(BOOLEAN),
         Shape(q, i, base, y, c), NEW p \in 0..i, NEW r, Suffix(r, q, p)
  PROVE  Kept(r, q, i, base, y, c, p)
<1>0. r = SubSeq(q, p + 1, Len(q)) /\ p \in Nat
  BY DEF Suffix
<1>1. PICK m \in Nat : m = Len(q)
  BY LensAreNat DEF Shape
<1>2. /\ q \in Bufs /\ i <= m
      /\ \A k \in 1..m :
           /\ k <= i => q[k].pos = q[k].last
           /\ k > i + 1 => q[k].pos = q[k].begin /\ q[k].pos < q[k].last
           /\ \A j \in (SumTo(HeldLens(q), k - 1) + 1)..SumTo(HeldLens(q), k) :
                c[base + j] = (q[k].type = "ALIEN")
      /\ base + SumTo(HeldLens(q), m) = Len(c) /\ y = SumTo(BufLens(q), m)
  BY <1>1, Zenon DEF Shape
<1>3. PICK l \in Nat : l = m - p /\ p <= i /\ p + l = m /\ p <= m
  BY <1>2
<1>4. r \in Seq(Buf) /\ Len(r) = l /\ \A k \in 1..l : r[k] = q[p + k]
  <2>1. \A k \in 1..m : q[k] \in Buf
    BY <1>1, <1>2, LensAreNat
  <2>2. \A k \in (p + 1)..m : q[k] \in Buf
    BY <2>1
  <2>3. PICK a \in Int, z \in Int : a = p + 1 /\ z = m
    OBVIOUS
  <2>4. \A k \in a..z : q[k] \in Buf
    BY <2>2, <2>3
  <2>5. /\ SubSeq(q, a, z) \in Seq(Buf)
        /\ Len(SubSeq(q, a, z)) = IF a <= z THEN z - a + 1 ELSE 0
        /\ \A k \in 1..z - a + 1 : SubSeq(q, a, z)[k] = q[a + k - 1]
    BY <2>4, SubSeqProperties
  <2>6. (IF a <= z THEN z - a + 1 ELSE 0) = l /\ z - a + 1 = l
    BY <1>3, <2>3
  <2>7. \A k \in 1..l : a + k - 1 = p + k
    BY <2>3
  <2>8. r = SubSeq(q, a, z)
    BY <1>0, <1>1, <2>3
  <2>. QED
    BY <2>5, <2>6, <2>7, <2>8
<1>5. r \in Bufs
  <2>1. \A k \in 1..m : q[k].begin <= q[k].pos /\ q[k].pos <= q[k].last
    BY <1>1, <1>2 DEF Bufs
  <2>2. \A k \in 1..l : p + k \in 1..m
    BY <1>3
  <2>3. \A k \in 1..l : r[k].begin <= r[k].pos /\ r[k].pos <= r[k].last
    BY <1>4, <2>1, <2>2
  <2>4. DOMAIN r = 1..l
    BY <1>4
  <2>. QED
    BY <1>4, <2>3, <2>4 DEF Bufs
<1>6. /\ HeldLens(q) \in Weights(m) /\ BufLens(q) \in Weights(m)
      /\ HeldLens(r) \in Weights(l) /\ BufLens(r) \in Weights(l)
      /\ \A k \in Nat : /\ SumTo(HeldLens(q), k) \in Nat /\ SumTo(HeldLens(r), k) \in Nat
                        /\ SumTo(BufLens(q), k) \in Nat /\ SumTo(BufLens(r), k) \in Nat
      /\ SumTo(HeldLens(r), 0) = 0 /\ SumTo(BufLens(r), 0) = 0
  <2>1. HeldLens(q) \in Weights(m) /\ BufLens(q) \in Weights(m)
    BY <1>1, <1>2, LensAreNat
  <2>2. HeldLens(r) \in Weights(l) /\ BufLens(r) \in Weights(l)
    BY <1>4, <1>5, LensAreNat
  <2>. QED
    BY <1>2, <1>5, <2>1, <2>2, LensUpTo
<1>7. \A k \in 1..l : HeldLens(r)[k] = HeldLens(q)[p + k] /\ BufLens(r)[k] = BufLens(q)[p + k]
  <2>1. DOMAIN q = 1..m /\ DOMAIN r = 1..l
    BY <1>1, <1>2, <1>4, <1>5, LensAreNat
  <2>2. \A k \in 1..l : p + k \in 1..m
    BY <1>3
  <2>. QED
    BY <1>4, <2>1, <2>2 DEF HeldLens, BufLens
<1>8. ASSUME NEW k \in 0..l
      PROVE  /\ SumTo(HeldLens(r), k) = SumTo(HeldLens(q), p + k) - SumTo(HeldLens(q), p)
             /\ SumTo(BufLens(r), k) = SumTo(BufLens(q), p + k) - SumTo(BufLens(q), p)
  <2>1. PICK z \in Nat : z = 0
    OBVIOUS
  <2>2. z + k <= l /\ p + k <= m /\ k \in Nat /\ z + k = k
    BY <1>3, <2>1
  <2>3. Alike(HeldLens(r), z, HeldLens(q), p, k) /\ Alike(BufLens(r), z, BufLens(q), p, k)
    BY <1>7, <2>1 DEF Alike
  <2>4. SumTo(HeldLens(r), z + k) - SumTo(HeldLens(r), z) = SumTo(HeldLens(q), p + k) - SumTo(HeldLens(q), p)
    <3>1. PICK f \in Weights(m), g \in Weights(l) : f = HeldLens(q) /\ g = HeldLens(r)
      BY <1>6, Zenon
    <3>2. Alike(g, z, f, p, k)
      BY <2>3, <3>1, Zenon
    <3>3. SumTo(g, z + k) - SumTo(g, z) = SumTo(f, p + k) - SumTo(f, p)
      BY <2>2, <3>2, SumStretch
    <3>. QED
      BY <3>1, <3>3, Zenon
  <2>5. SumTo(BufLens(r), z + k) - SumTo(BufLens(r), z) = SumTo(BufLens(q), p + k) - SumTo(BufLens(q), p)
    <3>1. PICK f \in Weights(m), g \in Weights(l) : f = BufLens(q) /\ g = BufLens(r)
      BY <1>6, Zenon
    <3>2. Alike(g, z, f, p, k)
      BY <2>3, <3>1, Zenon
    <3>3. SumTo(g, z + k) - SumTo(g, z) = SumTo(f, p + k) - SumTo(f, p)
      BY <2>2, <3>2, SumStretch
    <3>. QED
      BY <3>1, <3>3, Zenon
  <2>6. /\ SumTo(HeldLens(r), z) = 0 /\ SumTo(BufLens(r), z) = 0
        /\ SumTo(HeldLens(r), k) \in Nat /\ SumTo(BufLens(r), k) \in Nat
    BY <1>6, <2>1, <2>2
  <2>7. /\ SumTo(HeldLens(r), k) - 0 = SumTo(HeldLens(q), p + k) - SumTo(HeldLens(q), p)
        /\ SumTo(BufLens(r), k) - 0 = SumTo(BufLens(q), p + k) - SumTo(BufLens(q), p)
    BY <2>2, <2>4, <2>5, <2>6, Zenon
  <2>. QED
    BY <2>6, <2>7
<1>9. SumTo(BufLens(q), p) = 0
  <2>1. \A k \in 1..m : k <= p => q[k].pos = q[k].last
    BY <1>2, <1>3
  <2>. QED
    BY <1>0, <1>1, <1>2, <1>3, <2>1, WrittenBefore
<1>10. PICK h \in Nat : h = SumTo(HeldLens(q), p)
  BY <1>0, <1>6, Zenon
<1>11. PICK i1 \in Nat : i1 = i - p
  BY <1>3
<1>12. ASSUME NEW k \in 1..l
       PROVE  /\ k <= i1 => r[k].pos = r[k].last
              /\ k > i1 + 1 => r[k].pos = r[k].begin /\ r[k].pos < r[k].last
              /\ \A j \in (SumTo(HeldLens(r), k - 1) + 1)..SumTo(HeldLens(r), k) :
                   c[(base + h) + j] = (r[k].type = "ALIEN")
  <2>1. p + k \in 1..m /\ r[k] = q[p + k] /\ k - 1 \in 0..l /\ k \in 0..l /\ p + (k - 1) = (p + k) - 1
    <3>1. r[k] = q[p + k]
      BY <1>4
    <3>2. p + k \in 1..m /\ k - 1 \in 0..l /\ k \in 0..l /\ p + (k - 1) = (p + k) - 1
      BY <1>0, <1>3
    <3>. QED
      BY <3>1, <3>2
  <2>2. (k <= i1 => p + k <= i) /\ (k > i1 + 1 => p + k > i + 1)
    BY <1>11
  <2>3. PICK a \in Nat, b \in Nat : a = SumTo(HeldLens(q), (p + k) - 1) /\ b = SumTo(HeldLens(q), p + k)
    <3>1. (p + k) - 1 \in Nat /\ p + k \in Nat
      BY <2>1
    <3>. QED
      BY <1>6, <3>1
  <2>4. SumTo(HeldLens(r), k - 1) = a - h /\ SumTo(HeldLens(r), k) = b - h
    BY <1>8, <1>10, <2>1, <2>3
  <2>5. ASSUME NEW j \in (SumTo(HeldLens(r), k - 1) + 1)..SumTo(HeldLens(r), k)
        PROVE  c[(base + h) + j] = (r[k].type = "ALIEN")
    <3>1. j \in ((a - h) + 1)..(b - h)
      BY <2>4, <2>5
    <3>2. h + j \in (a + 1)..b
      BY <3>1
    <3>3. c[base + (h + j)] = (q[p + k].type = "ALIEN")
      BY <1>2, <2>1, <2>3, <3>2
    <3>4. base + (h + j) = (base + h) + j
      BY <3>1
    <3>. QED
      BY <2>1, <3>3, <3>4, Zenon
  <2>. QED
    BY <1>2, <2>1, <2>2, <2>5
<1>13. (base + h) + SumTo(HeldLens(r), l) = Len(c)
  <2>1. SumTo(HeldLens(r), l) = SumTo(HeldLens(q), p + l) - SumTo(HeldLens(q), p)
    BY <1>8
  <2>2. PICK a \in Nat : a = SumTo(HeldLens(q), m)
    BY <1>6
  <2>3. SumTo(HeldLens(r), l) = a - h
    BY <1>3, <1>10, <2>1, <2>2, Zenon
  <2>4. (base + h) + (a - h) = base + a
    OBVIOUS
  <2>. QED
    BY <1>2, <2>2, <2>3, <2>4, Zenon
<1>14. y = SumTo(BufLens(r), l)
  <2>1. SumTo(BufLens(r), l) = SumTo(BufLens(q), p + l) - SumTo(BufLens(q), p)
    BY <1>8
  <2>. QED
    BY <1>2, <1>3, <1>9, <2>1
<1>15. i1 <= l
  BY <1>2, <1>3, <1>11
<1>16. Shape(r, i1, base + h, y, c)
  BY <1>4, <1>5, <1>12, <1>13, <1>14, <1>15, Zenon DEF Shape
<1>. QED
  BY <1>1, <1>3, <1>4, <1>6, <1>10, <1>11, <1>16, Zenon DEF Kept

\* Chunks are freed one at a time.
LEMMA FreedStep ==
  ASSUME NEW t
  PROVE  /\ Freed(t, 0) = 0
         /\ \A k \in Nat :
              /\ Freed(t, k) \in Nat
              /\ Freed(t, k + 1) =
                   IF /\ t.outq[k + 1].type = "SHARED"
                      /\ t.chunks[Freed(t, k) + 1].last = t.outq[k + 1].last
                   THEN Freed(t, k) + 1 ELSE Freed(t, k)
<1>. DEFINE C(k, n) == /\ t.outq[k].type = "SHARED"
                       /\ t.chunks[n + 1].last = t.outq[k].last
            F(freed) == [k \in Nat |-> IF k = 0 THEN 0
                                       ELSE IF C(k, freed[k - 1]) THEN freed[k - 1] + 1
                                       ELSE freed[k - 1]]
            freed == CHOOSE freed : freed = F(freed)
            g == [p \in Nat \X Nat |-> IF C(p[1], p[2]) THEN p[2] + 1 ELSE p[2]]
<1>a. \A n \in Nat : Freed(t, n) = freed[n]
  BY DEF Freed
<1>. HIDE DEF C
<1>1. PICK h \in [Nat -> Nat] : h[0] = 0 /\ \A n \in Nat : h[n + 1] = IF C(n + 1, h[n]) THEN h[n] + 1 ELSE h[n]
  <2>1. g \in [Nat \X Nat -> Nat] /\ 0 \in Nat
    OBVIOUS
  <2>2. PICK h \in [Nat -> Nat] : Recurs(h, 0, g)
    <3>. HIDE DEF g
    <3>. QED
      BY <2>1, Recursion, Zenon
  <2>3. h[0] = 0 /\ \A n \in Nat : h[n + 1] = g[<<n + 1, h[n]>>]
    BY <2>2, Zenon DEF Recurs
  <2>4. \A n \in Nat : g[<<n + 1, h[n]>>] = IF C(n + 1, h[n]) THEN h[n] + 1 ELSE h[n]
    OBVIOUS
  <2>. QED
    BY <2>3, <2>4, ZenonT(60)
<1>2. h = F(h)
  <2>1. ASSUME NEW k \in Nat PROVE h[k] = F(h)[k]
    <3>1. CASE k = 0
      BY <1>1, <3>1
    <3>2. CASE k # 0
      <4>1. k - 1 \in Nat /\ (k - 1) + 1 = k
        BY <3>2
      <4>. QED
        BY <1>1, <3>2, <4>1
    <3>. QED
      BY <3>1, <3>2
  <2>. QED
    BY <2>1
<1>3. freed = F(freed)
  <2>. HIDE DEF F
  <2>. QED
    BY <1>2, Zenon
<1>. HIDE DEF freed
<1>4. freed[0] = 0
  BY <1>3
<1>5. ASSUME NEW k \in Nat
      PROVE  freed[k + 1] = IF C(k + 1, freed[k]) THEN freed[k] + 1 ELSE freed[k]
  <2>1. k + 1 \in Nat /\ k + 1 # 0 /\ (k + 1) - 1 = k
    OBVIOUS
  <2>2. F(freed)[k + 1] = IF C(k + 1, freed[k]) THEN freed[k] + 1 ELSE freed[k]
    BY <2>1
  <2>3. freed[k + 1] = F(freed)[k + 1]
    <3>. HIDE DEF F
    <3>. QED
      BY <1>3, Zenon
  <2>. QED
    BY <2>2, <2>3
<1>6. \A k \in Nat : freed[k] \in Nat
  <2>. DEFINE P == {k \in Nat : freed[k] \in Nat}
  <2>1. 0 \in P
    BY <1>4
  <2>2. ASSUME NEW k \in P PROVE k + 1 \in P
    <3>1. k \in Nat /\ k + 1 \in Nat /\ freed[k] \in Nat
      BY <2>2
    <3>2. freed[k + 1] \in Nat
      BY <1>5, <3>1
    <3>. QED
      BY <3>1, <3>2
  <2>3. P = Nat
    <3>. HIDE DEF P
    <3>1. P \subseteq Nat
      BY DEF P
    <3>. QED
      BY <2>1, <2>2, <3>1, InductionOverSet
  <2>. QED
    BY <2>3
<1>7. ASSUME NEW k \in Nat PROVE Freed(t, k + 1) = IF C(k + 1, Freed(t, k)) THEN Freed(t, k) + 1 ELSE Freed(t, k)
  <2>1. k + 1 \in Nat
    OBVIOUS
  <2>. QED
    BY <1>a, <1>5, <2>1, Zenon
<1>. QED
  BY <1>a, <1>4, <1>6, <1>7, Zenon DEF C

\* Everything written is less than what is held up to the end of the buffer
\* at the position.
LEMMA HeldBeyond ==
  ASSUME NEW q, NEW i \in Nat, NEW base \in Nat, NEW y \in Nat, NEW c \in Seq(BOOLEAN),
         Shape(q, i, base, y, c), i < Len(q)
  PROVE  /\ SumTo(HeldLens(q), i + 1) \in Nat
         /\ Len(c) - y <= base + SumTo(HeldLens(q), i + 1)
<1>1. PICK m \in Nat : m = Len(q)
  BY LensAreNat DEF Shape
<1>2. /\ q \in Bufs /\ i < m
      /\ \A k \in 1..m : k > i + 1 => q[k].pos = q[k].begin
      /\ base + SumTo(HeldLens(q), m) = Len(c) /\ y = SumTo(BufLens(q), m)
  BY <1>1, Zenon DEF Shape
<1>3. /\ HeldLens(q) \in Weights(m) /\ BufLens(q) \in Weights(m)
      /\ \A k \in 1..m : /\ HeldLens(q)[k] = q[k].last - q[k].begin
                         /\ BufLens(q)[k] = q[k].last - q[k].pos
  BY <1>1, <1>2, LensAreNat
<1>4. PICK z \in Nat, d \in Nat : z = i + 1 /\ d = m - z /\ z + d = m
  <2>1. i + 1 \in Nat /\ m - (i + 1) \in Nat /\ (i + 1) + (m - (i + 1)) = m
    BY <1>2
  <2>. QED
    BY <2>1
<1>5. Alike(HeldLens(q), z, BufLens(q), z, d)
  <2>1. ASSUME NEW k \in 1..d PROVE HeldLens(q)[z + k] = BufLens(q)[z + k]
    <3>1. z + k \in 1..m /\ z + k > i + 1
      BY <1>4
    <3>. QED
      BY <1>2, <1>3, <3>1
  <2>. QED
    BY <2>1 DEF Alike
<1>6. SumTo(HeldLens(q), z + d) - SumTo(HeldLens(q), z) = SumTo(BufLens(q), z + d) - SumTo(BufLens(q), z)
  <2>1. PICK f \in Weights(m), g \in Weights(m) : f = BufLens(q) /\ g = HeldLens(q)
    BY <1>3, Zenon
  <2>2. Alike(g, z, f, z, d) /\ z + d <= m
    BY <1>4, <1>5, <2>1
  <2>3. SumTo(g, z + d) - SumTo(g, z) = SumTo(f, z + d) - SumTo(f, z)
    BY <2>2, SumStretch
  <2>. QED
    BY <2>1, <2>3, Zenon
<1>7. PICK a \in Nat, b \in Nat, e \in Nat, f \in Nat :
        /\ a = SumTo(HeldLens(q), m) /\ b = SumTo(HeldLens(q), z)
        /\ e = SumTo(BufLens(q), m) /\ f = SumTo(BufLens(q), z)
  <2>1. \A k \in Nat : SumTo(HeldLens(q), k) \in Nat /\ SumTo(BufLens(q), k) \in Nat
    BY <1>2, LensUpTo
  <2>. QED
    BY <2>1, Zenon
<1>8. a - b = e - f /\ base + a = Len(c) /\ y = e
  BY <1>2, <1>4, <1>6, <1>7, Zenon
<1>9. Len(c) - y <= base + b
  <2>1. PICK l \in Nat : l = Len(c)
    OBVIOUS
  <2>2. a - b = e - f /\ base + a = l /\ y = e
    BY <1>8, <2>1, Zenon
  <2>3. l - y <= base + b
    BY <2>2
  <2>. QED
    BY <2>1, <2>3
<1>. QED
  BY <1>4, <1>7, <1>9, Zenon

\* What an acknowledgment up to an offset leaves of a queue.
LEMMA AckOffsetGood ==
  ASSUME NEW t \in Queue, QueueInv(t), NEW a \in Nat, a + t.unsent = Len(t.content),
         t.ackBase <= t.ackOff, NEW offset \in t.ackOff..a
  PROVE  LET p == Popped(t, offset)
             u == UpdateAckOffset(t, offset)
         IN /\ p \in 0..t.idx /\ u \in Queue /\ QueueInv(u)
            /\ u.unsent = t.unsent /\ u.content = t.content /\ u.allocated = t.allocated
            /\ Suffix(u.outq, t.outq, p)
            /\ u.chunks = SubSeq(t.chunks, Freed(t, p) + 1, Len(t.chunks))
            /\ u.ackBase <= offset /\ u.ackOff = offset
            /\ u.outq # <<>> => offset <= u.ackBase + Held(u.outq[1])
            /\ (WriteDone(t) <=> WriteDone(u))
<1>1. PICK q \in Bufs, i \in Nat, base \in Nat, y \in Nat, c \in Seq(BOOLEAN), off \in Nat :
        /\ q = t.outq /\ i = t.idx /\ base = t.ackBase /\ y = t.unsent /\ c = t.content
        /\ off = t.ackOff /\ Shape(q, i, base, y, c)
  <2>1. t.idx \in Nat /\ t.ackBase \in Nat /\ t.unsent \in Nat /\ t.content \in Seq(BOOLEAN)
        /\ t.ackOff \in Nat
    BY QueueFields
  <2>. QED
    BY <2>1, ZenonT(60) DEF QueueInv, Shape
<1>2. PICK m \in Nat : m = Len(q)
  BY LensAreNat
<1>3. offset \in Nat /\ base <= offset /\ offset <= a /\ a + y = Len(c) /\ i <= m
  <2>1. i <= m
    BY <1>1, <1>2, Zenon DEF Shape
  <2>. QED
    BY <1>1, <2>1
<1>. DEFINE K == {k \in 0..t.idx : t.ackBase + HeldUpTo(t, k) <= offset}
<1>4. K = {k \in 0..i : base + SumTo(HeldLens(q), k) <= offset}
  BY <1>1, Zenon DEF HeldUpTo, HeldLens
<1>5. /\ \A k \in Nat : SumTo(HeldLens(q), k) \in Nat
      /\ SumTo(HeldLens(q), 0) = 0
      /\ \A k \in 1..m : SumTo(HeldLens(q), k) = SumTo(HeldLens(q), k - 1) + Held(q[k]) /\ Held(q[k]) \in Nat
  BY <1>2, LensUpTo
<1>6. PICK p \in 0..i : /\ p = Max(K) /\ base + SumTo(HeldLens(q), p) <= offset
                        /\ \A k \in K : k <= p
  <2>1. PICK J \in SUBSET (0..i) : J = K
    BY <1>4
  <2>2. 0 \in J
    <3>1. PICK z \in Nat : z = SumTo(HeldLens(q), 0) /\ z = 0
      BY <1>5
    <3>2. base + z <= offset /\ 0 \in 0..i
      BY <1>1, <1>3, <3>1
    <3>3. 0 \in K
      BY <1>4, <3>1, <3>2, Zenon
    <3>. QED
      BY <2>1, <3>3
  <2>3. Max(J) \in J /\ \A k \in J : k <= Max(J)
    BY <2>2, GreatestNat
  <2>. QED
    BY <1>4, <2>1, <2>3
<1>7. p = Popped(t, offset)
  BY <1>6, Zenon DEF Popped
<1>8. PICK r : Suffix(r, q, p)
  BY DEF Suffix
<1>9. /\ r \in Seq(Buf) /\ Len(r) = Len(q) - p /\ \A k \in 1..Len(r) : r[k] = q[p + k]
      /\ SumTo(HeldLens(q), p) \in Nat
      /\ Shape(r, i - p, base + SumTo(HeldLens(q), p), y, c)
  <2>1. Kept(r, q, i, base, y, c, p)
    BY <1>1, <1>8, SuffixShape
  <2>. QED
    BY <2>1, Zenon DEF Kept
<1>10. PICK h \in Nat : h = SumTo(HeldLens(q), p)
  BY <1>9
<1>11. PICK f \in Nat : f = Freed(t, p)
  <2>1. p \in Nat
    OBVIOUS
  <2>. QED
    BY <2>1, FreedStep, Zenon
<1>12. PICK d \in Seq(Chunk) : d = SubSeq(t.chunks, f + 1, Len(t.chunks))
  <2>1. t.chunks \in Seq(Chunk) /\ Len(t.chunks) \in Nat
    BY QueueFields
  <2>2. SubSeq(t.chunks, f + 1, Len(t.chunks)) \in Seq(Chunk)
    <3>1. PICK v \in Int, w \in Int : v = f + 1 /\ w = Len(t.chunks) /\ v \in Nat /\ v > 0
      BY <2>1
    <3>2. \A k \in v..w : t.chunks[k] \in Chunk
      BY <2>1, <3>1
    <3>3. SubSeq(t.chunks, v, w) \in Seq(Chunk)
      BY <3>2, SubSeqProperties
    <3>. QED
      BY <3>1, <3>3, Zenon
  <2>. QED
    BY <2>2
<1>13. PICK u : u = UpdateAckOffset(t, offset)
  OBVIOUS
<1>14. u = [t EXCEPT !.outq = r, !.idx = i - p, !.chunks = d, !.ackBase = base + h, !.ackOff = offset]
  <2>1. HeldUpTo(t, p) = h
    BY <1>1, <1>10, Zenon DEF HeldUpTo, HeldLens
  <2>2. u = [t EXCEPT !.outq = SubSeq(@, p + 1, Len(@)), !.idx = @ - p,
                      !.chunks = SubSeq(@, f + 1, Len(@)), !.ackBase = @ + h, !.ackOff = offset]
    BY <1>7, <1>11, <1>13, <2>1, Zenon DEF UpdateAckOffset
  <2>3. r = SubSeq(q, p + 1, Len(q))
    BY <1>8 DEF Suffix
  <2>. QED
    BY <1>1, <1>12, <2>2, <2>3 DEF Queue
<1>15. /\ u \in Queue /\ u.outq = r /\ u.idx = i - p /\ u.chunks = d /\ u.ackBase = base + h
       /\ u.ackOff = offset /\ u.unsent = t.unsent /\ u.content = t.content
       /\ u.allocated = t.allocated
  <2>1. i - p \in Nat /\ base + h \in Nat
    OBVIOUS
  <2>. QED
    BY <1>3, <1>9, <1>14, <2>1 DEF Queue
<1>16. QueueInv(u)
  BY <1>1, <1>9, <1>10, <1>15, Zenon DEF QueueInv
<1>17. ASSUME r # <<>> PROVE offset <= (base + h) + Held(r[1])
  <2>1. p < m /\ r[1] = q[p + 1]
    <3>1. Len(r) \in Nat /\ Len(r) > 0
      BY <1>9, <1>17
    <3>. QED
      BY <1>2, <1>9, <3>1, SMTT(60)
  <2>2. p + 1 \in 1..m /\ (p + 1) - 1 = p /\ p + 1 \in Nat
    BY <2>1
  <2>3. SumTo(HeldLens(q), p + 1) = h + Held(r[1]) /\ Held(r[1]) \in Nat
    BY <1>5, <1>10, <2>1, <2>2
  <2>4. CASE p < i
    <3>1. p + 1 \in 0..i /\ p + 1 \notin K
      <4>1. p + 1 \in 0..i /\ ~(p + 1 <= p)
        BY <1>1, <2>4
      <4>. HIDE DEF K
      <4>. QED
        BY <1>6, <4>1
    <3>2. ~(base + SumTo(HeldLens(q), p + 1) <= offset)
      BY <1>4, <3>1
    <3>. QED
      BY <1>3, <2>3, <3>2
  <2>5. CASE p = i
    <3>1. SumTo(HeldLens(q), i + 1) \in Nat /\ Len(c) - y <= base + SumTo(HeldLens(q), i + 1)
      BY <1>1, <1>2, <2>1, <2>5, HeldBeyond
    <3>2. offset <= Len(c) - y
      <4>1. PICK l \in Nat : l = Len(c)
        OBVIOUS
      <4>2. offset <= l - y
        BY <1>3, <4>1
      <4>. QED
        BY <4>1, <4>2
    <3>3. PICK l \in Nat : l = Len(c)
      OBVIOUS
    <3>4. PICK x \in Nat : x = Held(r[1])
      BY <2>3
    <3>5. offset <= l - y /\ l - y <= base + (h + x)
      BY <2>3, <2>5, <3>1, <3>2, <3>3, <3>4
    <3>6. offset <= (base + h) + x
      BY <1>3, <3>5
    <3>. QED
      BY <3>4, <3>6
  <2>. QED
    BY <2>4, <2>5
<1>18. WriteDone(t) <=> WriteDone(u)
  <2>1. i >= m <=> i - p >= m - p
    OBVIOUS
  <2>. QED
    BY <1>1, <1>2, <1>9, <1>15, <2>1 DEF WriteDone
<1>. QED
  BY <1>1, <1>3, <1>6, <1>7, <1>8, <1>10, <1>11, <1>12, <1>13, <1>15, <1>16, <1>17, <1>18, Zenon
-----------------------------------------------------------------------------
(* What acknowledgments report *)

\* They are what the abstract stream counts.
LEMMA OwnIsCardinality ==
  ASSUME NEW c, NEW n
  PROVE  Request!Own(c, n) = Cardinality(OwnSet(c, n))
BY DEF Request!Own, Request!Quantify, Request!Cardinality, Cardinality, OwnSet

\* They are finitely many.
LEMMA OwnIsNat ==
  ASSUME NEW c, NEW a \in Nat
  PROVE  IsFiniteSet(OwnSet(c, a)) /\ Cardinality(OwnSet(c, a)) \in Nat
<1>1. IsFiniteSet(1..a) /\ OwnSet(c, a) \subseteq 1..a
  BY FS_Interval DEF OwnSet
<1>2. IsFiniteSet(OwnSet(c, a))
  BY <1>1, FS_Subset
<1>. QED
  BY <1>2, FS_CardinalityType

\* The bytes from a to b are the application's, or none of them is.
Uniform(c, a, b, type) == \A k \in (a + 1)..b : c[k] = (type = "ALIEN")

\* The bytes of one buffer are all of the application, or none.
LEMMA OwnStep ==
  ASSUME NEW c, NEW a \in Nat, NEW b \in Nat, a <= b, NEW type,
         Uniform(c, a, b, type)
  PROVE  /\ Cardinality(OwnSet(c, a)) \in Nat
         /\ Cardinality(OwnSet(c, b)) =
              Cardinality(OwnSet(c, a)) + (IF type = "ALIEN" THEN b - a ELSE 0)
<1>1. IsFiniteSet(OwnSet(c, a)) /\ IsFiniteSet((a + 1)..b)
  BY OwnIsNat, FS_Interval
<1>2. PICK n \in Nat : n = Cardinality(OwnSet(c, a))
  BY <1>1, FS_CardinalityType
<1>3. 1..b = (1..a) \cup ((a + 1)..b)
  OBVIOUS
<1>4. CASE type = "ALIEN"
  <2>1. ASSUME NEW k \in (a + 1)..b PROVE c[k]
    <3>1. c[k] = (type = "ALIEN")
      BY Zenon DEF Uniform
    <3>. QED
      BY <1>4, <3>1, Zenon
  <2>2. OwnSet(c, b) = OwnSet(c, a) \cup ((a + 1)..b)
    BY <1>3, <2>1, Zenon DEF OwnSet
  <2>3. OwnSet(c, a) \cap ((a + 1)..b) = {}
    BY DEF OwnSet
  <2>4. Cardinality((a + 1)..b) = b - a
    <3>1. a + 1 \in Int /\ b \in Int
      OBVIOUS
    <3>2. Cardinality((a + 1)..b) = IF a + 1 > b THEN 0 ELSE b - (a + 1) + 1
      BY <3>1, FS_Interval
    <3>. QED
      BY <3>2
  <2>5. Cardinality(OwnSet(c, a) \cup ((a + 1)..b)) =
          Cardinality(OwnSet(c, a)) + Cardinality((a + 1)..b) - Cardinality({})
    BY <1>1, <2>3, FS_Union
  <2>6. Cardinality(OwnSet(c, b)) = n + (b - a)
    BY <1>2, <2>2, <2>4, <2>5, FS_EmptySet
  <2>. QED
    BY <1>2, <1>4, <2>6
<1>5. CASE type # "ALIEN"
  <2>1. ASSUME NEW k \in (a + 1)..b PROVE ~c[k]
    <3>1. c[k] = (type = "ALIEN")
      BY Zenon DEF Uniform
    <3>. QED
      BY <1>5, <3>1, Zenon
  <2>2. OwnSet(c, b) = OwnSet(c, a)
    BY <1>3, <2>1, Zenon DEF OwnSet
  <2>3. Cardinality(OwnSet(c, b)) = n + 0
    BY <1>2, <2>2
  <2>. QED
    BY <1>2, <1>5, <2>3
<1>. QED
  BY <1>4, <1>5

\* The smaller of two numbers.
LEMMA MinOfTwo ==
  ASSUME NEW a \in Nat, NEW b \in Nat
  PROVE  Min({a, b}) = IF a <= b THEN a ELSE b
<1>1. \E x \in {a, b} : \A y \in {a, b} : x <= y
  OBVIOUS
<1>2. Min({a, b}) \in {a, b} /\ \A y \in {a, b} : Min({a, b}) <= y
  BY <1>1, Zenon DEF Min
<1>. QED
  BY <1>2

\* Offsets that grow along a queue, with the weights w between them, count
\* the application's bytes if each stretch is all its own or not at all.
Stretches(c, v, x, w, q) ==
  \A k \in 1..v :
    /\ x[k - 1] <= x[k]
    /\ w[k] = IF q[k].type = "ALIEN" THEN x[k] - x[k - 1] ELSE 0
    /\ Uniform(c, x[k - 1], x[k], q[k].type)

\* The sum of such weights is that count.
LEMMA OwnStretches ==
  ASSUME NEW c, NEW v \in Nat, NEW x \in [0..v -> Nat], NEW w \in Weights(v), NEW q,
         Stretches(c, v, x, w, q)
  PROVE  Cardinality(OwnSet(c, x[0])) + SumTo(w, v) = Cardinality(OwnSet(c, x[v]))
<1>. DEFINE P == {k \in Nat : k <= v =>
                    Cardinality(OwnSet(c, x[0])) + SumTo(w, k) = Cardinality(OwnSet(c, x[k]))}
<1>1. 0 \in P
  <2>1. x[0] \in Nat
    OBVIOUS
  <2>2. Cardinality(OwnSet(c, x[0])) \in Nat
    BY <2>1, OwnIsNat
  <2>3. SumTo(w, 0) = 0
    BY SumStep
  <2>. QED
    BY <2>2, <2>3
<1>2. ASSUME NEW k \in P PROVE k + 1 \in P
  <2>1. k \in Nat
    OBVIOUS
  <2>2. ASSUME k + 1 <= v
        PROVE  Cardinality(OwnSet(c, x[0])) + SumTo(w, k + 1) = Cardinality(OwnSet(c, x[k + 1]))
    <3>1. PICK l \in Nat : l = k + 1 /\ l - 1 = k /\ l \in 1..v /\ k < v /\ k \in 0..v
      BY <2>1, <2>2
    <3>2. PICK a \in Nat, b \in Nat, type \in {q[l].type} : a = x[k] /\ b = x[l] /\ type = q[l].type
      <4>1. x[k] \in Nat /\ x[l] \in Nat
        BY <3>1
      <4>. QED
        BY <4>1, Zenon
    <3>3. /\ a <= b
          /\ w[l] = (IF type = "ALIEN" THEN b - a ELSE 0)
          /\ Uniform(c, a, b, type)
      BY <3>1, <3>2, Zenon DEF Stretches
    <3>4. /\ Cardinality(OwnSet(c, a)) \in Nat
          /\ Cardinality(OwnSet(c, b)) =
               Cardinality(OwnSet(c, a)) + (IF type = "ALIEN" THEN b - a ELSE 0)
      BY <3>3, OwnStep
    <3>5. SumTo(w, k + 1) = SumTo(w, k) + w[l] /\ SumTo(w, k) \in Nat /\ w[l] \in Nat
      <4>1. SumTo(w, k) \in Nat /\ SumTo(w, k + 1) = SumTo(w, k) + w[k + 1]
        BY <2>1, <3>1, SumStep
      <4>2. w[l] \in Nat
        BY <3>1 DEF Weights
      <4>. QED
        BY <3>1, <4>1, <4>2
    <3>6. Cardinality(OwnSet(c, x[0])) \in Nat
      <4>1. x[0] \in Nat
        OBVIOUS
      <4>. QED
        BY <4>1, OwnIsNat
    <3>7. PICK o \in Nat, m \in Nat, n \in Nat, z \in Nat :
            /\ o = Cardinality(OwnSet(c, x[0])) /\ m = SumTo(w, k)
            /\ n = Cardinality(OwnSet(c, a)) /\ z = w[l]
      BY <3>4, <3>5, <3>6
    <3>8. o + m = n
      <4>1. k <= v
        BY <3>1
      <4>2. Cardinality(OwnSet(c, x[0])) + SumTo(w, k) = Cardinality(OwnSet(c, x[k]))
        BY <4>1, Zenon
      <4>. QED
        BY <3>2, <3>7, <4>2, Zenon
    <3>9. Cardinality(OwnSet(c, b)) = n + z /\ SumTo(w, k + 1) = m + z
      BY <3>3, <3>4, <3>5, <3>7, Zenon
    <3>10. o + (m + z) = n + z
      BY <3>8
    <3>. QED
      BY <3>1, <3>2, <3>7, <3>9, <3>10, Zenon
  <2>. QED
    BY <2>1, <2>2
<1>3. P = Nat
  <2>1. P \subseteq Nat
    OBVIOUS
  <2>. HIDE DEF P
  <2>. QED
    BY <1>1, <1>2, <2>1, InductionOverSet
<1>4. v \in P /\ v <= v
  <2>. HIDE DEF P
  <2>. QED
    BY <1>3
<1>. QED
  BY <1>4, Zenon

\* An acknowledgment reports exactly the application's bytes between the
\* last offset and its own.
LEMMA AckedNowExact ==
  ASSUME NEW t \in Queue, QueueInv(t), NEW a \in Nat, a + t.unsent = Len(t.content),
         t.ackBase <= t.ackOff, NEW offset \in t.ackOff..a,
         t.outq # <<>> => t.ackOff <= t.ackBase + Held(t.outq[1])
  PROVE  /\ AckedNow(t, offset) \in Nat
         /\ Cardinality(OwnSet(t.content, t.ackOff)) + AckedNow(t, offset) =
              Cardinality(OwnSet(t.content, offset))
<1>1. PICK q \in Bufs, i \in Nat, base \in Nat, y \in Nat, c \in Seq(BOOLEAN), off \in Nat :
        /\ q = t.outq /\ i = t.idx /\ base = t.ackBase /\ y = t.unsent /\ c = t.content
        /\ off = t.ackOff /\ Shape(q, i, base, y, c)
  <2>1. t.idx \in Nat /\ t.ackBase \in Nat /\ t.unsent \in Nat /\ t.content \in Seq(BOOLEAN)
        /\ t.ackOff \in Nat
    BY QueueFields
  <2>. QED
    BY <2>1, ZenonT(60) DEF QueueInv, Shape
<1>2. PICK m \in Nat : m = Len(q) /\ DOMAIN q = 1..m
  BY LensAreNat
<1>3. PICK l \in Nat : l = Len(c)
  OBVIOUS
<1>4. PICK h : /\ h = [k \in 0..m |-> SumTo(HeldLens(q), k)] /\ h \in [0..m -> Nat]
               /\ h[0] = 0 /\ \A k \in 0..m : h[k] = HeldUpTo(t, k)
  <2>1. \A k \in 0..m : SumTo(HeldLens(q), k) \in Nat
    BY <1>2, LensUpTo
  <2>2. SumTo(HeldLens(q), 0) = 0
    BY <1>2, LensUpTo
  <2>3. \A k \in 0..m : SumTo(HeldLens(q), k) = HeldUpTo(t, k)
    BY <1>1, Zenon DEF HeldUpTo, HeldLens
  <2>4. PICK h : h = [k \in 0..m |-> SumTo(HeldLens(q), k)]
    OBVIOUS
  <2>5. h \in [0..m -> Nat] /\ \A k \in 0..m : h[k] = SumTo(HeldLens(q), k)
    BY <2>1, <2>4
  <2>6. h[0] = 0
    BY <2>2, <2>5
  <2>. QED
    BY <2>3, <2>4, <2>5, <2>6, Zenon
<1>5. /\ offset \in Nat /\ base <= off /\ off <= offset /\ offset <= l /\ i <= m
      /\ base + h[m] = l
  <2>1. i <= m /\ base + SumTo(HeldLens(q), m) = Len(c)
    BY <1>1, <1>2, Zenon DEF Shape
  <2>2. h[m] = SumTo(HeldLens(q), m)
    BY <1>4
  <2>. QED
    BY <1>1, <1>3, <2>1, <2>2
<1>6. \A k \in 1..m : h[k] = h[k - 1] + Held(q[k]) /\ Held(q[k]) \in Nat
  <2>1. \A k \in 1..m : SumTo(HeldLens(q), k) = SumTo(HeldLens(q), k - 1) + Held(q[k]) /\ Held(q[k]) \in Nat
    BY <1>2, LensUpTo
  <2>2. \A k \in 1..m : k \in 0..m /\ k - 1 \in 0..m
    OBVIOUS
  <2>. QED
    BY <1>4, <2>1, <2>2
<1>7. \A j, k \in 0..m : j <= k => h[j] <= h[k]
  <2>1. ASSUME NEW j \in 0..m, NEW k \in 0..m, j <= k
        PROVE  h[j] <= h[k]
    <3>1. HeldLens(q) \in Weights(m) /\ j \in Nat /\ k \in Nat /\ k <= m
      BY <1>2, LensAreNat
    <3>2. SumTo(HeldLens(q), j) <= SumTo(HeldLens(q), k)
      BY <2>1, <3>1, SumMonotone
    <3>. QED
      BY <1>4, <3>2
  <2>. QED
    BY <2>1
<1>8. PICK p \in 0..i : /\ p = Popped(t, offset) /\ base + h[p] <= offset
                        /\ p < m => offset <= base + h[p + 1]
  <2>1. PICK p, u : p = Popped(t, offset) /\ u = UpdateAckOffset(t, offset)
    OBVIOUS
  <2>2. /\ p \in 0..t.idx /\ u \in Queue
        /\ Suffix(u.outq, t.outq, p)
        /\ u.ackBase <= offset
        /\ u.outq # <<>> => offset <= u.ackBase + Held(u.outq[1])
    BY <2>1, AckOffsetGood
  <2>3. u.ackBase = base + h[p]
    <3>1. u.ackBase = t.ackBase + HeldUpTo(t, p)
      BY <2>1 DEF UpdateAckOffset, Queue
    <3>. QED
      BY <1>1, <1>4, <1>5, <2>2, <3>1
  <2>4. ASSUME p < m PROVE offset <= base + h[p + 1]
    <3>1. PICK r : r = u.outq /\ Suffix(r, q, p)
      BY <1>1, <2>2
    <3>2. Kept(r, q, i, base, y, c, p)
      BY <1>1, <2>2, <3>1, SuffixShape
    <3>3. r \in Seq(Buf) /\ Len(r) = m - p /\ \A k \in 1..Len(r) : r[k] = q[p + k]
      BY <1>2, <3>2, Zenon DEF Kept
    <3>4. r # <<>> /\ r[1] = q[p + 1]
      BY <1>1, <1>2, <2>2, <2>4, <3>3
    <3>5. h[p + 1] = h[p] + Held(q[p + 1]) /\ Held(q[p + 1]) \in Nat /\ h[p] \in Nat
      <4>1. PICK k \in 1..m : k = p + 1 /\ k - 1 = p /\ p \in 0..m
        BY <1>1, <1>2, <2>2, <2>4, SMTT(60)
      <4>. QED
        BY <1>4, <1>6, <4>1
    <3>6. PICK x \in Nat, z \in Nat : x = Held(q[p + 1]) /\ z = h[p]
      BY <3>5
    <3>7. offset <= (base + z) + x
      BY <2>2, <2>3, <3>1, <3>4, <3>6, Zenon
    <3>8. offset <= base + (z + x)
      BY <1>5, <3>7
    <3>. QED
      BY <3>5, <3>6, <3>8, Zenon
  <2>. QED
    BY <1>1, <1>5, <2>1, <2>2, <2>3, <2>4
<1>9. PICK v \in Nat : v = Min({p + 1, m}) /\ v <= m /\ v <= p + 1 /\ (v = p + 1 \/ (v = m /\ p = m))
  <2>1. p + 1 \in Nat /\ p <= m
    BY <1>5
  <2>2. Min({p + 1, m}) = IF p + 1 <= m THEN p + 1 ELSE m
    BY <2>1, MinOfTwo
  <2>. QED
    BY <1>5, <2>1, <2>2
<1>. DEFINE x == [k \in 0..v |-> IF k = 0 THEN off ELSE IF k <= p THEN base + h[k] ELSE offset]
<1>10. x \in [0..v -> Nat] /\ x[0] = off /\ \A k \in 1..v : x[k] = IF k <= p THEN base + h[k] ELSE offset
  <2>1. \A k \in 0..v : k <= p => base + h[k] \in Nat
    BY <1>4, <1>9
  <2>. QED
    BY <1>5, <2>1
<1>. DEFINE from(k) == IF k = 1 THEN t.ackOff ELSE t.ackBase + HeldUpTo(t, k - 1)
            to(k) == Min({offset, t.ackBase + HeldUpTo(t, k)})
            part(k) == IF t.outq[k].type = "ALIEN" /\ from(k) < offset THEN to(k) - from(k) ELSE 0
            w == [k \in 1..v |-> part(k)]
<1>11. AckedNow(t, offset) = SumTo(w, v)
  BY <1>1, <1>2, <1>8, <1>9 DEF AckedNow
<1>. HIDE DEF x
<1>12. ASSUME NEW k \in 1..v
       PROVE  /\ from(k) = x[k - 1] /\ to(k) = x[k] /\ x[k - 1] \in Nat /\ x[k] \in Nat
              /\ x[k - 1] <= x[k] /\ x[k - 1] <= offset
              /\ base + h[k - 1] <= x[k - 1] /\ x[k] <= base + h[k]
  <2>1. PICK j \in 0..m : j = k - 1 /\ k = j + 1 /\ k \in 1..m /\ k \in 0..m /\ j <= p /\ j \in 0..v
    BY <1>9
  <2>2. PICK g \in Nat, f \in Nat, b \in Nat :
          /\ g = h[j] /\ f = h[k] /\ b = h[p] /\ g <= f /\ (j <= p => g <= b) /\ (k <= p => f <= b)
          /\ (k = p + 1 => offset <= base + f) /\ base + b <= offset
    <3>1. p \in 0..m /\ j \in 0..m /\ k \in 0..m /\ j <= k
      BY <1>5, <2>1
    <3>2. h[j] \in Nat /\ h[k] \in Nat /\ h[p] \in Nat
      BY <1>4, <3>1
    <3>3. h[j] <= h[k] /\ (j <= p => h[j] <= h[p]) /\ (k <= p => h[k] <= h[p])
      BY <1>7, <3>1
    <3>4. k = p + 1 => offset <= base + h[k]
      BY <1>8, <2>1
    <3>. QED
      BY <1>8, <3>2, <3>3, <3>4, Zenon
  <2>3. from(k) = IF k = 1 THEN off ELSE base + g
    BY <1>1, <1>4, <2>1, <2>2, Zenon
  <2>4. to(k) = IF k <= p THEN base + f ELSE offset
    <3>1. to(k) = Min({offset, base + f})
      BY <1>1, <1>4, <2>1, <2>2, Zenon
    <3>2. Min({offset, base + f}) = IF offset <= base + f THEN offset ELSE base + f
      BY <1>5, MinOfTwo
    <3>3. CASE k <= p
      <4>1. base + f <= offset
        BY <2>2, <3>3
      <4>. QED
        BY <1>5, <3>1, <3>2, <3>3, <4>1
    <3>4. CASE k = p + 1
      BY <1>5, <2>2, <3>1, <3>2, <3>4
    <3>. QED
      BY <2>1, <3>3, <3>4
  <2>5. x[k] = IF k <= p THEN base + f ELSE offset
    BY <1>10, <2>2, Zenon
  <2>6. x[j] = IF k = 1 THEN off ELSE base + g
    <3>1. CASE k = 1
      BY <1>10, <2>1, <3>1
    <3>2. CASE k # 1
      <4>1. j \in 1..v /\ j <= p
        BY <2>1, <3>2
      <4>. QED
        BY <1>10, <2>2, <3>2, <4>1
    <3>. QED
      BY <3>1, <3>2
  <2>7. k = 1 => g = 0 /\ off <= base + f
    <3>1. ASSUME k = 1 PROVE g = 0 /\ off <= base + f
      <4>1. j = 0 /\ 1 \in 1..m /\ g = 0
        BY <1>4, <2>1, <2>2, <3>1
      <4>2. f = Held(q[1]) /\ q # <<>>
        BY <1>2, <1>6, <2>1, <2>2, <3>1, <4>1
      <4>. QED
        BY <1>1, <4>1, <4>2
    <3>. QED
      BY <3>1
  <2>8. x[j] <= offset /\ x[j] <= x[k] /\ base + g <= x[j] /\ x[k] <= base + f
        /\ x[j] \in Nat /\ x[k] \in Nat
    <3>1. PICK xj, xk : xj = x[j] /\ xk = x[k]
      OBVIOUS
    <3>2. xk = (IF k <= p THEN base + f ELSE offset) /\ xj = (IF k = 1 THEN off ELSE base + g)
      BY <2>5, <2>6, <3>1, Zenon
    <3>3. xj \in Nat /\ xk \in Nat
      <4>1. offset \in Nat /\ base + f \in Nat /\ base + g \in Nat
        BY <1>5
      <4>. QED
        BY <3>2, <4>1
    <3>4. /\ g <= f /\ g <= b /\ (k <= p => f <= b) /\ base + b <= offset
          /\ (k = p + 1 => offset <= base + f) /\ (k <= p \/ k = p + 1)
      BY <2>1, <2>2
    <3>5. xj <= offset /\ base + g <= xj /\ xk <= base + f /\ xj <= xk
      BY <1>5, <2>7, <3>2, <3>4
    <3>. QED
      BY <3>1, <3>3, <3>5, Zenon
  <2>. QED
    BY <2>1, <2>2, <2>3, <2>4, <2>5, <2>6, <2>8, Zenon
<1>13. ASSUME NEW k \in 1..v
       PROVE  /\ w[k] \in Nat
              /\ w[k] = IF q[k].type = "ALIEN" THEN x[k] - x[k - 1] ELSE 0
  <2>1. PICK a0 \in Nat, b0 \in Nat : a0 = x[k - 1] /\ b0 = x[k] /\ a0 <= b0 /\ a0 <= offset
    BY <1>12, Zenon
  <2>2. w[k] = IF q[k].type = "ALIEN" /\ a0 < offset THEN b0 - a0 ELSE 0
    <3>1. w[k] = IF t.outq[k].type = "ALIEN" /\ from(k) < offset THEN to(k) - from(k) ELSE 0
      BY Zenon
    <3>. HIDE DEF from, to, w
    <3>2. from(k) = a0 /\ to(k) = b0
      BY <1>12, <2>1, Zenon
    <3>. QED
      BY <1>1, <3>1, <3>2, Zenon
  <2>3. a0 = offset => b0 = a0
    <3>1. b0 <= offset
      <4>1. PICK f \in Nat, b \in Nat : f = h[k] /\ b = h[p] /\ base + b <= offset /\ (k <= p => f <= b)
        <5>1. p \in 0..m /\ k \in 0..m
          BY <1>5, <1>9
        <5>. QED
          BY <1>4, <1>7, <1>8, <5>1
      <4>2. b0 = IF k <= p THEN base + f ELSE offset
        BY <1>10, <2>1, <4>1, Zenon
      <4>. QED
        BY <1>5, <4>1, <4>2
    <3>. QED
      BY <1>5, <2>1, <3>1
  <2>4. b0 - a0 \in Nat /\ (a0 = offset => b0 - a0 = 0) /\ (a0 < offset \/ a0 = offset)
    BY <1>5, <2>1, <2>3
  <2>. HIDE DEF w
  <2>5. w[k] = IF q[k].type = "ALIEN" THEN b0 - a0 ELSE 0
    BY <2>2, <2>4
  <2>6. w[k] \in Nat
    BY <2>4, <2>5
  <2>. QED
    BY <2>1, <2>5, <2>6, Zenon
<1>14. w \in Weights(v)
  <2>1. w = [k \in 1..v |-> w[k]]
    OBVIOUS
  <2>. HIDE DEF w
  <2>2. \A k \in 1..v : w[k] \in Nat
    BY <1>13, Zenon
  <2>. QED
    BY <2>1, <2>2 DEF Weights
<1>15. Stretches(c, v, x, w, q)
  <2>1. ASSUME NEW k \in 1..v
        PROVE  Uniform(c, x[k - 1], x[k], q[k].type)
    <3>1. PICK b0 \in Nat, a0 \in Nat, g \in Nat, f \in Nat :
            /\ a0 = x[k - 1] /\ b0 = x[k] /\ g = h[k - 1] /\ f = h[k]
            /\ base + g <= a0 /\ b0 <= base + f
            /\ g = SumTo(HeldLens(q), k - 1) /\ f = SumTo(HeldLens(q), k)
      <4>1. k - 1 \in 0..m /\ k \in 0..m
        BY <1>9
      <4>2. h[k - 1] \in Nat /\ h[k] \in Nat /\ h[k - 1] = SumTo(HeldLens(q), k - 1)
            /\ h[k] = SumTo(HeldLens(q), k)
        BY <1>4, <4>1
      <4>. QED
        BY <1>12, <4>2, Zenon
    <3>2. \A j \in (g + 1)..f : c[base + j] = (q[k].type = "ALIEN")
      <4>1. k \in 1..m
        BY <1>9
      <4>. QED
        BY <1>1, <1>2, <3>1, <4>1, Zenon DEF Shape
    <3>3. ASSUME NEW n \in (a0 + 1)..b0 PROVE c[n] = (q[k].type = "ALIEN")
      <4>1. PICK j \in (g + 1)..f : base + j = n
        <5>1. base + g <= a0 /\ b0 <= base + f /\ n \in Nat /\ a0 + 1 <= n /\ n <= b0
          BY <3>1
        <5>2. n - base \in Nat /\ g + 1 <= n - base /\ n - base <= f /\ base + (n - base) = n
          BY <5>1
        <5>. QED
          BY <5>2
      <4>. QED
        BY <3>2, <4>1, Zenon
    <3>. QED
      BY <3>1, <3>3, Zenon DEF Uniform
  <2>. HIDE DEF w, from, to, part
  <2>. QED
    BY <1>12, <1>13, <2>1, Zenon DEF Stretches
<1>16. x[v] = offset
  <2>1. CASE v = p + 1
    <3>1. v \in 1..v /\ ~(v <= p)
      BY <2>1
    <3>. QED
      BY <1>10, <3>1
  <2>2. CASE v = m /\ p = m
    <3>1. offset = base + h[m] /\ h[m] \in Nat
      BY <1>4, <1>5, <1>8, <2>2
    <3>2. CASE m = 0
      BY <1>4, <1>5, <1>10, <2>2, <3>1, <3>2
    <3>3. CASE m # 0
      <4>1. m \in 1..v /\ m <= p
        BY <2>2, <3>3
      <4>. QED
        BY <1>10, <2>2, <3>1, <4>1
    <3>. QED
      BY <3>2, <3>3
  <2>. QED
    BY <1>9, <2>1, <2>2
<1>. HIDE DEF w, from, to, part
<1>17. Cardinality(OwnSet(c, x[0])) + SumTo(w, v) = Cardinality(OwnSet(c, x[v]))
  BY <1>10, <1>14, <1>15, OwnStretches
<1>18. SumTo(w, v) \in Nat
  BY <1>14, SumStep
<1>. QED
  BY <1>1, <1>10, <1>11, <1>16, <1>17, <1>18, Zenon
-----------------------------------------------------------------------------
(* What every stream keeps *)

\* Nothing is left to write of a queue that is written.
LEMMA DoneIsSent ==
  ASSUME NEW t \in Queue, QueueInv(t), WriteDone(t)
  PROVE  t.unsent = 0
<1>1. PICK q \in Bufs, i \in Nat : q = t.outq /\ i = t.idx
  BY QueueFields, Zenon DEF QueueInv, Shape
<1>2. PICK m \in Nat : m = Len(q)
  BY LensAreNat
<1>3. i = m /\ t.unsent = SumTo(BufLens(q), m) /\ (\A k \in 1..m : k <= i => q[k].pos = q[k].last)
  <2>1. /\ i <= m /\ t.unsent = SumTo(BufLens(q), m)
        /\ \A k \in 1..m : k <= i => q[k].pos = q[k].last
    BY <1>1, <1>2, Zenon DEF QueueInv, Shape
  <2>2. i >= m
    BY <1>1, <1>2 DEF WriteDone
  <2>. QED
    BY <2>1, <2>2
<1>4. SumTo(BufLens(q), m) = 0
  BY <1>2, <1>3, WrittenBefore
<1>. QED
  BY <1>3, <1>4

\* Writing keeps it.
LEMMA WrittenInv ==
  ASSUME NEW t \in Queue, NEW a \in Nat, TxInv(t, a), NEW u, Written(t, u)
  PROVE  u \in Queue /\ TxInv(u, a)
<1>1. u \in Queue /\ QueueInv(u) /\ QueueInv(t) /\ u.ackBase = t.ackBase /\ u.ackOff = t.ackOff
  BY Zenon DEF Written, TxInv
<1>2. PICK y \in Nat, y1 \in Nat, l \in Nat, l1 \in Nat, base \in Nat, off \in Nat :
        /\ y = t.unsent /\ y1 = u.unsent /\ l = Len(t.content) /\ l1 = Len(u.content)
        /\ base = t.ackBase /\ off = t.ackOff
  BY <1>1, QueueFields
<1>3. /\ base <= off /\ off <= a /\ a + y = l /\ y <= y1 /\ l1 - l = y1 - y
  BY <1>2, Zenon DEF Written, TxInv
<1>4. a + y1 = l1
  BY <1>3
<1>5. ASSUME u.outq # <<>> PROVE off <= base + Held(u.outq[1])
  <2>1. PICK r \in Bufs : r = u.outq
    BY <1>1, Zenon DEF QueueInv, Shape
  <2>2. PICK e \in Nat : e = Held(r[1])
    BY <1>5, <2>1, FirstHeld
  <2>3. CASE t.outq # <<>>
    <3>1. PICK q \in Bufs : q = t.outq
      BY <1>1, Zenon DEF QueueInv, Shape
    <3>2. PICK f \in Nat : f = Held(q[1])
      BY <2>3, <3>1, FirstHeld
    <3>3. off <= base + f /\ f <= e
      BY <1>2, <2>1, <2>2, <2>3, <3>1, <3>2, Zenon DEF TxInv, Written
    <3>. QED
      BY <2>1, <2>2, <3>3
  <2>4. CASE t.outq = <<>>
    <3>1. PICK q \in Bufs : q = t.outq /\ Len(q) = 0 /\ base + SumTo(HeldLens(q), Len(q)) = l
      <4>1. PICK q \in Bufs : q = t.outq
        BY <1>1, Zenon DEF QueueInv, Shape
      <4>2. base + SumTo(HeldLens(q), Len(q)) = l
        BY <1>1, <1>2, <4>1, Zenon DEF QueueInv, Shape
      <4>. QED
        BY <2>4, <4>1, <4>2
    <3>2. SumTo(HeldLens(q), 0) = 0
      BY LensUpTo
    <3>3. base = l
      BY <3>1, <3>2
    <3>4. off <= base + e
      BY <1>3, <3>3
    <3>. QED
      BY <2>1, <2>2, <3>4
  <2>. QED
    BY <2>3, <2>4
<1>. QED
  BY <1>1, <1>2, <1>3, <1>4, <1>5, Zenon DEF TxInv

\* What was written earlier is the application's or not, as before.
LEMMA WrittenOwn ==
  ASSUME NEW t \in Queue, NEW a \in Nat, TxInv(t, a), NEW u, Written(t, u)
  PROVE  OwnSet(u.content, u.ackOff) = OwnSet(t.content, t.ackOff)
<1>1. PICK y \in Nat, l \in Nat, off \in Nat :
        /\ y = t.unsent /\ l = Len(t.content) /\ off = t.ackOff /\ off = u.ackOff
  BY QueueFields DEF Written
<1>2. off <= a /\ a + y = l
  BY <1>1, Zenon DEF TxInv
<1>3. \A k \in 1..off : k \in 1..l
  BY <1>2
<1>4. \A k \in 1..off : u.content[k] = t.content[k]
  BY <1>1, <1>3, Zenon DEF Written
<1>. QED
  BY <1>1, <1>4, Zenon DEF OwnSet

\* Acceptance of n bytes keeps it.
LEMMA AcceptedInv ==
  ASSUME NEW t \in Queue, NEW a \in Nat, TxInv(t, a), NEW n \in 0..t.unsent
  PROVE  LET u == AddOutqOffset(t, n)
         IN /\ u \in Queue /\ TxInv(u, a + n) /\ a + n \in Nat /\ u.unsent = t.unsent - n
            /\ u.content = t.content /\ u.ackOff = t.ackOff
            /\ (n = t.unsent => WriteDone(u) /\ u.unsent = 0) /\ (n < t.unsent => ~WriteDone(u))
<1>1. QueueInv(t)
  BY Zenon DEF TxInv
<1>2. PICK u : u = AddOutqOffset(t, n)
  OBVIOUS
<1>3. /\ u \in Queue /\ QueueInv(u)
      /\ u.unsent = t.unsent - n /\ u.content = t.content
      /\ u.ackBase = t.ackBase /\ u.ackOff = t.ackOff
      /\ Len(u.outq) = Len(t.outq)
      /\ \A k \in 1..Len(t.outq) :
           /\ u.outq[k].begin = t.outq[k].begin /\ u.outq[k].last = t.outq[k].last
      /\ (n = t.unsent => WriteDone(u)) /\ (n < t.unsent => ~WriteDone(u))
  BY <1>1, <1>2, AddOutqOffsetGood
<1>4. PICK y \in Nat, l \in Nat, base \in Nat, off \in Nat :
        y = t.unsent /\ l = Len(t.content) /\ base = t.ackBase /\ off = t.ackOff
  BY QueueFields
<1>5. base <= off /\ off <= a /\ a + y = l /\ n \in 0..y
  BY <1>4, Zenon DEF TxInv
<1>6. off <= a + n /\ (a + n) + (y - n) = l /\ a + n \in Nat /\ (n = y => y - n = 0)
  BY <1>5
<1>7. ASSUME u.outq # <<>> PROVE off <= base + Held(u.outq[1])
  <2>1. PICK q \in Bufs : q = t.outq
    BY <1>1, Zenon DEF QueueInv, Shape
  <2>2. PICK r \in Bufs : r = u.outq
    BY <1>3, Zenon DEF QueueInv, Shape
  <2>3. 1 \in 1..Len(r) /\ Len(q) = Len(r)
    BY <1>3, <1>7, <2>1, <2>2, FirstHeld
  <2>4. q # <<>>
    BY <2>3
  <2>5. Held(r[1]) = Held(q[1])
    BY <1>3, <2>1, <2>2, <2>3, Zenon DEF Held
  <2>. QED
    BY <1>4, <2>1, <2>2, <2>4, <2>5, Zenon DEF TxInv
<1>8. TxInv(u, a + n)
  BY <1>3, <1>4, <1>5, <1>6, <1>7, Zenon DEF TxInv
<1>. QED
  BY <1>2, <1>3, <1>4, <1>6, <1>8, Zenon

\* An acknowledgment keeps it.
LEMMA AckedInv ==
  ASSUME NEW t \in Queue, NEW a \in Nat, TxInv(t, a), NEW offset \in t.ackOff..a
  PROVE  LET u == UpdateAckOffset(t, offset)
         IN /\ u \in Queue /\ TxInv(u, a) /\ u.unsent = t.unsent /\ u.content = t.content
            /\ u.ackOff = offset /\ (WriteDone(t) <=> WriteDone(u))
            /\ AckedNow(t, offset) \in Nat
            /\ Cardinality(OwnSet(t.content, t.ackOff)) + AckedNow(t, offset) =
                 Cardinality(OwnSet(t.content, offset))
<1>1. /\ QueueInv(t) /\ a + t.unsent = Len(t.content) /\ t.ackBase <= t.ackOff
      /\ (t.outq # <<>> => t.ackOff <= t.ackBase + Held(t.outq[1]))
  BY Zenon DEF TxInv
<1>2. PICK u : u = UpdateAckOffset(t, offset)
  OBVIOUS
<1>3. /\ u \in Queue /\ QueueInv(u) /\ u.unsent = t.unsent /\ u.content = t.content
      /\ u.ackBase <= offset /\ u.ackOff = offset
      /\ (u.outq # <<>> => offset <= u.ackBase + Held(u.outq[1]))
      /\ (WriteDone(t) <=> WriteDone(u))
  BY <1>1, <1>2, AckOffsetGood
<1>4. offset <= a
  BY QueueFields
<1>5. TxInv(u, a)
  BY <1>1, <1>3, <1>4, Zenon DEF TxInv
<1>6. /\ AckedNow(t, offset) \in Nat
      /\ Cardinality(OwnSet(t.content, t.ackOff)) + AckedNow(t, offset) =
           Cardinality(OwnSet(t.content, offset))
  BY <1>1, AckedNowExact
<1>. QED
  BY <1>2, <1>3, <1>5, <1>6, Zenon

\* What a call offers is what is left, up to some position, and all of it
\* only if that position is the end.
LEMMA OfferedGood ==
  ASSUME NEW t \in Queue, QueueInv(t)
  PROVE  /\ UnsentFrom(t, OfferEnd(t)) \in 0..t.unsent
         /\ OfferEnd(t) = Len(t.outq) => UnsentFrom(t, OfferEnd(t)) = t.unsent
         /\ OfferEnd(t) # Len(t.outq) => UnsentFrom(t, OfferEnd(t)) < t.unsent
<1>1. PICK q \in Bufs, i \in Nat : q = t.outq /\ i = t.idx
  BY QueueFields, Zenon DEF QueueInv, Shape
<1>2. PICK m \in Nat : m = Len(q)
  BY LensAreNat
<1>3. /\ i <= m /\ t.unsent = SumTo(BufLens(q), m)
      /\ \A k \in 1..m : /\ k <= i => q[k].pos = q[k].last
                         /\ k > i + 1 => q[k].pos = q[k].begin /\ q[k].pos < q[k].last
  BY <1>1, <1>2, Zenon DEF QueueInv, Shape
<1>4. SumTo(BufLens(q), i) = 0
  <2>1. \A k \in 1..m : k <= i => q[k].pos = q[k].last
    BY <1>3
  <2>. QED
    BY <1>2, <1>3, <2>1, WrittenBefore
<1>5. PICK y \in Nat : y = t.unsent
  BY QueueFields
<1>6. ASSUME NEW e \in i..m
      PROVE  UnsentFrom(t, e) = SumTo(BufLens(q), e) /\ UnsentFrom(t, e) \in 0..y
  <2>1. UnsentFrom(t, e) = SumTo(BufLens(q), e) - SumTo(BufLens(q), i)
    BY <1>1, Zenon DEF UnsentFrom, LenUpTo, BufLens
  <2>2. PICK x \in Nat : x = SumTo(BufLens(q), e)
    <3>1. e \in Nat
      OBVIOUS
    <3>. QED
      BY <3>1, LensUpTo
  <2>3. x <= y
    <3>1. BufLens(q) \in Weights(m) /\ e \in Nat /\ e <= m
      BY <1>2, LensAreNat
    <3>2. SumTo(BufLens(q), e) <= SumTo(BufLens(q), m)
      BY <3>1, SumMonotone
    <3>. QED
      BY <1>3, <1>5, <2>2, <3>2, Zenon
  <2>4. x - 0 = x /\ x \in 0..y
    BY <2>3
  <2>. QED
    BY <1>4, <2>1, <2>2, <2>4
<1>. DEFINE full == {k \in t.idx..Len(t.outq) :
                       Quantify((t.idx + 1)..k, LAMBDA n : BufLen(t.outq[n]) > 0) = VecCnt}
<1>7. OfferEnd(t) = IF full = {} THEN Len(t.outq) ELSE Min(full)
  BY DEF OfferEnd
<1>8. ASSUME NEW k \in full PROVE k \in (i + 1)..m
  <2>1. k \in i..m /\ Quantify((t.idx + 1)..k, LAMBDA n : BufLen(t.outq[n]) > 0) = VecCnt
    BY <1>1, <1>2, Zenon
  <2>2. ASSUME k = i PROVE FALSE
    <3>1. (t.idx + 1)..k = {}
      BY <1>1, <2>2
    <3>2. {n \in (t.idx + 1)..k : BufLen(t.outq[n]) > 0} = {}
      BY <3>1
    <3>3. Quantify((t.idx + 1)..k, LAMBDA n : BufLen(t.outq[n]) > 0) = Cardinality({})
      BY <3>2, Zenon DEF Quantify
    <3>4. VecCnt # 0
      BY OutQueueAssumption
    <3>. QED
      BY <2>1, <3>3, <3>4, FS_EmptySet
  <2>. QED
    BY <2>1, <2>2
<1>. HIDE DEF full
<1>9. CASE full = {}
  <2>1. OfferEnd(t) = m /\ m \in i..m
    BY <1>1, <1>2, <1>3, <1>7, <1>9
  <2>2. UnsentFrom(t, m) = y /\ UnsentFrom(t, m) \in 0..y
    BY <1>3, <1>5, <1>6, <2>1
  <2>. QED
    BY <1>1, <1>2, <1>5, <2>1, <2>2, Zenon
<1>10. CASE full # {}
  <2>1. PICK e \in full : e = Min(full)
    <3>1. full \in SUBSET Nat
      BY <1>8
    <3>2. \E n \in full : \A k \in full : n <= k
      BY <1>10, <3>1, LeastNat
    <3>. QED
      BY <3>2, Zenon DEF Min
  <2>2. e \in (i + 1)..m /\ e \in i..m /\ OfferEnd(t) = e
    BY <1>7, <1>8, <1>10, <2>1
  <2>3. UnsentFrom(t, e) = SumTo(BufLens(q), e) /\ UnsentFrom(t, e) \in 0..y
    BY <1>6, <2>2
  <2>4. e = m => UnsentFrom(t, e) = y
    BY <1>3, <1>5, <2>3
  <2>5. ASSUME e # m PROVE UnsentFrom(t, e) < y
    <3>1. PICK k \in 1..m : k = e + 1 /\ k > i + 1 /\ k - 1 = e /\ k <= m
      BY <2>2, <2>5
    <3>2. BufLen(q[k]) \in Nat /\ BufLen(q[k]) > 0
      <4>1. q[k] \in Buf /\ q[k].pos < q[k].last
        BY <1>2, <1>3, <3>1, LensAreNat
      <4>. QED
        BY <4>1 DEF Buf, BufLen
    <3>3. BufLens(q) \in Weights(m) /\ e \in Nat /\ e <= m /\ k \in (e + 1)..m
      BY <1>2, <2>2, <3>1, LensAreNat
    <3>4. SumTo(BufLens(q), e) + BufLens(q)[k] <= SumTo(BufLens(q), m)
      BY <3>3, SumMonotone
    <3>5. BufLens(q)[k] = BufLen(q[k])
      BY <1>2, <3>1, LensAreNat DEF BufLen
    <3>6. PICK x \in Nat, z \in Nat : x = SumTo(BufLens(q), e) /\ z = BufLen(q[k]) /\ z > 0
      BY <2>3, <3>2
    <3>7. x + z <= y
      BY <1>3, <1>5, <3>4, <3>5, <3>6, Zenon
    <3>8. x < y
      BY <3>6, <3>7
    <3>. QED
      BY <2>3, <3>6, <3>8, Zenon
  <2>. QED
    BY <1>1, <1>2, <1>5, <2>2, <2>3, <2>4, <2>5, Zenon
<1>. QED
  BY <1>9, <1>10
-----------------------------------------------------------------------------
(* Every step keeps the invariant *)

\* What holds at the start.
LEMMA InitIInv ==
  ASSUME Init
  PROVE  IInv
<1>. USE DEF Init
<1>1. EmptyTx \in Queue
  BY DEF EmptyTx, Queue
<1>2. PICK q \in Bufs : q = <<>>
  <2>1. <<>> \in Seq(Buf) /\ DOMAIN <<>> = {}
    OBVIOUS
  <2>2. <<>> \in Bufs
    BY <2>1, Zenon DEF Bufs
  <2>. QED
    BY <2>2
<1>3. Len(q) = 0 /\ SumTo(HeldLens(q), 0) = 0 /\ SumTo(BufLens(q), 0) = 0
  BY <1>2, LensUpTo
<1>4. QueueInv(EmptyTx)
  <2>1. Shape(q, 0, 0, 0, <<>>)
    <3>1. \A k \in 1..Len(q) : FALSE
      BY <1>3
    <3>2. 0 + SumTo(HeldLens(q), Len(q)) = Len(<<>>) /\ 0 = SumTo(BufLens(q), Len(q)) /\ 0 <= Len(q)
      BY <1>3
    <3>. QED
      BY <3>1, <3>2, Zenon DEF Shape
  <2>. QED
    BY <1>2, <2>1 DEF EmptyTx, QueueInv
<1>5. TxInv(EmptyTx, 0)
  BY <1>4 DEF EmptyTx, TxInv
<1>6. TypeOK
  <2>1. tx \in [TxStreams -> Queue] /\ accepted \in [TxStreams -> Nat]
    BY <1>1
  <2>2. frq \in Seq({Headers, Data}) /\ submitted \in Seq({"info", "response", "trailers"})
    OBVIOUS
  <2>3. offer \in [stream : TxStreams \cup {"none"}, bytes : Nat, fin : BOOLEAN]
    BY DEF NoOffer
  <2>. QED
    BY <2>1, <2>2, <2>3, Zenon DEF TypeOK
<1>7. tx[REQ] = EmptyTx /\ \A s \in TxStreams : TxInv(tx[s], accepted[s])
  BY <1>5 DEF TxStreams
<1>8. OfferInv /\ FrameInv /\ SchedInv /\ FinInv
  BY <1>7 DEF OfferInv, FrameInv, SchedInv, FinInv, NoOffer, WriteDone, EmptyTx, REQ
<1>9. ReportInv
  <2>1. OwnSet(<<>>, 0) = {}
    BY DEF OwnSet
  <2>. QED
    BY <1>7, <2>1, FS_EmptySet DEF ReportInv, EmptyTx
<1>. QED
  BY <1>6, <1>7, <1>8, <1>9 DEF IInv

\* The parts of the invariant that speak of one stream or of the reports.
Streams == (\A s \in TxStreams : TxInv(tx[s], accepted[s])) /\ ReportInv

\* A step that leaves the streams alone keeps them.
LEMMA SameStreams ==
  ASSUME Streams, UNCHANGED <<tx, accepted, reported>>
  PROVE  Streams'
BY DEF Streams, ReportInv

\* What the streams and the frames are.
LEMMA StateTypes ==
  ASSUME TypeOK
  PROVE  /\ REQ \in TxStreams /\ QENC \in TxStreams /\ REQ # QENC /\ "none" \notin TxStreams
         /\ \A s \in TxStreams : tx[s] \in Queue /\ accepted[s] \in Nat /\ tx[s].unsent \in Nat
         /\ Len(frq) \in Nat /\ DOMAIN frq = 1..Len(frq) /\ \A k \in 1..Len(frq) : frq[k] \in {Headers, Data}
         /\ Headers # Data
         /\ offer.bytes \in Nat /\ offer.fin \in BOOLEAN /\ offer.stream \in TxStreams \cup {"none"}
<1>1. \A s \in TxStreams : tx[s] \in Queue /\ accepted[s] \in Nat
  BY DEF TypeOK
<1>2. \A s \in TxStreams : tx[s].unsent \in Nat
  BY <1>1, QueueFields
<1>. QED
  BY <1>1, <1>2 DEF TypeOK, TxStreams, REQ, QENC, Headers, Data

\* Messages are submitted.
LEMMA SubmitKeeps ==
  ASSUME IInv, NEW what \in {"info", "response", "trailers"},
         NEW frames \in {<<Headers>>, <<Headers, Data>>}, SubmitHeadersData(what, frames),
         endStream' \in BOOLEAN, ~endStream,
         frames = <<Headers, Data>> => ~endStream' /\ \A k \in DOMAIN frq : frq[k] # Data,
         what # "response" =>
           frames = <<Headers>>
           /\ (endStream' => \E k \in DOMAIN submitted : submitted[k] = "response")
  PROVE  IInv'
<1>. USE DEF SubmitHeadersData
<1>1. TypeOK /\ Streams /\ OfferInv /\ FrameInv /\ SchedInv /\ FinInv
  BY DEF IInv, Streams
<1>2. frames \in Seq({Headers, Data}) /\ frq \in Seq({Headers, Data})
  <2>1. Headers \in {Headers, Data} /\ Data \in {Headers, Data}
    OBVIOUS
  <2>2. <<Headers>> \in Seq({Headers, Data}) /\ <<Headers, Data>> \in Seq({Headers, Data})
    BY <2>1
  <2>. QED
    BY <1>1, <2>2, Zenon DEF TypeOK
<1>3. TypeOK'
  <2>1. frq' \in Seq({Headers, Data})
    BY <1>2
  <2>2. submitted' \in Seq({"info", "response", "trailers"})
    BY <1>1 DEF TypeOK
  <2>3. scheduled' \in BOOLEAN
    BY <1>1 DEF TypeOK, RequireSchedule
  <2>. QED
    BY <1>1, <2>1, <2>2, <2>3 DEF TypeOK, answers
<1>4. Streams'
  BY <1>1, SameStreams DEF answers
<1>5. /\ frq' # <<>> /\ \A k \in DOMAIN frq : k \in DOMAIN frq' /\ frq'[k] = frq[k]
      /\ \A k \in DOMAIN frq' : k \in DOMAIN frq \/ frq'[k] = Headers
                                \/ (k = Len(frq) + 2 /\ frames = <<Headers, Data>>)
      /\ (frames = <<Headers>> => frq'[Len(frq')] = Headers)
  <2>1. CASE frames = <<Headers>>
    <3>1. frq' = Append(frq, Headers)
      BY <1>2, <2>1
    <3>. QED
      BY <1>2, <2>1, <3>1
  <2>2. CASE frames = <<Headers, Data>>
    <3>1. frq' = Append(Append(frq, Headers), Data)
      BY <1>2, <2>2
    <3>2. <<Headers>> # <<Headers, Data>>
      OBVIOUS
    <3>. QED
      BY <1>2, <2>2, <3>1, <3>2
  <2>. QED
    BY <2>1, <2>2
<1>6. /\ \A k \in DOMAIN submitted : k \in DOMAIN submitted' /\ submitted'[k] = submitted[k]
      /\ \E k \in DOMAIN submitted' : submitted'[k] = what
  <2>1. submitted \in Seq({"info", "response", "trailers"}) /\ submitted' = Append(submitted, what)
    BY <1>1 DEF TypeOK
  <2>2. /\ Len(submitted) \in Nat /\ DOMAIN submitted = 1..Len(submitted)
        /\ DOMAIN submitted' = 1..(Len(submitted) + 1)
        /\ submitted'[Len(submitted) + 1] = what
        /\ \A k \in 1..Len(submitted) : submitted'[k] = submitted[k]
    BY <2>1
  <2>3. Len(submitted) + 1 \in DOMAIN submitted' /\ \A k \in DOMAIN submitted : k \in DOMAIN submitted'
    BY <2>2
  <2>. QED
    BY <2>2, <2>3, Zenon
<1>7. OfferInv'
  BY <1>1, <1>5 DEF OfferInv, answers
<1>8. FrameInv'
  <2>1. \A j, k \in DOMAIN frq' : frq'[j] = Data /\ frq'[k] = Data => j = k
    BY <1>1, <1>5, StateTypes DEF FrameInv
  <2>2. ASSUME endStream' \/ (\E k \in DOMAIN frq' : frq'[k] = Data)
        PROVE  \E k \in DOMAIN submitted' : submitted'[k] = "response"
    <3>1. CASE what = "response"
      BY <1>6, <3>1
    <3>2. CASE what # "response"
      <4>1. \E k \in DOMAIN submitted : submitted[k] = "response"
        <5>1. frames = <<Headers>> /\ <<Headers>> # <<Headers, Data>>
          BY <3>2
        <5>2. CASE endStream'
          BY <3>2, <5>2
        <5>3. CASE \E k \in DOMAIN frq' : frq'[k] = Data
          <6>1. \E k \in DOMAIN frq : frq[k] = Data
            BY <1>1, <1>5, <5>1, <5>3, StateTypes
          <6>. QED
            BY <1>1, <6>1 DEF FrameInv
        <5>. QED
          BY <2>2, <5>2, <5>3
      <4>. QED
        BY <1>6, <4>1
    <3>. QED
      BY <3>1, <3>2
  <2>3. endStream' => frq'[Len(frq')] = Headers
    BY <1>5
  <2>. QED
    BY <2>1, <2>2, <2>3 DEF FrameInv
<1>9. SchedInv'
  BY <1>5 DEF SchedInv, RequireSchedule
<1>10. FinInv'
  BY <1>1 DEF FinInv, answers
<1>. QED
  BY <1>3, <1>4, <1>7, <1>8, <1>9, <1>10 DEF IInv, Streams

\* Each of the three calls that submit.
LEMMA SubmitIInv ==
  ASSUME IInv, Submit
  PROVE  IInv'
<1>1. TypeOK /\ FrameInv /\ endStream \in BOOLEAN
  BY DEF IInv, TypeOK
<1>2. ASSUME \A k \in DOMAIN submitted : submitted[k] = "info"
      PROVE  ~endStream /\ \A k \in DOMAIN frq : frq[k] # Data
  BY <1>1, <1>2 DEF FrameInv
<1>3. CASE SubmitInfo
  BY <1>1, <1>2, <1>3, SubmitKeeps DEF SubmitInfo
<1>4. ASSUME NEW body \in BOOLEAN, SubmitResponse(body)
      PROVE  IInv'
  <2>1. CASE body
    BY <1>1, <1>2, <1>4, <2>1, SubmitKeeps DEF SubmitResponse
  <2>2. CASE ~body
    BY <1>1, <1>2, <1>4, <2>2, SubmitKeeps DEF SubmitResponse
  <2>. QED
    BY <2>1, <2>2
<1>5. CASE SubmitTrailers
  BY <1>1, <1>5, SubmitKeeps DEF SubmitTrailers
<1>. QED
  BY <1>3, <1>4, <1>5 DEF Submit

\* What is offered of a stream is left of it; it is all if it ends the stream.
Offered(s, fin, o) ==
  /\ o \in [stream : TxStreams \cup {"none"}, bytes : Nat, fin : BOOLEAN]
  /\ o.stream \in {s, "none"} /\ (o.stream = "none" => o = NoOffer)
  /\ o # NoOffer => o.stream = s /\ o.bytes <= tx[s].unsent
  /\ o.fin => fin /\ o.stream = s /\ o.bytes = tx[s].unsent
  /\ o.stream = s /\ OfferEnd(tx[s]) # Len(tx[s].outq) => o.bytes < tx[s].unsent
  /\ o.stream = s => (o.fin <=> fin)

\* The end is offered with the last of the stream only.
Ends(s, fin) == fin => s = REQ /\ OfferEnd(tx[s]) = Len(tx[s].outq)

\* So it is.
LEMMA OfferGood ==
  ASSUME NEW s \in TxStreams, tx[s] \in Queue, QueueInv(tx[s]), NEW fin \in BOOLEAN,
         Ends(s, fin)
  PROVE  Offered(s, fin, Offer(s, fin))
<1>1. PICK t \in Queue : t = tx[s]
  OBVIOUS
<1>2. PICK e, l : e = OfferEnd(t) /\ l = Len(t.outq)
  OBVIOUS
<1>3. PICK n \in Nat, y \in Nat : n = UnsentFrom(t, e) /\ y = t.unsent /\ n <= y
                                 /\ (e = l => n = y) /\ (e # l => n < y)
  <2>1. t.unsent \in Nat
    BY QueueFields
  <2>2. /\ UnsentFrom(t, e) \in 0..t.unsent
        /\ (e = l => UnsentFrom(t, e) = t.unsent) /\ (e # l => UnsentFrom(t, e) < t.unsent)
    BY <1>1, <1>2, OfferedGood
  <2>3. UnsentFrom(t, e) \in Nat /\ UnsentFrom(t, e) <= t.unsent
    BY <2>1, <2>2
  <2>. QED
    BY <2>1, <2>2, <2>3, Zenon
<1>4. PICK o : o = Offer(s, fin)
  OBVIOUS
<1>5. o = IF n = 0 /\ ~fin THEN NoOffer ELSE [stream |-> s, bytes |-> n, fin |-> fin]
  BY <1>1, <1>2, <1>3, <1>4, Zenon DEF Offer
<1>6. "none" \notin TxStreams
  BY DEF TxStreams, REQ, QENC
<1>7. CASE n = 0 /\ ~fin
  <2>1. o = [stream |-> "none", bytes |-> 0, fin |-> FALSE] /\ o = NoOffer
    BY <1>5, <1>7 DEF NoOffer
  <2>. QED
    BY <1>4, <1>6, <2>1 DEF Offered
<1>8. CASE ~(n = 0 /\ ~fin)
  <2>1. o = [stream |-> s, bytes |-> n, fin |-> fin]
    BY <1>5, <1>8
  <2>2. fin => e = l
    BY <1>1, <1>2 DEF Ends
  <2>. QED
    BY <1>1, <1>2, <1>3, <1>4, <1>6, <2>1, <2>2 DEF Offered
<1>. QED
  BY <1>7, <1>8

\* The encoder stream is offered first.
LEMMA WritevEncoderIInv ==
  ASSUME IInv, WritevEncoder
  PROVE  IInv'
<1>. USE DEF WritevEncoder, flags, counts
<1>1. TypeOK /\ Streams /\ OfferInv /\ FrameInv /\ SchedInv /\ FinInv
  BY DEF IInv, Streams
<1>2. QueueInv(tx[QENC]) /\ tx[QENC] \in Queue /\ QENC \in TxStreams /\ QENC # REQ
  BY <1>1, StateTypes DEF Streams, TxInv
<1>3. /\ offer' \in [stream : TxStreams \cup {"none"}, bytes : Nat, fin : BOOLEAN]
      /\ offer'.stream \in {QENC, "none"} /\ (offer'.stream = "none" => offer' = NoOffer)
      /\ offer' # NoOffer => offer'.stream = QENC /\ offer'.bytes <= tx[QENC].unsent
      /\ ~offer'.fin
  <2>1. PICK o : o = Offer(QENC, FALSE)
    OBVIOUS
  <2>2. /\ o \in [stream : TxStreams \cup {"none"}, bytes : Nat, fin : BOOLEAN]
        /\ o.stream \in {QENC, "none"} /\ (o.stream = "none" => o = NoOffer)
        /\ o # NoOffer => o.stream = QENC /\ o.bytes <= tx[QENC].unsent
        /\ o.fin => FALSE
    <3>1. Ends(QENC, FALSE)
      BY DEF Ends
    <3>2. Offered(QENC, FALSE, o)
      BY <1>2, <2>1, <3>1, OfferGood
    <3>. QED
      BY <3>2 DEF Offered
  <2>. QED
    BY <2>1, <2>2
<1>4. "none" # REQ
  BY DEF REQ
<1>5. TypeOK'
  BY <1>1, <1>3 DEF TypeOK
<1>6. Streams'
  BY <1>1, SameStreams
<1>7. OfferInv' /\ FinInv'
  BY <1>1, <1>2, <1>3, <1>4 DEF OfferInv, FinInv
<1>8. FrameInv' /\ SchedInv'
  BY <1>1 DEF FrameInv, SchedInv
<1>. QED
  BY <1>5, <1>6, <1>7, <1>8 DEF IInv, Streams

\* A call turns to the request stream.
LEMMA WritevBeginIInv ==
  ASSUME IInv, WritevBegin
  PROVE  IInv'
<1>. USE DEF WritevBegin, flags, counts, answers
<1>1. TypeOK /\ Streams /\ OfferInv /\ FrameInv /\ SchedInv /\ FinInv
  BY DEF IInv, Streams
<1>2. TypeOK'
  BY <1>1 DEF TypeOK
<1>3. Streams'
  BY <1>1, SameStreams
<1>4. OfferInv'
  BY <1>1 DEF OfferInv
<1>5. FrameInv' /\ SchedInv' /\ FinInv'
  BY <1>1 DEF FrameInv, SchedInv, FinInv
<1>. QED
  BY <1>2, <1>3, <1>4, <1>5 DEF IInv, Streams

\* Streams are written and nothing else of them changes.
LEMMA WrittenStreams ==
  ASSUME TypeOK, Streams, UNCHANGED <<accepted, reported>>, tx' = [s \in TxStreams |-> tx'[s]],
         \A s \in TxStreams : Written(tx[s], tx'[s])
  PROVE  Streams' /\ tx' \in [TxStreams -> Queue]
<1>1. ASSUME NEW s \in TxStreams
      PROVE  /\ tx'[s] \in Queue /\ TxInv(tx'[s], accepted[s])
             /\ OwnSet(tx'[s].content, tx'[s].ackOff) = OwnSet(tx[s].content, tx[s].ackOff)
  <2>1. tx[s] \in Queue /\ accepted[s] \in Nat /\ TxInv(tx[s], accepted[s]) /\ Written(tx[s], tx'[s])
    BY StateTypes DEF Streams
  <2>. QED
    BY <2>1, WrittenInv, WrittenOwn
<1>2. tx' \in [TxStreams -> Queue]
  BY <1>1
<1>3. ReportInv'
  BY <1>1, StateTypes DEF ReportInv, Streams
<1>. QED
  BY <1>1, <1>2, <1>3 DEF Streams

\* A frame is serialised, or a piece of the body: the frames that are left,
\* and what must be true of them.
LEMMA FillKeeps ==
  ASSUME IInv, Filling, UNCHANGED <<accepted, reported, offer, finSent, fc, scheduled, shut,
                                    readBlocked, submitted, stalls>>,
         call' \in {"fill", "write"}, reads' \in Nat, endStream' \in BOOLEAN,
         endStream => endStream',
         tx' = [s \in TxStreams |-> tx'[s]], \A s \in TxStreams : Written(tx[s], tx'[s]),
         frq' \in {frq, Tail(frq)}, endStream' => endStream \/ (Head(frq) = Data /\ frq' = Tail(frq)),
         endStream' /\ frq' = <<>> => ~WriteDone(tx'[REQ])
  PROVE  IInv'
<1>. USE DEF Filling
<1>1. TypeOK /\ Streams /\ OfferInv /\ FrameInv /\ SchedInv /\ FinInv
  BY DEF IInv, Streams
<1>2. PICK q \in Seq({Headers, Data}) : q = frq /\ q # <<>>
  BY <1>1 DEF TypeOK
<1>3. /\ Tail(q) \in Seq({Headers, Data}) /\ Len(q) \in Nat /\ Len(q) > 0 /\ Len(Tail(q)) = Len(q) - 1
      /\ DOMAIN q = 1..Len(q) /\ DOMAIN Tail(q) = 1..(Len(q) - 1) /\ Head(q) = q[1]
      /\ \A k \in 1..(Len(q) - 1) : Tail(q)[k] = q[k + 1]
  BY <1>2, HeadTailProperties
<1>4. Streams' /\ tx' \in [TxStreams -> Queue]
  BY <1>1, WrittenStreams
<1>5. TypeOK'
  <2>1. frq' \in Seq({Headers, Data})
    BY <1>2, <1>3
  <2>. QED
    BY <1>1, <1>4, <2>1 DEF TypeOK
<1>6. OfferInv' /\ FinInv'
  <2>1. call # "idle" /\ call' # "idle" /\ offer = NoOffer /\ ~finSent
    BY <1>1 DEF OfferInv, FinInv, SchedInv
  <2>. QED
    BY <2>1 DEF OfferInv, FinInv, NoOffer, REQ
<1>7. SchedInv'
  <2>1. scheduled /\ call' # "idle" /\ frq # <<>>
    BY <1>1 DEF SchedInv
  <2>. QED
    BY <2>1 DEF SchedInv
<1>8. FrameInv'
  <2>1. CASE frq' = frq
    BY <1>1, <2>1, <1>2 DEF FrameInv
  <2>2. CASE frq' = Tail(frq)
    <3>1. frq' = Tail(q) /\ q = frq
      BY <1>2, <2>2
    <3>2. \A j, k \in DOMAIN q : q[j] = Data /\ q[k] = Data => j = k
      BY <1>1, <1>2 DEF FrameInv
    <3>3. \A j, k \in DOMAIN frq' : frq'[j] = Data /\ frq'[k] = Data => j = k
      <4>1. ASSUME NEW j \in 1..(Len(q) - 1), NEW k \in 1..(Len(q) - 1),
                   Tail(q)[j] = Data, Tail(q)[k] = Data
            PROVE  j = k
        <5>1. j + 1 \in DOMAIN q /\ k + 1 \in DOMAIN q /\ q[j + 1] = Data /\ q[k + 1] = Data
          BY <1>3, <4>1
        <5>2. j + 1 = k + 1
          BY <3>2, <5>1
        <5>. QED
          BY <5>2
      <4>. QED
        BY <1>3, <3>1, <4>1
    <3>4. ASSUME endStream' \/ (\E k \in DOMAIN frq' : frq'[k] = Data)
          PROVE  \E k \in DOMAIN submitted : submitted[k] = "response"
      <4>1. endStream \/ \E k \in DOMAIN q : q[k] = Data
        <5>1. CASE endStream'
          BY <1>2, <1>3, <5>1
        <5>2. CASE \E k \in DOMAIN frq' : frq'[k] = Data
          <6>1. PICK k \in 1..(Len(q) - 1) : Tail(q)[k] = Data
            BY <1>3, <3>1, <5>2
          <6>2. k + 1 \in DOMAIN q /\ q[k + 1] = Data
            BY <1>3, <6>1
          <6>. QED
            BY <6>2
        <5>. QED
          BY <3>4, <5>1, <5>2
      <4>. QED
        BY <1>1, <1>2, <4>1 DEF FrameInv
    <3>5. ASSUME endStream', frq' # <<>> PROVE frq'[Len(frq')] = Headers
      <4>1. Len(q) - 1 \in 1..(Len(q) - 1) /\ frq'[Len(frq')] = q[Len(q)] /\ Len(q) # 1 /\ Len(q) \in DOMAIN q
        <5>1. Len(q) - 1 # 0
          BY <1>3, <3>1, <3>5
        <5>2. PICK l \in Nat : l = Len(q) - 1 /\ l \in 1..l /\ l + 1 = Len(q)
          BY <1>3, <5>1
        <5>. QED
          BY <1>3, <3>1, <5>2
      <4>2. CASE endStream
        BY <1>1, <1>2, <4>1, <4>2 DEF FrameInv
      <4>3. CASE Head(frq) = Data
        <5>1. q[1] = Data /\ 1 \in DOMAIN q
          BY <1>2, <1>3, <4>3
        <5>2. q[Len(q)] # Data
          BY <3>2, <4>1, <5>1
        <5>3. q[Len(q)] \in {Headers, Data}
          BY <4>1
        <5>. QED
          BY <4>1, <5>2, <5>3
      <4>. QED
        BY <3>5, <4>2, <4>3
    <3>. QED
      BY <3>3, <3>4, <3>5 DEF FrameInv
  <2>. QED
    BY <2>1, <2>2
<1>. QED
  BY <1>4, <1>5, <1>6, <1>7, <1>8 DEF IInv, Streams

\* A field section is added.
LEMMA FillHeadersIInv ==
  ASSUME IInv, FillHeaders
  PROVE  IInv'
<1>1. TypeOK /\ Streams
  BY DEF IInv, Streams
<1>2. PICK r \in FieldSizes, e \in EncSizes :
        tx' = [tx EXCEPT ![REQ] = AddSection(@, r), ![QENC] = AddInstructions(@, e)]
  BY DEF FillHeaders
<1>3. r \in Nat \ {0} /\ e \in Nat
  BY StreamTxAssumption
<1>4. tx' = [s \in TxStreams |-> tx'[s]] /\ tx'[REQ] = AddSection(tx[REQ], r)
      /\ tx'[QENC] = AddInstructions(tx[QENC], e)
  BY <1>1, <1>2, StateTypes DEF TypeOK
<1>5. \A s \in TxStreams : Written(tx[s], tx'[s])
  <2>1. Written(tx[REQ], tx'[REQ])
    BY <1>1, <1>3, <1>4, StateTypes, AddSectionGood DEF Streams, TxInv
  <2>2. Written(tx[QENC], tx'[QENC])
    BY <1>1, <1>3, <1>4, StateTypes, AddInstructionsGood DEF Streams, TxInv
  <2>. QED
    BY <2>1, <2>2 DEF TxStreams
<1>6. ~WriteDone(tx'[REQ])
  BY <1>1, <1>3, <1>4, StateTypes, AddSectionGood DEF Streams, TxInv
<1>7. /\ UNCHANGED <<accepted, reported, offer, finSent, fc, scheduled, shut, readBlocked,
                     submitted, stalls, endStream, call, reads>>
      /\ Filling /\ frq' = Tail(frq)
  BY DEF FillHeaders, flags, answers, counts
<1>8. call' \in {"fill", "write"} /\ reads' \in Nat /\ endStream' \in BOOLEAN
  BY <1>1, <1>7 DEF TypeOK, Filling
<1>. QED
  BY <1>4, <1>5, <1>6, <1>7, <1>8, FillKeeps

\* The data reader has nothing now.
LEMMA FillWouldBlockIInv ==
  ASSUME IInv, FillWouldBlock
  PROVE  IInv'
<1>. USE DEF FillWouldBlock, Filling, Stall, answers
<1>1. TypeOK /\ Streams /\ OfferInv /\ FrameInv /\ SchedInv /\ FinInv
  BY DEF IInv, Streams
<1>2. TypeOK'
  BY <1>1 DEF TypeOK
<1>3. Streams'
  BY <1>1, SameStreams
<1>4. OfferInv'
  BY <1>1 DEF OfferInv
<1>5. FrameInv' /\ SchedInv' /\ FinInv'
  BY <1>1 DEF FrameInv, SchedInv, FinInv
<1>. QED
  BY <1>2, <1>3, <1>4, <1>5 DEF IInv, Streams

\* A piece of the body is added.
LEMMA FillDataIInv ==
  ASSUME IInv, NEW lens \in Bodies, NEW eof \in BOOLEAN, NEW noEnd \in BOOLEAN,
         FillData(lens, eof, noEnd)
  PROVE  IInv'
<1>1. TypeOK /\ Streams /\ FrameInv
  BY DEF IInv, Streams
<1>2. PICK last \in BOOLEAN : last = (eof /\ ~noEnd)
  OBVIOUS
<1>3. /\ Filling /\ Head(frq) = Data
      /\ tx' = [tx EXCEPT ![REQ] = AddBody(@, lens, last)]
      /\ endStream' = (endStream \/ last)
      /\ frq' = IF eof THEN Tail(frq) ELSE frq
      /\ call' = IF eof THEN "fill" ELSE "write"
      /\ reads' = IF eof THEN reads ELSE reads + 1
      /\ UNCHANGED <<readBlocked, shut, fc, scheduled, offer, accepted, finSent, reported,
                     submitted, stalls>>
  BY <1>2, Zenon DEF FillData, answers
<1>4. lens \in Seq(Nat \ {0})
  BY StreamTxAssumption
<1>5. tx' = [s \in TxStreams |-> tx'[s]] /\ tx'[REQ] = AddBody(tx[REQ], lens, last)
      /\ tx'[QENC] = tx[QENC]
  BY <1>1, <1>3, StateTypes DEF TypeOK
<1>6. \A s \in TxStreams : Written(tx[s], tx'[s])
  <2>1. Written(tx[REQ], tx'[REQ])
    BY <1>1, <1>4, <1>5, StateTypes, AddBodyGood DEF Streams, TxInv
  <2>2. Written(tx[QENC], tx'[QENC])
    BY <1>1, <1>5, StateTypes, WrittenNothing DEF Streams, TxInv
  <2>. QED
    BY <2>1, <2>2 DEF TxStreams
<1>7. ASSUME endStream', frq' = <<>> PROVE ~WriteDone(tx'[REQ])
  <2>1. eof
    BY <1>3, <1>7 DEF Filling
  <2>2. CASE last
    BY <1>1, <1>4, <1>5, <2>2, StateTypes, AddBodyGood DEF Streams, TxInv
  <2>3. CASE ~last
    <3>1. endStream /\ frq # <<>> /\ frq' = Tail(frq)
      BY <1>3, <1>7, <2>1, <2>3 DEF Filling
    <3>2. Len(frq) = 1
      <4>1. PICK q \in Seq({Headers, Data}) : q = frq /\ q # <<>>
        BY <1>1, <3>1 DEF TypeOK
      <4>2. Tail(q) = <<>>
        BY <1>7, <3>1, <4>1
      <4>3. Len(Tail(q)) = Len(q) - 1 /\ Len(q) \in Nat
        BY <4>1, HeadTailProperties
      <4>4. Len(q) = 1
        <5>1. PICK r \in Seq({Headers, Data}) : r = Tail(q) /\ r = <<>>
          BY <4>2, EmptySeq, Zenon
        <5>2. Len(r) = 0 /\ Len(r) = Len(q) - 1
          BY <4>3, <5>1, Zenon, EmptySeq
        <5>. QED
          BY <4>3, <5>2
      <4>. QED
        BY <4>1, <4>4
    <3>3. frq[1] = Headers /\ frq[1] = Data
      BY <1>1, <1>3, <3>1, <3>2 DEF FrameInv, TypeOK
    <3>. QED
      BY <1>1, <3>3, StateTypes
  <2>. QED
    BY <2>2, <2>3
<1>8. call' \in {"fill", "write"} /\ reads' \in Nat /\ endStream' \in BOOLEAN
      /\ frq' \in {frq, Tail(frq)} /\ (endStream => endStream')
      /\ (endStream' => endStream \/ (Head(frq) = Data /\ frq' = Tail(frq)))
  BY <1>1, <1>2, <1>3 DEF TypeOK
<1>. QED
  BY <1>3, <1>5, <1>6, <1>7, <1>8, FillKeeps

\* A call returns.
LEMMA FinishWritevIInv ==
  ASSUME IInv, FinishWritev
  PROVE  IInv'
<1>. USE DEF FinishWritev, flags, counts
<1>1. TypeOK /\ Streams /\ OfferInv /\ FrameInv /\ SchedInv /\ FinInv
  BY DEF IInv, Streams
<1>2. scheduled /\ ~finSent /\ REQ \in TxStreams /\ QENC \in TxStreams /\ REQ # QENC
  BY <1>1, StateTypes DEF SchedInv, FinInv
<1>3. \A s \in TxStreams : tx[s] \in Queue /\ QueueInv(tx[s])
  BY <1>1, StateTypes DEF Streams, TxInv
<1>4. "none" # REQ /\ "none" # QENC
  BY DEF REQ, QENC
<1>. DEFINE typed == offer' \in [stream : TxStreams \cup {"none"}, bytes : Nat, fin : BOOLEAN]
<1>5. typed /\ (offer'.stream = "none" => offer' = NoOffer)
      /\ (offer' # NoOffer => offer'.bytes <= tx[offer'.stream].unsent)
      /\ (offer'.fin => /\ offer'.stream = REQ /\ offer'.bytes = tx[REQ].unsent
                        /\ frq = <<>> /\ endStream)
      /\ (offer'.stream = REQ /\ endStream /\ frq = <<>> /\ ~offer'.fin
             => offer'.bytes < tx[REQ].unsent)
  <2>1. CASE EncoderHasBytes
    <3>1. PICK o : o = Offer(QENC, FALSE) /\ o = offer'
      BY <2>1
    <3>2. /\ o \in [stream : TxStreams \cup {"none"}, bytes : Nat, fin : BOOLEAN]
          /\ o.stream \in {QENC, "none"} /\ (o.stream = "none" => o = NoOffer)
          /\ o # NoOffer => o.stream = QENC /\ o.bytes <= tx[QENC].unsent
          /\ o.fin => FALSE
      <4>1. Ends(QENC, FALSE)
        BY DEF Ends
      <4>2. Offered(QENC, FALSE, o)
        BY <1>2, <1>3, <3>1, <4>1, OfferGood
      <4>. QED
        BY <4>2 DEF Offered
    <3>. QED
      BY <1>2, <1>4, <3>1, <3>2
  <2>2. CASE ~EncoderHasBytes
    <3>1. PICK fin \in BOOLEAN : fin = (/\ frq = <<>> /\ endStream
                                       /\ OfferEnd(tx[REQ]) = Len(tx[REQ].outq))
      OBVIOUS
    <3>2. PICK o : o = Offer(REQ, fin) /\ o = offer'
      BY <2>2, <3>1, Zenon
    <3>3. /\ o \in [stream : TxStreams \cup {"none"}, bytes : Nat, fin : BOOLEAN]
          /\ o.stream \in {REQ, "none"} /\ (o.stream = "none" => o = NoOffer)
          /\ o # NoOffer => o.stream = REQ /\ o.bytes <= tx[REQ].unsent
          /\ o.fin => fin /\ o.stream = REQ /\ o.bytes = tx[REQ].unsent
          /\ o.stream = REQ /\ OfferEnd(tx[REQ]) # Len(tx[REQ].outq) => o.bytes < tx[REQ].unsent
          /\ o.stream = REQ => (o.fin <=> fin)
      <4>1. Ends(REQ, fin)
        BY <3>1, Zenon DEF Ends
      <4>2. tx[REQ] \in Queue /\ QueueInv(tx[REQ])
        BY <1>2, <1>3
      <4>3. Offered(REQ, fin, o)
        BY <1>2, <3>2, <4>1, <4>2, OfferGood
      <4>. QED
        BY <4>3, Zenon DEF Offered
    <3>4. /\ o.fin => /\ o.stream = REQ /\ o.bytes = tx[REQ].unsent
                      /\ frq = <<>> /\ endStream
          /\ o.stream = REQ /\ endStream /\ frq = <<>> /\ ~o.fin => o.bytes < tx[REQ].unsent
      BY <3>1, <3>3, Zenon
    <3>. QED
      BY <1>2, <1>4, <3>2, <3>3, <3>4
  <2>. QED
    BY <2>1, <2>2
<1>6. TypeOK'
  BY <1>1, <1>5 DEF TypeOK, RequireSchedule
<1>7. Streams'
  BY <1>1, SameStreams
<1>8. OfferInv'
  BY <1>5, Zenon DEF OfferInv
<1>9. FrameInv' /\ FinInv'
  BY <1>1, <1>2 DEF FrameInv, FinInv
<1>10. SchedInv'
  BY <1>1, <1>2 DEF SchedInv, RequireSchedule
<1>. QED
  BY <1>6, <1>7, <1>8, <1>9, <1>10 DEF IInv, Streams

\* QUIC takes some of what was offered.
LEMMA AcceptIInv ==
  ASSUME IInv, offer # NoOffer, NEW n \in 0..offer.bytes, AddWriteOffset(n)
  PROVE  IInv'
<1>1. TypeOK /\ Streams /\ OfferInv /\ FrameInv /\ SchedInv /\ FinInv
  BY DEF IInv, Streams
<1>2. PICK s \in TxStreams : s = offer.stream
  BY <1>1, StateTypes DEF OfferInv
<1>3. PICK y \in Nat, b \in Nat, fin \in BOOLEAN :
        y = tx[s].unsent /\ b = offer.bytes /\ fin = offer.fin /\ b <= y
  <2>1. tx[s].unsent \in Nat /\ offer.bytes \in Nat /\ offer.fin \in BOOLEAN
    BY <1>1, StateTypes
  <2>2. offer.bytes <= tx[s].unsent
    BY <1>1, <1>2 DEF OfferInv
  <2>. QED
    BY <2>1, <2>2, Zenon
<1>4. n \in Nat /\ n <= y /\ n <= b /\ n \in 0..y
  BY <1>3
<1>5. /\ call = "idle"
      /\ tx' = [tx EXCEPT ![s] = AddOutqOffset(@, n)]
      /\ accepted' = [accepted EXCEPT ![s] = @ + n]
      /\ finSent' = (finSent \/ (fin /\ n = b))
      /\ offer' = NoOffer
      /\ UNCHANGED <<frq, endStream, readBlocked, shut, fc, call, reported, submitted, reads, stalls>>
      /\ CASE s = QENC -> scheduled' = scheduled
           [] s = REQ /\ ~RequireSchedule' -> scheduled' = FALSE
           [] OTHER -> scheduled' \in {scheduled, TRUE}
  BY <1>2, <1>3, Zenon DEF AddWriteOffset, flags, counts
<1>6. s \in {REQ, QENC} /\ REQ # QENC /\ REQ \in TxStreams /\ QENC \in TxStreams
  BY <1>1, StateTypes DEF TxStreams
<1>7. PICK u : u = AddOutqOffset(tx[s], n)
  OBVIOUS
<1>8. /\ u \in Queue /\ TxInv(u, accepted[s] + n) /\ accepted[s] + n \in Nat /\ u.unsent = y - n
      /\ u.content = tx[s].content /\ u.ackOff = tx[s].ackOff
      /\ (n = y => WriteDone(u) /\ u.unsent = 0) /\ (n < y => ~WriteDone(u))
  <2>1. tx[s] \in Queue /\ accepted[s] \in Nat /\ TxInv(tx[s], accepted[s]) /\ n \in 0..tx[s].unsent
    BY <1>1, <1>3, <1>4, StateTypes DEF Streams
  <2>. QED
    BY <1>3, <1>7, <2>1, AcceptedInv
<1>9. /\ tx'[s] = u /\ accepted'[s] = accepted[s] + n
      /\ \A r \in TxStreams : r # s => tx'[r] = tx[r] /\ accepted'[r] = accepted[r]
      /\ tx' \in [TxStreams -> Queue] /\ accepted' \in [TxStreams -> Nat]
  BY <1>1, <1>5, <1>7, <1>8 DEF TypeOK
<1>10. TypeOK'
  <2>1. finSent' \in BOOLEAN /\ scheduled' \in BOOLEAN
    BY <1>1, <1>3, <1>5, <1>6 DEF TypeOK
  <2>2. offer' \in [stream : TxStreams \cup {"none"}, bytes : Nat, fin : BOOLEAN]
    BY <1>5 DEF NoOffer
  <2>. QED
    BY <1>1, <1>5, <1>9, <2>1, <2>2 DEF TypeOK
<1>11. Streams'
  <2>1. ASSUME NEW r \in TxStreams PROVE TxInv(tx'[r], accepted'[r])
    BY <1>1, <1>8, <1>9 DEF Streams
  <2>2. tx'[REQ].content = tx[REQ].content /\ tx'[REQ].ackOff = tx[REQ].ackOff
    BY <1>6, <1>8, <1>9
  <2>3. ReportInv'
    BY <1>1, <1>5, <2>2 DEF Streams, ReportInv
  <2>. QED
    BY <2>1, <2>3 DEF Streams
<1>12. OfferInv' /\ FrameInv'
  BY <1>1, <1>5 DEF OfferInv, FrameInv, NoOffer, REQ
<1>13. CASE s = QENC
  <2>1. ~fin
    BY <1>1, <1>2, <1>3, <1>6, <1>13 DEF OfferInv
  <2>2. finSent' = finSent /\ scheduled' = scheduled /\ tx'[REQ] = tx[REQ]
    BY <1>1, <1>5, <1>6, <1>9, <1>13, <2>1 DEF TypeOK
  <2>3. SchedInv' /\ FinInv'
    BY <1>1, <1>5, <2>2 DEF SchedInv, FinInv, NoOffer, REQ
  <2>. QED
    BY <1>10, <1>11, <1>12, <2>3 DEF IInv, Streams
<1>14. CASE s = REQ
  <2>1. tx'[REQ] = u /\ y = tx[REQ].unsent
    BY <1>3, <1>9, <1>14
  <2>2. ~finSent
    BY <1>1, <1>2, <1>14 DEF FinInv
  <2>3. (fin => b = y /\ frq = <<>> /\ endStream) /\ (endStream /\ frq = <<>> /\ ~fin => b < y)
    BY <1>1, <1>2, <1>3, <1>14 DEF OfferInv
  <2>4. ~WriteDone(u) => ~WriteDone(tx[REQ])
    <3>1. ASSUME WriteDone(tx[REQ]) PROVE y = 0
      <4>1. tx[REQ] \in Queue /\ QueueInv(tx[REQ])
        BY <1>1, <1>6, StateTypes DEF Streams, TxInv
      <4>. QED
        BY <2>1, <3>1, <4>1, DoneIsSent
    <3>2. y = 0 => n = y
      BY <1>4
    <3>. QED
      BY <1>8, <3>1, <3>2
  <2>5. RequireSchedule' <=> \/ ~WriteDone(u) /\ REQ \notin fc /\ ~shut
                             \/ frq # <<>> /\ ~readBlocked
    BY <1>5, <2>1 DEF RequireSchedule
  <2>6. SchedInv'
    <3>1. ASSUME call' = "idle" /\ REQ \notin fc' /\ ~shut'
                 /\ (~WriteDone(tx'[REQ]) \/ (frq' # <<>> /\ ~readBlocked'))
          PROVE  scheduled'
      <4>1. RequireSchedule'
        BY <1>5, <2>1, <2>5, <3>1
      <4>2. scheduled
        BY <1>1, <1>5, <2>1, <2>4, <3>1 DEF SchedInv
      <4>. QED
        BY <1>5, <1>6, <1>14, <4>1, <4>2
    <3>2. ASSUME endStream' /\ frq' = <<>> /\ ~finSent' PROVE ~WriteDone(tx'[REQ])
      <4>1. ~(fin /\ n = b)
        BY <1>5, <3>2
      <4>2. n < y
        BY <1>3, <1>4, <1>5, <2>3, <3>2, <4>1
      <4>. QED
        BY <1>8, <2>1, <4>2
    <3>. QED
      BY <1>1, <1>5, <3>1, <3>2 DEF SchedInv
  <2>7. FinInv'
    <3>1. SUFFICES ASSUME finSent' PROVE /\ WriteDone(u) /\ u.unsent = 0 /\ frq = <<>> /\ endStream
                                         /\ ~scheduled'
      BY <1>5, <2>1 DEF FinInv, NoOffer, REQ
    <3>2. fin /\ n = b
      BY <1>5, <2>2, <3>1
    <3>3. WriteDone(u) /\ u.unsent = 0 /\ frq = <<>> /\ endStream
      BY <1>8, <2>3, <3>2
    <3>4. ~RequireSchedule'
      BY <2>5, <3>3
    <3>. QED
      BY <1>5, <1>6, <1>14, <3>3, <3>4
  <2>. QED
    BY <1>10, <1>11, <1>12, <2>6, <2>7 DEF IInv, Streams
<1>. QED
  BY <1>6, <1>13, <1>14

\* An offer is refused.
LEMMA RefuseIInv ==
  ASSUME IInv, Refuse
  PROVE  IInv'
<1>. USE DEF Refuse, Stall, flags
<1>1. TypeOK /\ Streams /\ OfferInv /\ FrameInv /\ SchedInv /\ FinInv
  BY DEF IInv, Streams
<1>2. TypeOK'
  BY <1>1 DEF TypeOK, NoOffer
<1>3. Streams'
  BY <1>1, SameStreams
<1>4. OfferInv' /\ FrameInv' /\ SchedInv' /\ FinInv'
  BY <1>1 DEF OfferInv, FrameInv, SchedInv, FinInv, NoOffer, REQ
<1>. QED
  BY <1>2, <1>3, <1>4 DEF IInv, Streams

\* QUIC has an acknowledgment.
LEMMA AckOffsetIInv ==
  ASSUME IInv, NEW s \in TxStreams, NEW offset \in tx[s].ackOff..accepted[s], AckOffset(s, offset)
  PROVE  IInv'
<1>. USE DEF AckOffset, flags, counts
<1>1. TypeOK /\ Streams /\ OfferInv /\ FrameInv /\ SchedInv /\ FinInv
  BY DEF IInv, Streams
<1>2. PICK u : u = UpdateAckOffset(tx[s], offset)
  OBVIOUS
<1>3. tx[s] \in Queue /\ accepted[s] \in Nat /\ TxInv(tx[s], accepted[s])
  BY <1>1, StateTypes DEF Streams
<1>4. /\ u \in Queue /\ TxInv(u, accepted[s]) /\ u.unsent = tx[s].unsent /\ u.content = tx[s].content
      /\ u.ackOff = offset /\ (WriteDone(tx[s]) <=> WriteDone(u))
      /\ AckedNow(tx[s], offset) \in Nat
      /\ Cardinality(OwnSet(tx[s].content, tx[s].ackOff)) + AckedNow(tx[s], offset) =
           Cardinality(OwnSet(tx[s].content, offset))
  BY <1>2, <1>3, AckedInv
<1>5. tx' \in [TxStreams -> Queue] /\ tx'[s] = u /\ \A r \in TxStreams : r # s => tx'[r] = tx[r]
  BY <1>1, <1>2, <1>4 DEF TypeOK
<1>6. \A r \in TxStreams : /\ tx'[r].unsent = tx[r].unsent /\ (WriteDone(tx[r]) <=> WriteDone(tx'[r]))
                           /\ TxInv(tx'[r], accepted[r])
  BY <1>1, <1>4, <1>5 DEF Streams
<1>7. ReportInv' /\ reported' \in Nat
  <2>1. REQ \in TxStreams /\ reported \in Nat /\ reported = Cardinality(OwnSet(tx[REQ].content, tx[REQ].ackOff))
    BY <1>1, StateTypes DEF TypeOK, Streams, ReportInv
  <2>2. CASE s = REQ
    <3>1. reported' = reported + AckedNow(tx[REQ], offset)
      BY <2>2
    <3>2. reported' = Cardinality(OwnSet(tx[REQ].content, offset)) /\ reported' \in Nat
      BY <1>4, <2>1, <2>2, <3>1
    <3>. QED
      BY <1>4, <1>5, <2>2, <3>2 DEF ReportInv
  <2>3. CASE s # REQ
    <3>1. reported' = reported + 0 /\ tx'[REQ] = tx[REQ]
      BY <1>5, <2>1, <2>3
    <3>. QED
      BY <2>1, <3>1 DEF ReportInv
  <2>. QED
    BY <2>2, <2>3
<1>8. TypeOK'
  BY <1>1, <1>5, <1>7 DEF TypeOK
<1>9. Streams'
  BY <1>6, <1>7 DEF Streams
<1>10. OfferInv'
  <2>1. offer # NoOffer => offer.stream \in TxStreams
    BY <1>1, StateTypes DEF OfferInv
  <2>. QED
    BY <1>1, <1>6, <2>1, StateTypes DEF OfferInv
<1>11. FrameInv' /\ SchedInv' /\ FinInv'
  BY <1>1, <1>6, StateTypes DEF FrameInv, SchedInv, FinInv
<1>. QED
  BY <1>8, <1>9, <1>10, <1>11 DEF IInv, Streams

\* A stream is blocked or unblocked.
LEMMA BlockIInv ==
  ASSUME IInv, NEW s \in TxStreams, Block(s) \/ Unblock(s)
  PROVE  IInv'
<1>1. TypeOK /\ Streams /\ OfferInv /\ FrameInv /\ SchedInv /\ FinInv
  BY DEF IInv, Streams
<1>2. /\ call = "idle" /\ fc' \subseteq TxStreams
      /\ UNCHANGED <<frq, tx, endStream, readBlocked, shut, call, offer, accepted, finSent,
                     reported, submitted, reads>>
      /\ stalls' \in Nat
  BY <1>1 DEF TypeOK, Block, Unblock, Stall, flags, answers, counts
<1>3. CASE Block(s)
  <2>1. fc' = fc \cup {s} /\ scheduled' = (scheduled /\ s # REQ) /\ scheduled' \in BOOLEAN
    BY <1>1, <1>3 DEF TypeOK, Block
  <2>2. TypeOK'
    BY <1>1, <1>2, <2>1 DEF TypeOK
  <2>3. Streams'
    BY <1>1, <1>2, SameStreams
  <2>4. OfferInv' /\ FrameInv' /\ SchedInv' /\ FinInv'
    BY <1>1, <1>2, <2>1 DEF OfferInv, FrameInv, SchedInv, FinInv
  <2>. QED
    BY <2>2, <2>3, <2>4 DEF IInv, Streams
<1>4. CASE Unblock(s)
  <2>1. fc' = fc \ {s} /\ scheduled' = (scheduled \/ (s = REQ /\ RequireSchedule')) /\ scheduled' \in BOOLEAN
    BY <1>1, <1>4 DEF TypeOK, Unblock, RequireSchedule
  <2>2. TypeOK'
    BY <1>1, <1>2, <2>1 DEF TypeOK
  <2>3. Streams'
    BY <1>1, <1>2, SameStreams
  <2>4. OfferInv' /\ FrameInv' /\ SchedInv' /\ FinInv'
    BY <1>1, <1>2, <2>1 DEF OfferInv, FrameInv, SchedInv, FinInv, RequireSchedule
  <2>. QED
    BY <2>2, <2>3, <2>4 DEF IInv, Streams
<1>. QED
  BY <1>3, <1>4

\* The write side is shut, or the stream resumed.
LEMMA ShutOrResumeIInv ==
  ASSUME IInv, ShutdownWrite \/ Resume
  PROVE  IInv'
<1>1. TypeOK /\ Streams /\ OfferInv /\ FrameInv /\ SchedInv /\ FinInv
  BY DEF IInv, Streams
<1>2. CASE ShutdownWrite
  <2>. USE DEF ShutdownWrite, answers, counts
  <2>1. TypeOK'
    BY <1>1, <1>2 DEF TypeOK
  <2>2. Streams'
    BY <1>1, <1>2, SameStreams
  <2>3. OfferInv' /\ FrameInv' /\ SchedInv' /\ FinInv'
    BY <1>1, <1>2 DEF OfferInv, FrameInv, SchedInv, FinInv
  <2>. QED
    BY <2>1, <2>2, <2>3 DEF IInv, Streams
<1>3. CASE Resume
  <2>. USE DEF Resume, answers, counts
  <2>1. TypeOK'
    BY <1>1, <1>3 DEF TypeOK, RequireSchedule
  <2>2. Streams'
    BY <1>1, <1>3, SameStreams
  <2>3. OfferInv' /\ FrameInv' /\ SchedInv' /\ FinInv'
    BY <1>1, <1>3 DEF OfferInv, FrameInv, SchedInv, FinInv, RequireSchedule
  <2>. QED
    BY <2>1, <2>2, <2>3 DEF IInv, Streams
<1>. QED
  BY <1>2, <1>3

\* Every step of the specification keeps the invariant.
LEMMA StepIInv ==
  ASSUME IInv, [Next]_vars
  PROVE  IInv'
<1>1. CASE Submit
  BY <1>1, SubmitIInv
<1>2. CASE WritevEncoder \/ WritevBegin
  BY <1>2, WritevEncoderIInv, WritevBeginIInv
<1>3. CASE Fill
  <2>1. CASE ReadBody
    <3>1. PICK lens \in Bodies, eof \in BOOLEAN, noEnd \in BOOLEAN : FillData(lens, eof, noEnd)
      BY <2>1 DEF ReadBody
    <3>. QED
      BY <3>1, FillDataIInv
  <2>. QED
    BY <1>3, <2>1, FillHeadersIInv, FillWouldBlockIInv DEF Fill
<1>4. CASE FinishWritev
  BY <1>4, FinishWritevIInv
<1>5. CASE Accept
  BY <1>5, AcceptIInv DEF Accept
<1>6. CASE Refuse
  BY <1>6, RefuseIInv
<1>7. ASSUME NEW s \in TxStreams, Acknowledge(s) \/ Block(s) \/ Unblock(s)
      PROVE  IInv'
  <2>1. CASE Acknowledge(s)
    BY <2>1, AckOffsetIInv DEF Acknowledge
  <2>2. CASE Block(s) \/ Unblock(s)
    BY <2>2, BlockIInv
  <2>. QED
    BY <1>7, <2>1, <2>2
<1>8. CASE ShutdownWrite \/ Resume
  BY <1>8, ShutOrResumeIInv
<1>9. CASE UNCHANGED vars
  BY <1>9 DEF vars, flags, answers, counts, IInv, TypeOK, OfferInv, FrameInv, SchedInv, FinInv,
              ReportInv
<1>. QED
  BY <1>1, <1>2, <1>3, <1>4, <1>5, <1>6, <1>7, <1>8, <1>9 DEF Next

(* The invariant holds in every reachable state.                           *)
THEOREM StreamTxInvariant == Spec => []IInv
<1>1. Init => IInv
  BY InitIInv
<1>2. IInv /\ [Next]_vars => IInv'
  BY StepIInv
<1>. QED
  BY <1>1, <1>2, PTL DEF Spec

(* No lost wakeup: between calls a stream that may be written and has      *)
(* something to write, or frames to serialise, is scheduled.               *)
THEOREM WritableStreamsAreScheduled == Spec => []WritableIsScheduled
<1>1. IInv => WritableIsScheduled
  BY DEF IInv, SchedInv, WritableIsScheduled
<1>. QED
  BY <1>1, StreamTxInvariant, PTL

(* The end of the stream is offered until QUIC takes it, and never again.  *)
THEOREM EndIsSentOnce == Spec => []FinExactlyOnce
<1>1. IInv => FinExactlyOnce
  BY DEF IInv, SchedInv, FinInv, FinExactlyOnce
<1>. QED
  BY <1>1, StreamTxInvariant, PTL

\* The offsets of one stream.
LEMMA OffsetsOfStream ==
  ASSUME NEW t \in Queue, NEW a \in Nat, TxInv(t, a)
  PROVE  /\ t.ackBase <= t.ackOff /\ t.ackOff <= a
         /\ t.ackBase + HeldUpTo(t, Len(t.outq)) = Len(t.content)
         /\ a + t.unsent = Len(t.content)
         /\ t.unsent = UnsentFrom(t, Len(t.outq))
         /\ \A k \in 1..t.idx : BufLen(t.outq[k]) = 0
         /\ \A k \in (t.idx + 2)..Len(t.outq) : t.outq[k].pos = t.outq[k].begin
<1>1. PICK q \in Bufs, i \in Nat, y \in Nat : q = t.outq /\ i = t.idx /\ y = t.unsent
  BY QueueFields, Zenon DEF TxInv, QueueInv, Shape
<1>2. PICK m \in Nat : m = Len(q)
  BY LensAreNat
<1>3. /\ i <= m /\ y = SumTo(BufLens(q), m)
      /\ t.ackBase + SumTo(HeldLens(q), m) = Len(t.content)
      /\ \A k \in 1..m : /\ k <= i => q[k].pos = q[k].last
                         /\ k > i + 1 => q[k].pos = q[k].begin
  BY <1>1, <1>2, Zenon DEF TxInv, QueueInv, Shape
<1>4. SumTo(BufLens(q), i) = 0
  <2>1. \A k \in 1..m : k <= i => q[k].pos = q[k].last
    BY <1>3
  <2>. QED
    BY <1>2, <1>3, <2>1, WrittenBefore
<1>5. HeldUpTo(t, m) = SumTo(HeldLens(q), m)
      /\ UnsentFrom(t, m) = SumTo(BufLens(q), m) - SumTo(BufLens(q), i)
  BY <1>1, Zenon DEF HeldUpTo, HeldLens, UnsentFrom, LenUpTo, BufLens
<1>6. UnsentFrom(t, m) = y
  BY <1>3, <1>4, <1>5
<1>7. ASSUME NEW k \in 1..i PROVE BufLen(q[k]) = 0
  <2>1. k \in 1..m /\ k <= i
    BY <1>3
  <2>2. q[k] \in Buf /\ q[k].pos = q[k].last
    BY <1>2, <1>3, <2>1, LensAreNat
  <2>. QED
    BY <2>2 DEF Buf, BufLen
<1>8. ASSUME NEW k \in (i + 2)..m PROVE q[k].pos = q[k].begin
  <2>1. k \in 1..m /\ k > i + 1
    OBVIOUS
  <2>. QED
    BY <1>3, <2>1
<1>. QED
  BY <1>1, <1>2, <1>3, <1>5, <1>6, <1>7, <1>8, Zenon DEF TxInv

(* What is held, what is unsent and what is acknowledged of a stream agree *)
(* with what was written to it and accepted of it.                         *)
THEOREM StreamOffsetsAgree == Spec => []OffsetsAgree
<1>1. IInv => OffsetsAgree
  <2>1. ASSUME IInv, NEW s \in TxStreams
        PROVE  tx[s] \in Queue /\ accepted[s] \in Nat /\ TxInv(tx[s], accepted[s])
    BY <2>1, StateTypes DEF IInv
  <2>. QED
    BY <2>1, OffsetsOfStream DEF OffsetsAgree
<1>. QED
  BY <1>1, StreamTxInvariant, PTL
-----------------------------------------------------------------------------
(* The request stream implements the abstract one *)

\* Writing to the queue writes to the abstract stream, or leaves it alone.
LEMMA WrittenIsWrite ==
  ASSUME TypeOK, ~finSent, Written(tx[REQ], tx'[REQ]), tx' \in [TxStreams -> Queue],
         UNCHANGED <<accepted, reported, finSent>>
  PROVE  Request!Next \/ UNCHANGED Request!vars
<1>1. tx[REQ] \in Queue /\ tx'[REQ] \in Queue
  BY StateTypes
<1>2. PICK c \in Seq(BOOLEAN), d \in Seq(BOOLEAN) : c = tx[REQ].content /\ d = tx'[REQ].content
  BY <1>1, QueueFields
<1>3. PICK l \in Nat, n \in Nat : l = Len(c) /\ n = Len(d) /\ l <= n
  <2>1. /\ tx[REQ].unsent \in Nat /\ tx'[REQ].unsent \in Nat /\ tx[REQ].unsent <= tx'[REQ].unsent
        /\ Len(d) - Len(c) = tx'[REQ].unsent - tx[REQ].unsent
    BY <1>1, <1>2, QueueFields DEF Written
  <2>2. PICK x \in Nat, z \in Nat, y \in Nat, y1 \in Nat :
          x = Len(c) /\ z = Len(d) /\ y = tx[REQ].unsent /\ y1 = tx'[REQ].unsent
    BY <2>1
  <2>3. y <= y1 /\ z - x = y1 - y
    BY <2>1, <2>2, Zenon
  <2>4. x <= z
    BY <2>3
  <2>. QED
    BY <2>2, <2>4, Zenon
<1>4. \A k \in 1..l : d[k] = c[k]
  BY <1>2, <1>3, Zenon DEF Written
<1>5. tx'[REQ].ackOff = tx[REQ].ackOff
  BY Zenon DEF Written
<1>6. CASE l = n
  <2>1. d = c
    BY <1>3, <1>4, <1>6, SeqEqual
  <2>. QED
    BY <1>2, <1>5, <2>1 DEF Request!vars
<1>7. CASE l < n
  <2>1. SubSeq(d, 1, l) = c
    <3>1. \A k \in 1..l : d[k] \in BOOLEAN
      BY <1>3
    <3>2. SubSeq(d, 1, l) \in Seq(BOOLEAN) /\ Len(SubSeq(d, 1, l)) = l
          /\ \A k \in 1..l : SubSeq(d, 1, l)[k] = d[k]
      BY <1>3, <3>1, SubSeqProperties
    <3>. QED
      BY <1>3, <1>4, <3>2, SeqEqual
  <2>2. Request!Write
    BY <1>2, <1>3, <1>5, <1>7, <2>1 DEF Request!Write
  <2>. QED
    BY <2>2 DEF Request!Next
<1>. QED
  BY <1>3, <1>6, <1>7

\* Whatever fills the queue writes to it.
LEMMA FillIsWrite ==
  ASSUME IInv, Fill, TypeOK'
  PROVE  Request!Next \/ UNCHANGED Request!vars
<1>1. TypeOK /\ Streams /\ SchedInv /\ FinInv /\ tx' \in [TxStreams -> Queue]
  BY DEF IInv, Streams, TypeOK
<1>2. tx[REQ] \in Queue /\ QueueInv(tx[REQ])
  BY <1>1, StateTypes DEF Streams, TxInv
<1>3. CASE FillHeaders
  <2>1. PICK r \in FieldSizes, e \in EncSizes :
          tx' = [tx EXCEPT ![REQ] = AddSection(@, r), ![QENC] = AddInstructions(@, e)]
    BY <1>3 DEF FillHeaders
  <2>2. r \in Nat \ {0}
    BY StreamTxAssumption
  <2>3. Written(tx[REQ], tx'[REQ])
    BY <1>1, <1>2, <2>1, <2>2, StateTypes, AddSectionGood DEF TypeOK
  <2>4. UNCHANGED <<accepted, reported, finSent>> /\ ~finSent
    BY <1>1, <1>3 DEF FillHeaders, answers, Filling, SchedInv, FinInv
  <2>. QED
    BY <1>1, <2>3, <2>4, WrittenIsWrite
<1>4. CASE FillWouldBlock
  BY <1>4 DEF FillWouldBlock, answers, Request!vars
<1>5. CASE ReadBody
  <2>1. PICK lens \in Bodies, eof \in BOOLEAN, noEnd \in BOOLEAN : FillData(lens, eof, noEnd)
    BY <1>5 DEF ReadBody
  <2>2. PICK last \in BOOLEAN : last = (eof /\ ~noEnd)
    OBVIOUS
  <2>3. /\ tx' = [tx EXCEPT ![REQ] = AddBody(@, lens, last)] /\ Filling
        /\ UNCHANGED <<accepted, reported, finSent>>
    BY <2>1, <2>2, Zenon DEF FillData, answers
  <2>4. lens \in Seq(Nat \ {0})
    BY StreamTxAssumption
  <2>5. Written(tx[REQ], tx'[REQ])
    BY <1>1, <1>2, <2>3, <2>4, StateTypes, AddBodyGood DEF TypeOK
  <2>6. ~finSent
    BY <1>1, <2>3 DEF Filling, SchedInv, FinInv
  <2>. QED
    BY <1>1, <2>3, <2>5, <2>6, WrittenIsWrite
<1>. QED
  BY <1>3, <1>4, <1>5 DEF Fill

\* Acceptance by QUIC.
LEMMA AcceptIsAccept ==
  ASSUME IInv, offer # NoOffer, NEW n \in 0..offer.bytes, AddWriteOffset(n)
  PROVE  Request!Next \/ UNCHANGED Request!vars
<1>1. TypeOK /\ Streams /\ OfferInv /\ FinInv
  BY DEF IInv, Streams
<1>2. PICK s \in TxStreams : s = offer.stream
  BY <1>1, StateTypes DEF OfferInv
<1>3. PICK y \in Nat, b \in Nat, fin \in BOOLEAN, a \in Nat :
        y = tx[s].unsent /\ b = offer.bytes /\ fin = offer.fin /\ b <= y /\ a = accepted[s]
  <2>1. tx[s].unsent \in Nat /\ offer.bytes \in Nat /\ offer.fin \in BOOLEAN /\ accepted[s] \in Nat
    BY <1>1, StateTypes
  <2>2. offer.bytes <= tx[s].unsent
    BY <1>1, <1>2 DEF OfferInv
  <2>. QED
    BY <2>1, <2>2, Zenon
<1>4. n \in Nat /\ n <= y /\ n <= b /\ n \in 0..y
  BY <1>3
<1>5. /\ tx' = [tx EXCEPT ![s] = AddOutqOffset(@, n)]
      /\ accepted' = [accepted EXCEPT ![s] = @ + n]
      /\ finSent' = (finSent \/ (fin /\ n = b)) /\ reported' = reported
  BY <1>2, <1>3, Zenon DEF AddWriteOffset
<1>6. s \in {REQ, QENC} /\ REQ # QENC /\ REQ \in TxStreams /\ QENC \in TxStreams
  BY <1>1, StateTypes DEF TxStreams
<1>7. CASE s = QENC
  <2>1. ~fin
    BY <1>1, <1>2, <1>3, <1>6, <1>7 DEF OfferInv
  <2>2. finSent' = finSent /\ tx'[REQ] = tx[REQ] /\ accepted'[REQ] = accepted[REQ]
    BY <1>1, <1>5, <1>6, <1>7, <2>1 DEF TypeOK
  <2>. QED
    BY <1>5, <2>2 DEF Request!vars
<1>8. CASE s = REQ
  <2>1. PICK t \in Queue : t = tx[REQ] /\ TxInv(t, a)
    BY <1>1, <1>3, <1>8, StateTypes DEF Streams
  <2>2. PICK u : u = AddOutqOffset(t, n) /\ u.content = t.content /\ u.ackOff = t.ackOff
    <3>1. n \in 0..t.unsent
      BY <1>3, <1>4, <1>8, <2>1
    <3>2. PICK u : u = AddOutqOffset(t, n)
      OBVIOUS
    <3>3. u.content = t.content /\ u.ackOff = t.ackOff
      BY <2>1, <3>1, <3>2, AcceptedInv
    <3>. QED
      BY <3>2, <3>3
  <2>3. tx'[REQ] = u /\ accepted'[REQ] = a + n
    BY <1>1, <1>3, <1>5, <1>8, <2>1, <2>2 DEF TypeOK
  <2>4. ~finSent /\ (fin => b = y)
    BY <1>1, <1>2, <1>3, <1>8 DEF FinInv, OfferInv
  <2>5. PICK l \in Nat : l = Len(t.content) /\ a + y = l
    <3>1. Len(t.content) \in Nat
      BY QueueFields
    <3>2. a + t.unsent = Len(t.content)
      BY <2>1, Zenon DEF TxInv
    <3>. QED
      BY <1>3, <1>8, <2>1, <3>1, <3>2
  <2>6. a + n \in a..l /\ (fin /\ n = b => a + n = l)
    BY <1>3, <1>4, <2>4, <2>5
  <2>7. finSent' => fin /\ n = b
    BY <1>5, <2>4
  <2>8. Request!Accept
    BY <1>3, <1>5, <1>8, <2>1, <2>2, <2>3, <2>4, <2>5, <2>6, <2>7 DEF Request!Accept
  <2>. QED
    BY <2>8 DEF Request!Next
<1>. QED
  BY <1>6, <1>7, <1>8

\* An acknowledgment.
LEMMA AckIsAcknowledge ==
  ASSUME IInv, NEW s \in TxStreams, NEW offset \in tx[s].ackOff..accepted[s], AckOffset(s, offset),
         ReportInv'
  PROVE  Request!Next \/ UNCHANGED Request!vars
<1>1. TypeOK /\ Streams
  BY DEF IInv, Streams
<1>2. /\ tx' = [tx EXCEPT ![s] = UpdateAckOffset(@, offset)]
      /\ reported' = reported + (IF s = REQ THEN AckedNow(tx[s], offset) ELSE 0)
      /\ UNCHANGED <<accepted, finSent>>
  BY DEF AckOffset
<1>3. CASE s = REQ
  <2>1. PICK t \in Queue, a \in Nat : t = tx[REQ] /\ a = accepted[REQ] /\ TxInv(t, a)
    BY <1>1, StateTypes DEF Streams
  <2>2. PICK u : u = UpdateAckOffset(t, offset)
    OBVIOUS
  <2>3. u.content = t.content /\ u.ackOff = offset
    BY <1>3, <2>1, <2>2, AckedInv
  <2>4. tx'[REQ] = u
    BY <1>1, <1>2, <1>3, <2>1, <2>2 DEF TypeOK
  <2>5. reported' = Request!Own(t.content, offset)
    BY <2>3, <2>4, OwnIsCardinality DEF ReportInv
  <2>6. Request!Acknowledge
    BY <1>2, <1>3, <2>1, <2>3, <2>4, <2>5 DEF Request!Acknowledge
  <2>. QED
    BY <2>6 DEF Request!Next
<1>4. CASE s # REQ
  <2>1. tx'[REQ] = tx[REQ] /\ reported' = reported
    BY <1>1, <1>2, <1>4, StateTypes DEF TypeOK
  <2>. QED
    BY <1>2, <2>1 DEF Request!vars
<1>. QED
  BY <1>3, <1>4

(* What the application and QUIC see of a request stream is a ByteStream:  *)
(* bytes written once, accepted and acknowledged in order, reported        *)
(* exactly, ended once.                                                    *)
THEOREM RequestRefinesByteStream == Spec => RequestIsByteStream
<1>1. Init => Request!Init
  BY DEF Init, Request!Init, EmptyTx, TxStreams
<1>2. IInv /\ IInv' /\ [Next]_vars => [Request!Next]_(Request!vars)
  <2>. SUFFICES ASSUME IInv, IInv', [Next]_vars
                PROVE  Request!Next \/ UNCHANGED Request!vars
    OBVIOUS
  <2>1. CASE Submit
    BY <2>1 DEF Submit, SubmitInfo, SubmitResponse, SubmitTrailers, SubmitHeadersData, answers,
                Request!vars
  <2>2. CASE WritevEncoder \/ WritevBegin \/ FinishWritev
    BY <2>2 DEF WritevEncoder, WritevBegin, FinishWritev, answers, Request!vars
  <2>3. CASE Fill
    BY <2>3, FillIsWrite DEF IInv
  <2>4. CASE Accept
    BY <2>4, AcceptIsAccept DEF Accept
  <2>5. CASE Refuse \/ ShutdownWrite \/ Resume
    BY <2>5 DEF Refuse, ShutdownWrite, Resume, answers, Request!vars
  <2>6. ASSUME NEW s \in TxStreams, Acknowledge(s) \/ Block(s) \/ Unblock(s)
        PROVE  Request!Next \/ UNCHANGED Request!vars
    <3>1. CASE Acknowledge(s)
      BY <3>1, AckIsAcknowledge DEF Acknowledge, IInv
    <3>2. CASE Block(s) \/ Unblock(s)
      BY <3>2 DEF Block, Unblock, answers, Request!vars
    <3>. QED
      BY <2>6, <3>1, <3>2
  <2>7. CASE UNCHANGED vars
    BY <2>7 DEF vars, answers, Request!vars
  <2>. QED
    BY <2>1, <2>2, <2>3, <2>4, <2>5, <2>6, <2>7 DEF Next
<1>. QED
  BY <1>1, <1>2, StreamTxInvariant, PTL DEF Spec, RequestIsByteStream, Request!Spec
-----------------------------------------------------------------------------
(* Chunks *)

(* The chunks d, numbered from o on, have been filled up to where the      *)
(* buffers of q end that lie in them; these lie there in the order they    *)
(* have in q.                                                              *)
Lie(q, d, o) ==
  /\ \A c \in 1..Len(d) :
       /\ d[c].id = o + c /\ d[c].last <= d[c].cap
       /\ \E k \in 1..Len(q) : /\ q[k].type = "SHARED" /\ q[k].chunk = o + c
                               /\ q[k].last = d[c].last
  /\ \A k \in 1..Len(q) : q[k].type = "SHARED" =>
       /\ q[k].begin < q[k].last
       /\ \E c \in 1..Len(d) : q[k].chunk = o + c /\ q[k].last <= d[c].last
       /\ \A j \in 1..Len(q) : j < k /\ q[j].type = "SHARED" =>
            \/ q[j].chunk < q[k].chunk
            \/ q[j].chunk = q[k].chunk /\ q[j].last <= q[k].begin

ChunksInv(t) ==
  /\ Len(t.chunks) <= t.allocated
  /\ Lie(t.outq, t.chunks, t.allocated - Len(t.chunks))

\* r is q with its positions moved, and buffers after it that lie in no chunk.
Beside(q, r) ==
  /\ Len(q) <= Len(r)
  /\ \A k \in 1..Len(q) : /\ r[k].type = q[k].type /\ r[k].chunk = q[k].chunk
                          /\ r[k].begin = q[k].begin /\ r[k].last = q[k].last
  /\ \A k \in 1..Len(r) : k > Len(q) => r[k].type # "SHARED"

\* Such a queue lies in the chunks as before.
LEMMA BesideLies ==
  ASSUME NEW q \in Seq(Buf), NEW r \in Seq(Buf), Beside(q, r),
         NEW d \in Seq(Chunk), NEW o \in Nat, Lie(q, d, o)
  PROVE  Lie(r, d, o)
<1>1. PICK m \in Nat, l \in Nat, n \in Nat : m = Len(q) /\ l = Len(r) /\ n = Len(d)
  OBVIOUS
<1>2. /\ m <= l
      /\ \A k \in 1..m : /\ k \in 1..l /\ r[k].type = q[k].type /\ r[k].chunk = q[k].chunk
                         /\ r[k].begin = q[k].begin /\ r[k].last = q[k].last
      /\ \A k \in 1..l : r[k].type = "SHARED" => k \in 1..m
  BY <1>1 DEF Beside
<1>3. ASSUME NEW c \in 1..n
      PROVE  /\ d[c].id = o + c /\ d[c].last <= d[c].cap
             /\ \E k \in 1..l : /\ r[k].type = "SHARED" /\ r[k].chunk = o + c
                                /\ r[k].last = d[c].last
  <2>1. /\ d[c].id = o + c /\ d[c].last <= d[c].cap
        /\ \E k \in 1..m : /\ q[k].type = "SHARED" /\ q[k].chunk = o + c
                           /\ q[k].last = d[c].last
    BY <1>1, Zenon DEF Lie
  <2>. QED
    BY <1>2, <2>1, Zenon
<1>4. ASSUME NEW k \in 1..l, r[k].type = "SHARED"
      PROVE  /\ r[k].begin < r[k].last
             /\ \E c \in 1..n : r[k].chunk = o + c /\ r[k].last <= d[c].last
             /\ \A j \in 1..l : j < k /\ r[j].type = "SHARED" =>
                  \/ r[j].chunk < r[k].chunk
                  \/ r[j].chunk = r[k].chunk /\ r[j].last <= r[k].begin
  <2>1. k \in 1..m /\ q[k].type = "SHARED"
    BY <1>2, <1>4, Zenon
  <2>2. /\ q[k].begin < q[k].last
        /\ \E c \in 1..n : q[k].chunk = o + c /\ q[k].last <= d[c].last
        /\ \A j \in 1..m : j < k /\ q[j].type = "SHARED" =>
             \/ q[j].chunk < q[k].chunk
             \/ q[j].chunk = q[k].chunk /\ q[j].last <= q[k].begin
    BY <1>1, <2>1, Zenon DEF Lie
  <2>. QED
    BY <1>2, <2>1, <2>2, Zenon
<1>. QED
  BY <1>1, <1>3, <1>4, Zenon DEF Lie

(* The last of the chunks e holds the buffer b at its end; the others are  *)
(* as in d.                                                                *)
Grown(d, o, e, b) ==
  /\ Len(e) > 0 /\ Len(d) <= Len(e) /\ Len(e) <= Len(d) + 1
  /\ \A c \in 1..Len(e) : /\ c < Len(e) => e[c] = d[c]
                          /\ e[c].id = o + c /\ e[c].last <= e[c].cap
  /\ b.type = "SHARED" /\ b.chunk = o + Len(e) /\ b.begin < b.last
  /\ b.last = e[Len(e)].last
  /\ Len(e) = Len(d) => d[Len(e)].last = b.begin
  /\ Len(e) > Len(d) => b.begin = 0

\* What lies in the chunks already lies before it.
LEMMA GrownBefore ==
  ASSUME NEW q \in Seq(Buf), NEW d \in Seq(Chunk), NEW o \in Nat, Lie(q, d, o),
         NEW e \in Seq(Chunk), NEW b \in Buf, Grown(d, o, e, b),
         NEW k \in 1..Len(q), q[k].type = "SHARED"
  PROVE  /\ \E c \in 1..Len(e) : q[k].chunk = o + c /\ q[k].last <= e[c].last
         /\ \/ q[k].chunk < b.chunk
            \/ q[k].chunk = b.chunk /\ q[k].last <= b.begin
<1>1. PICK n \in Nat, n1 \in Nat : n = Len(d) /\ n1 = Len(e)
  OBVIOUS
<1>2. PICK c \in 1..n : q[k].chunk = o + c /\ q[k].last <= d[c].last
  BY <1>1, Zenon DEF Lie
<1>3. c \in 1..n1 /\ b.chunk = o + n1 /\ n1 <= n + 1 /\ (c < n1 \/ (c = n1 /\ n1 = n))
  BY <1>1 DEF Grown
<1>4. q[k].last \in Nat /\ b.begin \in Nat /\ b.last \in Nat /\ b.begin < b.last
  <2>1. PICK x \in Buf : x = q[k]
    OBVIOUS
  <2>2. b.begin < b.last
    BY Zenon DEF Grown
  <2>. QED
    BY <2>1, <2>2 DEF Buf
<1>5. CASE c < n1
  <2>1. e[c] = d[c]
    BY <1>1, <1>3, <1>5 DEF Grown
  <2>2. o + c < o + n1
    BY <1>5
  <2>. QED
    BY <1>1, <1>2, <1>3, <2>1, <2>2
<1>6. CASE c = n1 /\ n1 = n
  <2>1. d[c].last = b.begin /\ b.last = e[c].last
    BY <1>1, <1>6, Zenon DEF Grown
  <2>2. q[k].last <= b.begin /\ q[k].last <= e[c].last
    BY <1>2, <1>4, <2>1
  <2>. QED
    BY <1>1, <1>2, <1>3, <1>6, <2>2
<1>. QED
  BY <1>3, <1>5, <1>6

\* The buffer is added to the queue as a new one.
LEMMA AppendLies ==
  ASSUME NEW q \in Seq(Buf), NEW d \in Seq(Chunk), NEW o \in Nat, Lie(q, d, o),
         NEW e \in Seq(Chunk), NEW b \in Buf, Grown(d, o, e, b),
         NEW m, NEW r, Appends(q, m, b, r)
  PROVE  Lie(r, e, o)
<1>1. /\ m \in Nat /\ m = Len(q) /\ r \in Seq(Buf) /\ Len(r) = m + 1 /\ r[m + 1] = b
      /\ \A k \in 1..m : r[k] = q[k]
  BY DEF Appends
<1>2. PICK n \in Nat, n1 \in Nat : n = Len(d) /\ n1 = Len(e)
  OBVIOUS
<1>3. ASSUME NEW c \in 1..n1
      PROVE  /\ e[c].id = o + c /\ e[c].last <= e[c].cap
             /\ \E k \in 1..(m + 1) : /\ r[k].type = "SHARED" /\ r[k].chunk = o + c
                                      /\ r[k].last = e[c].last
  <2>1. e[c].id = o + c /\ e[c].last <= e[c].cap
    BY <1>2, Zenon DEF Grown
  <2>2. CASE c = n1
    <3>1. m + 1 \in 1..(m + 1)
      BY <1>1
    <3>2. b.type = "SHARED" /\ b.chunk = o + c /\ b.last = e[c].last
      BY <1>2, <2>2, Zenon DEF Grown
    <3>. QED
      BY <1>1, <2>1, <3>1, <3>2, Zenon
  <2>3. CASE c # n1
    <3>1. c < n1 /\ c \in 1..n
      BY <1>2, <2>3 DEF Grown
    <3>2. e[c] = d[c]
      BY <1>2, <3>1, Zenon DEF Grown
    <3>3. PICK k \in 1..m : q[k].type = "SHARED" /\ q[k].chunk = o + c /\ q[k].last = d[c].last
      BY <1>1, <1>2, <3>1, Zenon DEF Lie
    <3>4. k \in 1..(m + 1)
      BY <1>1
    <3>. QED
      BY <1>1, <2>1, <3>2, <3>3, <3>4, Zenon
  <2>. QED
    BY <2>2, <2>3
<1>4. ASSUME NEW k \in 1..m, q[k].type = "SHARED"
      PROVE  /\ \E c \in 1..n1 : q[k].chunk = o + c /\ q[k].last <= e[c].last
             /\ \/ q[k].chunk < b.chunk
                \/ q[k].chunk = b.chunk /\ q[k].last <= b.begin
  BY <1>1, <1>2, <1>4, GrownBefore
<1>5. ASSUME NEW k \in 1..(m + 1), r[k].type = "SHARED"
      PROVE  /\ r[k].begin < r[k].last
             /\ \E c \in 1..n1 : r[k].chunk = o + c /\ r[k].last <= e[c].last
             /\ \A j \in 1..(m + 1) : j < k /\ r[j].type = "SHARED" =>
                  \/ r[j].chunk < r[k].chunk
                  \/ r[j].chunk = r[k].chunk /\ r[j].last <= r[k].begin
  <2>1. CASE k = m + 1
    <3>1. b.begin < b.last /\ n1 \in 1..n1 /\ b.chunk = o + n1 /\ b.last <= e[n1].last
      BY <1>2 DEF Grown, Buf
    <3>2. ASSUME NEW j \in 1..(m + 1), j < k, r[j].type = "SHARED"
          PROVE  \/ r[j].chunk < b.chunk
                 \/ r[j].chunk = b.chunk /\ r[j].last <= b.begin
      <4>1. j \in 1..m /\ r[j] = q[j]
        BY <1>1, <2>1, <3>2
      <4>. QED
        BY <1>4, <3>2, <4>1
    <3>. QED
      BY <1>1, <2>1, <3>1, <3>2, Zenon
  <2>2. CASE k # m + 1
    <3>1. k \in 1..m /\ r[k] = q[k] /\ q[k].type = "SHARED"
      BY <1>1, <1>5, <2>2
    <3>2. /\ q[k].begin < q[k].last
          /\ \A j \in 1..m : j < k /\ q[j].type = "SHARED" =>
               \/ q[j].chunk < q[k].chunk
               \/ q[j].chunk = q[k].chunk /\ q[j].last <= q[k].begin
      BY <1>1, <3>1, Zenon DEF Lie
    <3>3. \A j \in 1..(m + 1) : j < k => j \in 1..m
      BY <1>1, <3>1
    <3>. QED
      BY <1>1, <1>4, <3>1, <3>2, <3>3, Zenon
  <2>. QED
    BY <2>1, <2>2
<1>. QED
  BY <1>1, <1>2, <1>3, <1>5, Zenon DEF Lie

\* The buffer is added to the last one of the queue, which ends where it
\* begins.
LEMMA ExtendLies ==
  ASSUME NEW q \in Seq(Buf), NEW d \in Seq(Chunk), NEW o \in Nat, Lie(q, d, o),
         NEW e \in Seq(Chunk), NEW b \in Buf, Grown(d, o, e, b),
         NEW m, NEW r, Lengthens(q, m, b.last, r),
         q[m].type = "SHARED", q[m].chunk = b.chunk, q[m].last = b.begin
  PROVE  Lie(r, e, o)
<1>1. /\ m \in Nat /\ m > 0 /\ m = Len(q) /\ r \in Seq(Buf) /\ Len(r) = m
      /\ r[m].type = "SHARED" /\ r[m].chunk = b.chunk /\ r[m].begin = q[m].begin
      /\ r[m].last = b.last
      /\ \A k \in 1..m : k # m => r[k] = q[k]
  <2>1. m \in Nat /\ m > 0 /\ m = Len(q) /\ r = [q EXCEPT ![m].last = b.last]
    BY DEF Lengthens
  <2>2. PICK x \in Buf : x = q[m]
    BY <2>1
  <2>3. PICK y : y = [x EXCEPT !.last = b.last]
    OBVIOUS
  <2>4. /\ y \in Buf /\ y.type = x.type /\ y.chunk = x.chunk /\ y.begin = x.begin /\ y.last = b.last
    BY <2>3 DEF Buf
  <2>5. r = [q EXCEPT ![m] = y]
    BY <2>1, <2>2, <2>3
  <2>6. r \in Seq(Buf) /\ Len(r) = m /\ r[m] = y /\ \A k \in 1..m : k # m => r[k] = q[k]
    <3>1. m \in 1..Len(q) /\ DOMAIN q = 1..m
      BY <2>1
    <3>2. r \in Seq(Buf)
      BY <2>4, <2>5, <3>1, ExceptSeq
    <3>3. Len(r) = m
      BY <2>1, <2>5
    <3>. QED
      BY <2>5, <3>1, <3>2, <3>3
  <2>. QED
    BY <2>1, <2>2, <2>4, <2>6, Zenon
<1>2. PICK n \in Nat, n1 \in Nat : n = Len(d) /\ n1 = Len(e)
  OBVIOUS
<1>3. m \in 1..m /\ b.chunk = o + n1 /\ b.last = e[n1].last /\ n1 \in 1..n1 /\ b.begin < b.last
      /\ b.begin \in Nat /\ b.last \in Nat
  <2>1. Len(e) > 0 /\ b.chunk = o + Len(e) /\ b.last = e[Len(e)].last /\ b.begin < b.last
    BY Zenon DEF Grown
  <2>2. m \in 1..m /\ n1 \in 1..n1
    BY <1>1, <1>2, <2>1
  <2>3. b.begin \in Nat /\ b.last \in Nat
    BY DEF Buf
  <2>. QED
    BY <1>2, <2>1, <2>2, <2>3, Zenon
<1>4. ASSUME NEW c \in 1..n1
      PROVE  /\ e[c].id = o + c /\ e[c].last <= e[c].cap
             /\ \E k \in 1..m : /\ r[k].type = "SHARED" /\ r[k].chunk = o + c
                                /\ r[k].last = e[c].last
  <2>1. e[c].id = o + c /\ e[c].last <= e[c].cap
    BY <1>2, Zenon DEF Grown
  <2>2. CASE c = n1
    BY <1>1, <1>3, <2>1, <2>2, Zenon
  <2>3. CASE c # n1
    <3>1. c < n1 /\ c \in 1..n
      BY <1>2, <2>3 DEF Grown
    <3>2. e[c] = d[c]
      BY <1>2, <3>1, Zenon DEF Grown
    <3>3. PICK k \in 1..m : q[k].type = "SHARED" /\ q[k].chunk = o + c /\ q[k].last = d[c].last
      BY <1>1, <1>2, <3>1, Zenon DEF Lie
    <3>4. k # m
      <4>1. o + c # o + n1
        BY <3>1
      <4>. QED
        BY <1>3, <3>3, <4>1
    <3>. QED
      BY <1>1, <2>1, <3>2, <3>3, <3>4, Zenon
  <2>. QED
    BY <2>2, <2>3
<1>5. ASSUME NEW k \in 1..m, r[k].type = "SHARED"
      PROVE  /\ r[k].begin < r[k].last
             /\ \E c \in 1..n1 : r[k].chunk = o + c /\ r[k].last <= e[c].last
             /\ \A j \in 1..m : j < k /\ r[j].type = "SHARED" =>
                  \/ r[j].chunk < r[k].chunk
                  \/ r[j].chunk = r[k].chunk /\ r[j].last <= r[k].begin
  <2>1. q[k].type = "SHARED"
    BY <1>1, <1>5
  <2>2. /\ q[k].begin < q[k].last
        /\ \A j \in 1..m : j < k /\ q[j].type = "SHARED" =>
             \/ q[j].chunk < q[k].chunk
             \/ q[j].chunk = q[k].chunk /\ q[j].last <= q[k].begin
    BY <1>1, <2>1, Zenon DEF Lie
  <2>3. ASSUME NEW j \in 1..m, j < k, r[j].type = "SHARED"
        PROVE  \/ r[j].chunk < r[k].chunk
               \/ r[j].chunk = r[k].chunk /\ r[j].last <= r[k].begin
    <3>1. r[j] = q[j] /\ r[k].begin = q[k].begin /\ r[k].chunk = q[k].chunk
      BY <1>1, <2>3
    <3>. QED
      BY <2>2, <2>3, <3>1, Zenon
  <2>4. r[k].begin < r[k].last /\ \E c \in 1..n1 : r[k].chunk = o + c /\ r[k].last <= e[c].last
    <3>1. CASE k = m
      <4>1. q[m].begin \in Nat /\ q[m].begin < b.begin
        <5>1. PICK x \in Buf : x = q[m]
          BY <1>1
        <5>2. x.begin < b.begin
          BY <2>2, <3>1, <5>1, Zenon
        <5>. QED
          BY <5>1, <5>2 DEF Buf
      <4>2. r[m].begin < r[m].last /\ r[m].last <= e[n1].last
        BY <1>1, <1>3, <4>1
      <4>. QED
        BY <1>1, <1>3, <3>1, <4>2
    <3>2. CASE k # m
      <4>1. r[k] = q[k]
        BY <1>1, <3>2
      <4>2. \E c \in 1..n1 : q[k].chunk = o + c /\ q[k].last <= e[c].last
        <5>1. k \in 1..Len(q)
          BY <1>1
        <5>2. \E c \in 1..Len(e) : q[k].chunk = o + c /\ q[k].last <= e[c].last
          BY <2>1, <5>1, GrownBefore
        <5>. QED
          BY <1>2, <5>2, Zenon
      <4>. QED
        BY <2>2, <4>1, <4>2
    <3>. QED
      BY <3>1, <3>2
  <2>. QED
    BY <2>3, <2>4
<1>. QED
  BY <1>1, <1>2, <1>4, <1>5, Zenon DEF Lie

\* The chunks of u are those of t, and so is what lies in them.
AsBefore(t, u) ==
  /\ u \in Queue /\ u.chunks = t.chunks /\ u.allocated = t.allocated
  /\ Beside(t.outq, u.outq)

\* Then they are in order as they were.
LEMMA AsBeforeKeeps ==
  ASSUME NEW t \in Queue, ChunksInv(t), NEW u, AsBefore(t, u)
  PROVE  ChunksInv(u)
<1>1. /\ t.outq \in Seq(Buf) /\ u.outq \in Seq(Buf) /\ t.chunks \in Seq(Chunk)
      /\ t.allocated \in Nat /\ Len(t.chunks) \in Nat
  BY QueueFields DEF AsBefore
<1>2. Len(t.chunks) <= t.allocated /\ Lie(t.outq, t.chunks, t.allocated - Len(t.chunks))
  BY Zenon DEF ChunksInv
<1>3. PICK o \in Nat : o = t.allocated - Len(t.chunks)
  BY <1>1, <1>2
<1>4. Beside(t.outq, u.outq) /\ Lie(t.outq, t.chunks, o)
  BY <1>2, <1>3, Zenon DEF AsBefore
<1>5. Lie(u.outq, t.chunks, o)
  BY <1>1, <1>4, BesideLies
<1>. QED
  BY <1>2, <1>3, <1>5, Zenon DEF AsBefore, ChunksInv

\* A buffer of its own memory is added.
LEMMA AddOwnChunks ==
  ASSUME NEW t \in Queue, QueueInv(t), ChunksInv(t), NEW n \in Nat
  PROVE  ChunksInv(OutqAdd(t, Own(n)))
<1>1. PICK b \in Buf : b = Own(n) /\ b.begin = b.pos /\ b.pos <= b.last /\ b.type # "SHARED"
  BY OwnGood
<1>2. PICK u : u = OutqAdd(t, b)
  OBVIOUS
<1>3. PICK m \in Nat, q \in Seq(Buf) : q = t.outq /\ m = Len(q)
  BY QueueFields
<1>4. t.outq \in Bufs /\ t.idx <= Len(t.outq)
  BY Zenon DEF QueueInv, Shape
<1>5. ~Extends(t, b)
  BY <1>1, Zenon DEF Extends
<1>6. /\ u \in Queue /\ u.chunks = t.chunks /\ u.allocated = t.allocated
      /\ u.outq = Append(t.outq, b)
  BY <1>1, <1>2, <1>4, <1>5, OutqAddFields
<1>7. PICK r : r = Append(q, b)
  OBVIOUS
<1>8. Beside(q, r)
  BY <1>1, <1>3, <1>7 DEF Beside
<1>9. AsBefore(t, u)
  BY <1>3, <1>6, <1>7, <1>8, Zenon DEF AsBefore
<1>10. ChunksInv(u)
  BY <1>9, AsBeforeKeeps
<1>. QED
  BY <1>1, <1>2, <1>10, Zenon

\* The buffers of the application are added.
LEMMA AddAliensChunks ==
  ASSUME NEW t \in Queue, QueueInv(t), ChunksInv(t), NEW lens \in Seq(Nat \ {0})
  PROVE  ChunksInv(AddAliens(t, lens))
<1>1. PICK m \in Nat : m = Len(lens) /\ DOMAIN lens = 1..m /\ \A k \in 1..m : lens[k] \in Nat
  OBVIOUS
<1>2. PICK q \in Seq(Buf) : q = t.outq
  BY QueueFields
<1>3. PICK f : f = [k \in DOMAIN lens |-> Alien(lens[k])]
  OBVIOUS
<1>4. f \in Seq(Buf) /\ Len(f) = m /\ \A k \in 1..m : f[k].type = "ALIEN"
  <2>1. \A k \in 1..m : Alien(lens[k]) \in Buf /\ Alien(lens[k]).type = "ALIEN"
    BY <1>1, OwnGood
  <2>. QED
    BY <1>1, <1>3, <2>1
<1>5. PICK g \in Seq(Buf) : g = q \o f /\ Len(g) = Len(q) + Len(f)
                            /\ \A k \in 1..Len(q) + Len(f) :
                                 g[k] = IF k <= Len(q) THEN q[k] ELSE f[k - Len(q)]
  BY <1>4, Concatenation, ZenonT(60)
<1>6. PICK u : u = AddAliens(t, lens)
  OBVIOUS
<1>7. u \in Queue
  BY <1>6, AddAliensGood DEF Written
<1>8. PICK y, e : u = [t EXCEPT !.outq = g, !.unsent = y, !.content = e]
  <2>1. PICK d : d = SumTo(lens, Len(lens))
    OBVIOUS
  <2>2. u = [t EXCEPT !.outq = @ \o f, !.unsent = @ + d,
                      !.content = @ \o [k \in 1..d |-> TRUE]]
    BY <1>3, <1>6, <2>1, Zenon DEF AddAliens
  <2>. QED
    BY <1>2, <1>5, <2>2 DEF Queue
<1>9. u.outq = g /\ u.chunks = t.chunks /\ u.allocated = t.allocated
  BY <1>8 DEF Queue
<1>10. Beside(q, g)
  <2>1. PICK l \in Nat : l = Len(q)
    OBVIOUS
  <2>2. Len(g) = l + m /\ \A k \in 1..(l + m) : g[k] = IF k <= l THEN q[k] ELSE f[k - l]
    BY <1>4, <1>5, <2>1
  <2>3. \A k \in 1..l : g[k] = q[k]
    BY <2>2
  <2>4. \A k \in 1..(l + m) : k > l => g[k].type = "ALIEN"
    <3>1. ASSUME NEW k \in 1..(l + m), k > l PROVE g[k].type = "ALIEN"
      <4>1. k - l \in 1..m /\ g[k] = f[k - l]
        BY <2>2, <3>1
      <4>. QED
        BY <1>4, <4>1
    <3>. QED
      BY <3>1
  <2>5. Len(q) <= Len(g)
    BY <2>1, <2>2
  <2>6. \A k \in 1..Len(q) : g[k] = q[k]
    BY <2>1, <2>3
  <2>7. \A k \in 1..Len(g) : k > Len(q) => g[k].type # "SHARED"
    BY <2>1, <2>2, <2>4
  <2>. QED
    BY <2>5, <2>6, <2>7, Zenon DEF Beside
<1>11. AsBefore(t, u)
  BY <1>2, <1>7, <1>9, <1>10, Zenon DEF AsBefore
<1>12. ChunksInv(u)
  BY <1>11, AsBeforeKeeps
<1>. QED
  BY <1>6, <1>12

\* QUIC accepts bytes.
LEMMA AcceptedChunks ==
  ASSUME NEW t \in Queue, QueueInv(t), ChunksInv(t), NEW n \in 0..t.unsent
  PROVE  ChunksInv(AddOutqOffset(t, n))
<1>1. PICK u : u = AddOutqOffset(t, n)
  OBVIOUS
<1>2. /\ u \in Queue /\ u.chunks = t.chunks /\ u.allocated = t.allocated
      /\ Len(u.outq) = Len(t.outq)
      /\ \A k \in 1..Len(t.outq) :
           /\ u.outq[k].type = t.outq[k].type /\ u.outq[k].chunk = t.outq[k].chunk
           /\ u.outq[k].begin = t.outq[k].begin /\ u.outq[k].last = t.outq[k].last
  BY <1>1, AddOutqOffsetGood
<1>3. Beside(t.outq, u.outq)
  <2>1. PICK m \in Nat : m = Len(t.outq) /\ m = Len(u.outq)
    BY <1>2, QueueFields
  <2>2. m <= m /\ \A k \in 1..m : ~(k > m)
    BY <2>1
  <2>. QED
    BY <1>2, <2>1, <2>2, Zenon DEF Beside
<1>4. AsBefore(t, u)
  BY <1>2, <1>3, Zenon DEF AsBefore
<1>. QED
  BY <1>1, <1>4, AsBeforeKeeps

\* The last chunk takes n bytes more, or a new one its first n.
LEMMA FilledGrown ==
  ASSUME NEW t \in Queue, ChunksInv(t), NEW n \in Nat \ {0},
         NEW u, Rechunked(t, u), Filled(t, u, n, n)
  PROVE  LET o == t.allocated - Len(t.chunks)
         IN /\ o \in Nat /\ Len(u.chunks) <= u.allocated /\ o = u.allocated - Len(u.chunks)
            /\ Grown(t.chunks, o, u.chunks, SharedBuf(u, n))
<1>1. PICK m \in Nat, a \in Nat, d \in Seq(Chunk) : m = Len(d) /\ a = t.allocated /\ d = t.chunks
  BY QueueFields
<1>2. u.chunks \in Seq(Chunk) /\ u.allocated \in Nat
  BY QueueFields DEF Rechunked
<1>3. m <= a /\ \A c \in 1..m : d[c].id = (a - m) + c /\ d[c].last <= d[c].cap
  BY <1>1, Zenon DEF ChunksInv, Lie
<1>4. PICK o \in Nat : o = a - m
  BY <1>3
<1>5. PICK b \in Buf : b = SharedBuf(u, n)
  BY SharedBufGood
<1>6. /\ b.type = "SHARED" /\ b.begin = b.pos /\ b.pos + n = b.last
      /\ Len(u.chunks) > 0 /\ b.last = u.chunks[Len(u.chunks)].last
      /\ b.chunk = u.chunks[Len(u.chunks)].id
  BY <1>5, SharedBufGood
<1>7. b.begin \in Nat /\ b.last \in Nat /\ b.begin + n = b.last /\ b.begin < b.last
  <2>1. b.begin \in Nat /\ b.last \in Nat
    BY DEF Buf
  <2>. QED
    BY <1>6, <2>1
<1>8. CASE HasRoom(t, n)
  <2>1. m > 0 /\ d[m].cap - d[m].last >= n
    BY <1>1, <1>8, Zenon DEF HasRoom
  <2>2. u.chunks = [d EXCEPT ![m].last = @ + n] /\ u.allocated = a
    BY <1>1, <1>8, Zenon DEF Filled
  <2>3. PICK x \in Chunk : x = d[m]
    BY <1>1, <2>1
  <2>4. x.last \in Nat /\ x.cap \in Nat /\ x.last + n <= x.cap
    BY <2>1, <2>3 DEF Chunk
  <2>5. PICK y : y = [x EXCEPT !.last = @ + n]
    OBVIOUS
  <2>6. y.id = x.id /\ y.last = x.last + n /\ y.cap = x.cap
    BY <2>5 DEF Chunk
  <2>7. PICK e \in Seq(Chunk) : e = u.chunks
    BY <1>2
  <2>8. Len(e) = m /\ e[m] = y /\ \A c \in 1..m : c # m => e[c] = d[c]
    BY <1>1, <2>1, <2>2, <2>3, <2>5, <2>7
  <2>9. x.id = o + m /\ m \in 1..m
    BY <1>3, <1>4, <2>1, <2>3
  <2>10. ASSUME NEW c \in 1..m
         PROVE  /\ c < m => e[c] = d[c]
                /\ e[c].id = o + c /\ e[c].last <= e[c].cap
    <3>1. c < m => c # m
      OBVIOUS
    <3>2. CASE c = m
      <4>1. y.last <= y.cap
        BY <2>4, <2>6
      <4>. QED
        BY <2>6, <2>8, <2>9, <3>1, <3>2, <4>1, Zenon
    <3>3. CASE c # m
      BY <1>3, <1>4, <2>8, <3>3, Zenon
    <3>. QED
      BY <3>2, <3>3
  <2>11. b.chunk = o + m /\ b.last = y.last /\ x.last = b.begin
    <3>1. b.chunk = y.id /\ b.last = y.last
      BY <1>6, <2>7, <2>8, Zenon
    <3>. QED
      BY <1>7, <2>4, <2>6, <2>9, <3>1
  <2>12. m > 0 /\ m <= m /\ m <= m + 1 /\ ~(m > m)
    BY <2>1
  <2>13. Grown(d, o, e, b)
    BY <1>1, <1>6, <1>7, <2>3, <2>8, <2>10, <2>11, <2>12, Zenon DEF Grown
  <2>14. Len(u.chunks) <= u.allocated /\ o = u.allocated - Len(u.chunks)
    BY <1>3, <1>4, <2>2, <2>7, <2>8
  <2>. QED
    BY <1>1, <1>4, <1>5, <2>7, <2>13, <2>14, Zenon
<1>9. CASE ~HasRoom(t, n)
  <2>1. PICK cap \in Nat : cap = ChunkCapacity(n) /\ n <= cap
    BY ChunkCapacityRoom
  <2>2. PICK y : y = [id |-> a + 1, last |-> n, cap |-> cap]
    OBVIOUS
  <2>3. u.chunks = Append(d, y) /\ u.allocated = a + 1
    BY <1>1, <1>9, <2>1, <2>2, Zenon DEF Filled
  <2>4. y.id = a + 1 /\ y.last = n /\ y.cap = cap
    BY <2>2
  <2>5. PICK e \in Seq(Chunk) : e = u.chunks
    BY <1>2
  <2>6. Len(e) = m + 1 /\ e[m + 1] = y /\ \A c \in 1..m : e[c] = d[c]
    BY <1>1, <2>3, <2>5
  <2>7. a + 1 = o + (m + 1)
    BY <1>3, <1>4
  <2>8. ASSUME NEW c \in 1..(m + 1)
        PROVE  /\ c < m + 1 => e[c] = d[c]
               /\ e[c].id = o + c /\ e[c].last <= e[c].cap
    <3>1. CASE c = m + 1
      BY <2>1, <2>4, <2>6, <2>7, <3>1
    <3>2. CASE c # m + 1
      <4>1. c \in 1..m
        BY <3>2
      <4>. QED
        BY <1>3, <1>4, <2>6, <4>1, Zenon
    <3>. QED
      BY <3>1, <3>2
  <2>9. b.chunk = o + (m + 1) /\ b.last = y.last /\ b.begin = 0
    <3>1. b.chunk = y.id /\ b.last = y.last
      BY <1>6, <2>5, <2>6, Zenon
    <3>. QED
      BY <1>7, <2>4, <2>7, <3>1
  <2>10. m + 1 > 0 /\ m <= m + 1 /\ m + 1 <= m + 1 /\ ~(m + 1 = m)
    OBVIOUS
  <2>11. Grown(d, o, e, b)
    BY <1>1, <1>6, <1>7, <2>6, <2>8, <2>9, <2>10, Zenon DEF Grown
  <2>12. Len(u.chunks) <= u.allocated /\ o = u.allocated - Len(u.chunks)
    BY <1>3, <1>4, <2>3, <2>5, <2>6
  <2>. QED
    BY <1>1, <1>4, <1>5, <2>5, <2>11, <2>12, Zenon
<1>. QED
  BY <1>8, <1>9

\* Bytes of the stream's own are added.
LEMMA AddSharedChunks ==
  ASSUME NEW t \in Queue, QueueInv(t), ChunksInv(t), NEW n \in Nat \ {0}
  PROVE  ChunksInv(AddShared(t, n))
<1>1. PICK u : u = FillChunk(t, n, n)
  OBVIOUS
<1>2. Rechunked(t, u) /\ Filled(t, u, n, n) /\ u \in Queue
  BY <1>1, FillChunkFields DEF Rechunked
<1>3. PICK b \in Buf : b = SharedBuf(u, n)
  BY <1>2, SharedBufGood
<1>4. b.begin = b.pos /\ b.pos <= b.last
  <2>1. b.begin = b.pos /\ b.pos + n = b.last
    BY <1>2, <1>3, SharedBufGood
  <2>. QED
    BY <2>1 DEF Buf
<1>5. AddShared(t, n) = OutqAdd(u, b)
  BY <1>1, <1>3, Zenon DEF AddShared, SharedBuf, Last
<1>6. PICK o \in Nat :
        /\ o = t.allocated - Len(t.chunks)
        /\ Len(u.chunks) <= u.allocated /\ o = u.allocated - Len(u.chunks)
        /\ Grown(t.chunks, o, u.chunks, b)
  BY <1>2, <1>3, FilledGrown
<1>7. PICK q \in Seq(Buf), d \in Seq(Chunk), e \in Seq(Chunk), m \in Nat :
        q = t.outq /\ q = u.outq /\ d = t.chunks /\ e = u.chunks /\ m = Len(q)
  BY <1>2, QueueFields DEF Rechunked
<1>8. Lie(q, d, o) /\ Grown(d, o, e, b)
  BY <1>6, <1>7, Zenon DEF ChunksInv
<1>9. u.outq \in Bufs /\ u.idx <= Len(u.outq)
  BY <1>2, Zenon DEF QueueInv, Shape, Rechunked
<1>10. PICK v : v = OutqAdd(u, b)
  OBVIOUS
<1>11. /\ v.chunks = u.chunks /\ v.allocated = u.allocated
       /\ Extends(u, b) => v.outq = [u.outq EXCEPT ![Len(u.outq)].last = b.last]
       /\ ~Extends(u, b) => v.outq = Append(u.outq, b)
  BY <1>2, <1>4, <1>9, <1>10, OutqAddFields
<1>12. Lie(v.outq, e, o)
  <2>1. CASE Extends(u, b)
    <3>1. /\ m > 0 /\ q[m].type = "SHARED" /\ q[m].chunk = b.chunk /\ q[m].last = b.begin
      BY <1>4, <1>7, <2>1, Zenon DEF Extends
    <3>2. PICK r : r = [q EXCEPT ![m].last = b.last]
      OBVIOUS
    <3>3. Lengthens(q, m, b.last, r)
      BY <1>7, <3>1, <3>2, Zenon DEF Lengthens
    <3>4. Lie(r, e, o)
      BY <1>8, <3>1, <3>3, ExtendLies
    <3>. QED
      BY <1>7, <1>11, <2>1, <3>2, <3>4, Zenon
  <2>2. CASE ~Extends(u, b)
    <3>1. PICK r : Appends(q, m, b, r) /\ r = Append(q, b)
      BY <1>7, Zenon DEF Appends
    <3>2. Lie(r, e, o)
      BY <1>8, <3>1, AppendLies
    <3>. QED
      BY <1>7, <1>11, <2>2, <3>1, <3>2, Zenon
  <2>. QED
    BY <2>1, <2>2, Zenon
<1>13. ChunksInv(v)
  BY <1>6, <1>7, <1>11, <1>12, Zenon DEF ChunksInv
<1>. QED
  BY <1>5, <1>10, <1>13, Zenon

\* Of what lies in the chunks, the first k buffers are the ones that free the
\* first f of them: only they lie there, and they end no other.
Parted(q, d, o, k, f) ==
  /\ f <= Len(d)
  /\ \A j \in 1..Len(q) : q[j].type = "SHARED" /\ q[j].chunk <= o + f => j <= k
  /\ \A j \in 1..Len(q) : j <= k /\ q[j].type = "SHARED" =>
       \A c \in 1..Len(d) : q[j].chunk = o + c /\ q[j].last = d[c].last => c <= f

\* No buffers free none.
LEMMA PartedFirst ==
  ASSUME NEW q \in Seq(Buf), NEW d \in Seq(Chunk), NEW o \in Nat, Lie(q, d, o)
  PROVE  Parted(q, d, o, 0, 0)
<1>1. PICK m \in Nat, n \in Nat : m = Len(q) /\ n = Len(d)
  OBVIOUS
<1>2. ASSUME NEW j \in 1..m, q[j].type = "SHARED" PROVE ~(q[j].chunk <= o + 0)
  <2>1. PICK c \in 1..n : q[j].chunk = o + c
    BY <1>1, <1>2, Zenon DEF Lie
  <2>. QED
    BY <2>1
<1>3. 0 <= n /\ \A j \in 1..m : ~(j <= 0)
  OBVIOUS
<1>. QED
  BY <1>1, <1>2, <1>3, Zenon DEF Parted

\* One buffer more frees one chunk more, if it ends there.
LEMMA PartedStep ==
  ASSUME NEW q \in Seq(Buf), NEW d \in Seq(Chunk), NEW o \in Nat, Lie(q, d, o),
         NEW k \in Nat, k < Len(q), NEW f \in Nat, Parted(q, d, o, k, f)
  PROVE  IF q[k + 1].type = "SHARED" /\ d[f + 1].last = q[k + 1].last
         THEN Parted(q, d, o, k + 1, f + 1) ELSE Parted(q, d, o, k + 1, f)
<1>1. PICK m \in Nat, n \in Nat : m = Len(q) /\ n = Len(d)
  OBVIOUS
<1>2. /\ f <= n
      /\ \A j \in 1..m : q[j].type = "SHARED" /\ q[j].chunk <= o + f => j <= k
      /\ \A j \in 1..m : j <= k /\ q[j].type = "SHARED" =>
           \A c \in 1..n : q[j].chunk = o + c /\ q[j].last = d[c].last => c <= f
  BY <1>1, Zenon DEF Parted
<1>3. k + 1 \in 1..m /\ f + 1 \in Nat /\ \A j \in 1..m : j <= k + 1 => j <= k \/ j = k + 1
  BY <1>1
<1>4. CASE q[k + 1].type # "SHARED"
  <2>1. ASSUME NEW j \in 1..m, j <= k + 1, q[j].type = "SHARED" PROVE j <= k
    BY <1>3, <1>4, <2>1
  <2>2. \A j \in 1..m : j <= k => j <= k + 1
    OBVIOUS
  <2>3. Parted(q, d, o, k + 1, f)
    BY <1>1, <1>2, <2>1, <2>2, Zenon DEF Parted
  <2>. QED
    BY <1>4, <2>3, Zenon
<1>5. CASE q[k + 1].type = "SHARED"
  <2>1. PICK b \in Buf : b = q[k + 1]
    BY <1>1, <1>3
  <2>2. b.last \in Nat /\ b.chunk \in Nat
    BY DEF Buf
  <2>3. PICK e \in 1..n : b.chunk = o + e /\ b.last <= d[e].last
    BY <1>1, <1>3, <1>5, <2>1, Zenon DEF Lie
  <2>4. e > f /\ f + 1 \in 1..n
    <3>1. ~(b.chunk <= o + f)
      <4>1. ~(k + 1 <= k)
        OBVIOUS
      <4>. QED
        BY <1>2, <1>3, <1>5, <2>1, <4>1, Zenon
    <3>. QED
      BY <1>2, <2>3, <3>1
  <2>5. \A j \in 1..m : q[j].type = "SHARED" /\ j > k + 1 =>
          \/ b.chunk < q[j].chunk
          \/ b.chunk = q[j].chunk /\ b.last <= q[j].begin
    <3>1. \A j \in 1..m : j > k + 1 => k + 1 < j
      OBVIOUS
    <3>. QED
      BY <1>1, <1>3, <1>5, <2>1, <3>1, Zenon DEF Lie
  <2>6. e = f + 1
    <3>1. PICK j \in 1..m : q[j].type = "SHARED" /\ q[j].chunk = o + (f + 1)
                            /\ q[j].last = d[f + 1].last
      BY <1>1, <2>4, Zenon DEF Lie
    <3>2. ~(j <= k)
      <4>1. ~(f + 1 <= f)
        OBVIOUS
      <4>. QED
        BY <1>2, <2>4, <3>1, <4>1, Zenon
    <3>3. CASE j = k + 1
      BY <2>1, <2>3, <3>1, <3>3
    <3>4. CASE j > k + 1
      <4>1. b.chunk <= q[j].chunk
        BY <2>2, <2>5, <3>1, <3>4
      <4>. QED
        BY <2>3, <2>4, <3>1, <4>1
    <3>. QED
      BY <3>2, <3>3, <3>4
  <2>7. CASE d[f + 1].last = b.last
    <3>1. ASSUME NEW j \in 1..m, q[j].type = "SHARED", q[j].chunk <= o + (f + 1)
          PROVE  j <= k + 1
      <4>. SUFFICES ASSUME j > k + 1 PROVE FALSE
        OBVIOUS
      <4>1. PICK x \in Buf : x = q[j]
        BY <1>1
      <4>2. x.begin \in Nat /\ x.last \in Nat /\ x.chunk \in Nat
        BY DEF Buf
      <4>3. PICK c \in 1..n : x.chunk = o + c /\ x.last <= d[c].last /\ x.begin < x.last
        BY <1>1, <3>1, <4>1, Zenon DEF Lie
      <4>4. b.chunk < x.chunk \/ (b.chunk = x.chunk /\ b.last <= x.begin)
        BY <2>5, <3>1, <4>1, Zenon
      <4>5. c = f + 1 /\ b.last <= x.begin
        BY <2>3, <2>6, <3>1, <4>1, <4>3, <4>4
      <4>6. x.last <= b.last
        BY <2>7, <4>3, <4>5, Zenon
      <4>. QED
        BY <2>2, <4>2, <4>3, <4>5, <4>6, SMTT(60)
    <3>2. ASSUME NEW j \in 1..m, j <= k + 1, q[j].type = "SHARED",
                 NEW c \in 1..n, q[j].chunk = o + c, q[j].last = d[c].last
          PROVE  c <= f + 1
      <4>1. CASE j <= k
        <5>1. c <= f
          BY <1>2, <3>2, <4>1, Zenon
        <5>. QED
          BY <5>1
      <4>2. CASE j = k + 1
        BY <2>1, <2>3, <2>6, <3>2, <4>2
      <4>. QED
        BY <1>3, <3>2, <4>1, <4>2
    <3>3. f + 1 <= n
      BY <2>4
    <3>4. Parted(q, d, o, k + 1, f + 1)
      BY <1>1, <3>1, <3>2, <3>3, Zenon DEF Parted
    <3>. QED
      BY <1>5, <2>1, <2>7, <3>4, Zenon
  <2>8. CASE d[f + 1].last # b.last
    <3>1. \A j \in 1..m : q[j].type = "SHARED" /\ q[j].chunk <= o + f => j <= k + 1
      <4>1. \A j \in 1..m : j <= k => j <= k + 1
        OBVIOUS
      <4>. QED
        BY <1>2, <4>1, Zenon
    <3>2. ASSUME NEW j \in 1..m, j <= k + 1, q[j].type = "SHARED",
                 NEW c \in 1..n, q[j].chunk = o + c, q[j].last = d[c].last
          PROVE  c <= f
      <4>1. CASE j <= k
        BY <1>2, <3>2, <4>1, Zenon
      <4>2. CASE j = k + 1
        <5>1. c = f + 1
          BY <2>1, <2>3, <2>6, <3>2, <4>2
        <5>. QED
          BY <2>1, <2>8, <3>2, <4>2, <5>1, Zenon
      <4>. QED
        BY <1>3, <3>2, <4>1, <4>2
    <3>3. Parted(q, d, o, k + 1, f)
      BY <1>1, <1>2, <3>1, <3>2, Zenon DEF Parted
    <3>. QED
      BY <1>5, <2>1, <2>8, <3>3, Zenon
  <2>. QED
    BY <2>7, <2>8
<1>. QED
  BY <1>4, <1>5

\* What is left lies in the chunks that are left.
LEMMA PartedLies ==
  ASSUME NEW q \in Seq(Buf), NEW d \in Seq(Chunk), NEW o \in Nat, Lie(q, d, o),
         NEW p \in Nat, p <= Len(q), NEW f \in Nat, Parted(q, d, o, p, f),
         NEW r, Suffix(r, q, p), NEW e, Suffix(e, d, f)
  PROVE  Lie(r, e, o + f) /\ f <= Len(d) /\ Len(e) = Len(d) - f
<1>1. PICK m \in Nat, n \in Nat : m = Len(q) /\ n = Len(d)
  OBVIOUS
<1>2. /\ f <= n
      /\ \A j \in 1..m : q[j].type = "SHARED" /\ q[j].chunk <= o + f => j <= p
      /\ \A j \in 1..m : j <= p /\ q[j].type = "SHARED" =>
           \A c \in 1..n : q[j].chunk = o + c /\ q[j].last = d[c].last => c <= f
  BY <1>1, Zenon DEF Parted
<1>3. PICK l \in Nat, g \in Nat : l = m - p /\ g = n - f /\ p + l = m /\ f + g = n
  <2>1. m - p \in Nat /\ p + (m - p) = m
    BY <1>1
  <2>2. n - f \in Nat /\ f + (n - f) = n
    BY <1>2
  <2>. QED
    BY <2>1, <2>2, Zenon
<1>4. Len(r) = l /\ \A k \in 1..l : r[k] = q[p + k]
  <2>1. r = SubSeq(q, p + 1, m)
    BY <1>1, Zenon DEF Suffix
  <2>. QED
    BY <1>1, <1>3, <2>1
<1>5. Len(e) = g /\ \A c \in 1..g : e[c] = d[f + c]
  <2>1. e = SubSeq(d, f + 1, n)
    BY <1>1, Zenon DEF Suffix
  <2>. QED
    BY <1>1, <1>3, <2>1
<1>6. ASSUME NEW c \in 1..g
      PROVE  /\ e[c].id = (o + f) + c /\ e[c].last <= e[c].cap
             /\ \E k \in 1..l : /\ r[k].type = "SHARED" /\ r[k].chunk = (o + f) + c
                                /\ r[k].last = e[c].last
  <2>1. f + c \in 1..n /\ o + (f + c) = (o + f) + c /\ ~(f + c <= f)
    BY <1>3
  <2>2. /\ d[f + c].id = o + (f + c) /\ d[f + c].last <= d[f + c].cap
        /\ \E k \in 1..m : /\ q[k].type = "SHARED" /\ q[k].chunk = o + (f + c)
                           /\ q[k].last = d[f + c].last
    BY <1>1, <2>1, Zenon DEF Lie
  <2>3. PICK k \in 1..m : /\ q[k].type = "SHARED" /\ q[k].chunk = o + (f + c)
                          /\ q[k].last = d[f + c].last
    BY <2>2
  <2>4. ~(k <= p)
    BY <1>2, <2>1, <2>3, Zenon
  <2>5. PICK j \in 1..l : j = k - p /\ p + j = k
    BY <1>3, <2>4
  <2>. QED
    BY <1>4, <1>5, <2>1, <2>2, <2>3, <2>5, Zenon
<1>7. ASSUME NEW k \in 1..l, r[k].type = "SHARED"
      PROVE  /\ r[k].begin < r[k].last
             /\ \E c \in 1..g : r[k].chunk = (o + f) + c /\ r[k].last <= e[c].last
             /\ \A j \in 1..l : j < k /\ r[j].type = "SHARED" =>
                  \/ r[j].chunk < r[k].chunk
                  \/ r[j].chunk = r[k].chunk /\ r[j].last <= r[k].begin
  <2>1. p + k \in 1..m /\ q[p + k].type = "SHARED" /\ r[k] = q[p + k] /\ ~(p + k <= p)
    BY <1>3, <1>4, <1>7
  <2>2. /\ q[p + k].begin < q[p + k].last
        /\ \E c \in 1..n : q[p + k].chunk = o + c /\ q[p + k].last <= d[c].last
        /\ \A j \in 1..m : j < p + k /\ q[j].type = "SHARED" =>
             \/ q[j].chunk < q[p + k].chunk
             \/ q[j].chunk = q[p + k].chunk /\ q[j].last <= q[p + k].begin
    BY <1>1, <2>1, Zenon DEF Lie
  <2>3. PICK c \in 1..n : q[p + k].chunk = o + c /\ q[p + k].last <= d[c].last
    BY <2>2
  <2>4. ~(q[p + k].chunk <= o + f)
    BY <1>2, <2>1, Zenon
  <2>5. PICK h \in 1..g : h = c - f /\ f + h = c /\ o + c = (o + f) + h
    <3>1. ~(o + c <= o + f)
      BY <2>3, <2>4, Zenon
    <3>2. c - f \in 1..g /\ f + (c - f) = c /\ o + c = (o + f) + (c - f)
      BY <1>3, <3>1
    <3>. QED
      BY <3>2, Zenon
  <2>6. r[k].chunk = (o + f) + h /\ r[k].last <= e[h].last
    BY <1>5, <2>1, <2>3, <2>5, Zenon
  <2>7. \A j \in 1..l : j < k => p + j \in 1..m /\ p + j < p + k
    BY <1>3
  <2>. QED
    BY <1>4, <2>1, <2>2, <2>6, <2>7, Zenon
<1>8. Lie(r, e, o + f)
  BY <1>4, <1>5, <1>6, <1>7, Zenon DEF Lie
<1>. QED
  BY <1>1, <1>2, <1>3, <1>5, <1>8

\* An acknowledgment frees chunks.
LEMMA AckedChunks ==
  ASSUME NEW t \in Queue, NEW a \in Nat, TxInv(t, a), ChunksInv(t), NEW offset \in t.ackOff..a
  PROVE  ChunksInv(UpdateAckOffset(t, offset))
<1>1. PICK u, p : u = UpdateAckOffset(t, offset) /\ p = Popped(t, offset)
  OBVIOUS
<1>2. /\ p \in 0..t.idx /\ u.allocated = t.allocated /\ Suffix(u.outq, t.outq, p)
      /\ u.chunks = SubSeq(t.chunks, Freed(t, p) + 1, Len(t.chunks))
  <2>1. QueueInv(t) /\ a + t.unsent = Len(t.content) /\ t.ackBase <= t.ackOff
    BY Zenon DEF TxInv
  <2>. QED
    BY <1>1, <2>1, AckOffsetGood
<1>3. PICK q \in Seq(Buf), d \in Seq(Chunk), m \in Nat, n \in Nat, b \in Nat :
        q = t.outq /\ d = t.chunks /\ m = Len(q) /\ n = Len(d) /\ b = t.allocated
  BY QueueFields
<1>4. n <= b /\ Lie(q, d, b - n)
  BY <1>3, Zenon DEF ChunksInv
<1>5. PICK o \in Nat : o = b - n
  BY <1>4
<1>6. p \in Nat /\ p <= m
  <2>1. t.idx <= m /\ t.idx \in Nat
    BY <1>3, QueueFields, Zenon DEF TxInv, QueueInv, Shape
  <2>. QED
    BY <1>2, <2>1
<1>7. DEFINE P == {k \in Nat : k <= m => Parted(q, d, o, k, Freed(t, k))}
<1>8. 0 \in P
  <2>1. Freed(t, 0) = 0
    BY FreedStep
  <2>2. Parted(q, d, o, 0, 0)
    BY <1>4, <1>5, PartedFirst
  <2>. QED
    BY <2>1, <2>2
<1>9. ASSUME NEW k \in P PROVE k + 1 \in P
  <2>. SUFFICES ASSUME k + 1 <= m PROVE Parted(q, d, o, k + 1, Freed(t, k + 1))
    OBVIOUS
  <2>1. k \in Nat /\ k < m
    OBVIOUS
  <2>2. PICK f \in Nat : f = Freed(t, k)
    BY <2>1, FreedStep
  <2>3. Parted(q, d, o, k, f)
    BY <2>1, <2>2
  <2>4. IF q[k + 1].type = "SHARED" /\ d[f + 1].last = q[k + 1].last
        THEN Parted(q, d, o, k + 1, f + 1) ELSE Parted(q, d, o, k + 1, f)
    BY <1>3, <1>4, <1>5, <2>1, <2>3, PartedStep
  <2>5. Freed(t, k + 1) = IF q[k + 1].type = "SHARED" /\ d[f + 1].last = q[k + 1].last
                          THEN f + 1 ELSE f
    BY <1>3, <2>1, <2>2, FreedStep
  <2>. QED
    BY <2>4, <2>5, Zenon
<1>10. P = Nat
  <2>. HIDE DEF P
  <2>1. P \in SUBSET Nat
    BY DEF P
  <2>. QED
    BY <1>8, <1>9, <2>1, InductionOverSet
<1>11. PICK f \in Nat : f = Freed(t, p)
  BY <1>6, FreedStep
<1>12. Parted(q, d, o, p, f)
  BY <1>6, <1>10, <1>11
<1>13. Suffix(u.outq, q, p) /\ Suffix(u.chunks, d, f)
  BY <1>2, <1>3, <1>11, Zenon DEF Suffix
<1>14. Lie(u.outq, u.chunks, o + f) /\ f <= n /\ Len(u.chunks) = n - f
  <2>1. p <= Len(q) /\ Lie(q, d, o)
    BY <1>3, <1>4, <1>5, <1>6, Zenon
  <2>2. Lie(u.outq, u.chunks, o + f) /\ f <= Len(d) /\ Len(u.chunks) = Len(d) - f
    BY <1>6, <1>12, <1>13, <2>1, PartedLies
  <2>. QED
    BY <1>3, <2>2, Zenon
<1>15. Len(u.chunks) <= b /\ o + f = b - Len(u.chunks)
  BY <1>4, <1>5, <1>14
<1>16. ChunksInv(u)
  BY <1>2, <1>3, <1>14, <1>15, Zenon DEF ChunksInv
<1>. QED
  BY <1>1, <1>16, Zenon

\* A HEADERS frame is added.
LEMMA AddSectionChunks ==
  ASSUME NEW t \in Queue, QueueInv(t), ChunksInv(t), NEW r \in Nat \ {0}
  PROVE  ChunksInv(AddSection(t, r))
<1>1. HeadersLen \in Nat \ {0} /\ HeadersLen + r \in Nat \ {0}
  BY StreamTxAssumption
<1>2. CASE r > MAX_COPY_THRES
  <2>1. PICK u : u = AddShared(t, HeadersLen)
    OBVIOUS
  <2>2. u \in Queue /\ QueueInv(u)
    BY <1>1, <2>1, AddSharedGood DEF Written
  <2>3. ChunksInv(u)
    BY <1>1, <2>1, AddSharedChunks
  <2>4. ChunksInv(OutqAdd(u, Own(r)))
    BY <2>2, <2>3, AddOwnChunks
  <2>. QED
    BY <1>2, <2>1, <2>4, Zenon DEF AddSection
<1>3. CASE ~(r > MAX_COPY_THRES)
  <2>1. PICK n \in Nat \ {0} : n = HeadersLen + r
    BY <1>1
  <2>2. ChunksInv(AddShared(t, n))
    BY AddSharedChunks
  <2>. QED
    BY <1>3, <2>1, <2>2, Zenon DEF AddSection
<1>. QED
  BY <1>2, <1>3, Zenon

\* The instructions that go with it.
LEMMA AddInstructionsChunks ==
  ASSUME NEW t \in Queue, QueueInv(t), ChunksInv(t), NEW e \in Nat
  PROVE  ChunksInv(AddInstructions(t, e))
<1>1. CASE e > MAX_COPY_THRES
  <2>1. AddInstructions(t, e) = OutqAdd(t, Own(e))
    BY <1>1, StreamTxAssumption DEF AddInstructions
  <2>. QED
    BY <2>1, AddOwnChunks
<1>2. CASE ~(e > MAX_COPY_THRES) /\ e \in 1..MAX_COPY_THRES
  <2>1. AddInstructions(t, e) = AddShared(t, e)
    BY <1>2, StreamTxAssumption DEF AddInstructions
  <2>2. e \in Nat \ {0}
    BY <1>2
  <2>. QED
    BY <2>1, <2>2, AddSharedChunks
<1>3. CASE ~(e > MAX_COPY_THRES) /\ e \notin 1..MAX_COPY_THRES
  <2>1. AddInstructions(t, e) = t
    BY <1>3, StreamTxAssumption DEF AddInstructions
  <2>. QED
    BY <2>1
<1>. QED
  BY <1>1, <1>2, <1>3, Zenon

\* A DATA frame is added.
LEMMA AddBodyChunks ==
  ASSUME NEW t \in Queue, QueueInv(t), ChunksInv(t), NEW lens \in Seq(Nat \ {0}),
         NEW last \in BOOLEAN
  PROVE  ChunksInv(AddBody(t, lens, last))
<1>1. CASE lens # <<>>
  <2>1. PICK u : u = AddShared(t, DataLen)
    OBVIOUS
  <2>2. u \in Queue /\ QueueInv(u)
    BY <2>1, StreamTxAssumption, AddSharedGood DEF Written
  <2>3. ChunksInv(u)
    BY <2>1, StreamTxAssumption, AddSharedChunks
  <2>4. ChunksInv(AddAliens(u, lens))
    BY <2>2, <2>3, AddAliensChunks
  <2>. QED
    BY <1>1, <2>1, <2>4, Zenon DEF AddBody
<1>2. CASE lens = <<>> /\ last /\ WriteDone(t)
  <2>1. AddBody(t, lens, last) = OutqAdd(t, Own(0))
    BY <1>2 DEF AddBody
  <2>2. PICK z \in Nat : z = 0
    OBVIOUS
  <2>3. ChunksInv(OutqAdd(t, Own(z)))
    BY AddOwnChunks
  <2>. QED
    BY <2>1, <2>2, <2>3, Zenon
<1>3. CASE lens = <<>> /\ ~(last /\ WriteDone(t))
  <2>1. AddBody(t, lens, last) = t
    BY <1>3 DEF AddBody
  <2>. QED
    BY <2>1
<1>. QED
  BY <1>1, <1>2, <1>3, Zenon

\* The chunks of every stream.
AllChunks == \A s \in TxStreams : ChunksInv(tx[s])

\* An empty queue lies in no chunk.
LEMMA InitChunks ==
  ASSUME Init
  PROVE  AllChunks
<1>1. /\ EmptyTx.chunks = <<>> /\ EmptyTx.outq = <<>> /\ EmptyTx.allocated = 0
      /\ \A s \in TxStreams : tx[s] = EmptyTx
  BY DEF Init, EmptyTx
<1>2. PICK q \in Seq(Buf), d \in Seq(Chunk) : q = <<>> /\ d = <<>>
  BY EmptySeq
<1>3. Len(q) = 0 /\ Len(d) = 0
  BY <1>2
<1>4. Lie(q, d, 0)
  BY <1>3 DEF Lie
<1>5. ChunksInv(EmptyTx)
  <2>1. 0 <= 0 /\ 0 - 0 = 0
    OBVIOUS
  <2>. QED
    BY <1>1, <1>2, <1>3, <1>4, <2>1, Zenon DEF ChunksInv
<1>. QED
  BY <1>1, <1>5, Zenon DEF AllChunks

\* Every step keeps the chunks in order.
LEMMA StepChunks ==
  ASSUME IInv, AllChunks, [Next]_vars
  PROVE  AllChunks'
<1>1. TypeOK /\ OfferInv
  BY DEF IInv
<1>2. \A s \in TxStreams : /\ tx[s] \in Queue /\ accepted[s] \in Nat /\ TxInv(tx[s], accepted[s])
                           /\ QueueInv(tx[s]) /\ ChunksInv(tx[s])
  BY <1>1, StateTypes DEF IInv, TxInv, AllChunks
<1>3. REQ \in TxStreams /\ QENC \in TxStreams /\ REQ # QENC /\ TxStreams = {REQ, QENC}
  BY <1>1, StateTypes DEF TxStreams
<1>4. ASSUME UNCHANGED tx PROVE AllChunks'
  BY <1>4 DEF AllChunks
<1>5. CASE Submit
  BY <1>4, <1>5 DEF Submit, SubmitInfo, SubmitResponse, SubmitTrailers, SubmitHeadersData
<1>6. CASE WritevEncoder \/ WritevBegin \/ FinishWritev \/ Refuse \/ ShutdownWrite \/ Resume
  BY <1>4, <1>6 DEF WritevEncoder, WritevBegin, FinishWritev, Refuse, ShutdownWrite, Resume
<1>7. CASE FillHeaders
  <2>1. PICK r \in FieldSizes, e \in EncSizes :
          tx' = [tx EXCEPT ![REQ] = AddSection(@, r), ![QENC] = AddInstructions(@, e)]
    BY <1>7 DEF FillHeaders
  <2>2. r \in Nat \ {0} /\ e \in Nat
    BY StreamTxAssumption
  <2>3. tx'[REQ] = AddSection(tx[REQ], r) /\ tx'[QENC] = AddInstructions(tx[QENC], e)
    BY <1>1, <1>3, <2>1 DEF TypeOK
  <2>4. ChunksInv(AddSection(tx[REQ], r))
    BY <1>2, <1>3, <2>2, AddSectionChunks
  <2>5. ChunksInv(AddInstructions(tx[QENC], e))
    BY <1>2, <1>3, <2>2, AddInstructionsChunks
  <2>. QED
    BY <1>3, <2>3, <2>4, <2>5, Zenon DEF AllChunks
<1>8. CASE FillWouldBlock
  BY <1>4, <1>8 DEF FillWouldBlock
<1>9. CASE ReadBody
  <2>1. PICK lens \in Bodies, eof \in BOOLEAN, noEnd \in BOOLEAN : FillData(lens, eof, noEnd)
    BY <1>9 DEF ReadBody
  <2>2. PICK last \in BOOLEAN : last = (eof /\ ~noEnd)
    OBVIOUS
  <2>3. tx' = [tx EXCEPT ![REQ] = AddBody(@, lens, last)] /\ lens \in Seq(Nat \ {0})
    BY <2>1, <2>2, StreamTxAssumption, Zenon DEF FillData
  <2>4. tx'[REQ] = AddBody(tx[REQ], lens, last) /\ tx'[QENC] = tx[QENC]
    BY <1>1, <1>3, <2>3 DEF TypeOK
  <2>5. ChunksInv(AddBody(tx[REQ], lens, last))
    BY <1>2, <1>3, <2>3, AddBodyChunks
  <2>. QED
    BY <1>2, <1>3, <2>4, <2>5, Zenon DEF AllChunks
<1>10. CASE Accept
  <2>1. PICK n \in 0..offer.bytes : offer # NoOffer /\ AddWriteOffset(n)
    BY <1>10 DEF Accept
  <2>2. PICK s \in TxStreams : s = offer.stream
    BY <1>1, <2>1, StateTypes DEF OfferInv
  <2>3. n \in 0..tx[s].unsent
    <3>1. offer.bytes <= tx[s].unsent
      BY <1>1, <2>1, <2>2 DEF OfferInv
    <3>2. offer.bytes \in Nat /\ tx[s].unsent \in Nat
      BY <1>1, StateTypes
    <3>. QED
      BY <3>1, <3>2
  <2>4. tx' = [tx EXCEPT ![s] = AddOutqOffset(@, n)]
    BY <2>1, <2>2, Zenon DEF AddWriteOffset
  <2>5. tx'[s] = AddOutqOffset(tx[s], n) /\ \A r \in TxStreams : r # s => tx'[r] = tx[r]
    BY <1>1, <2>4 DEF TypeOK
  <2>6. ChunksInv(AddOutqOffset(tx[s], n))
    BY <1>2, <2>3, AcceptedChunks
  <2>. QED
    BY <1>2, <2>5, <2>6, Zenon DEF AllChunks
<1>11. ASSUME NEW s \in TxStreams, Acknowledge(s) PROVE AllChunks'
  <2>1. PICK offset \in tx[s].ackOff..accepted[s] : AckOffset(s, offset)
    BY <1>11 DEF Acknowledge
  <2>2. tx' = [tx EXCEPT ![s] = UpdateAckOffset(@, offset)]
    BY <2>1 DEF AckOffset
  <2>3. tx'[s] = UpdateAckOffset(tx[s], offset) /\ \A r \in TxStreams : r # s => tx'[r] = tx[r]
    BY <1>1, <2>2 DEF TypeOK
  <2>4. ChunksInv(UpdateAckOffset(tx[s], offset))
    BY <1>2, AckedChunks
  <2>. QED
    BY <1>2, <2>3, <2>4, Zenon DEF AllChunks
<1>12. ASSUME NEW s \in TxStreams, Block(s) \/ Unblock(s) PROVE AllChunks'
  BY <1>4, <1>12 DEF Block, Unblock
<1>13. CASE UNCHANGED vars
  BY <1>4, <1>13 DEF vars
<1>. QED
  BY <1>5, <1>6, <1>7, <1>8, <1>9, <1>10, <1>11, <1>12, <1>13 DEF Next, Fill

\* The buffers that lie in the chunk with this number.
InChunk(q, id) == {k \in DOMAIN q : q[k].type = "SHARED" /\ q[k].chunk = id}

\* There are some; the last ends where the chunk does, and they do not overlap.
LEMMA InChunkGood ==
  ASSUME NEW q \in Seq(Buf), NEW d \in Seq(Chunk), NEW o \in Nat, Lie(q, d, o),
         NEW c \in 1..Len(d)
  PROVE  /\ InChunk(q, o + c) # {} /\ Max(InChunk(q, o + c)) \in InChunk(q, o + c)
         /\ q[Max(InChunk(q, o + c))].last = d[c].last
         /\ Min(InChunk(q, o + c)) \in InChunk(q, o + c)
         /\ \A k, l \in InChunk(q, o + c) : k < l => q[k].last <= q[l].begin
<1>1. PICK m \in Nat, n \in Nat, S \in SUBSET (1..Len(q)) :
        m = Len(q) /\ n = Len(d) /\ S = InChunk(q, o + c)
  <2>1. Len(q) \in Nat /\ Len(d) \in Nat /\ InChunk(q, o + c) \in SUBSET (1..Len(q))
    BY DEF InChunk
  <2>. QED
    BY <2>1
<1>2. \A k \in S : k \in 1..m /\ q[k].type = "SHARED" /\ q[k].chunk = o + c
  BY <1>1 DEF InChunk
<1>3. PICK w \in S : q[w].last = d[c].last
  <2>1. PICK w \in 1..m : /\ q[w].type = "SHARED" /\ q[w].chunk = o + c
                          /\ q[w].last = d[c].last
    BY <1>1, Zenon DEF Lie
  <2>2. w \in S
    BY <1>1, <2>1 DEF InChunk
  <2>. QED
    BY <2>1, <2>2
<1>4. \A k, l \in S : k < l => q[k].last <= q[l].begin
  <2>1. ASSUME NEW k \in S, NEW l \in S, k < l PROVE q[k].last <= q[l].begin
    <3>1. \/ q[k].chunk < q[l].chunk
          \/ q[k].chunk = q[l].chunk /\ q[k].last <= q[l].begin
      BY <1>1, <1>2, <2>1, Zenon DEF Lie
    <3>2. ~(o + c < o + c)
      OBVIOUS
    <3>. QED
      BY <1>2, <3>1, <3>2, Zenon
  <2>. QED
    BY <2>1
<1>5. PICK l : l = Max(S)
  OBVIOUS
<1>6. l \in S /\ \A k \in S : k <= l
  <2>1. \A k \in S : k \in 0..m
    BY <1>2
  <2>2. S \in SUBSET (0..m) /\ S # {}
    BY <1>3, <2>1, Zenon
  <2>. QED
    BY <1>5, <2>2, GreatestNat
<1>7. q[l].last = d[c].last
  <2>1. CASE l = w
    BY <1>3, <2>1
  <2>2. CASE l # w
    <3>1. w < l
      BY <1>3, <1>6, <2>2
    <3>2. PICK x \in Buf, y \in Chunk : x = q[l] /\ y = d[c]
      BY <1>1, <1>2, <1>6
    <3>3. y.last <= x.begin
      BY <1>3, <1>4, <1>6, <3>1, <3>2, Zenon
    <3>4. PICK e \in 1..n : x.begin < x.last /\ x.chunk = o + e /\ x.last <= d[e].last
      BY <1>1, <1>2, <1>6, <3>2, Zenon DEF Lie
    <3>5. e = c
      <4>1. o + e = o + c
        BY <1>2, <1>6, <3>2, <3>4, Zenon
      <4>. QED
        BY <1>1, <4>1
    <3>6. x.last <= y.last
      BY <3>2, <3>4, <3>5, Zenon
    <3>7. x.begin \in Nat /\ x.last \in Nat /\ y.last \in Nat
      BY DEF Buf, Chunk
    <3>. QED
      BY <3>3, <3>4, <3>6, <3>7
  <2>. QED
    BY <2>1, <2>2
<1>8. Min(S) \in S
  <2>1. S \in SUBSET Nat /\ S # {}
    BY <1>3
  <2>2. PICK k \in S : \A j \in S : k <= j
    BY <2>1, LeastNat
  <2>. QED
    BY <2>2, Zenon DEF Min
<1>. QED
  BY <1>1, <1>3, <1>4, <1>5, <1>6, <1>7, <1>8, Zenon

\* What it is for the chunks to be live.
Live(outq, chunks) ==
  LET in(c) == {k \in DOMAIN outq : /\ outq[k].type = "SHARED"
                                    /\ outq[k].chunk = chunks[c].id}
  IN /\ \A k \in DOMAIN outq :
          outq[k].type = "SHARED" => \E c \in DOMAIN chunks : k \in in(c)
     /\ \A c \in DOMAIN chunks :
          /\ chunks[c].last <= chunks[c].cap
          /\ in(c) # {} /\ outq[Max(in(c))].last = chunks[c].last
          /\ \A k, l \in in(c) : k < l => outq[k].last <= outq[l].begin
          /\ c > 1 => Max(in(c - 1)) < Min(in(c))

\* A queue that lies in its chunks keeps them live.
LEMMA LieLive ==
  ASSUME NEW q \in Seq(Buf), NEW d \in Seq(Chunk), NEW o \in Nat, Lie(q, d, o)
  PROVE  Live(q, d)
<1>. DEFINE in(c) == {k \in DOMAIN q : q[k].type = "SHARED" /\ q[k].chunk = d[c].id}
<1>1. PICK m \in Nat, n \in Nat : m = Len(q) /\ n = Len(d)
  OBVIOUS
<1>2. DOMAIN q = 1..m /\ DOMAIN d = 1..n
  BY <1>1
<1>3. \A c \in 1..n : d[c].id = o + c /\ d[c].last <= d[c].cap
  BY <1>1, Zenon DEF Lie
<1>4. \A c \in 1..n : in(c) = InChunk(q, o + c)
  BY <1>3 DEF InChunk
<1>. HIDE DEF in
<1>5. ASSUME NEW k \in 1..m, q[k].type = "SHARED"
      PROVE  \E c \in 1..n : k \in in(c)
  <2>1. PICK c \in 1..n : q[k].chunk = o + c
    BY <1>1, <1>5, Zenon DEF Lie
  <2>2. k \in InChunk(q, o + c)
    BY <1>2, <1>5, <2>1 DEF InChunk
  <2>. QED
    BY <1>4, <2>2, Zenon
<1>6. ASSUME NEW c \in 1..n
      PROVE  /\ in(c) # {} /\ q[Max(in(c))].last = d[c].last
             /\ Max(in(c)) \in in(c) /\ Min(in(c)) \in in(c)
             /\ \A k, l \in in(c) : k < l => q[k].last <= q[l].begin
  <2>1. c \in 1..Len(d) /\ in(c) = InChunk(q, o + c)
    BY <1>1, <1>4, Zenon
  <2>2. /\ InChunk(q, o + c) # {} /\ Max(InChunk(q, o + c)) \in InChunk(q, o + c)
        /\ q[Max(InChunk(q, o + c))].last = d[c].last
        /\ Min(InChunk(q, o + c)) \in InChunk(q, o + c)
        /\ \A k, l \in InChunk(q, o + c) : k < l => q[k].last <= q[l].begin
    BY <2>1, InChunkGood
  <2>. QED
    BY <2>1, <2>2, Zenon
<1>7. ASSUME NEW c \in 1..n, c > 1
      PROVE  Max(in(c - 1)) < Min(in(c))
  <2>1. PICK b \in 1..n : b = c - 1 /\ b < c
    BY <1>7
  <2>2. PICK k, l : k = Max(in(b)) /\ l = Min(in(c)) /\ k \in in(b) /\ l \in in(c)
    BY <1>6
  <2>3. k \in InChunk(q, o + b) /\ l \in InChunk(q, o + c)
    BY <1>4, <2>2, Zenon
  <2>4. /\ k \in 1..m /\ l \in 1..m /\ q[k].type = "SHARED" /\ q[l].type = "SHARED"
        /\ q[k].chunk = o + b /\ q[l].chunk = o + c
    BY <1>2, <2>3 DEF InChunk
  <2>5. ~(o + c < o + b) /\ o + c # o + b
    BY <2>1
  <2>6. \A i, j \in 1..m : j < i /\ q[i].type = "SHARED" /\ q[j].type = "SHARED" =>
          q[j].chunk < q[i].chunk \/ q[j].chunk = q[i].chunk
    BY <1>1, Zenon DEF Lie
  <2>7. ~(l < k)
    BY <2>4, <2>5, <2>6, Zenon
  <2>8. k # l
    BY <2>4, <2>5, Zenon
  <2>9. k < l
    BY <2>4, <2>7, <2>8
  <2>. QED
    BY <2>1, <2>2, <2>9, Zenon
<1>8. \A c \in DOMAIN d :
        /\ d[c].last <= d[c].cap
        /\ in(c) # {} /\ q[Max(in(c))].last = d[c].last
        /\ \A k, l \in in(c) : k < l => q[k].last <= q[l].begin
        /\ c > 1 => Max(in(c - 1)) < Min(in(c))
  BY <1>2, <1>3, <1>6, <1>7, Zenon
<1>9. \A k \in DOMAIN q : q[k].type = "SHARED" => \E c \in DOMAIN d : k \in in(c)
  BY <1>2, <1>5, Zenon
<1>. QED
  BY <1>8, <1>9, Zenon DEF Live, in

(* A chunk lives exactly as long as a buffer lies in it: none is freed     *)
(* while a byte that is queued lies there, and none is left behind.        *)
THEOREM StreamChunksLive == Spec => []ChunksLive
<1>1. ASSUME IInv, AllChunks, NEW s \in TxStreams
      PROVE  Live(tx[s].outq, tx[s].chunks)
  <2>1. tx[s] \in Queue /\ ChunksInv(tx[s])
    BY <1>1, StateTypes DEF IInv, AllChunks
  <2>2. PICK t \in Queue : t = tx[s] /\ ChunksInv(t)
    BY <2>1
  <2>3. /\ t.outq \in Seq(Buf) /\ t.chunks \in Seq(Chunk)
        /\ t.allocated \in Nat /\ Len(t.chunks) \in Nat
    BY QueueFields
  <2>4. Len(t.chunks) <= t.allocated /\ Lie(t.outq, t.chunks, t.allocated - Len(t.chunks))
    BY <2>2, Zenon DEF ChunksInv
  <2>5. t.allocated - Len(t.chunks) \in Nat
    BY <2>3, <2>4
  <2>6. Live(t.outq, t.chunks)
    BY <2>3, <2>4, <2>5, LieLive
  <2>. QED
    BY <2>2, <2>6, Zenon
<1>2. IInv /\ AllChunks => ChunksLive
  BY <1>1, Zenon DEF ChunksLive, Live
<1>3. Init => AllChunks
  BY InitChunks
<1>4. IInv /\ AllChunks /\ [Next]_vars => AllChunks'
  BY StepChunks
<1>5. Spec => []AllChunks
  BY <1>3, <1>4, StreamTxInvariant, PTL DEF Spec
<1>. QED
  BY <1>2, <1>5, StreamTxInvariant, PTL
=============================================================================
