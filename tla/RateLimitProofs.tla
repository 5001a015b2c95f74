--------------------------- MODULE RateLimitProofs ---------------------------
(***************************************************************************)
(* The token bucket holds exactly what an ideal one would, whatever the    *)
(* width of its integers, the rate, the burst and the times of the calls.  *)
(***************************************************************************)
EXTENDS RateLimit, TLAPS

\* what a bucket is between two calls
Bucket(r) ==
  /\ r \in [burst : Nat, rate : Nat, tokens : Nat, carry : Nat, ts : Nat]
  /\ r.carry < Seconds /\ r.ts <= MaxTime /\ r.burst <= MaxBurst

\* the bucket r holds n parts of a token
Holds(r, n) == n \in Nat /\ r.tokens * Seconds + r.carry = n /\ n <= r.burst * Seconds

\* RateExact made inductive: the bucket never holds more than its burst, so
\* the carry is 0 when it is full
RateInv == Bucket(rlim) /\ Holds(rlim, level) /\ refused \in BOOLEAN /\ (refused => level < Seconds)
-----------------------------------------------------------------------------

\* Division with a remainder, as every use below needs it.
LEMMA Division ==
  ASSUME NEW n \in Nat, NEW d \in Nat, d > 0
  PROVE  /\ n \div d \in Nat /\ n % d \in Nat
         /\ n = (n \div d) * d + (n % d) /\ n % d < d
<1>1. n \div d \in Nat /\ n % d \in Nat /\ n % d < d
  BY SMT
<1>2. n = d * (n \div d) + (n % d)
  BY SMT
<1>3. d * (n \div d) = (n \div d) * d
  BY <1>1, SMT
<1>. QED BY <1>1, <1>2, <1>3, SMT

\* Multiplication does not turn an order around.
LEMMA Monotone ==
  ASSUME NEW a \in Nat, NEW b \in Nat, NEW d \in Nat, a <= b
  PROVE  a * d <= b * d
BY SMT

\* A sum over a product distributes.
LEMMA Distribute ==
  ASSUME NEW a \in Nat, NEW b \in Nat, NEW d \in Nat
  PROVE  (a + b) * d = a * d + b * d
BY SMT

\* The test of the width is exact: it holds when a * d + c does not exceed u.
LEMMA NoOverflow ==
  ASSUME NEW a \in Nat, NEW c \in Nat, NEW d \in Nat, d > 0, NEW u \in Nat, c <= u
  PROVE  a <= (u - c) \div d <=> a * d + c <= u
<1>. DEFINE q == (u - c) \div d
            m == (u - c) % d
<1>1. /\ u - c \in Nat /\ q \in Nat /\ m \in Nat
      /\ u - c = q * d + m /\ m < d
  <2>1. u - c \in Nat
    BY SMT
  <2>. QED BY <2>1, Division
<1>2. q * d \in Nat /\ a * d \in Nat
  BY <1>1, SMT
<1>3. ASSUME a <= q PROVE a * d + c <= u
  <2>1. a * d <= q * d
    BY <1>1, <1>3, Monotone
  <2>. HIDE DEF q, m
  <2>. QED BY <1>1, <1>2, <2>1, SMT
<1>4. ASSUME ~(a <= q) PROVE ~(a * d + c <= u)
  <2>1. q + 1 \in Nat /\ q + 1 <= a
    BY <1>1, <1>4, SMT
  <2>2. (q + 1) * d <= a * d
    BY <2>1, Monotone
  <2>3. (q + 1) * d = q * d + 1 * d
    BY <1>1, Distribute
  <2>. HIDE DEF q, m
  <2>. QED BY <1>1, <1>2, <2>2, <2>3, SMT
<1>. QED BY <1>3, <1>4

\* What an update assigns, field by field.
LEMMA Assigned ==
  ASSUME NEW r \in [burst : Nat, rate : Nat, tokens : Nat, carry : Nat, ts : Nat],
         NEW ts \in Nat, NEW tokens \in Nat, NEW carry \in Nat
  PROVE  LET s == [r EXCEPT !.ts = ts, !.tokens = tokens, !.carry = carry]
         IN  /\ s \in [burst : Nat, rate : Nat, tokens : Nat, carry : Nat, ts : Nat]
             /\ s.burst = r.burst /\ s.rate = r.rate /\ s.ts = ts
             /\ s.tokens = tokens /\ s.carry = carry
OBVIOUS

\* ratelim_update adds what an ideal bucket gains, neither more nor less.
LEMMA UpdateIsExact ==
  ASSUME NEW r, Bucket(r), NEW n, Holds(r, n), NEW ts \in r.ts..MaxTime
  PROVE  LET s == Update(r, ts)
         IN  /\ Bucket(s) /\ s.burst = r.burst /\ s.rate = r.rate /\ s.ts = ts
             /\ Holds(s, Least(r.burst * Seconds, n + r.rate * (ts - r.ts)))
<1>. DEFINE d == ts - r.ts
            p == r.rate * d
            sum == p + r.carry
            gps == sum \div Seconds
            rest == sum % Seconds
            full == [r EXCEPT !.ts = ts, !.tokens = r.burst, !.carry = 0]
            more == [r EXCEPT !.ts = ts, !.tokens = @ + gps, !.carry = rest]
            top == r.burst * Seconds
<1>1. /\ r \in [burst : Nat, rate : Nat, tokens : Nat, carry : Nat, ts : Nat]
      /\ r.burst \in Nat /\ r.rate \in Nat /\ r.tokens \in Nat /\ r.carry \in Nat /\ r.ts \in Nat
      /\ r.carry < Seconds /\ r.ts <= MaxTime /\ r.burst <= MaxBurst
      /\ n \in Nat /\ r.tokens * Seconds + r.carry = n /\ n <= top
  BY DEF Bucket, Holds
<1>2. /\ Seconds \in Nat /\ Seconds > 0 /\ UintMax \in Nat /\ Seconds <= UintMax /\ MaxTime \in Nat
      /\ ts \in Nat /\ ts <= MaxTime /\ d \in Nat
  BY <1>1, RateAssumption, SMT
<1>3. p \in Nat /\ sum \in Nat /\ top \in Nat /\ r.tokens * Seconds \in Nat
  BY <1>1, <1>2, SMT
<1>4. gps \in Nat /\ rest \in Nat /\ sum = gps * Seconds + rest /\ rest < Seconds
  BY <1>2, <1>3, Division
<1>5. CASE d = 0
  <2>1. p = 0 /\ ts = r.ts /\ n + p = n
    <3>1. p = r.rate * 0
      BY <1>5
    <3>2. r.rate * 0 = 0
      BY <1>1, SMT
    <3>3. ts = r.ts
      <4>1. ASSUME NEW x \in Nat, NEW y \in Nat, x - y = 0 PROVE x = y
        BY <4>1, SMT
      <4>. QED BY <1>1, <1>2, <1>5, <4>1
    <3>. HIDE DEF p
    <3>. QED BY <1>1, <3>1, <3>2, <3>3, SMT
  <2>2. Update(r, ts) = r
    BY <1>5 DEF Update
  <2>3. Least(top, n + p) = n
    BY <1>1, <1>3, <2>1, SMT DEF Least
  <2>. QED BY <2>1, <2>2, <2>3
<1>6. CASE d # 0
  <2>0. d > 0 /\ r.carry <= UintMax
    BY <1>1, <1>2, <1>6, SMT
  <2>1. r.rate <= (UintMax - r.carry) \div d <=> sum <= UintMax
    BY <1>1, <1>2, <2>0, NoOverflow
  <2>2. top <= UintMax
    <3>. DEFINE b == UintMax \div Seconds
    <3>1. b \in Nat /\ UintMax = b * Seconds + (UintMax % Seconds) /\ UintMax % Seconds \in Nat
      BY <1>2, Division
    <3>2. r.burst * Seconds <= b * Seconds
      BY <1>1, <1>2, <3>1, Monotone DEF MaxBurst
    <3>3. b * Seconds \in Nat
      BY <1>2, <3>1, SMT
    <3>. HIDE DEF b
    <3>. QED BY <1>2, <1>3, <3>1, <3>2, <3>3, SMT
  <2>3. /\ (r.tokens + gps) * Seconds = r.tokens * Seconds + gps * Seconds
        /\ gps * Seconds \in Nat
    <3>1. (r.tokens + gps) * Seconds = r.tokens * Seconds + gps * Seconds
      BY <1>1, <1>2, <1>4, Distribute
    <3>. HIDE DEF gps
    <3>. QED BY <1>2, <1>4, <3>1, SMT
  <2>4. n + p = (r.tokens + gps) * Seconds + rest
    <3>. HIDE DEF p, gps, rest
    <3>. QED BY <1>1, <1>3, <1>4, <2>3, SMT
  <2>5. CASE sum <= UintMax /\ gps < r.burst /\ r.tokens < r.burst - gps
    <3>1. sum % (UintMax + 1) = sum
      BY <1>2, <1>3, <2>5, SMT
    <3>2. Update(r, ts) = more
      BY <1>6, <2>1, <2>5, <3>1 DEF Update
    <3>3. /\ more \in [burst : Nat, rate : Nat, tokens : Nat, carry : Nat, ts : Nat]
          /\ more.burst = r.burst /\ more.rate = r.rate /\ more.ts = ts
          /\ more.tokens = r.tokens + gps /\ more.carry = rest
      <4>1. r.tokens + gps \in Nat
        <5>. HIDE DEF gps
        <5>. QED BY <1>1, <1>4, SMT
      <4>. QED BY <1>1, <1>2, <1>4, <4>1, Assigned
    <3>4. n + p <= top
      <4>1. r.tokens + gps + 1 \in Nat /\ r.tokens + gps + 1 <= r.burst
        <5>. HIDE DEF gps
        <5>. QED BY <1>1, <1>4, <2>5, SMT
      <4>2. (r.tokens + gps + 1) * Seconds <= r.burst * Seconds
        BY <1>1, <1>2, <4>1, Monotone
      <4>3. (r.tokens + gps + 1) * Seconds = (r.tokens + gps) * Seconds + 1 * Seconds
        BY <1>1, <1>2, <1>4, Distribute
      <4>. HIDE DEF gps, rest, p
      <4>. QED BY <1>2, <1>3, <1>4, <2>3, <2>4, <4>2, <4>3, <1>1, SMT
    <3>5. Least(top, n + p) = n + p
      <4>. HIDE DEF p, top
      <4>. QED BY <1>1, <1>3, <3>4, SMT DEF Least
    <3>6. Bucket(more)
      BY <1>1, <1>2, <1>4, <3>3 DEF Bucket
    <3>7. n + p \in Nat
      <4>. HIDE DEF p
      <4>. QED BY <1>1, <1>3, SMT
    <3>. QED BY <2>4, <3>2, <3>3, <3>4, <3>5, <3>6, <3>7 DEF Holds
  <2>6. CASE ~(sum <= UintMax /\ gps < r.burst /\ r.tokens < r.burst - gps)
    <3>1. Update(r, ts) = full
      <4>1. CASE sum <= UintMax
        <5>1. sum % (UintMax + 1) = sum
          BY <1>2, <1>3, <4>1, SMT
        <5>. QED BY <1>6, <2>1, <2>6, <4>1, <5>1 DEF Update
      <4>2. CASE ~(sum <= UintMax)
        BY <1>6, <2>1, <4>2 DEF Update
      <4>. QED BY <4>1, <4>2
    <3>2. /\ full \in [burst : Nat, rate : Nat, tokens : Nat, carry : Nat, ts : Nat]
          /\ full.burst = r.burst /\ full.rate = r.rate /\ full.ts = ts
          /\ full.tokens = r.burst /\ full.carry = 0
      BY <1>1, <1>2, Assigned
    <3>3. n + p >= top
      <4>1. CASE sum > UintMax
        <5>. HIDE DEF p, top
        <5>. QED BY <1>1, <1>2, <1>3, <2>2, <4>1, SMT
      <4>2. CASE ~(sum > UintMax)
        <5>1. r.burst <= r.tokens + gps
          <6>. HIDE DEF gps, sum
          <6>. QED BY <1>1, <1>2, <1>3, <1>4, <2>6, <4>2, SMT
        <5>2. r.burst * Seconds <= (r.tokens + gps) * Seconds
          <6>1. r.tokens + gps \in Nat
            <7>. HIDE DEF gps
            <7>. QED BY <1>1, <1>4, SMT
          <6>. QED BY <1>1, <1>2, <5>1, <6>1, Monotone
        <5>. HIDE DEF gps, rest, p
        <5>. QED BY <1>1, <1>3, <1>4, <2>3, <2>4, <5>2, SMT
      <4>. QED BY <4>1, <4>2
    <3>4. Least(top, n + p) = top
      <4>. HIDE DEF p, top
      <4>. QED BY <1>1, <1>3, <3>3, SMT DEF Least
    <3>5. Bucket(full)
      BY <1>1, <1>2, <3>2 DEF Bucket
    <3>6. r.burst * Seconds + 0 = top
      BY <1>3, SMT
    <3>. QED BY <1>3, <3>1, <3>2, <3>4, <3>5, <3>6 DEF Holds
  <2>. QED BY <2>5, <2>6
<1>. QED BY <1>5, <1>6

\* Every step keeps the inductive invariant.
LEMMA DrainKeeps ==
  ASSUME RateInv, NEW ts \in rlim.ts..MaxTime, Drain(ts)
  PROVE  RateInv'
<1>. DEFINE r == Update(rlim, ts)
            now == Least(rlim.burst * Seconds, level + rlim.rate * (ts - rlim.ts))
            less == [r EXCEPT !.tokens = @ - 1]
<1>1. Bucket(r) /\ Holds(r, now)
  <2>1. Bucket(rlim) /\ Holds(rlim, level)
    BY DEF RateInv
  <2>2. LET s == Update(rlim, ts)
        IN  Bucket(s) /\ Holds(s, Least(rlim.burst * Seconds, level + rlim.rate * (ts - rlim.ts)))
    BY <2>1, UpdateIsExact
  <2>. QED BY <2>2
<1>2. /\ r \in [burst : Nat, rate : Nat, tokens : Nat, carry : Nat, ts : Nat]
      /\ r.burst \in Nat /\ r.tokens \in Nat /\ r.carry \in Nat /\ r.carry < Seconds
      /\ now \in Nat /\ r.tokens * Seconds + r.carry = now /\ now <= r.burst * Seconds
      /\ Seconds \in Nat /\ Seconds > 0
  <2>. HIDE DEF r, now
  <2>. QED BY <1>1, RateAssumption DEF Bucket, Holds
<1>3. /\ rlim' = IF r.tokens < 1 THEN r ELSE less
      /\ refused' = (r.tokens < 1)
      /\ level' = IF now < Seconds THEN now ELSE now - Seconds
  BY DEF Drain
<1>. HIDE DEF r, now
<1>4. CASE r.tokens < 1
  <2>1. r.tokens = 0
    BY <1>2, <1>4, SMT
  <2>2. r.tokens * Seconds = 0
    BY <1>2, <2>1, SMT
  <2>3. now < Seconds
    BY <1>2, <2>2, SMT
  <2>4. rlim' = r /\ refused' = TRUE /\ level' = now
    BY <1>3, <1>4, <2>3
  <2>. QED BY <1>1, <2>3, <2>4 DEF RateInv, Bucket, Holds
<1>5. CASE ~(r.tokens < 1)
  <2>1. r.tokens - 1 \in Nat /\ r.tokens = (r.tokens - 1) + 1
    BY <1>2, <1>5, SMT
  <2>2. r.tokens * Seconds = (r.tokens - 1) * Seconds + 1 * Seconds
    BY <1>2, <2>1, Distribute
  <2>3. (r.tokens - 1) * Seconds \in Nat
    BY <1>2, <2>1, SMT
  <2>4. /\ ~(now < Seconds) /\ now - Seconds \in Nat
        /\ (r.tokens - 1) * Seconds + r.carry = now - Seconds
    <3>1. r.tokens * Seconds \in Nat
      BY <1>2, SMT
    <3>2. ASSUME NEW a \in Nat, NEW b \in Nat, NEW c \in Nat, NEW k \in Nat, NEW m \in Nat,
                 a = b + 1 * k, a + c = m
          PROVE  ~(m < k) /\ m - k \in Nat /\ b + c = m - k
      BY <3>2, SMT
    <3>. QED BY <1>2, <2>2, <2>3, <3>1, <3>2
  <2>5. now - Seconds <= r.burst * Seconds
    <3>1. r.burst * Seconds \in Nat
      BY <1>2, SMT
    <3>. QED BY <1>2, <3>1, SMT
  <2>6. rlim' = less /\ refused' = FALSE /\ level' = now - Seconds
    <3>1. rlim' = less /\ level' = now - Seconds
      BY <1>3, <1>5, <2>4
    <3>2. refused' = (r.tokens < 1)
      BY <1>3
    <3>3. (r.tokens < 1) = FALSE
      <4>. DEFINE few == r.tokens < 1
      <4>1. few \in BOOLEAN
        BY <1>2, SMT
      <4>2. ~few
        BY <1>5
      <4>. HIDE DEF few
      <4>3. few = FALSE
        BY <4>1, <4>2
      <4>. QED BY <4>3 DEF few
    <3>. QED BY <3>1, <3>2, <3>3
  <2>7. /\ less \in [burst : Nat, rate : Nat, tokens : Nat, carry : Nat, ts : Nat]
        /\ less.burst = r.burst /\ less.tokens = r.tokens - 1
        /\ less.carry = r.carry /\ less.ts = r.ts
    BY <1>2, <2>1
  <2>. QED BY <1>1, <2>4, <2>5, <2>6, <2>7 DEF RateInv, Bucket, Holds
<1>. QED BY <1>4, <1>5

\* A connection begins with a full bucket (nghttp3_ratelim_init).
LEMMA RateInitInv == RateInit => RateInv
<1>. SUFFICES ASSUME RateInit PROVE RateInv
  OBVIOUS
<1>1. PICK burst \in Bursts, rate \in Rates : rlim = RatelimInit(burst, rate)
  BY DEF RateInit
<1>. DEFINE b == Least(burst, MaxBurst)
<1>2. MaxBurst \in Nat
  BY RateAssumption, Division DEF MaxBurst
<1>3. b \in Nat /\ b <= MaxBurst
  BY <1>2, RateAssumption, SMT DEF Least
<1>4. b * Seconds \in Nat /\ b * Seconds + 0 = b * Seconds /\ b * Seconds <= b * Seconds
  <2>. HIDE DEF b
  <2>. QED BY <1>3, RateAssumption, SMT
<1>5. rlim = [burst |-> b, rate |-> rate, tokens |-> b, carry |-> 0, ts |-> 0]
  BY <1>1 DEF RatelimInit
<1>6. level = rlim.burst * Seconds /\ refused = FALSE
  BY DEF RateInit
<1>7. rate \in Nat /\ 0 < Seconds /\ 0 <= MaxTime
  BY RateAssumption, SMT
<1>. HIDE DEF b
<1>8. Bucket(rlim)
  BY <1>3, <1>5, <1>7 DEF Bucket
<1>9. Holds(rlim, level)
  BY <1>4, <1>5, <1>6 DEF Holds
<1>. QED BY <1>6, <1>8, <1>9 DEF RateInv

\* The bucket of a connection is exact at every time: RateExact, about
\* ratelim_update and nghttp3_ratelim_drain.
THEOREM RateIsExact == RateSpec => []RateExact
<1>1. RateInv /\ [RateNext]_rate_vars => RateInv'
  <2>. SUFFICES ASSUME RateInv, [RateNext]_rate_vars PROVE RateInv'
    OBVIOUS
  <2>1. CASE RateNext
    BY <2>1, DrainKeeps DEF RateNext
  <2>2. CASE UNCHANGED rate_vars
    BY <2>2 DEF rate_vars, RateInv, Bucket, Holds
  <2>. QED BY <2>1, <2>2
<1>2. RateInv => RateExact
  <2>. SUFFICES ASSUME RateInv PROVE rlim.tokens <= rlim.burst
    BY DEF RateInv, RateExact, Holds
  <2>1. /\ rlim.tokens \in Nat /\ rlim.burst \in Nat /\ rlim.carry \in Nat /\ Seconds \in Nat
        /\ Seconds > 0 /\ rlim.tokens * Seconds + rlim.carry <= rlim.burst * Seconds
    BY RateAssumption DEF RateInv, Bucket, Holds
  <2>2. ASSUME ~(rlim.tokens <= rlim.burst) PROVE FALSE
    <3>1. rlim.burst + 1 \in Nat /\ rlim.burst + 1 <= rlim.tokens
      BY <2>1, <2>2, SMT
    <3>2. (rlim.burst + 1) * Seconds <= rlim.tokens * Seconds
      BY <2>1, <3>1, Monotone
    <3>3. (rlim.burst + 1) * Seconds = rlim.burst * Seconds + 1 * Seconds
      BY <2>1, Distribute
    <3>4. rlim.burst * Seconds \in Nat /\ rlim.tokens * Seconds \in Nat
      BY <2>1, SMT
    <3>. QED BY <2>1, <3>2, <3>3, <3>4, SMT
  <2>. QED BY <2>2
<1>. QED BY <1>1, <1>2, RateInitInv, PTL DEF RateSpec
=============================================================================
