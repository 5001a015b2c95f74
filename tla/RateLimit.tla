------------------------------ MODULE RateLimit ------------------------------
(***************************************************************************)
(* The token bucket that limits suspicious frames and streams:             *)
(* lib/nghttp3_ratelim.c in unsigned arithmetic of any width, drained by   *)
(* conn_glitch_ratelim_drain of lib/nghttp3_conn.c.                        *)
(***************************************************************************)
EXTENDS Integers

CONSTANTS
  UintMax,      \* UINT64_MAX
  Seconds,      \* NGHTTP3_SECONDS, the ticks of a second
  Bursts,       \* values of glitch_ratelim_burst
  Rates,        \* values of glitch_ratelim_rate
  MaxTime       \* bound: the last timestamp

ASSUME RateAssumption ==
  /\ Seconds \in Nat \ {0} /\ UintMax \in Nat /\ Seconds <= UintMax
  /\ Bursts \subseteq Nat /\ Rates \subseteq Nat
  /\ MaxTime \in Nat /\ MaxTime <= UintMax

VARIABLES
  rlim,         \* nghttp3_ratelim
  level,        \* history: the bucket in 1/Seconds tokens, computed exactly
  refused       \* history: the last drain was refused
rate_vars == <<rlim, level, refused>>

MaxBurst == UintMax \div Seconds         \* NGHTTP3_RATELIM_MAX_BURST
Least(a, b) == IF a < b THEN a ELSE b

RatelimInit(burst, rate) ==
  [burst |-> Least(burst, MaxBurst), rate |-> rate, tokens |-> Least(burst, MaxBurst),
   carry |-> 0, ts |-> 0]

RateInit ==
  /\ \E burst \in Bursts, rate \in Rates : rlim = RatelimInit(burst, rate)
  /\ level = rlim.burst * Seconds /\ refused = FALSE

\* no room is left for the carry in the test of the width
Update_Bug(r, ts) ==
  LET d == ts - r.ts
      gain == (r.rate * d + r.carry) % (UintMax + 1)
      gps == gain \div Seconds
      full == [r EXCEPT !.ts = ts, !.tokens = r.burst, !.carry = 0]
  IN  IF d = 0 THEN r
      ELSE IF r.rate <= UintMax \div d /\ gps < r.burst /\ r.tokens < r.burst - gps
      THEN [r EXCEPT !.ts = ts, !.tokens = @ + gps, !.carry = gain % Seconds]
      ELSE full
Update(r, ts) ==
  LET d == ts - r.ts
      gain == (r.rate * d + r.carry) % (UintMax + 1)
      gps == gain \div Seconds
      full == [r EXCEPT !.ts = ts, !.tokens = r.burst, !.carry = 0]
  IN  IF d = 0 THEN r
      ELSE IF /\ r.rate <= (UintMax - r.carry) \div d
              /\ gps < r.burst /\ r.tokens < r.burst - gps
      THEN [r EXCEPT !.ts = ts, !.tokens = @ + gps, !.carry = gain % Seconds]
      ELSE full

\* nghttp3_ratelim_drain(rlim, 1, ts)
Drain(ts) ==
  LET r == Update(rlim, ts)
      now == Least(rlim.burst * Seconds, level + rlim.rate * (ts - rlim.ts))
  IN  /\ rlim' = IF r.tokens < 1 THEN r ELSE [r EXCEPT !.tokens = @ - 1]
      /\ refused' = (r.tokens < 1)
      /\ level' = IF now < Seconds THEN now ELSE now - Seconds

RateNext == \E ts \in rlim.ts..MaxTime : Drain(ts)

RateSpec == RateInit /\ [][RateNext]_rate_vars
-----------------------------------------------------------------------------

(* The bucket holds exactly what an ideal one would, in fractions of a     *)
(* token, however often it is asked and however long it was idle: nothing  *)
(* is lost in rounding, and a product too big for the width fills it.  A   *)
(* drain is refused exactly when the ideal bucket has no whole token.      *)
RateExact ==
  /\ rlim.tokens * Seconds + rlim.carry = level
  /\ rlim.tokens <= rlim.burst
  /\ refused => level < Seconds
=============================================================================
