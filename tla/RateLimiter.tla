---------------------------- MODULE RateLimiter ----------------------------
(***************************************************************************)
(* The token buckets of the Hub (rate_limiter.rs): one for every API key   *)
(* that has a limit and one for every user name of a login.  A check reads *)
(* the clock and then waits for the mutex of the map, under which it does  *)
(* the rest: checks may come to a bucket in another order than that of     *)
(* their clocks.  Minute is the window of 60 s in ticks, and ages stop at  *)
(* MaxAge, the hour after which a bucket may be removed.                   *)
(***************************************************************************)
EXTENDS FiniteSets, Integers

CONSTANTS RateKey,     \* "rate:apikey:<id>", "login:user:<name>"
          RateRequest, \* requests that are checked at the same time
          Limit,       \* requests per minute (0, no limit, has no bucket)
          Minute,      \* the window, in ticks
          MaxLate,     \* bound on the ticks between the clock and the mutex
          MaxAge,      \* BUCKET_MAX_AGE, in ticks
          MaxBuckets   \* the number of buckets that starts a clean-up (1000)

ASSUME RateAssumption ==
  /\ Limit \in Nat \ {0} /\ Minute \in Nat \ {0} /\ MaxLate \in Nat
  /\ MaxAge \in Nat /\ MaxAge >= Minute + MaxLate /\ MaxBuckets \in Nat

VARIABLES bucket,    \* key -> its tokens and the time since last_update
          check,     \* request -> the key it asks for, and the age of its `now`
          within,    \* history: requests allowed in this tick and the d before it
          late,      \* history: the ages of `now` at the checks of those ticks, added up
          shutOut    \* history: ticks since the bucket, refusing, let one through

rateVars == <<bucket, check, within, late, shutOut>>

NoBucket == [tokens |-> -1, age |-> 0]
Capped(n, most) == IF n < most THEN n ELSE most

NoCheck == [old |-> -1]
NoHistory == [k \in RateKey |-> [d \in 0 .. Minute - 1 |-> 0]]

RateInit ==
  /\ bucket = [k \in RateKey |-> NoBucket] /\ check = [q \in RateRequest |-> NoCheck]
  /\ within = NoHistory /\ late = NoHistory
  /\ shutOut = [k \in RateKey |-> 0]

Buckets == {k \in RateKey : bucket[k] # NoBucket}

\* now.duration_since(last_update), which is never negative, when now is `old` ticks old.
Since(k, old) == IF bucket[k].age < old THEN 0 ELSE bucket[k].age - old

\* The buckets that are there after the clean-up of a check.
KeptBuckets(old) == IF Cardinality(Buckets) > MaxBuckets
                    THEN {k \in Buckets : Since(k, old) < MaxAge} ELSE Buckets

\* Variant: the fraction of a token is rounded up.
ReplenishUp(age) == (age * Limit + Minute - 1) \div Minute

Replenish(age) == (age * Limit) \div Minute

Filled(k, old) == IF k \in KeptBuckets(old)
                  THEN Capped(bucket[k].tokens + Replenish(Since(k, old)), Limit)
                  ELSE Limit

\* check reads the clock.
ReadClock(q, k) ==
  /\ check[q] = NoCheck
  /\ check' = [check EXCEPT ![q] = [key |-> k, old |-> 0]]
  /\ UNCHANGED <<bucket, within, late, shutOut>>

Added(history, k, n) == [history EXCEPT ![k] = [d \in 0 .. Minute - 1 |-> @[d] + n]]

\* The rest of it.  last_update moves to now, back if now is older than it, and
\* whether a token came or not.
Check(q) ==
  /\ check[q] # NoCheck
  /\ check' = [check EXCEPT ![q] = NoCheck]
  /\ LET k == check[q].key
         old == check[q].old
         ok == Filled(k, old) > 0
     IN /\ bucket' = [b \in RateKey |->
             IF b = k THEN [tokens |-> IF ok THEN Filled(k, old) - 1 ELSE 0, age |-> old]
             ELSE IF b \in KeptBuckets(old) THEN bucket[b] ELSE NoBucket]
        /\ within' = IF ok THEN Added(within, k, 1) ELSE within
        /\ late' = Added(late, k, old)
        /\ shutOut' = IF ok THEN [shutOut EXCEPT ![k] = 0] ELSE shutOut

\* A stretch of ticks is, a tick later, one longer.
Shifted(history) == [k \in RateKey |-> [d \in 0 .. Minute - 1 |->
                                          IF d = 0 THEN 0 ELSE history[k][d - 1]]]

\* Time passes.
Tick ==
  /\ \A q \in RateRequest : check[q] # NoCheck => check[q].old < MaxLate
  /\ bucket' = [k \in RateKey |-> IF bucket[k] = NoBucket THEN NoBucket
                 ELSE [bucket[k] EXCEPT !.age = Capped(@ + 1, MaxAge)]]
  /\ check' = [q \in RateRequest |-> IF check[q] = NoCheck THEN NoCheck
                                     ELSE [check[q] EXCEPT !.old = @ + 1]]
  /\ within' = Shifted(within) /\ late' = Shifted(late)
  /\ shutOut' = [k \in RateKey |-> IF bucket[k] = NoBucket THEN 0
                  ELSE Capped(shutOut[k] + 1, Minute)]

RateNext == \/ Tick
            \/ \E q \in RateRequest : Check(q) \/ \E k \in RateKey : ReadClock(q, k)
RateSpec == RateInit /\ [][RateNext]_rateVars

(***************************************************************************)
(* What a minute may let through.                                          *)
(***************************************************************************)
\* A minute, wherever it starts, lets through at most a full bucket and what comes
\* back in the rest of it, which is less than twice the limit: or, as a check that
\* comes late with its clock (rate_limiter.rs:33, 36) moves last_update back, what
\* comes back in that time and the time by which its checks were late.  The removal
\* of old buckets never gives anybody a bucket that is fuller than the one removed.
BurstIsBounded ==
  \A k \in RateKey :
    Minute * within[k][Minute - 1] <= Minute * Limit + (Minute - 1 + late[k][Minute - 1]) * Limit

\* "`limit` is the number of requests allowed per minute" (rate_limiter.rs:26-27):
\* who was let through nothing in a whole minute is let through.
NotShutOut == \A k \in RateKey : shutOut[k] >= Minute => Filled(k, 0) > 0
=============================================================================
