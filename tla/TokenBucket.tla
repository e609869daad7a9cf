---------------------------- MODULE TokenBucket ----------------------------
(***************************************************************************)
(* The rate limiter of POST /send: one token bucket, a Redis hash, shared  *)
(* by the API processes (app/core/rate_limit.py, RateLimitMiddleware).     *)
(* Buckets of different API keys and addresses are different hashes and    *)
(* never touch each other.                                                 *)
(*                                                                         *)
(* Admitting a request takes two round trips: TokenBucket.consume reads    *)
(* the whole seconds of Redis's clock, then runs the Lua script with that  *)
(* reading.  The script is atomic; the two together are not.  Within one   *)
(* process nothing comes between them (consume blocks the event loop);     *)
(* another process, or time, may.                                          *)
(*                                                                         *)
(* Amounts are integers: a token is Period credits, so that the refill of  *)
(* Capacity tokens per Period is Capacity credits a second.  The code does *)
(* this in floating point and admits what misses a token by 1e-9.          *)
(***************************************************************************)
EXTENDS Integers, Sequences

CONSTANTS
  Process,    \* API processes
  Capacity,   \* rate_limit_per_minute
  Period,     \* refill_period_ms, in seconds
  None,
  MaxLag,     \* bound on the seconds from reading the clock to the script
  MaxClock    \* bound on the clock

ASSUME BucketAssumption ==
  /\ Capacity \in Nat \ {0}
  /\ Period \in Nat \ {0}
  /\ MaxLag \in Nat
  /\ MaxLag <= Period
  /\ MaxClock \in Nat

Credit == Period
Full == Capacity * Period

\* The fields of the hash, and when PEXPIRE last ran on it.
Hash == [credits : Nat, ts : Nat, touched : Nat]

ASSUME NoneAssumption == None \notin Hash

VARIABLES
  clock,      \* Redis's clock, whole seconds
  hash,       \* the bucket: None when the key does not exist
  reading,    \* per process: the clock reading of the consume in progress
  admitted,   \* history: the clock at each admission
  promise     \* history: when the denials since the last admission told the
              \* caller to come back, the earliest; None without one

vars == <<clock, hash, reading, admitted, promise>>

-----------------------------------------------------------------------------
(* The script *)

AtMost(bound, n) == IF n <= bound THEN n ELSE bound

\* Variant without the ceiling of the refill.
LevelUncapped(now) ==
  IF hash = None THEN Full
  ELSE IF now <= hash.ts THEN hash.credits
  ELSE hash.credits + (now - hash.ts) * Capacity

\* The credits a script sees at now: a missing key is a full bucket, and a
\* reading older than ts refills nothing.
Level(now) ==
  IF hash = None THEN Full
  ELSE IF now <= hash.ts THEN hash.credits
  ELSE AtMost(Full, hash.credits + (now - hash.ts) * Capacity)

\* Variant that keeps the ts it found.
StoreKeepingTime(credits, now) ==
  hash' = [credits |-> credits,
           ts |-> IF hash = None THEN now ELSE hash.ts, touched |-> clock]

\* HSET and PEXPIRE.  ts goes back when now is older.
Store(credits, now) ==
  hash' = [credits |-> credits, ts |-> now, touched |-> clock]

\* Variant that rounds down.
RetryAfterRoundedDown(level) == (Credit - level) \div Capacity

\* Seconds until a token is there, rounded up.
RetryAfter(level) == (Credit - level + Capacity - 1) \div Capacity

-----------------------------------------------------------------------------

Init ==
  /\ clock = 0
  /\ hash = None
  /\ reading = [p \in Process |-> None]
  /\ admitted = <<>>
  /\ promise = None

\* redis.time()[0]
ReadClock(p) ==
  /\ reading[p] = None
  /\ reading' = [reading EXCEPT ![p] = clock]
  /\ UNCHANGED <<clock, hash, admitted, promise>>

Answered(p) == reading' = [reading EXCEPT ![p] = None]

Admit(p) ==
  /\ reading[p] # None
  /\ Level(reading[p]) >= Credit
  /\ Store(Level(reading[p]) - Credit, reading[p])
  /\ admitted' = Append(admitted, clock)
  /\ promise' = None
  /\ Answered(p)
  /\ UNCHANGED clock

\* 429 with Retry-After.  The refill so far is stored.
Deny(p) ==
  /\ reading[p] # None
  /\ Level(reading[p]) < Credit
  /\ Store(Level(reading[p]), reading[p])
  /\ LET back == reading[p] + RetryAfter(Level(reading[p]))
     IN  promise' = IF promise = None THEN back ELSE AtMost(promise, back)
  /\ Answered(p)
  /\ UNCHANGED <<clock, admitted>>

\* A RedisError: 503.  The script may have run before the connection broke,
\* and then a token is gone that admitted nobody.
StoreFails(p) ==
  /\ reading[p] # None
  /\ \/ UNCHANGED <<hash, promise>>
     \/ /\ Level(reading[p]) >= Credit
        /\ Store(Level(reading[p]) - Credit, reading[p])
        /\ promise' = None
     \/ /\ Level(reading[p]) < Credit
        /\ Store(Level(reading[p]), reading[p])
        /\ UNCHANGED promise
  /\ Answered(p)
  /\ UNCHANGED <<clock, admitted>>

\* The hash outlives its last script by two periods.
Expire ==
  /\ hash # None
  /\ clock >= hash.touched + 2 * Period
  /\ hash' = None
  /\ UNCHANGED <<clock, reading, admitted, promise>>

Tick ==
  /\ clock < MaxClock
  /\ \A p \in Process : reading[p] # None => clock < reading[p] + MaxLag
  /\ clock' = clock + 1
  /\ UNCHANGED <<hash, reading, admitted, promise>>

Consume(p) == ReadClock(p) \/ Admit(p) \/ Deny(p) \/ StoreFails(p)

Next == Tick \/ Expire \/ \E p \in Process : Consume(p)

Spec == Init /\ [][Next]_vars

-----------------------------------------------------------------------------
(* Properties *)

\* The bucket never holds more than it may, nor less than nothing, and no
\* script runs with a reading from the future.
TypeOK ==
  /\ clock \in Nat
  /\ hash \in Hash \cup {None}
  /\ hash # None => hash.credits <= Full /\ hash.ts <= clock /\ hash.touched <= clock
  /\ reading \in [Process -> Nat \cup {None}]
  /\ \A p \in Process : reading[p] # None =>
       reading[p] <= clock /\ clock <= reading[p] + MaxLag
  /\ admitted \in Seq(Nat)
  /\ promise \in Nat \cup {None}

\* What a token bucket promises: in any stretch of time no more requests are
\* admitted than a full bucket and the refill of that stretch pay for (a
\* stretch as the script sees it, which may miss MaxLag seconds).
WindowBounded ==
  \A i, j \in 1..Len(admitted) :
    i <= j =>
      (j - i + 1) * Credit
        <= Full + (admitted[j] - admitted[i] + MaxLag) * Capacity

\* A caller that waited the Retry-After it was given is admitted unless
\* another one was admitted meanwhile, however often it was probed in between.
RetryAfterHonoured ==
  [][\A p \in Process :
       (Deny(p) /\ promise # None) => reading[p] < promise]_vars
=============================================================================
