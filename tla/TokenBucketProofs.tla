------------------------- MODULE TokenBucketProofs -------------------------
(***************************************************************************)
(* Theorems about TokenBucket, for every capacity and period.              *)
(***************************************************************************)
EXTENDS TokenBucket, TLAPS

-----------------------------------------------------------------------------
(* Arithmetic *)

LEMMA Distributes ==
  ASSUME NEW a \in Int, NEW b \in Int, NEW c \in Int
  PROVE  (a + b) * c = a * c + b * c
  OBVIOUS

LEMMA Monotone ==
  ASSUME NEW a \in Int, NEW b \in Int, NEW c \in Nat, a <= b
  PROVE  a * c <= b * c
<1>1. b * c = a * c + (b - a) * c
  BY Distributes
<1>2. (b - a) * c >= 0
  BY Z3
<1>3. QED
  BY <1>1, <1>2

\* Rounding up: a ceiling covers what it divides.
LEMMA Ceiling ==
  ASSUME NEW a \in Nat \ {0}, NEW d \in Nat \ {0}
  PROVE  /\ (a + d - 1) \div d \in Nat \ {0}
         /\ ((a + d - 1) \div d) * d >= a
  BY Z3

LEMMA Amounts == Credit \in Nat \ {0} /\ Full \in Nat /\ Credit <= Full
<1>1. 1 * Period <= Capacity * Period
  BY BucketAssumption, Monotone
<1>2. QED
  BY <1>1, BucketAssumption DEF Credit, Full

-----------------------------------------------------------------------------
(* Types and ranges *)

\* What a script may see: between nothing and a full bucket, and no more than
\* what was left and the refill since.
LEMMA LevelFacts ==
  ASSUME TypeOK, NEW now \in Nat
  PROVE  /\ Level(now) \in Nat
         /\ Level(now) <= Full
         /\ hash # None => Level(now) >= hash.credits
         /\ (hash # None /\ now >= hash.ts) =>
              Level(now) <= hash.credits + (now - hash.ts) * Capacity
<1>1. CASE hash = None
  BY <1>1, Amounts DEF Level
<1>2. CASE hash # None /\ now <= hash.ts
  <2>1. hash.credits \in Nat /\ hash.ts \in Nat /\ hash.credits <= Full
    BY <1>2 DEF TypeOK, Hash
  <2>2. Level(now) = hash.credits
    BY <1>2 DEF Level
  <2>3. now = hash.ts => (now - hash.ts) * Capacity = 0
    BY <2>1, BucketAssumption
  <2>4. QED
    BY <1>2, <2>1, <2>2, <2>3
<1>3. CASE hash # None /\ ~(now <= hash.ts)
  <2>1. hash.credits \in Nat /\ hash.ts \in Nat /\ hash.credits <= Full
    BY <1>3 DEF TypeOK, Hash
  <2> DEFINE refill == (now - hash.ts) * Capacity
  <2>2. refill \in Nat
    <3>1. 0 * Capacity <= refill
      BY <1>3, <2>1, Monotone, BucketAssumption
    <3>2. QED
      BY <3>1, <2>1, BucketAssumption
  <2>3. Level(now) = AtMost(Full, hash.credits + refill)
    BY <1>3 DEF Level
  <2>4. QED
    BY <1>3, <2>1, <2>2, <2>3, Amounts DEF AtMost
<1>4. QED
  BY <1>1, <1>2, <1>3

\* Every answer of consume either leaves the hash or stores what the script
\* saw, with or without the token it took.
LEMMA ScriptRuns ==
  ASSUME NEW p \in Process, Admit(p) \/ Deny(p) \/ StoreFails(p)
  PROVE  /\ reading[p] # None
         /\ reading' = [reading EXCEPT ![p] = None]
         /\ clock' = clock
         /\ \/ hash' = hash
            \/ Store(Level(reading[p]), reading[p])
            \/ /\ Level(reading[p]) >= Credit
               /\ Store(Level(reading[p]) - Credit, reading[p])
  BY DEF Admit, Deny, StoreFails, Answered

LEMMA TypeStep == TypeOK /\ [Next]_vars => TypeOK'
<1> SUFFICES ASSUME TypeOK, [Next]_vars PROVE TypeOK'
  OBVIOUS
<1>1. CASE Tick
  BY <1>1, BucketAssumption DEF TypeOK, Tick, Hash
<1>2. CASE Expire
  BY <1>2 DEF TypeOK, Expire
<1>3. ASSUME NEW p \in Process, ReadClock(p) PROVE TypeOK'
  BY <1>3, BucketAssumption DEF TypeOK, ReadClock
<1>4. ASSUME NEW p \in Process, Admit(p) \/ Deny(p) \/ StoreFails(p) PROVE TypeOK'
  <2> DEFINE now == reading[p]
  <2>1. now \in Nat /\ now <= clock /\ clock \in Nat
    BY <1>4, ScriptRuns DEF TypeOK
  <2>2. Level(now) \in Nat /\ Level(now) <= Full
    BY <2>1, LevelFacts
  <2>3. /\ hash' \in Hash \cup {None}
        /\ hash' # None =>
             hash'.credits <= Full /\ hash'.ts <= clock' /\ hash'.touched <= clock'
    <3>1. CASE hash' = hash
      BY <1>4, <3>1, ScriptRuns DEF TypeOK
    <3>2. ASSUME NEW credits \in Nat, credits <= Full, Store(credits, now)
          PROVE  /\ hash' \in Hash \cup {None}
                 /\ hash' # None =>
                      hash'.credits <= Full /\ hash'.ts <= clock' /\ hash'.touched <= clock'
      <4>1. hash' = [credits |-> credits, ts |-> now, touched |-> clock]
        BY <3>2 DEF Store
      <4>2. clock' = clock
        BY <1>4, ScriptRuns
      <4>3. QED
        BY <2>1, <3>2, <4>1, <4>2 DEF Hash
    <3>3. Level(now) >= Credit => Level(now) - Credit \in Nat /\ Level(now) - Credit <= Full
      BY <2>2, Amounts
    <3>4. QED
      BY <1>4, <2>2, <3>1, <3>2, <3>3, ScriptRuns
  <2>4. admitted' \in Seq(Nat)
    BY SMTT(30), <1>4, <2>1 DEF TypeOK, Admit, Deny, StoreFails
  <2>5. promise' \in Nat \cup {None}
    <3>1. CASE Deny(p)
      <4>1. Level(now) < Credit
        BY <3>1 DEF Deny
      <4>2. RetryAfter(Level(now)) \in Nat
        BY <2>2, <4>1, Amounts, Ceiling, BucketAssumption DEF RetryAfter
      <4>3. now + RetryAfter(Level(now)) \in Nat
        BY <2>1, <4>2
      <4>4. QED
        BY <3>1, <4>3 DEF Deny, AtMost, TypeOK
    <3>2. CASE Admit(p) \/ StoreFails(p)
      BY <3>2 DEF Admit, StoreFails, TypeOK
    <3>3. QED
      BY <1>4, <3>1, <3>2
  <2>6. /\ reading' \in [Process -> Nat \cup {None}]
        /\ \A q \in Process : reading'[q] # None =>
             reading'[q] <= clock' /\ clock' <= reading'[q] + MaxLag
    BY <1>4, ScriptRuns DEF TypeOK
  <2>7. clock' \in Nat
    BY <1>4, <2>1, ScriptRuns
  <2>8. QED
    BY <2>3, <2>4, <2>5, <2>6, <2>7 DEF TypeOK
<1>5. CASE UNCHANGED vars
  BY <1>5 DEF TypeOK, vars
<1>6. QED
  BY <1>1, <1>2, <1>3, <1>4, <1>5 DEF Next, Consume

\* For any number of processes, however stale their readings: the bucket stays
\* between empty and full and its time never passes the clock.
THEOREM TypeCorrect == Spec => []TypeOK
<1>1. Init => TypeOK
  BY DEF Init, TypeOK
<1>2. QED
  BY <1>1, TypeStep, PTL DEF Spec

-----------------------------------------------------------------------------
(* Retry-After *)

\* Whoever comes back when told, or later, finds a token.
PromiseKept ==
  promise # None => \A t \in Nat : t >= promise => Level(t) >= Credit

\* Storing what the script saw at now loses nothing for a later script.
LEMMA StoreKeepsLevel ==
  ASSUME TypeOK, NEW now \in Nat, Store(Level(now), now), NEW t \in Nat, t > now
  PROVE  Level(t)' \in Nat /\ Level(t)' >= Level(t)
<1> DEFINE gain(a) == (t - a) * Capacity
<1>1. Level(now) \in Nat /\ Level(now) <= Full
  BY LevelFacts
<1>2. hash' # None /\ hash'.ts = now /\ hash'.credits = Level(now)
  <2>1. hash' = [credits |-> Level(now), ts |-> now, touched |-> clock]
    BY DEF Store
  <2>2. hash' \in Hash
    BY <2>1, <1>1 DEF Hash, TypeOK
  <2>3. QED
    BY <2>1, <2>2, NoneAssumption
<1>3. Level(t)' = AtMost(Full, Level(now) + gain(now))
  BY <1>2 DEF Level, AtMost
<1>4. gain(now) \in Nat
  <2>1. 0 * Capacity <= gain(now)
    BY Monotone, BucketAssumption
  <2>2. QED
    BY <2>1, BucketAssumption
<1>5. Level(t) \in Nat /\ Level(t) <= Full
  BY LevelFacts
<1>6. Level(t) <= Level(now) + gain(now)
  <2>1. CASE hash = None
    BY <2>1, <1>4, Amounts DEF Level
  <2>2. CASE hash # None /\ t <= hash.ts
    BY <2>2, <1>1, <1>4, LevelFacts DEF Level, TypeOK, Hash
  <2>3. CASE hash # None /\ t > hash.ts /\ now <= hash.ts
    <3>1. hash.ts \in Nat /\ hash.credits \in Nat
      BY <2>3 DEF TypeOK, Hash
    <3>2. Level(t) <= hash.credits + gain(hash.ts)
      BY <2>3, <3>1, LevelFacts
    <3>3. gain(hash.ts) <= gain(now)
      BY <2>3, <3>1, Monotone, BucketAssumption
    <3>4. Level(now) = hash.credits
      BY <2>3 DEF Level
    <3>5. gain(hash.ts) \in Int
      BY <3>1, BucketAssumption
    <3>6. QED
      BY <3>1, <3>2, <3>3, <3>4, <3>5, <1>4, <1>5
  <2>4. CASE hash # None /\ now > hash.ts
    <3>1. hash.ts \in Nat /\ hash.credits \in Nat
      BY <2>4 DEF TypeOK, Hash
    <3> DEFINE before == (now - hash.ts) * Capacity
    <3>2. gain(hash.ts) = before + gain(now)
      BY <3>1, Distributes, BucketAssumption
    <3>3. before \in Int
      BY <3>1, BucketAssumption
    <3>4. Level(now) = AtMost(Full, hash.credits + before)
      BY <2>4, <3>1 DEF Level
    <3>5. Level(t) <= hash.credits + gain(hash.ts)
      BY <2>4, <3>1, LevelFacts
    <3> HIDE DEF before, gain
    <3>6. QED
      BY <3>1, <3>2, <3>3, <3>4, <3>5, <1>1, <1>4, <1>5, Amounts DEF AtMost
  <2>5. hash # None => hash.ts \in Nat
    BY DEF TypeOK, Hash
  <2>6. QED
    BY <2>1, <2>2, <2>3, <2>4, <2>5
<1>7. QED
  BY <1>3, <1>4, <1>5, <1>6, <1>1, Amounts DEF AtMost

\* A denied caller is told a time that is late enough, and later than now.
LEMMA WaitCovers ==
  ASSUME TypeOK, NEW now \in Nat, Level(now) < Credit
  PROVE  /\ RetryAfter(Level(now)) \in Nat \ {0}
         /\ RetryAfter(Level(now)) * Capacity >= Credit - Level(now)
<1>1. Credit - Level(now) \in Nat \ {0}
  BY LevelFacts, Amounts
<1>2. QED
  BY <1>1, Ceiling, BucketAssumption DEF RetryAfter

\* A denial keeps the promises made before and the one it makes.
LEMMA DenyKeepsPromises ==
  ASSUME TypeOK, PromiseKept, NEW p \in Process, Deny(p)
  PROVE  PromiseKept'
<1> DEFINE now  == reading[p]
           wait == RetryAfter(Level(now))
<1>1. now \in Nat /\ Level(now) < Credit /\ Store(Level(now), now)
  BY DEF Deny, TypeOK
<1>2. /\ wait \in Nat \ {0}
      /\ wait * Capacity >= Credit - Level(now)
  BY <1>1, WaitCovers
<1>3. promise # None => promise \in Nat /\ now < promise
  BY <1>1, LevelFacts, Amounts DEF PromiseKept, TypeOK
<1>4. promise' = IF promise = None THEN now + wait ELSE AtMost(promise, now + wait)
  BY DEF Deny
<1> SUFFICES ASSUME NEW t \in Nat, t >= promise' PROVE Level(t)' >= Credit
  BY DEF PromiseKept
<1>5. t > now
  BY <1>1, <1>2, <1>3, <1>4 DEF AtMost
<1>6. Level(t)' \in Nat /\ Level(t)' >= Level(t)
  BY <1>1, <1>5, StoreKeepsLevel
<1>7. Level(t) \in Nat
  BY LevelFacts
<1>8. CASE promise # None /\ t >= promise
  BY <1>6, <1>7, <1>8, Amounts DEF PromiseKept
<1>9. CASE t >= now + wait
  <2>1. hash' = [credits |-> Level(now), ts |-> now, touched |-> clock]
    BY <1>1 DEF Store
  <2>2. hash' # None
    <3>1. hash' \in Hash
      BY <2>1, <1>1, LevelFacts DEF Hash, TypeOK
    <3>2. QED
      BY <3>1, NoneAssumption
  <2>3. wait * Capacity <= (t - now) * Capacity
    BY <1>1, <1>2, <1>9, Monotone, BucketAssumption
  <2>4. Level(t)' = AtMost(Full, Level(now) + (t - now) * Capacity)
    BY <1>1, <1>5, <2>1, <2>2 DEF Level, AtMost
  <2>5. /\ wait * Capacity \in Int /\ (t - now) * Capacity \in Int
        /\ Level(now) \in Nat
    BY <1>1, <1>2, LevelFacts, BucketAssumption
  <2> HIDE DEF wait
  <2>6. QED
    BY <1>2, <2>3, <2>4, <2>5, Amounts DEF AtMost
<1>10. QED
  BY <1>1, <1>2, <1>3, <1>4, <1>8, <1>9 DEF AtMost

LEMMA PromiseStep == TypeOK /\ PromiseKept /\ [Next]_vars => PromiseKept'
<1> SUFFICES ASSUME TypeOK, PromiseKept, [Next]_vars PROVE PromiseKept'
  OBVIOUS
<1>1. ASSUME UNCHANGED <<hash, promise>> PROVE PromiseKept'
  BY <1>1 DEF PromiseKept, Level
<1>2. CASE Expire
  BY <1>2, Amounts DEF Expire, PromiseKept, Level
<1>3. ASSUME NEW p \in Process, Deny(p) PROVE PromiseKept'
  BY <1>3, DenyKeepsPromises
<1>4. ASSUME promise' = None PROVE PromiseKept'
  BY <1>4 DEF PromiseKept
<1>5. ASSUME NEW p \in Process, StoreFails(p), Level(reading[p]) < Credit,
             Store(Level(reading[p]), reading[p]), promise' = promise
      PROVE  PromiseKept'
  \* A denial nobody heard of.
  <2>1. reading[p] \in Nat
    BY <1>5 DEF StoreFails, TypeOK
  <2>2. SUFFICES ASSUME promise # None, NEW t \in Nat, t >= promise
                 PROVE  Level(t)' >= Credit
    BY <1>5 DEF PromiseKept
  <2>3. reading[p] < promise
    <3>1. promise \in Nat
      BY <2>2 DEF TypeOK
    <3>2. Level(reading[p]) \in Nat
      BY <2>1, LevelFacts
    <3>3. reading[p] >= promise => Level(reading[p]) >= Credit
      BY <2>1, <2>2 DEF PromiseKept
    <3>4. QED
      BY <1>5, <2>1, <3>1, <3>2, <3>3, Amounts
  <2>4. t > reading[p]
    BY <2>1, <2>2, <2>3 DEF TypeOK
  <2>5. Level(t)' \in Nat /\ Level(t)' >= Level(t)
    BY <1>5, <2>1, <2>4, StoreKeepsLevel
  <2>6. Level(t) \in Nat
    BY LevelFacts
  <2>7. QED
    BY <2>2, <2>5, <2>6, Amounts DEF PromiseKept
<1>6. ASSUME NEW p \in Process, StoreFails(p) PROVE PromiseKept'
  BY <1>1, <1>4, <1>5, <1>6 DEF StoreFails
<1>7. ASSUME NEW p \in Process, ReadClock(p) \/ Admit(p) PROVE PromiseKept'
  BY <1>1, <1>4, <1>7 DEF ReadClock, Admit
<1>8. QED
  BY <1>1, <1>2, <1>3, <1>6, <1>7 DEF Next, Consume, Tick, vars

\* For any number of processes with readings in any order: Retry-After is
\* long enough unless someone else takes the token.
THEOREM RetryAfterIsHonoured == Spec => RetryAfterHonoured
<1>1. Init => TypeOK /\ PromiseKept
  BY DEF Init, TypeOK, PromiseKept
<1>2. TypeOK /\ PromiseKept /\ [Next]_vars => TypeOK' /\ PromiseKept'
  BY TypeStep, PromiseStep
<1>3. ASSUME TypeOK, PromiseKept, NEW p \in Process, Deny(p), promise # None
      PROVE  reading[p] < promise
  BY <1>3, LevelFacts, Amounts DEF TypeOK, PromiseKept, Deny
<1>4. TypeOK /\ PromiseKept =>
        [\A p \in Process : (Deny(p) /\ promise # None) => reading[p] < promise]_vars
  BY <1>3
<1>5. QED
  BY <1>1, <1>2, <1>4, PTL DEF Spec, RetryAfterHonoured

-----------------------------------------------------------------------------
(* The bound of a window *)

\* The deployment of the README: one API process.
OneProcess == \A p, q \in Process : p = q

\* What was paid for the i-th admission and those after it.
Paid(i) == (Len(admitted) - i + 1) * Credit

\* Credits a stretch of time can refill.
Gain(from, to) == (to - from) * Capacity

\* Scripts run in the order of their readings.
Ordered ==
  /\ \A p \in Process :
       (reading[p] # None /\ hash # None) => hash.ts <= reading[p]
  /\ hash # None => hash.ts <= hash.touched

\* What is left and what was paid came from a full bucket and the refill.
Accounted ==
  \A i \in 1..Len(admitted) :
    IF hash = None
    THEN Paid(i) <= Gain(admitted[i], clock)
    ELSE hash.credits + Paid(i) <= Full + Gain(admitted[i], hash.ts + MaxLag)

WindowInv == TypeOK /\ Ordered /\ Accounted /\ WindowBounded

LEMMA GainType ==
  ASSUME NEW a \in Int, NEW b \in Int
  PROVE  Gain(a, b) \in Int
  BY BucketAssumption DEF Gain

LEMMA GainAdds ==
  ASSUME NEW a \in Int, NEW b \in Int, NEW c \in Int
  PROVE  Gain(a, b) + Gain(b, c) = Gain(a, c)
<1>1. (b - a) + (c - b) = c - a
  OBVIOUS
<1>2. ((b - a) + (c - b)) * Capacity = (b - a) * Capacity + (c - b) * Capacity
  BY Distributes, BucketAssumption
<1>3. QED
  BY <1>1, <1>2 DEF Gain

LEMMA GainPositive ==
  ASSUME NEW a \in Int, NEW b \in Int, a <= b
  PROVE  Gain(a, b) >= 0
<1>1. 0 * Capacity <= (b - a) * Capacity
  BY Monotone, BucketAssumption
<1>2. QED
  BY <1>1, BucketAssumption DEF Gain

LEMMA PaidType ==
  ASSUME TypeOK, NEW i \in 1..Len(admitted)
  PROVE  Paid(i) \in Int /\ admitted[i] \in Nat
  BY Amounts DEF TypeOK, Paid

\* What a script sees is accounted for as of its own reading.
LEMMA LevelAccounted ==
  ASSUME TypeOK, Ordered, Accounted, NEW p \in Process, reading[p] # None,
         NEW i \in 1..Len(admitted)
  PROVE  Level(reading[p]) + Paid(i) <= Full + Gain(admitted[i], reading[p] + MaxLag)
<1> DEFINE now == reading[p]
           lag == now + MaxLag
<1>1. /\ now \in Nat /\ clock \in Nat /\ clock <= lag /\ lag \in Nat
      /\ MaxLag \in Nat
  BY BucketAssumption DEF TypeOK
<1>2. Paid(i) \in Int /\ admitted[i] \in Nat
  BY PaidType
<1>6. clock \in Int /\ lag \in Int /\ admitted[i] \in Int
  BY <1>1, <1>2
<1>3. CASE hash = None
  <2>1. Level(now) = Full
    BY <1>3 DEF Level
  <2>2. Paid(i) <= Gain(admitted[i], clock)
    BY <1>3 DEF Accounted
  <2>3. Gain(admitted[i], clock) + Gain(clock, lag) = Gain(admitted[i], lag)
    BY <1>6, GainAdds
  <2>4. Gain(clock, lag) >= 0 /\ Gain(clock, lag) \in Int
        /\ Gain(admitted[i], clock) \in Int
    BY <1>1, <1>6, GainType, GainPositive
  <2> HIDE DEF lag, now
  <2>5. Full + Paid(i) <= Full + Gain(admitted[i], lag)
    BY <1>2, <2>2, <2>3, <2>4, Amounts
  <2>6. QED
    BY <2>1, <2>5 DEF lag, now
<1>4. CASE hash # None
  <2>1. hash.ts \in Nat /\ hash.credits \in Nat /\ hash.ts <= now
    BY <1>4 DEF TypeOK, Ordered, Hash
  <2>2. Level(now) <= hash.credits + Gain(hash.ts, now)
    BY <1>1, <1>4, <2>1, LevelFacts DEF Gain
  <2>3. Gain(hash.ts, now) = Gain(hash.ts + MaxLag, lag)
    BY <1>1, <2>1 DEF Gain
  <2>4. Gain(admitted[i], hash.ts + MaxLag) + Gain(hash.ts + MaxLag, lag)
          = Gain(admitted[i], lag)
    <3>1. hash.ts + MaxLag \in Int
      BY <1>1, <2>1
    <3>2. QED
      BY <1>6, <3>1, GainAdds
  <2>5. hash.credits + Paid(i) <= Full + Gain(admitted[i], hash.ts + MaxLag)
    BY <1>4 DEF Accounted
  <2>6. /\ Gain(hash.ts, now) \in Int
        /\ Gain(admitted[i], hash.ts + MaxLag) \in Int
        /\ Gain(admitted[i], lag) \in Int
        /\ Level(now) \in Nat
    <3>1. hash.ts \in Int /\ now \in Int /\ hash.ts + MaxLag \in Int
      BY <1>1, <2>1
    <3>2. Level(now) \in Nat
      BY <1>1, LevelFacts
    <3>3. QED
      BY <1>6, <3>1, <3>2, GainType
  <2> HIDE DEF lag, now
  <2>7. Level(now) + Paid(i) <= Full + Gain(admitted[i], lag)
    BY SMTT(30), <1>2, <2>1, <2>2, <2>3, <2>4, <2>5, <2>6, Amounts
  <2>8. QED
    BY <2>7 DEF lag, now
<1>5. QED
  BY <1>3, <1>4

\* A bucket left alone for two periods has refilled: forgetting it is free.
LEMMA ExpireAccounted ==
  ASSUME TypeOK, Ordered, Accounted, Expire
  PROVE  Accounted'
<1> SUFFICES ASSUME NEW i \in 1..Len(admitted)
             PROVE  Paid(i) <= Gain(admitted[i], clock)
  BY DEF Accounted, Expire, Paid, Gain
<1> DEFINE then == hash.ts + MaxLag
           full == then + Period
<1>1. /\ hash.ts \in Nat /\ hash.credits \in Nat /\ hash.touched \in Nat
      /\ clock \in Nat /\ hash.ts <= hash.touched
      /\ clock >= hash.touched + 2 * Period
      /\ MaxLag \in Nat /\ Period \in Nat /\ MaxLag <= Period
  BY BucketAssumption DEF Expire, TypeOK, Hash, Ordered
<1>2. then \in Nat /\ full \in Nat /\ full <= clock
  BY SMTT(30), <1>1
<1>3. Paid(i) \in Int /\ admitted[i] \in Nat
  BY PaidType
<1>4. hash.credits + Paid(i) <= Full + Gain(admitted[i], then)
  BY DEF Expire, Accounted
<1>5. Gain(then, full) = Full
  <2>1. full - then = Period
    BY <1>1
  <2>2. QED
    BY <2>1, BucketAssumption DEF Gain, Full
<1>6. /\ Gain(admitted[i], then) + Gain(then, full) = Gain(admitted[i], full)
      /\ Gain(admitted[i], full) + Gain(full, clock) = Gain(admitted[i], clock)
      /\ Gain(full, clock) >= 0
      /\ Gain(admitted[i], then) \in Int
      /\ Gain(admitted[i], full) \in Int
      /\ Gain(full, clock) \in Int
  <2>1. then \in Int /\ full \in Int /\ clock \in Int /\ admitted[i] \in Int
    BY <1>1, <1>2, <1>3
  <2>2. QED
    BY <2>1, <1>2, GainType, GainAdds, GainPositive
<1> HIDE DEF then, full
<1>7. QED
  BY <1>1, <1>3, <1>4, <1>5, <1>6, Amounts

\* A script that admits nobody stores no more than it saw.
LEMMA StoreAccounted ==
  ASSUME TypeOK, Ordered, Accounted, NEW p \in Process, reading[p] # None,
         NEW credits \in Nat, credits <= Level(reading[p]), credits <= Full,
         Store(credits, reading[p]), admitted' = admitted
  PROVE  Accounted'
<1>1. /\ hash' # None /\ hash'.credits = credits /\ hash'.ts = reading[p]
  <2>1. hash' = [credits |-> credits, ts |-> reading[p], touched |-> clock]
    BY DEF Store
  <2>2. hash' \in Hash
    BY <2>1 DEF Hash, TypeOK
  <2>3. QED
    BY <2>1, <2>2, NoneAssumption
<1> SUFFICES ASSUME NEW i \in 1..Len(admitted)
             PROVE  credits + Paid(i) <= Full + Gain(admitted[i], reading[p] + MaxLag)
  BY <1>1 DEF Accounted, Paid, Gain
<1>2. Level(reading[p]) + Paid(i) <= Full + Gain(admitted[i], reading[p] + MaxLag)
  BY LevelAccounted
<1>3. Paid(i) \in Int /\ admitted[i] \in Nat /\ reading[p] \in Nat /\ MaxLag \in Nat
  BY PaidType, BucketAssumption DEF TypeOK
<1>4. Gain(admitted[i], reading[p] + MaxLag) \in Int /\ Level(reading[p]) \in Nat
  <2>1. admitted[i] \in Int /\ reading[p] + MaxLag \in Int
    BY <1>3
  <2>2. QED
    BY <1>3, <2>1, GainType, LevelFacts
<1>5. QED
  BY <1>2, <1>3, <1>4, Amounts

\* An admission pays for itself, and the stretch that ends with it is within
\* the bound.
LEMMA AdmitAccounted ==
  ASSUME TypeOK, Ordered, Accounted, WindowBounded, NEW p \in Process, Admit(p)
  PROVE  Accounted' /\ WindowBounded'
<1> DEFINE now == reading[p]
           last == Len(admitted) + 1
           left == Level(now) - Credit
<1>1. /\ now \in Nat /\ clock \in Nat /\ now <= clock /\ clock <= now + MaxLag
      /\ MaxLag \in Nat /\ admitted \in Seq(Nat)
      /\ Level(now) >= Credit
      /\ Store(left, now)
      /\ admitted' = Append(admitted, clock)
      /\ clock' = clock
  BY BucketAssumption DEF TypeOK, Admit
<1>2. Level(now) \in Nat /\ Level(now) <= Full /\ left \in Nat
  <2>1. Level(now) \in Nat /\ Level(now) <= Full
    BY <1>1, LevelFacts
  <2> HIDE DEF now
  <2>2. Level(now) - Credit \in Nat
    BY <1>1, <2>1, Amounts
  <2>3. QED
    BY <2>1, <2>2
<1>3. /\ Len(admitted') = last /\ admitted'[last] = clock
      /\ \A i \in 1..Len(admitted) : admitted'[i] = admitted[i]
      /\ Len(admitted) \in Nat
  BY <1>1
<1>4. hash' # None /\ hash'.credits = left /\ hash'.ts = now
  <2>1. hash' = [credits |-> left, ts |-> now, touched |-> clock]
    BY <1>1 DEF Store
  <2>2. hash' \in Hash
    BY <2>1, <1>1, <1>2 DEF Hash
  <2>3. QED
    BY <2>1, <2>2, NoneAssumption
\* The sum so far, with the new admission in it.
<1>5. ASSUME NEW i \in 1..last
      PROVE  /\ (last - i + 1) * Credit \in Int
             /\ Gain(admitted'[i], now + MaxLag) \in Int
             /\ left + (last - i + 1) * Credit
                  <= Full + Gain(admitted'[i], now + MaxLag)
  <2>1. CASE i = last
    <3>1. (last - i + 1) * Credit = Credit
      BY <1>3, <2>1, Amounts
    <3>2. Gain(clock, now + MaxLag) >= 0 /\ Gain(clock, now + MaxLag) \in Int
      <4>1. clock \in Int /\ now + MaxLag \in Int
        BY <1>1
      <4>2. QED
        BY <1>1, <4>1, GainType, GainPositive
    <3> HIDE DEF now, last
    <3>3. QED
      BY <1>2, <1>3, <2>1, <3>1, <3>2, Amounts
  <2>2. CASE i \in 1..Len(admitted)
    <3>1. (last - i + 1) * Credit = Paid(i) + Credit
      <4>1. ((Len(admitted) - i + 1) + 1) * Credit
              = (Len(admitted) - i + 1) * Credit + 1 * Credit
        BY <1>3, <2>2, Distributes, Amounts
      <4>2. QED
        BY <4>1, <1>3, <2>2, Amounts DEF Paid
    <3>2. Level(now) + Paid(i) <= Full + Gain(admitted[i], now + MaxLag)
      BY <2>2, LevelAccounted DEF Admit
    <3>3. Paid(i) \in Int /\ admitted[i] \in Nat
      BY <2>2, PaidType
    <3>4. Gain(admitted[i], now + MaxLag) \in Int
      <4>1. admitted[i] \in Int /\ now + MaxLag \in Int
        BY <1>1, <3>3
      <4>2. QED
        BY <4>1, GainType
    <3>5. left + Credit = Level(now)
      BY <1>2, Amounts
    <3>6. admitted'[i] = admitted[i]
      BY <1>3, <2>2
    <3>7. left \in Int /\ Credit \in Int /\ Full \in Int
      BY <1>2, Amounts
    <3> HIDE DEF now, last, left
    <3>8. QED
      BY <3>1, <3>2, <3>3, <3>4, <3>5, <3>6, <3>7
  <2>3. QED
    BY <1>3, <2>1, <2>2
<1>6. Accounted'
  <2>1. \A i \in 1..last : Paid(i)' = (last - i + 1) * Credit
    BY <1>3 DEF Paid
  <2>2. \A i \in 1..last :
          Gain(admitted[i], hash.ts + MaxLag)' = Gain(admitted'[i], now + MaxLag)
    BY <1>4 DEF Gain
  <2> HIDE DEF last, left, now
  <2>3. QED
    BY <1>3, <1>4, <1>5, <2>1, <2>2 DEF Accounted
<1>7. WindowBounded'
  <2> SUFFICES ASSUME NEW i \in 1..last, NEW j \in 1..last, i <= j
               PROVE  (j - i + 1) * Credit
                        <= Full + Gain(admitted'[i], admitted'[j] + MaxLag)
    <3>0. \A i \in 1..last : admitted'[i] \in Nat
      BY <1>1, <1>3
    <3>1. \A i, j \in 1..last :
            Gain(admitted'[i], admitted'[j] + MaxLag)
              = (admitted'[j] - admitted'[i] + MaxLag) * Capacity
      <4> TAKE i, j \in 1..last
      <4>1. (admitted'[j] + MaxLag) - admitted'[i]
              = admitted'[j] - admitted'[i] + MaxLag
        <5>1. admitted'[i] \in Nat /\ admitted'[j] \in Nat /\ MaxLag \in Nat
          BY <1>1, <3>0
        <5>2. QED
          BY <5>1
      <4>2. QED
        BY <4>1 DEF Gain
    <3>2. QED
      BY <1>3, <3>1 DEF WindowBounded
  <2>1. CASE j \in 1..Len(admitted)
    <3>1. /\ i \in 1..Len(admitted)
          /\ admitted'[i] = admitted[i] /\ admitted'[j] = admitted[j]
          /\ admitted[i] \in Nat /\ admitted[j] \in Nat
      BY SMTT(30), <1>1, <1>3, <2>1
    <3>2. (j - i + 1) * Credit
            <= Full + (admitted[j] - admitted[i] + MaxLag) * Capacity
      BY <2>1, <3>1 DEF WindowBounded
    <3>3. admitted[j] - admitted[i] + MaxLag = (admitted[j] + MaxLag) - admitted[i]
      BY <1>1, <3>1
    <3>4. QED
      BY <3>1, <3>2, <3>3 DEF Gain
  <2>2. CASE j = last
    <3>1. left + (last - i + 1) * Credit <= Full + Gain(admitted'[i], now + MaxLag)
      BY <1>5
    <3>2. admitted'[i] \in Nat
      BY <1>1, <1>3
    <3>3. /\ Gain(admitted'[i], now + MaxLag) + Gain(now + MaxLag, clock + MaxLag)
               = Gain(admitted'[i], clock + MaxLag)
          /\ Gain(now + MaxLag, clock + MaxLag) >= 0
          /\ Gain(now + MaxLag, clock + MaxLag) \in Int
      <4>1. admitted'[i] \in Int /\ now + MaxLag \in Int /\ clock + MaxLag \in Int
        BY SMTT(30), <1>1, <3>2
      <4>2. now + MaxLag <= clock + MaxLag
        BY <1>1
      <4>3. QED
        BY <4>1, <4>2, GainType, GainAdds, GainPositive
    <3>4. (last - i + 1) * Credit \in Int /\ Gain(admitted'[i], now + MaxLag) \in Int
      BY <1>5
    <3> HIDE DEF now, last, left
    <3>5. QED
      BY <1>2, <1>3, <2>2, <3>1, <3>3, <3>4, Amounts
  <2>3. QED
    BY <1>3, <2>1, <2>2
<1>8. QED
  BY <1>6, <1>7

LEMMA WindowStep ==
  ASSUME OneProcess
  PROVE  WindowInv /\ [Next]_vars => WindowInv'
<1> SUFFICES ASSUME WindowInv, [Next]_vars PROVE WindowInv'
  OBVIOUS
<1> USE DEF WindowInv
<1>1. TypeOK'
  BY TypeStep
<1>2. CASE Tick
  <2>1. UNCHANGED <<hash, reading, admitted>> /\ clock' = clock + 1 /\ clock \in Nat
    BY <1>2 DEF Tick, TypeOK
  <2>2. Ordered' /\ WindowBounded'
    BY <2>1 DEF Ordered, WindowBounded
  <2>3. ASSUME NEW i \in 1..Len(admitted), hash = None
        PROVE  Paid(i) <= Gain(admitted[i], clock + 1)
    <3>1. Paid(i) \in Int /\ admitted[i] \in Int /\ clock \in Int /\ clock + 1 \in Int
      BY <2>1, PaidType
    <3>2. Paid(i) <= Gain(admitted[i], clock)
      BY <2>3 DEF Accounted
    <3>3. /\ Gain(admitted[i], clock) + Gain(clock, clock + 1)
               = Gain(admitted[i], clock + 1)
          /\ Gain(clock, clock + 1) >= 0
          /\ Gain(admitted[i], clock) \in Int
          /\ Gain(clock, clock + 1) \in Int
      <4>1. clock <= clock + 1
        BY <3>1
      <4>2. Gain(clock, clock + 1) >= 0
        BY <3>1, <4>1, GainPositive
      <4>3. QED
        BY <3>1, <4>2, GainType, GainAdds
    <3>4. QED
      BY <3>1, <3>2, <3>3
  <2>4. Accounted'
    BY <2>1, <2>3 DEF Accounted, Paid, Gain
  <2>5. QED
    BY <1>1, <2>2, <2>4
<1>3. CASE Expire
  <2>1. Accounted'
    BY <1>3, ExpireAccounted
  <2>2. Ordered' /\ WindowBounded'
    BY <1>3 DEF Expire, Ordered, WindowBounded
  <2>3. QED
    BY <1>1, <2>1, <2>2
<1>4. ASSUME NEW p \in Process, ReadClock(p) PROVE WindowInv'
  <2>1. UNCHANGED <<clock, hash, admitted>>
        /\ reading' = [reading EXCEPT ![p] = clock]
    BY <1>4 DEF ReadClock
  <2>2. Ordered'
    BY <2>1 DEF Ordered, TypeOK
  <2>3. Accounted' /\ WindowBounded'
    BY <2>1 DEF Accounted, Paid, Gain, WindowBounded
  <2>4. QED
    BY <1>1, <2>2, <2>3
<1>5. ASSUME NEW p \in Process, Admit(p) \/ Deny(p) \/ StoreFails(p) PROVE Ordered'
  \* The only process has no reading left: nothing is late.
  <2>1. \A q \in Process : reading'[q] = None
    BY <1>5, ScriptRuns DEF OneProcess, TypeOK
  <2>2. hash' # None => hash'.ts <= hash'.touched
    <3>1. CASE hash' = hash
      BY <3>1 DEF Ordered
    <3>2. ASSUME NEW credits, Store(credits, reading[p])
          PROVE  hash' # None => hash'.ts <= hash'.touched
      BY <1>5, <3>2, ScriptRuns DEF Store, TypeOK
    <3>3. QED
      BY <1>5, <3>1, <3>2, ScriptRuns
  <2>3. QED
    BY <2>1, <2>2 DEF Ordered
<1>6. ASSUME NEW p \in Process, Admit(p) PROVE WindowInv'
  BY <1>1, <1>5, <1>6, AdmitAccounted
<1>7. ASSUME NEW p \in Process, Deny(p) \/ StoreFails(p) PROVE WindowInv'
  <2>1. reading[p] # None /\ reading[p] \in Nat /\ admitted' = admitted /\ clock' = clock
    BY <1>7 DEF Deny, StoreFails, TypeOK
  <2>2. WindowBounded'
    BY <2>1 DEF WindowBounded
  <2>3. Level(reading[p]) \in Nat /\ Level(reading[p]) <= Full
    BY <2>1, LevelFacts
  <2>4. Accounted'
    <3>1. CASE hash' = hash
      BY <2>1, <3>1 DEF Accounted, Paid, Gain
    <3>2. CASE Store(Level(reading[p]), reading[p])
      BY <2>1, <2>3, <3>2, StoreAccounted
    <3>3. CASE /\ Level(reading[p]) >= Credit
               /\ Store(Level(reading[p]) - Credit, reading[p])
      <4>1. /\ Level(reading[p]) - Credit \in Nat
            /\ Level(reading[p]) - Credit <= Level(reading[p])
            /\ Level(reading[p]) - Credit <= Full
        BY <2>3, <3>3, Amounts
      <4>2. QED
        BY <2>1, <3>3, <4>1, StoreAccounted
    <3>4. QED
      BY <1>7, <3>1, <3>2, <3>3, ScriptRuns
  <2>5. QED
    BY <1>1, <1>5, <1>7, <2>2, <2>4
<1>8. CASE UNCHANGED vars
  BY <1>1, <1>8 DEF vars, Ordered, Accounted, Paid, Gain, WindowBounded
<1>9. QED
  BY <1>2, <1>3, <1>4, <1>6, <1>7, <1>8 DEF Next, Consume

\* With one API process the limiter is a token bucket, for every capacity and
\* period: no stretch of time admits more than a full bucket and its refill,
\* whatever expires, fails or lags by less than a period.
THEOREM WindowIsBounded ==
  ASSUME OneProcess
  PROVE  Spec => []WindowBounded
<1>1. Init => WindowInv
  BY DEF Init, WindowInv, TypeOK, Ordered, Accounted, WindowBounded
<1>2. WindowInv /\ [Next]_vars => WindowInv'
  BY WindowStep
<1>3. WindowInv => WindowBounded
  BY DEF WindowInv
<1>4. QED
  BY <1>1, <1>2, <1>3, PTL DEF Spec
=============================================================================
