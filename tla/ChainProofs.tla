----------------------------- MODULE ChainProofs -----------------------------
(***************************************************************************)
(* How many sends are left: the bounds on provider calls and on duplicate  *)
(* deliveries under any faults and with any number of workers.             *)
(*                                                                         *)
(* The row's retry_count is no measure, since a lost update rewinds it.    *)
(* The measure is Celery's: a ticket that has been retried r times stands  *)
(* for the sends r + 1 .. MaxAttempts and for one delivery, a task for     *)
(* those of its ticket it has not made.  Without a crash or a redelivery   *)
(* no step adds to what was made and what is left together, and either     *)
(* adds at most one ticket.                                                *)
(***************************************************************************)
EXTENDS DispatchProofs, FiniteSetTheorems

\* A task executes t: Restore leaves t alone.
Held(t) == \E w \in Worker : pc[w] # "idle" /\ job[w] = t

\* The tickets a worker may still receive.
Loose == ready \cup {t \in unacked : ~Held(t)}

BeforeSend == {"load", "begin", "send"}

\* Tasks that may still call the provider, or publish the next ticket.
Sending == {w \in Worker : pc[w] \in BeforeSend \cup {"retry"} \cup Outcome}

\* Those of them whose chain may still deliver.
Delivering == {w \in Sending : pc[w] # "ok"}

\* The sends made by the chain of w's ticket, w's own included.
Made(w) == IF pc[w] \in BeforeSend THEN job[w].retries ELSE job[w].retries + 1

LeftInQueue(n) ==
  {u \in Ticket \X (1 .. MaxAttempts) :
     u[1] \in Loose /\ u[1].id = n /\ u[2] > u[1].retries}

LeftInTasks(n) ==
  {u \in Worker \X (1 .. MaxAttempts) :
     u[1] \in Sending /\ Id(u[1]) = n /\ u[2] > Made(u[1])}

SentAndLeft(n) ==
  attempts[n] + Cardinality(LeftInQueue(n)) + Cardinality(LeftInTasks(n))

QueuedChains(n) == {t \in Loose : t.id = n}

RunningChains(n) == {w \in Delivering : Id(w) = n}

DeliveredAndLeft(n) ==
  deliveries[n] + Cardinality(QueuedChains(n)) + Cardinality(RunningChains(n))

\* Celery never hands out a ticket beyond max_retries.
RetriesInBudget ==
  /\ \A t \in ready \cup unacked : t.retries < MaxAttempts
  /\ \A w \in Worker : pc[w] # "idle" => job[w].retries < MaxAttempts

\* What n has had and may still get is paid for by the faults.
Covered(n) ==
  /\ IsFiniteSet(LeftInQueue(n)) /\ IsFiniteSet(LeftInTasks(n))
  /\ SentAndLeft(n) <= MaxAttempts * (1 + faults)
  /\ IsFiniteSet(QueuedChains(n)) /\ IsFiniteSet(RunningChains(n))
  /\ DeliveredAndLeft(n) <= 1 + faults

ChainInv ==
  /\ SafeInv
  /\ RetriesInBudget
  /\ \A n \in Notification : Covered(n)

-----------------------------------------------------------------------------
(* Counting *)

\* A part of S is given up and a part of B may come instead.
LEMMA Traded ==
  ASSUME NEW S, IsFiniteSet(S), NEW A \in SUBSET S,
         NEW B, IsFiniteSet(B),
         NEW T, T \subseteq (S \ A) \cup B
  PROVE  /\ IsFiniteSet(T)
         /\ Cardinality(T) \in Nat
         /\ Cardinality(T) <= Cardinality(S) - Cardinality(A) + Cardinality(B)
<1> DEFINE R == S \ A
<1>1. IsFiniteSet(R) /\ Cardinality(R) = Cardinality(S) - Cardinality(A)
  <2>1. S \cap A = A
    OBVIOUS
  <2>2. IsFiniteSet(R) /\ Cardinality(R) = Cardinality(S) - Cardinality(S \cap A)
    BY FS_Difference
  <2>3. QED
    BY <2>1, <2>2
<1> HIDE DEF R
<1>2. /\ IsFiniteSet(R \cup B)
      /\ Cardinality(R \cup B) = Cardinality(R) + Cardinality(B) - Cardinality(R \cap B)
  BY <1>1, FS_Union
<1>3. T \in SUBSET (R \cup B)
  BY DEF R
<1>4. IsFiniteSet(T) /\ Cardinality(T) <= Cardinality(R \cup B)
  BY <1>2, <1>3, FS_Subset
<1>5. IsFiniteSet(A) /\ IsFiniteSet(R \cap B)
  BY <1>1, FS_Subset, FS_Intersection
<1>6. /\ Cardinality(S) \in Nat /\ Cardinality(A) \in Nat /\ Cardinality(B) \in Nat
      /\ Cardinality(T) \in Nat /\ Cardinality(R) \in Nat
      /\ Cardinality(R \cup B) \in Nat /\ Cardinality(R \cap B) \in Nat
  BY <1>1, <1>2, <1>4, <1>5, FS_CardinalityType
<1>7. QED
  BY <1>1, <1>2, <1>4, <1>6

\* The sends r + 1 .. MaxAttempts of the carrier c.
SendsAfter(c, r) == {c} \X ((r + 1) .. MaxAttempts)

LEMMA SendsAfterSize ==
  ASSUME NEW c, NEW r \in Nat, r <= MaxAttempts
  PROVE  /\ IsFiniteSet(SendsAfter(c, r))
         /\ Cardinality(SendsAfter(c, r)) = MaxAttempts - r
<1> DEFINE I == (r + 1) .. MaxAttempts
<1>1. MaxAttempts \in Nat
  BY PolicyAssumption
<1>2. IsFiniteSet(I) /\ Cardinality(I) = MaxAttempts - r
  <2>1. r + 1 \in Int /\ MaxAttempts \in Int
    BY <1>1
  <2>2. /\ IsFiniteSet(I)
        /\ Cardinality(I) = IF r + 1 > MaxAttempts THEN 0 ELSE MaxAttempts - (r + 1) + 1
    BY <2>1, FS_Interval
  <2>3. QED
    BY <1>1, <2>2
<1> HIDE DEF I
<1>3. IsFiniteSet({c}) /\ Cardinality({c}) = 1
  BY FS_Singleton
<1>4. IsFiniteSet({c} \X I) /\ Cardinality({c} \X I) = 1 * Cardinality(I)
  BY <1>2, <1>3, FS_Product
<1>5. 1 * Cardinality(I) = MaxAttempts - r
  BY <1>1, <1>2
<1>6. QED
  BY <1>2, <1>4, <1>5 DEF SendsAfter, I

LEMMA OneMoreChain ==
  ASSUME NEW m \in Nat, NEW f \in Nat
  PROVE  m * (1 + f) \in Nat /\ m * (1 + (f + 1)) = m * (1 + f) + m
<1>1. m * (1 + (f + 1)) = m * (1 + f) + m
  OBVIOUS
<1>2. m * (1 + f) \in Nat
  OBVIOUS
<1>3. QED
  BY <1>1, <1>2

\* One account over a step: Q and T are what is left in the queue and in tasks,
\* a what was made, and the step gives up QA and TA for QB and TB.
LEMMA Account ==
  ASSUME NEW Q, IsFiniteSet(Q), NEW QA \in SUBSET Q, NEW QB, IsFiniteSet(QB),
         NEW T, IsFiniteSet(T), NEW TA \in SUBSET T, NEW TB, IsFiniteSet(TB),
         NEW Q1, Q1 \subseteq (Q \ QA) \cup QB,
         NEW T1, T1 \subseteq (T \ TA) \cup TB,
         NEW a \in Nat, NEW a1 \in Nat, NEW cap \in Nat, NEW more \in Nat,
         a + Cardinality(Q) + Cardinality(T) <= cap,
         a1 + Cardinality(QB) + Cardinality(TB)
           <= a + Cardinality(QA) + Cardinality(TA) + more
  PROVE  /\ IsFiniteSet(Q1) /\ IsFiniteSet(T1)
         /\ a1 + Cardinality(Q1) + Cardinality(T1) <= cap + more
<1>1. /\ IsFiniteSet(Q1) /\ Cardinality(Q1) \in Nat
      /\ Cardinality(Q1) <= Cardinality(Q) - Cardinality(QA) + Cardinality(QB)
  BY Traded
<1>2. /\ IsFiniteSet(T1) /\ Cardinality(T1) \in Nat
      /\ Cardinality(T1) <= Cardinality(T) - Cardinality(TA) + Cardinality(TB)
  BY Traded
<1>3. IsFiniteSet(QA) /\ IsFiniteSet(TA)
  BY FS_Subset
<1>4. /\ Cardinality(Q) \in Nat /\ Cardinality(QA) \in Nat /\ Cardinality(QB) \in Nat
      /\ Cardinality(T) \in Nat /\ Cardinality(TA) \in Nat /\ Cardinality(TB) \in Nat
  BY <1>3, FS_CardinalityType
<1>5. QED
  BY <1>1, <1>2, <1>4

\* The faults that happen in a step pay for one chain.
Paid == IF faults' = faults THEN 0 ELSE 1

\* The account of the sends of n over a step.
LEMMA SendAccount ==
  ASSUME ChainInv, SafeInv', NEW n \in Notification,
         faults' \in {faults, faults + 1},
         NEW QA \in SUBSET LeftInQueue(n), NEW QB, IsFiniteSet(QB),
         NEW TA \in SUBSET LeftInTasks(n), NEW TB, IsFiniteSet(TB),
         LeftInQueue(n)' \subseteq (LeftInQueue(n) \ QA) \cup QB,
         LeftInTasks(n)' \subseteq (LeftInTasks(n) \ TA) \cup TB,
         attempts'[n] + Cardinality(QB) + Cardinality(TB)
           <= attempts[n] + Cardinality(QA) + Cardinality(TA) + MaxAttempts * Paid
  PROVE  /\ IsFiniteSet(LeftInQueue(n)') /\ IsFiniteSet(LeftInTasks(n)')
         /\ SentAndLeft(n)' <= MaxAttempts * (1 + faults')
<1> DEFINE cap == MaxAttempts * (1 + faults)
           more == MaxAttempts * Paid
<1>1. /\ attempts[n] \in Nat /\ attempts'[n] \in Nat
      /\ faults \in Nat /\ MaxAttempts \in Nat
  BY PolicyAssumption DEF ChainInv, SafeInv, TypeOK
<1>2. cap \in Nat /\ MaxAttempts * (1 + (faults + 1)) = cap + MaxAttempts
  BY <1>1, OneMoreChain
<1>3. more \in Nat /\ MaxAttempts * (1 + faults') = cap + more
  <2>1. CASE faults' = faults
    <3>1. more = 0
      BY <1>1, <2>1 DEF Paid
    <3>2. QED
      BY <1>2, <2>1, <3>1
  <2>2. CASE faults' = faults + 1
    <3>1. more = MaxAttempts
      BY <1>1, <2>2 DEF Paid
    <3>2. QED
      BY <1>1, <1>2, <2>2, <3>1
  <2>3. QED
    BY <2>1, <2>2
<1>4. /\ IsFiniteSet(LeftInQueue(n)) /\ IsFiniteSet(LeftInTasks(n))
      /\ attempts[n] + Cardinality(LeftInQueue(n)) + Cardinality(LeftInTasks(n)) <= cap
  BY DEF ChainInv, Covered, SentAndLeft
<1>5. attempts'[n] + Cardinality(QB) + Cardinality(TB)
        <= attempts[n] + Cardinality(QA) + Cardinality(TA) + more
  OBVIOUS
<1> HIDE DEF cap, more
<1>6. /\ IsFiniteSet(LeftInQueue(n)') /\ IsFiniteSet(LeftInTasks(n)')
      /\ attempts'[n] + Cardinality(LeftInQueue(n)') + Cardinality(LeftInTasks(n)')
           <= cap + more
  BY <1>1, <1>2, <1>3, <1>4, <1>5, Account
<1>7. SentAndLeft(n)' <= cap + more
  BY <1>6 DEF SentAndLeft
<1>8. QED
  BY <1>3, <1>6, <1>7

\* The account of the deliveries of n over a step.
LEMMA DeliveryAccount ==
  ASSUME ChainInv, SafeInv', NEW n \in Notification,
         faults' \in {faults, faults + 1},
         NEW QA \in SUBSET QueuedChains(n), NEW QB, IsFiniteSet(QB),
         NEW TA \in SUBSET RunningChains(n), NEW TB, IsFiniteSet(TB),
         QueuedChains(n)' \subseteq (QueuedChains(n) \ QA) \cup QB,
         RunningChains(n)' \subseteq (RunningChains(n) \ TA) \cup TB,
         deliveries'[n] + Cardinality(QB) + Cardinality(TB)
           <= deliveries[n] + Cardinality(QA) + Cardinality(TA) + Paid
  PROVE  /\ IsFiniteSet(QueuedChains(n)') /\ IsFiniteSet(RunningChains(n)')
         /\ DeliveredAndLeft(n)' <= 1 + faults'
<1>1. deliveries[n] \in Nat /\ deliveries'[n] \in Nat /\ faults \in Nat
  BY DEF ChainInv, SafeInv, TypeOK
<1>2. 1 + faults \in Nat /\ Paid \in Nat /\ 1 + faults' = (1 + faults) + Paid
  <2>1. CASE faults' = faults
    BY <1>1, <2>1 DEF Paid
  <2>2. CASE faults' = faults + 1
    <3>1. Paid = 1
      BY <1>1, <2>2 DEF Paid
    <3>2. QED
      BY <1>1, <2>2, <3>1
  <2>3. QED
    BY <2>1, <2>2
<1>3. /\ IsFiniteSet(QueuedChains(n)) /\ IsFiniteSet(RunningChains(n))
      /\ deliveries[n] + Cardinality(QueuedChains(n)) + Cardinality(RunningChains(n))
           <= 1 + faults
  BY DEF ChainInv, Covered, DeliveredAndLeft
<1> DEFINE cap == 1 + faults
           more == Paid
           d == deliveries[n]
           d1 == deliveries'[n]
<1>a. /\ cap \in Nat /\ more \in Nat /\ d \in Nat /\ d1 \in Nat
      /\ d + Cardinality(QueuedChains(n)) + Cardinality(RunningChains(n)) <= cap
      /\ d1 + Cardinality(QB) + Cardinality(TB)
           <= d + Cardinality(QA) + Cardinality(TA) + more
  BY <1>1, <1>2, <1>3
<1>b. IsFiniteSet(QueuedChains(n)) /\ IsFiniteSet(RunningChains(n))
  BY <1>3
<1> HIDE DEF cap, more, d, d1
<1>4. /\ IsFiniteSet(QueuedChains(n)') /\ IsFiniteSet(RunningChains(n)')
      /\ d1 + Cardinality(QueuedChains(n)') + Cardinality(RunningChains(n)')
           <= cap + more
  BY <1>a, <1>b, Account
<1>5. QED
  BY <1>2, <1>4 DEF DeliveredAndLeft, cap, more, d1

LEMMA EmptyIsNothing == IsFiniteSet({}) /\ Cardinality({}) = 0
  BY FS_EmptySet

\* What the tickets stand for follows from the tickets.
LEMMA FewerTickets ==
  ASSUME NEW n \in Notification, Loose' \subseteq Loose
  PROVE  /\ LeftInQueue(n)' \subseteq LeftInQueue(n)
         /\ QueuedChains(n)' \subseteq QueuedChains(n)
  BY DEF LeftInQueue, QueuedChains

\* Where nothing is given up and nothing is new the accounts stay covered.
LEMMA NothingNew ==
  ASSUME ChainInv, SafeInv', NEW n \in Notification,
         attempts'[n] = attempts[n], deliveries'[n] = deliveries[n],
         faults' \in {faults, faults + 1},
         LeftInQueue(n)' \subseteq LeftInQueue(n),
         QueuedChains(n)' \subseteq QueuedChains(n),
         LeftInTasks(n)' \subseteq LeftInTasks(n),
         RunningChains(n)' \subseteq RunningChains(n)
  PROVE  Covered(n)'
<1>1. attempts[n] \in Nat /\ deliveries[n] \in Nat /\ MaxAttempts \in Nat
  BY PolicyAssumption DEF ChainInv, SafeInv, TypeOK
<1>2. /\ LeftInQueue(n)' \subseteq (LeftInQueue(n) \ {}) \cup {}
      /\ LeftInTasks(n)' \subseteq (LeftInTasks(n) \ {}) \cup {}
      /\ QueuedChains(n)' \subseteq (QueuedChains(n) \ {}) \cup {}
      /\ RunningChains(n)' \subseteq (RunningChains(n) \ {}) \cup {}
  OBVIOUS
<1>a. /\ {} \in SUBSET LeftInQueue(n) /\ {} \in SUBSET LeftInTasks(n)
      /\ {} \in SUBSET QueuedChains(n) /\ {} \in SUBSET RunningChains(n)
  OBVIOUS
<1>3. Paid \in Nat /\ MaxAttempts * Paid \in Nat
  <2>1. Paid \in {0, 1}
    BY DEF Paid
  <2>2. MaxAttempts * 0 = 0 /\ MaxAttempts * 1 = MaxAttempts
    BY <1>1
  <2>3. QED
    BY <1>1, <2>1, <2>2
<1> DEFINE more == MaxAttempts * Paid
<1> HIDE DEF more
<1>4. attempts'[n] + Cardinality({}) + Cardinality({})
        <= attempts[n] + Cardinality({}) + Cardinality({}) + more
  BY <1>1, <1>3, EmptyIsNothing DEF more
<1>5. deliveries'[n] + Cardinality({}) + Cardinality({})
        <= deliveries[n] + Cardinality({}) + Cardinality({}) + Paid
  BY <1>1, <1>3, EmptyIsNothing
<1>6. /\ IsFiniteSet(LeftInQueue(n)') /\ IsFiniteSet(LeftInTasks(n)')
      /\ SentAndLeft(n)' <= MaxAttempts * (1 + faults')
  BY <1>a, <1>2, <1>4, EmptyIsNothing, SendAccount DEF more
<1>7. /\ IsFiniteSet(QueuedChains(n)') /\ IsFiniteSet(RunningChains(n)')
      /\ DeliveredAndLeft(n)' <= 1 + faults'
  BY <1>a, <1>2, <1>5, EmptyIsNothing, DeliveryAccount
<1>8. QED
  BY <1>6, <1>7 DEF Covered

-----------------------------------------------------------------------------
(* The steps *)

\* At most one ticket was made for n, and nobody has worked on it.
Fresh(n) ==
  /\ attempts[n] = 0 /\ deliveries[n] = 0 /\ faults \in Nat
  /\ \E t : t.retries = 0 /\ QueuedChains(n) \subseteq {t}
  /\ \A w \in Worker : pc[w] # "idle" => Id(w) # n

LEMMA FreshIsCovered ==
  ASSUME NEW n \in Notification
  PROVE  Fresh(n) => Covered(n)
<1> SUFFICES ASSUME Fresh(n) PROVE Covered(n)
  OBVIOUS
<1>0. /\ MaxAttempts \in Nat /\ faults \in Nat
      /\ attempts[n] = 0 /\ deliveries[n] = 0
  BY PolicyAssumption DEF Fresh
<1>1. PICK t : t.retries = 0 /\ QueuedChains(n) \subseteq {t}
  BY DEF Fresh
<1>2. LeftInQueue(n) \subseteq SendsAfter(t, 0)
  <2> SUFFICES ASSUME NEW u \in LeftInQueue(n) PROVE u \in SendsAfter(t, 0)
    OBVIOUS
  <2>1. /\ u \in Ticket \X (1 .. MaxAttempts)
        /\ u[1] \in Loose /\ u[1].id = n
    BY DEF LeftInQueue
  <2>2. u[1] = t
    BY <1>1, <2>1 DEF QueuedChains
  <2>3. u = <<t, u[2]>> /\ u[2] \in (0 + 1) .. MaxAttempts
    BY <2>1, <2>2
  <2>4. QED
    BY <2>3 DEF SendsAfter
<1>3. LeftInTasks(n) = {} /\ RunningChains(n) = {}
  <2>1. \A w \in Sending : w \in Worker /\ Id(w) # n
    BY DEF Fresh, Sending, BeforeSend, Outcome
  <2>2. \A u \in Worker \X (1 .. MaxAttempts) : u[1] \in Worker
    OBVIOUS
  <2>3. LeftInTasks(n) = {}
    BY <2>1, <2>2 DEF LeftInTasks
  <2>4. RunningChains(n) = {}
    BY <2>1 DEF RunningChains, Delivering
  <2>5. QED
    BY <2>3, <2>4
<1>4. /\ IsFiniteSet(SendsAfter(t, 0))
      /\ Cardinality(SendsAfter(t, 0)) = MaxAttempts
  BY <1>0, SendsAfterSize
<1>5. /\ IsFiniteSet(LeftInQueue(n))
      /\ Cardinality(LeftInQueue(n)) \in Nat
      /\ Cardinality(LeftInQueue(n)) <= MaxAttempts
  BY <1>2, <1>4, FS_Subset, FS_CardinalityType
<1>6. /\ IsFiniteSet(QueuedChains(n))
      /\ Cardinality(QueuedChains(n)) \in Nat
      /\ Cardinality(QueuedChains(n)) <= 1
  <2>1. IsFiniteSet({t}) /\ Cardinality({t}) = 1
    BY FS_Singleton
  <2>2. IsFiniteSet(QueuedChains(n)) /\ Cardinality(QueuedChains(n)) <= 1
    BY <1>1, <2>1, FS_Subset
  <2>3. QED
    BY <2>2, FS_CardinalityType
<1>7. MaxAttempts <= MaxAttempts * (1 + faults) /\ MaxAttempts * (1 + faults) \in Nat
  <2>1. MaxAttempts * (1 + faults) = MaxAttempts + MaxAttempts * faults
    BY <1>0
  <2>2. MaxAttempts * faults \in Nat
    BY <1>0
  <2>3. QED
    BY <1>0, <2>1, <2>2
<1> DEFINE cap == MaxAttempts * (1 + faults)
<1> HIDE DEF cap
<1>8. SentAndLeft(n) <= cap
  BY <1>0, <1>3, <1>5, <1>7, EmptyIsNothing DEF SentAndLeft, cap
<1>9. DeliveredAndLeft(n) <= 1 + faults
  BY <1>0, <1>3, <1>6, EmptyIsNothing DEF DeliveredAndLeft
<1>10. QED
  BY <1>3, <1>5, <1>6, <1>8, <1>9, EmptyIsNothing DEF Covered, cap

LEMMA ChainInit == Init => ChainInv
<1> SUFFICES ASSUME Init PROVE ChainInv
  OBVIOUS
<1>1. SafeInv
  BY SafeInit
<1>2. RetriesInBudget
  BY PolicyAssumption DEF Init, RetriesInBudget
<1>3. ASSUME NEW n \in Notification PROVE Covered(n)
  <2> DEFINE t == [id |-> n, seq |-> 1, retries |-> 0, countdown |-> 0]
  <2>1. t.retries = 0 /\ QueuedChains(n) \subseteq {t}
    BY DEF QueuedChains, Loose, Init
  <2>2. Fresh(n)
    BY <2>1 DEF Fresh, Init
  <2>3. QED
    BY <2>2, FreshIsCovered
<1>4. QED
  BY <1>1, <1>2, <1>3 DEF ChainInv

\* A task that moves on with its ticket has no more to do than before.
LEMMA TaskMovesOn ==
  ASSUME ChainInv,
         NEW w \in Worker, pc[w] # "idle", NEW label \in PC \ {"idle"},
         pc' = [pc EXCEPT ![w] = label],
         UNCHANGED <<ready, unacked, job>>,
         label \in BeforeSend \cup {"retry"} \cup Outcome =>
           /\ w \in Delivering
           /\ label \in BeforeSend => pc[w] \in BeforeSend,
         NEW n \in Notification
  PROVE  /\ Loose' = Loose
         /\ LeftInTasks(n)' \subseteq LeftInTasks(n)
         /\ RunningChains(n)' \subseteq RunningChains(n)
<1>1. pc \in [Worker -> PC]
  BY DEF ChainInv, SafeInv, TypeOK
<1>2. \A v \in Worker : pc'[v] # "idle" <=> pc[v] # "idle"
  BY <1>1
<1>3. Loose' = Loose
  BY <1>2 DEF Loose, Held
<1>4. Sending' \subseteq Sending /\ Delivering' \subseteq Delivering
  BY <1>1 DEF Delivering, Sending
<1>5. \A v \in Sending' : Id(v)' = Id(v)
  BY DEF Id
<1>6. \A v \in Sending' : Made(v)' = Made(v) \/ Made(v)' = Made(v) + 1
  BY <1>1 DEF Made, Sending
<1>7. \A v \in Sending : Made(v) \in Nat
  BY TicketFields
  DEF Made, Sending, BeforeSend, ChainInv, SafeInv, BusyHasTicket, Outcome
<1>8. LeftInTasks(n)' \subseteq LeftInTasks(n)
  BY <1>4, <1>5, <1>6, <1>7 DEF LeftInTasks
<1>9. RunningChains(n)' \subseteq RunningChains(n)
  BY <1>4, <1>5 DEF RunningChains, Delivering
<1>10. QED
  BY <1>3, <1>8, <1>9

\* A task whose worker is released has nothing left to do.
LEMMA ReleasedTask ==
  ASSUME ChainInv, NEW w \in Worker, Release(w), NEW n \in Notification
  PROVE  /\ \A t : t # job[w] /\ Held(t) => Held(t)'
         /\ LeftInTasks(n)' \subseteq LeftInTasks(n)
         /\ RunningChains(n)' \subseteq RunningChains(n)
<1>1. pc \in [Worker -> PC] /\ job \in [Worker -> Ticket \cup {None}]
  BY DEF ChainInv, SafeInv, TypeOK
<1>2. /\ \A v \in Worker \ {w} : pc'[v] = pc[v] /\ job'[v] = job[v]
      /\ pc'[w] = "idle"
  BY <1>1 DEF Release
<1>3. Sending' \subseteq Sending \ {w} /\ Delivering' \subseteq Delivering \ {w}
  BY <1>2 DEF Delivering, Sending, BeforeSend, Outcome
<1>4. \A v \in Sending' : Id(v)' = Id(v) /\ Made(v)' = Made(v)
  BY <1>2, <1>3 DEF Id, Made, Sending
<1>5. LeftInTasks(n)' \subseteq LeftInTasks(n)
  BY <1>3, <1>4 DEF LeftInTasks
<1>6. RunningChains(n)' \subseteq RunningChains(n)
  BY <1>3, <1>4 DEF RunningChains, Delivering
<1>7. \A t : t # job[w] /\ Held(t) => Held(t)'
  BY <1>2 DEF Held
<1>8. QED
  BY <1>5, <1>6, <1>7

\* A task that acknowledges its ticket lets none loose.
LEMMA TaskEnds ==
  ASSUME ChainInv, NEW w \in Worker, Acknowledge(job[w]), Release(w)
  PROVE  Loose' \subseteq Loose
<1>1. ready' = ready /\ unacked' = unacked \ {job[w]}
  BY DEF Acknowledge
<1>2. \A v \in Worker \ {w} : pc'[v] = pc[v] /\ job'[v] = job[v]
  BY DEF Release, ChainInv, SafeInv, TypeOK
<1>3. QED
  BY <1>1, <1>2 DEF Loose, Held

LEMMA BudgetStep ==
  ASSUME ChainInv, [Next]_vars
  PROVE  RetriesInBudget'
<1> USE DEF ChainInv, SafeInv, TypeOK, BrokerTypeOK, BusyHasTicket,
            RetriesInBudget, brokerVars, workerVars
<1>1. ASSUME NEW w \in Worker, NEW t \in ready, Receive(w, t) PROVE RetriesInBudget'
  BY <1>1 DEF Receive, Deliver, Goto
<1>2. ASSUME NEW w \in Worker, pc[w] # "idle", NEW label, pc' = [pc EXCEPT ![w] = label],
             UNCHANGED <<ready, unacked, job>>
      PROVE  RetriesInBudget'
  BY <1>2
<1>3. ASSUME NEW w \in Worker, WorkerStep(w), ~Retry(w), ~Ack(w) PROVE RetriesInBudget'
  <2>1. \E label : pc' = [pc EXCEPT ![w] = label]
    BY <1>3
    DEF WorkerStep, LoadMissing, LoadSettled, LoadOpen, BeginProcessing, Send,
        CommitSent, CommitRetry, CommitFailed, RetryRefused, PublishDeadLetter, Goto
  <2>2. pc[w] # "idle" /\ UNCHANGED <<ready, unacked, job>>
    BY <1>3
    DEF WorkerStep, LoadMissing, LoadSettled, LoadOpen, BeginProcessing, Send,
        CommitSent, CommitRetry, CommitFailed, RetryRefused, PublishDeadLetter
  <2>3. QED
    BY <1>2, <2>1, <2>2
<1>4. ASSUME NEW w \in Worker, Retry(w) PROVE RetriesInBudget'
  <2>1. job[w].retries \in Nat /\ job[w].retries + 1 < MaxAttempts
    BY <1>4, TicketFields, PolicyAssumption DEF Retry, NextRetries, MaxRetries
  <2>2. \A t \in ready' : t \in ready \/ t.retries = job[w].retries + 1
    BY <1>4 DEF Retry, Publish, NextRetries
  <2>3. QED
    BY <1>4, <2>1, <2>2 DEF Retry, Publish, Goto
<1>5. ASSUME NEW w \in Worker, Release(w), ready' = ready, unacked' \subseteq unacked
      PROVE  RetriesInBudget'
  BY <1>5 DEF Release
<1>6. ASSUME NEW w \in Worker, Ack(w) \/ Crash(w) \/ TaskFails(w) PROVE RetriesInBudget'
  BY <1>5, <1>6 DEF Ack, Crash, TaskFails, Acknowledge
<1>7. ASSUME NEW w \in Worker, RetryPublishFails(w) \/ DeadLetterPublishFails(w)
      PROVE  RetriesInBudget'
  BY <1>2, <1>7 DEF RetryPublishFails, DeadLetterPublishFails, Goto
<1>8. ASSUME NEW t \in unacked, Restore(t) \/ Redeliver(t) PROVE RetriesInBudget'
  BY <1>8 DEF Restore, Redeliver, Requeue
<1>9. ASSUME NEW w \in Worker, NEW n \in dlq, RecordDeadLetter(w, n)
      PROVE  RetriesInBudget'
  BY <1>9 DEF RecordDeadLetter
<1>10. ASSUME UNCHANGED vars PROVE RetriesInBudget'
  BY <1>10 DEF vars
<1>11. QED
  BY <1>1, <1>3, <1>4, <1>6, <1>7, <1>8, <1>9, <1>10
  DEF Next, WorkerStep, FaultStep, Idle

\* A received ticket hands its sends and its delivery to the task.
LEMMA ReceiveCovered ==
  ASSUME ChainInv, SafeInv', NEW w \in Worker, NEW t \in ready, Receive(w, t),
         NEW n \in Notification
  PROVE  Covered(n)'
<1>1. /\ pc \in [Worker -> PC] /\ job \in [Worker -> Ticket \cup {None}]
      /\ t \in Ticket /\ t.retries \in Nat /\ t.retries < MaxAttempts
      /\ MaxAttempts \in Nat /\ t.retries <= MaxAttempts
  BY TicketFields, PolicyAssumption
  DEF ChainInv, SafeInv, TypeOK, BrokerTypeOK, RetriesInBudget
<1>2. /\ pc[w] = "idle" /\ pc' = [pc EXCEPT ![w] = "load"]
      /\ job' = [job EXCEPT ![w] = t]
      /\ ready' = ready \ {t} /\ unacked' = unacked \cup {t}
      /\ UNCHANGED <<attempts, deliveries, faults>>
  BY DEF Receive, Deliver, Goto, historyVars
<1>3. Held(t)'
  BY <1>1, <1>2 DEF Held
<1>4. Loose' \subseteq Loose \ {t}
  <2>1. \A u \in unacked : Held(u) => Held(u)'
    BY <1>1, <1>2 DEF Held
  <2>2. QED
    BY <1>2, <1>3, <2>1 DEF Loose
<1>5. /\ Sending' \subseteq Sending \cup {w} /\ w \notin Sending
      /\ Delivering' \subseteq Delivering \cup {w}
      /\ \A v \in Sending : v # w /\ Id(v)' = Id(v) /\ Made(v)' = Made(v)
      /\ Id(w)' = t.id /\ Made(w)' = t.retries
  BY <1>1, <1>2 DEF Delivering, Sending, BeforeSend, Id, Made, Outcome
<1>6. CASE t.id # n
  <2>1. LeftInTasks(n)' \subseteq LeftInTasks(n)
    BY <1>5, <1>6 DEF LeftInTasks
  <2>2. RunningChains(n)' \subseteq RunningChains(n)
    BY <1>5, <1>6 DEF RunningChains, Delivering
  <2>3. QED
    BY <1>2, <1>4, <2>1, <2>2, FewerTickets, NothingNew
<1>7. CASE t.id = n
  <2> DEFINE QA == SendsAfter(t, t.retries)
             TB == SendsAfter(w, t.retries)
  <2>1. QA \in SUBSET LeftInQueue(n)
    BY <1>1, <1>7 DEF SendsAfter, LeftInQueue, Loose
  <2>2. LeftInQueue(n)' \subseteq (LeftInQueue(n) \ QA) \cup {}
    BY <1>4 DEF SendsAfter, LeftInQueue
  <2>3. LeftInTasks(n)' \subseteq (LeftInTasks(n) \ {}) \cup TB
    <3>1. SUFFICES ASSUME NEW u \in LeftInTasks(n)', u \notin LeftInTasks(n)
                   PROVE  u \in TB
      OBVIOUS
    <3>2. /\ u \in Worker \X (1 .. MaxAttempts) /\ u[1] \in Sending'
          /\ Id(u[1])' = n /\ u[2] > Made(u[1])'
      BY DEF LeftInTasks
    <3>3. u[1] = w
      BY <1>5, <3>1, <3>2 DEF LeftInTasks
    <3>4. u = <<w, u[2]>> /\ u[2] \in (t.retries + 1) .. MaxAttempts
      BY <1>1, <1>5, <3>2, <3>3
    <3>5. QED
      BY <3>4 DEF SendsAfter
  <2>4. /\ IsFiniteSet(TB) /\ Cardinality(TB) = MaxAttempts - t.retries
        /\ Cardinality(QA) = MaxAttempts - t.retries
    BY <1>1, SendsAfterSize
  <2>5. /\ attempts[n] \in Nat /\ deliveries[n] \in Nat
        /\ faults' \in {faults, faults + 1}
        /\ Paid = 0 /\ MaxAttempts * Paid = 0
    BY <1>1, <1>2 DEF Paid, ChainInv, SafeInv, TypeOK
  <2> HIDE DEF QA, TB
  <2>6. attempts'[n] + Cardinality({}) + Cardinality(TB)
          <= attempts[n] + Cardinality(QA) + Cardinality({}) + MaxAttempts * Paid
    BY <1>1, <1>2, <2>4, <2>5, EmptyIsNothing
  <2>7. /\ IsFiniteSet(LeftInQueue(n)') /\ IsFiniteSet(LeftInTasks(n)')
        /\ SentAndLeft(n)' <= MaxAttempts * (1 + faults')
    <3>1. {} \in SUBSET LeftInTasks(n)
      OBVIOUS
    <3>2. QED
      BY <2>1, <2>2, <2>3, <2>4, <2>5, <2>6, <3>1, EmptyIsNothing, SendAccount
  <2>8. /\ IsFiniteSet(QueuedChains(n)') /\ IsFiniteSet(RunningChains(n)')
        /\ DeliveredAndLeft(n)' <= 1 + faults'
    <3>1. {t} \in SUBSET QueuedChains(n) /\ {} \in SUBSET RunningChains(n)
      BY <1>7 DEF QueuedChains, Loose
    <3>2. /\ QueuedChains(n)' \subseteq (QueuedChains(n) \ {t}) \cup {}
          /\ RunningChains(n)' \subseteq (RunningChains(n) \ {}) \cup {w}
      <4>1. QueuedChains(n)' \subseteq QueuedChains(n) \ {t}
        BY <1>4 DEF QueuedChains
      <4>2. RunningChains(n)' \subseteq RunningChains(n) \cup {w}
        BY <1>5 DEF RunningChains, Delivering
      <4>3. QED
        BY <4>1, <4>2
    <3>3. IsFiniteSet({w}) /\ Cardinality({w}) = 1 /\ Cardinality({t}) = 1
      BY FS_Singleton
    <3>4. deliveries'[n] + Cardinality({}) + Cardinality({w})
            <= deliveries[n] + Cardinality({t}) + Cardinality({}) + Paid
      BY <1>2, <2>5, <3>3, EmptyIsNothing
    <3>5. QED
      BY <2>5, <3>1, <3>2, <3>3, <3>4, EmptyIsNothing, DeliveryAccount
  <2>9. QED
    BY <2>7, <2>8 DEF Covered
<1>8. QED
  BY <1>6, <1>7

\* A provider call turns a send that was left into one that was made, and a
\* success is the last thing a chain does.
LEMMA SendCovered ==
  ASSUME ChainInv, SafeInv', NEW w \in Worker, Send(w), NEW n \in Notification
  PROVE  Covered(n)'
<1> DEFINE r == job[w].retries
<1>1. /\ pc \in [Worker -> PC]
      /\ job[w] \in Ticket /\ Id(w) \in Notification
      /\ r \in Nat /\ r < MaxAttempts /\ MaxAttempts \in Nat
  BY TicketFields, PolicyAssumption
  DEF ChainInv, SafeInv, TypeOK, BusyHasTicket, RetriesInBudget, Send, Id
<1>2. PICK label \in Outcome :
        /\ pc' = [pc EXCEPT ![w] = label]
        /\ deliveries' = [deliveries EXCEPT ![Id(w)] =
                            IF label = "ok" THEN @ + 1 ELSE @]
  BY <1>1, DispatchAssumption DEF Send, Goto
<1>3. /\ pc[w] = "send"
      /\ UNCHANGED <<ready, unacked, job, faults>>
      /\ attempts' = [attempts EXCEPT ![Id(w)] = @ + 1]
  BY DEF Send, brokerVars
<1>4. /\ attempts \in [Notification -> Nat] /\ deliveries \in [Notification -> Nat]
      /\ faults' \in {faults, faults + 1}
  BY <1>3 DEF ChainInv, SafeInv, TypeOK
<1>5. label \in PC \ {"idle"} /\ w \in Sending /\ w \in Delivering
      /\ label \notin BeforeSend
  BY <1>3 DEF PC, Outcome, Delivering, Sending, BeforeSend
<1>6. /\ Loose' = Loose
      /\ LeftInTasks(n)' \subseteq LeftInTasks(n)
      /\ RunningChains(n)' \subseteq RunningChains(n)
  BY <1>2, <1>3, <1>5, TaskMovesOn
<1>7. CASE Id(w) # n
  BY <1>2, <1>3, <1>4, <1>6, <1>7, FewerTickets, NothingNew
<1>8. CASE Id(w) = n
  <2>1. /\ LeftInQueue(n)' \subseteq (LeftInQueue(n) \ {}) \cup {}
        /\ QueuedChains(n)' \subseteq (QueuedChains(n) \ {}) \cup {}
        /\ {} \in SUBSET LeftInQueue(n) /\ {} \in SUBSET QueuedChains(n)
    BY <1>6 DEF LeftInQueue, QueuedChains
  <2>2. Paid = 0 /\ MaxAttempts * Paid = 0
    BY <1>1, <1>3 DEF Paid
  <2>3. /\ IsFiniteSet(LeftInQueue(n)') /\ IsFiniteSet(LeftInTasks(n)')
        /\ SentAndLeft(n)' <= MaxAttempts * (1 + faults')
    <3> DEFINE TA == {<<w, r + 1>>}
    <3>1. TA \in SUBSET LeftInTasks(n)
      BY <1>1, <1>3, <1>5, <1>8 DEF LeftInTasks, Made, BeforeSend
    <3>2. LeftInTasks(n)' \subseteq (LeftInTasks(n) \ TA) \cup {}
      <4>1. <<w, r + 1>> \notin LeftInTasks(n)'
        BY <1>1, <1>2, <1>3, <1>5 DEF LeftInTasks, Made
      <4>2. QED
        BY <1>6, <4>1
    <3>3. Cardinality(TA) = 1
      BY FS_Singleton
    <3> HIDE DEF TA
    <3>4. attempts[n] \in Nat /\ attempts'[n] = attempts[n] + 1
      BY <1>3, <1>4, <1>8
    <3>5. attempts'[n] + Cardinality({}) + Cardinality({})
            <= attempts[n] + Cardinality({}) + Cardinality(TA) + MaxAttempts * Paid
      BY <2>2, <3>3, <3>4, EmptyIsNothing
    <3>6. QED
      BY <1>4, <2>1, <3>1, <3>2, <3>5, EmptyIsNothing, SendAccount
  <2>4. CASE label = "ok"
    <3>1. {w} \in SUBSET RunningChains(n)
      BY <1>5, <1>8 DEF RunningChains
    <3>2. RunningChains(n)' \subseteq (RunningChains(n) \ {w}) \cup {}
      BY <1>1, <1>2, <1>6, <2>4 DEF RunningChains, Delivering
    <3>3. Cardinality({w}) = 1
      BY FS_Singleton
    <3>4. deliveries[n] \in Nat /\ deliveries'[n] = deliveries[n] + 1
      BY <1>2, <1>4, <1>8, <2>4
    <3>5. deliveries'[n] + Cardinality({}) + Cardinality({})
            <= deliveries[n] + Cardinality({}) + Cardinality({w}) + Paid
      BY <2>2, <3>3, <3>4, EmptyIsNothing
    <3>6. QED
      BY <1>4, <2>1, <2>3, <3>1, <3>2, <3>5, EmptyIsNothing, DeliveryAccount DEF Covered
  <2>5. CASE label # "ok"
    <3>1. /\ {} \in SUBSET RunningChains(n)
          /\ RunningChains(n)' \subseteq (RunningChains(n) \ {}) \cup {}
      BY <1>6
    <3>2. deliveries[n] \in Nat /\ deliveries'[n] = deliveries[n]
      BY <1>2, <1>4, <1>8, <2>5
    <3>3. deliveries'[n] + Cardinality({}) + Cardinality({})
            <= deliveries[n] + Cardinality({}) + Cardinality({}) + Paid
      BY <2>2, <3>2, EmptyIsNothing
    <3>4. QED
      BY <1>4, <2>1, <2>3, <3>1, <3>3, EmptyIsNothing, DeliveryAccount DEF Covered
  <2>6. QED
    BY <2>4, <2>5
<1>9. QED
  BY <1>7, <1>8

\* The next ticket stands for what its task had left.
LEMMA RetryCovered ==
  ASSUME ChainInv, SafeInv', NEW w \in Worker, Retry(w), NEW n \in Notification
  PROVE  Covered(n)'
<1> DEFINE r == job[w].retries
<1>1. /\ pc \in [Worker -> PC]
      /\ job[w] \in Ticket /\ Id(w) \in Notification
      /\ r \in Nat /\ r + 1 < MaxAttempts /\ r + 1 <= MaxAttempts
      /\ MaxAttempts \in Nat /\ r + 1 \in Nat
  <2>1. pc \in [Worker -> PC] /\ job[w] \in Ticket
    BY DEF ChainInv, SafeInv, TypeOK, BusyHasTicket, Retry
  <2>2. Id(w) \in Notification /\ r \in Nat
    BY <2>1, TicketFields DEF Id
  <2>3. MaxAttempts \in Nat
    BY PolicyAssumption
  <2>4. r + 1 <= MaxAttempts - 1
    BY DEF Retry, NextRetries, MaxRetries
  <2>5. QED
    BY <2>1, <2>2, <2>3, <2>4
<1>2. PICK t : /\ t.id = Id(w) /\ t.retries = r + 1
               /\ ready' = ready \cup {t}
  <2> DEFINE new == [id |-> Id(w), seq |-> published[Id(w)] + 1, retries |-> r + 1,
                     countdown |-> CountdownFor(session[w].retry_count)]
  <2>1. ready' = ready \cup {new} /\ new.id = Id(w) /\ new.retries = r + 1
    BY DEF Retry, Publish, NextRetries
  <2>2. QED
    BY <2>1
<1>3. /\ pc[w] = "retry" /\ pc' = [pc EXCEPT ![w] = "ack"]
      /\ UNCHANGED <<unacked, job, attempts, deliveries, faults>>
  BY DEF Retry, Publish, Goto, historyVars
<1>4. Loose' \subseteq Loose \cup {t}
  <2>1. \A u \in unacked : Held(u) => Held(u)'
    BY <1>1, <1>3 DEF Held
  <2>2. QED
    BY <1>2, <1>3, <2>1 DEF Loose
<1>5. /\ Sending' \subseteq Sending \ {w} /\ Delivering' \subseteq Delivering \ {w}
      /\ w \in Sending /\ w \in Delivering /\ Made(w) = r + 1
      /\ \A v \in Sending' : Id(v)' = Id(v) /\ Made(v)' = Made(v)
  BY <1>1, <1>3 DEF Delivering, Sending, BeforeSend, Id, Made, Outcome
<1>6. /\ LeftInTasks(n)' \subseteq LeftInTasks(n)
      /\ RunningChains(n)' \subseteq RunningChains(n) \ {w}
  BY <1>5 DEF LeftInTasks, RunningChains, Delivering
<1>7. CASE Id(w) # n
  <2>1. /\ LeftInQueue(n)' \subseteq LeftInQueue(n)
        /\ QueuedChains(n)' \subseteq QueuedChains(n)
    BY <1>2, <1>4, <1>7 DEF LeftInQueue, QueuedChains
  <2>2. RunningChains(n)' \subseteq RunningChains(n)
    BY <1>6
  <2>3. QED
    BY <1>3, <1>6, <2>1, <2>2, NothingNew
<1>8. CASE Id(w) = n
  <2> DEFINE QB == SendsAfter(t, r + 1)
             TA == SendsAfter(w, r + 1)
  <2>1. TA \in SUBSET LeftInTasks(n)
    BY <1>1, <1>5, <1>8 DEF SendsAfter, LeftInTasks
  <2>2. LeftInTasks(n)' \subseteq (LeftInTasks(n) \ TA) \cup {}
    BY <1>5 DEF SendsAfter, LeftInTasks
  <2>3. LeftInQueue(n)' \subseteq (LeftInQueue(n) \ {}) \cup QB
    <3>1. SUFFICES ASSUME NEW u \in LeftInQueue(n)', u \notin LeftInQueue(n)
                   PROVE  u \in QB
      OBVIOUS
    <3>2. /\ u \in Ticket \X (1 .. MaxAttempts) /\ u[1] \in Loose'
          /\ u[1].id = n /\ u[2] > u[1].retries
      BY DEF LeftInQueue
    <3>3. u[1] = t
      BY <1>4, <3>1, <3>2 DEF LeftInQueue
    <3>4. u = <<t, u[2]>> /\ u[2] \in (r + 1 + 1) .. MaxAttempts
      BY <1>1, <1>2, <3>2, <3>3
    <3>5. QED
      BY <3>4 DEF SendsAfter
  <2>4. /\ IsFiniteSet(QB) /\ Cardinality(QB) = MaxAttempts - (r + 1)
        /\ Cardinality(TA) = MaxAttempts - (r + 1)
    BY <1>1, SendsAfterSize
  <2>5. /\ attempts[n] \in Nat /\ deliveries[n] \in Nat
        /\ faults' \in {faults, faults + 1}
        /\ Paid = 0 /\ MaxAttempts * Paid = 0
    BY <1>1, <1>3 DEF Paid, ChainInv, SafeInv, TypeOK
  <2> HIDE DEF QB, TA
  <2>6. attempts'[n] + Cardinality(QB) + Cardinality({})
          <= attempts[n] + Cardinality({}) + Cardinality(TA) + MaxAttempts * Paid
    BY <1>1, <1>3, <2>4, <2>5, EmptyIsNothing
  <2>7. /\ IsFiniteSet(LeftInQueue(n)') /\ IsFiniteSet(LeftInTasks(n)')
        /\ SentAndLeft(n)' <= MaxAttempts * (1 + faults')
    <3>1. {} \in SUBSET LeftInQueue(n)
      OBVIOUS
    <3>2. QED
      BY <2>1, <2>2, <2>3, <2>4, <2>5, <2>6, <3>1, EmptyIsNothing, SendAccount
  <2>8. /\ IsFiniteSet(QueuedChains(n)') /\ IsFiniteSet(RunningChains(n)')
        /\ DeliveredAndLeft(n)' <= 1 + faults'
    <3>1. {} \in SUBSET QueuedChains(n) /\ {w} \in SUBSET RunningChains(n)
      BY <1>5, <1>8 DEF RunningChains
    <3>2. /\ QueuedChains(n)' \subseteq (QueuedChains(n) \ {}) \cup {t}
          /\ RunningChains(n)' \subseteq (RunningChains(n) \ {w}) \cup {}
      <4>1. QueuedChains(n)' \subseteq QueuedChains(n) \cup {t}
        BY <1>4 DEF QueuedChains
      <4>2. QED
        BY <1>6, <4>1
    <3>3. IsFiniteSet({t}) /\ Cardinality({t}) = 1 /\ Cardinality({w}) = 1
      BY FS_Singleton
    <3>4. deliveries'[n] + Cardinality({t}) + Cardinality({})
            <= deliveries[n] + Cardinality({}) + Cardinality({w}) + Paid
      BY <1>3, <2>5, <3>3, EmptyIsNothing
    <3>5. QED
      BY <2>5, <3>1, <3>2, <3>3, <3>4, EmptyIsNothing, DeliveryAccount
  <2>9. QED
    BY <2>7, <2>8 DEF Covered
<1>9. QED
  BY <1>7, <1>8

\* A fault that lets one ticket loose again adds at most one chain.
LEMMA LetLooseCovered ==
  ASSUME ChainInv, SafeInv', NEW t \in Ticket, t.retries < MaxAttempts,
         Loose' \subseteq Loose \cup {t},
         attempts' = attempts, deliveries' = deliveries, faults' = faults + 1,
         NEW n \in Notification,
         LeftInTasks(n)' \subseteq LeftInTasks(n),
         RunningChains(n)' \subseteq RunningChains(n)
  PROVE  Covered(n)'
<1> DEFINE r == t.retries
           QB == SendsAfter(t, r)
<1>1. r \in Nat /\ r <= MaxAttempts /\ MaxAttempts \in Nat
  BY TicketFields, PolicyAssumption
<1>2. LeftInQueue(n)' \subseteq (LeftInQueue(n) \ {}) \cup QB
  <2>1. SUFFICES ASSUME NEW u \in LeftInQueue(n)', u \notin LeftInQueue(n)
                 PROVE  u \in QB
    OBVIOUS
  <2>2. /\ u \in Ticket \X (1 .. MaxAttempts) /\ u[1] \in Loose'
        /\ u[1].id = n /\ u[2] > u[1].retries
    BY DEF LeftInQueue
  <2>3. u[1] = t
    BY <2>1, <2>2 DEF LeftInQueue
  <2>4. u = <<t, u[2]>> /\ u[2] \in (r + 1) .. MaxAttempts
    BY <1>1, <2>2, <2>3
  <2>5. QED
    BY <2>4 DEF SendsAfter
<1>3. /\ QueuedChains(n)' \subseteq (QueuedChains(n) \ {}) \cup {t}
      /\ LeftInTasks(n)' \subseteq (LeftInTasks(n) \ {}) \cup {}
      /\ RunningChains(n)' \subseteq (RunningChains(n) \ {}) \cup {}
  <2>1. QueuedChains(n)' \subseteq QueuedChains(n) \cup {t}
    BY DEF QueuedChains
  <2>2. QED
    BY <2>1
<1>4. IsFiniteSet(QB) /\ Cardinality(QB) = MaxAttempts - r
  BY <1>1, SendsAfterSize
<1>5. IsFiniteSet({t}) /\ Cardinality({t}) = 1
  BY FS_Singleton
<1>6. /\ attempts[n] \in Nat /\ deliveries[n] \in Nat /\ faults \in Nat
      /\ faults' \in {faults, faults + 1}
  BY DEF ChainInv, SafeInv, TypeOK
<1>7. Paid = 1 /\ MaxAttempts * Paid = MaxAttempts
  <2>1. Paid = 1
    BY <1>6 DEF Paid
  <2>2. QED
    BY <1>1, <2>1
<1> HIDE DEF QB, r
<1>8. attempts'[n] + Cardinality(QB) + Cardinality({})
        <= attempts[n] + Cardinality({}) + Cardinality({}) + MaxAttempts * Paid
  BY <1>1, <1>4, <1>6, <1>7, EmptyIsNothing
<1>9. deliveries'[n] + Cardinality({t}) + Cardinality({})
        <= deliveries[n] + Cardinality({}) + Cardinality({}) + Paid
  BY <1>5, <1>6, <1>7, EmptyIsNothing
<1>10. /\ {} \in SUBSET LeftInQueue(n) /\ {} \in SUBSET LeftInTasks(n)
       /\ {} \in SUBSET QueuedChains(n) /\ {} \in SUBSET RunningChains(n)
  OBVIOUS
<1>11. /\ IsFiniteSet(LeftInQueue(n)') /\ IsFiniteSet(LeftInTasks(n)')
       /\ SentAndLeft(n)' <= MaxAttempts * (1 + faults')
  BY <1>2, <1>3, <1>4, <1>6, <1>8, <1>10, EmptyIsNothing, SendAccount
<1>12. /\ IsFiniteSet(QueuedChains(n)') /\ IsFiniteSet(RunningChains(n)')
       /\ DeliveredAndLeft(n)' <= 1 + faults'
  BY <1>3, <1>5, <1>6, <1>9, <1>10, EmptyIsNothing, DeliveryAccount
<1>13. QED
  BY <1>11, <1>12 DEF Covered

LEMMA CrashCovered ==
  ASSUME ChainInv, SafeInv', NEW w \in Worker, Crash(w), NEW n \in Notification
  PROVE  Covered(n)'
<1>1. job[w] \in Ticket /\ job[w].retries < MaxAttempts
  BY DEF Crash, ChainInv, SafeInv, BusyHasTicket, RetriesInBudget
<1>2. /\ UNCHANGED <<ready, unacked, attempts, deliveries>> /\ faults' = faults + 1
      /\ Release(w)
  BY DEF Crash, Fault, brokerVars, historyVars
<1>3. /\ \A t : t # job[w] /\ Held(t) => Held(t)'
      /\ LeftInTasks(n)' \subseteq LeftInTasks(n)
      /\ RunningChains(n)' \subseteq RunningChains(n)
  BY <1>2, ReleasedTask
<1>4. Loose' \subseteq Loose \cup {job[w]}
  BY <1>2, <1>3 DEF Loose
<1>5. QED
  BY <1>1, <1>2, <1>3, <1>4, LetLooseCovered

\* A redelivered ticket is loose although its task goes on.
LEMMA RequeueCovered ==
  ASSUME ChainInv, SafeInv', NEW t \in unacked, Restore(t) \/ Redeliver(t),
         NEW n \in Notification
  PROVE  Covered(n)'
<1>1. t \in Ticket /\ t.retries < MaxAttempts
  BY DEF ChainInv, SafeInv, TypeOK, BrokerTypeOK, RetriesInBudget
<1>2. /\ UNCHANGED <<pc, job, attempts, deliveries>>
      /\ unacked' = unacked \ {t} /\ ready' = ready \cup {t}
  BY DEF Restore, Redeliver, Requeue, workerVars, historyVars
<1>3. Loose' \subseteq Loose \cup {t}
  BY <1>2 DEF Loose, Held
<1>4. /\ LeftInTasks(n)' = LeftInTasks(n)
      /\ RunningChains(n)' = RunningChains(n)
  BY <1>2 DEF LeftInTasks, RunningChains, Delivering, Sending, Id, Made
<1>5. CASE Restore(t)
  <2>1. Loose' \subseteq Loose
    BY <1>3, <1>5 DEF Restore, Loose, Held
  <2>2. faults' = faults
    BY <1>5 DEF Restore
  <2>3. QED
    BY <1>2, <1>4, <2>1, <2>2, FewerTickets, NothingNew
<1>6. CASE Redeliver(t)
  <2>1. faults' = faults + 1
    BY <1>6 DEF Redeliver, Fault
  <2>2. QED
    BY <1>1, <1>2, <1>3, <1>4, <2>1, LetLooseCovered
<1>7. QED
  BY <1>5, <1>6

LEMMA ChainStep ==
  ASSUME ChainInv, SafeInv', [Next]_vars
  PROVE  ChainInv'
<1> SUFFICES ASSUME NEW n \in Notification PROVE Covered(n)'
  BY BudgetStep DEF ChainInv
<1>1. ASSUME NEW w \in Worker, pc[w] # "idle", NEW label \in PC \ {"idle"},
             pc' = [pc EXCEPT ![w] = label],
             UNCHANGED <<ready, unacked, job, attempts, deliveries>>,
             faults' \in {faults, faults + 1},
             label \in BeforeSend \cup {"retry"} \cup Outcome =>
               /\ w \in Delivering
               /\ label \in BeforeSend => pc[w] \in BeforeSend
      PROVE  Covered(n)'
  <2>1. /\ Loose' = Loose
        /\ LeftInTasks(n)' \subseteq LeftInTasks(n)
        /\ RunningChains(n)' \subseteq RunningChains(n)
    BY <1>1, TaskMovesOn
  <2>2. QED
    BY <1>1, <2>1, FewerTickets, NothingNew
<1>2. ASSUME NEW w \in Worker, Acknowledge(job[w]), Release(w),
             UNCHANGED <<attempts, deliveries>>, faults' \in {faults, faults + 1}
      PROVE  Covered(n)'
  BY <1>2, ReleasedTask, TaskEnds, FewerTickets, NothingNew
<1> USE DEF PC, Outcome, BeforeSend, Delivering, Sending, brokerVars, historyVars, Goto
<1>3. ASSUME NEW w \in Worker,
             LoadMissing(w) \/ LoadSettled(w) \/ LoadOpen(w) \/ BeginProcessing(w)
      PROVE  Covered(n)'
  BY <1>1, <1>3 DEF LoadMissing, LoadSettled, LoadOpen, BeginProcessing
<1>4. ASSUME NEW w \in Worker, CommitSent(w) \/ CommitRetry(w) \/ CommitFailed(w)
      PROVE  Covered(n)'
  BY <1>1, <1>4 DEF CommitSent, CommitRetry, CommitFailed
<1>5. ASSUME NEW w \in Worker, RetryRefused(w) \/ PublishDeadLetter(w)
      PROVE  Covered(n)'
  BY <1>1, <1>5 DEF RetryRefused, PublishDeadLetter
<1>6. ASSUME NEW w \in Worker, RetryPublishFails(w) \/ DeadLetterPublishFails(w)
      PROVE  Covered(n)'
  BY <1>1, <1>6 DEF RetryPublishFails, DeadLetterPublishFails, Fault
<1>7. ASSUME NEW w \in Worker, Ack(w) \/ TaskFails(w) PROVE Covered(n)'
  BY <1>2, <1>7 DEF Ack, TaskFails, Fault
<1>8. ASSUME UNCHANGED <<brokerVars, workerVars, historyVars, faults>> PROVE Covered(n)'
  <2>1. UNCHANGED <<LeftInQueue(n), QueuedChains(n), LeftInTasks(n), RunningChains(n)>>
    BY <1>8
    DEF LeftInQueue, QueuedChains, LeftInTasks, RunningChains, Loose, Held, Id, Made,
        workerVars
  <2>2. QED
    BY <1>8, <2>1, NothingNew
<1>9. ASSUME NEW w \in Worker, NEW m \in dlq, RecordDeadLetter(w, m) PROVE Covered(n)'
  BY <1>8, <1>9 DEF RecordDeadLetter
<1>10. ASSUME UNCHANGED vars PROVE Covered(n)'
  BY <1>8, <1>10 DEF vars
<1>11. QED
  BY <1>3, <1>4, <1>5, <1>6, <1>7, <1>9, <1>10,
     ReceiveCovered, SendCovered, RetryCovered, CrashCovered, RequeueCovered
  DEF Next, WorkerStep, FaultStep, Idle

LEMMA ChainInvariant == Spec => []ChainInv
  BY ChainInit, ChainStep, SafeInvariant, PTL DEF Spec

\* What is made and what is left together bound what was made.
LEMMA ChainBound == ChainInv => SendsBounded
<1> SUFFICES ASSUME ChainInv, NEW n \in Notification
             PROVE  /\ attempts[n] <= MaxAttempts * (1 + faults)
                    /\ deliveries[n] <= 1 + faults
  BY DEF SendsBounded
<1>1. /\ Cardinality(LeftInQueue(n)) \in Nat /\ Cardinality(LeftInTasks(n)) \in Nat
      /\ Cardinality(QueuedChains(n)) \in Nat
      /\ Cardinality(RunningChains(n)) \in Nat
  BY FS_CardinalityType DEF ChainInv, Covered
<1>2. /\ attempts[n] \in Nat /\ deliveries[n] \in Nat
      /\ faults \in Nat /\ MaxAttempts \in Nat
  BY PolicyAssumption DEF ChainInv, SafeInv, TypeOK
<1> DEFINE cap == MaxAttempts * (1 + faults)
<1>3. cap \in Nat
  BY <1>2, OneMoreChain
<1>4. SentAndLeft(n) <= cap /\ DeliveredAndLeft(n) <= 1 + faults
  BY DEF ChainInv, Covered
<1> HIDE DEF cap
<1>5. attempts[n] <= cap
  BY <1>1, <1>2, <1>3, <1>4 DEF SentAndLeft
<1>6. deliveries[n] <= 1 + faults
  BY <1>1, <1>2, <1>4 DEF DeliveredAndLeft
<1>7. QED
  BY <1>5, <1>6 DEF cap

\* Lost updates can rewind a row's retry_count, but Celery's max_retries holds:
\* deliver_notification calls the provider at most max_attempts times for a
\* ticket and its retries, none of them after a success, and a crash or a
\* redelivery adds one such chain.
THEOREM ChainsBoundSends == Spec => []SendsBounded
  BY ChainBound, ChainInvariant, PTL
=============================================================================
