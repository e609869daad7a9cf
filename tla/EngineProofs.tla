---------------------------- MODULE EngineProofs ----------------------------
(***************************************************************************)
(* Theorems about Engine, for any clients, requests, keys, workers,        *)
(* providers and pollers.                                                  *)
(*                                                                         *)
(* A step is a request's, a worker's or a read.  What a worker's step does *)
(* to its own side is taken from DispatchProofs; here it is enough that it *)
(* touches no row and no ticket but those of notifications it carries.     *)
(***************************************************************************)
EXTENDS Engine, FiniteSetTheorems, TLAPS

Task == INSTANCE ContainmentProofs

-----------------------------------------------------------------------------
(* The instance of DispatchProofs *)

\* What Dispatch and the modules it extends assume of their constants.
LEMMA TaskAssumptions ==
  /\ MaxAttempts \in Nat \ {0}
  /\ Countdowns \in Seq(Nat \ {0})
  /\ Len(Countdowns) >= 1
  /\ None \notin Task!Row
  /\ Outcomes \in [Notification -> (SUBSET Task!Outcome) \ {{}}]
  /\ Faults \subseteq Task!FaultKind
  /\ MaxFaults \in Nat
<1>1. None \notin Task!Row
  BY NoneAssumption DEF Row, Status, Task!Row, Task!Status
<1>2. Outcomes \in [Notification -> (SUBSET Task!Outcome) \ {{}}]
  BY EngineAssumption DEF Outcome, Task!Outcome
<1>3. Faults \subseteq Task!FaultKind /\ MaxFaults \in Nat
  BY EngineAssumption DEF Task!FaultKind, Delivery!FaultKind
<1>. QED
  BY <1>1, <1>2, <1>3, PolicyAssumption

LEMMA SameWorkerStep ==
  ASSUME NEW w \in Worker
  PROVE  Delivery!WorkerStep(w) => Task!WorkerStep(w)
  BY DEF Delivery!WorkerStep, Task!WorkerStep,
         Delivery!LoadMissing, Task!LoadMissing,
         Delivery!LoadSettled, Task!LoadSettled,
         Delivery!LoadOpen, Task!LoadOpen,
         Delivery!BeginProcessing, Task!BeginProcessing,
         Delivery!Send, Task!Send,
         Delivery!CommitSent, Task!CommitSent,
         Delivery!CommitRetry, Task!CommitRetry,
         Delivery!CommitFailed, Task!CommitFailed,
         Delivery!Retry, Task!Retry,
         Delivery!RetryRefused, Task!RetryRefused,
         Delivery!PublishDeadLetter, Task!PublishDeadLetter,
         Delivery!Ack, Task!Ack,
         Delivery!Id, Task!Id, Delivery!Update, Task!Update,
         Delivery!Goto, Task!Goto, Delivery!Remember, Task!Remember,
         Delivery!Close, Task!Close, Delivery!Release, Task!Release,
         Delivery!Skip, Task!Skip, Delivery!Settled, Task!Settled,
         Delivery!Terminal, Task!Terminal,
         Delivery!CanTransition, Task!CanTransition,
         Delivery!Allowed, Task!Allowed, Delivery!Status, Task!Status,
         Delivery!SentRow, Task!SentRow, Delivery!Burned, Task!Burned,
         Delivery!FailedRow, Task!FailedRow,
         Delivery!FailedAttempt, Task!FailedAttempt,
         Delivery!ShouldRetry, Task!ShouldRetry,
         Delivery!Retryable, Task!Retryable,
         Delivery!NextRetries, Task!NextRetries,
         Delivery!MaxRetries, Task!MaxRetries,
         Delivery!CountdownFor, Task!CountdownFor,
         Delivery!Publish, Task!Publish,
         Delivery!Acknowledge, Task!Acknowledge,
         Delivery!brokerVars, Task!brokerVars,
         Delivery!dlqVars, Task!dlqVars, Delivery!historyVars, Task!historyVars

LEMMA SameOtherSteps ==
  /\ \A w \in Worker, t \in ready : Delivery!Receive(w, t) => Task!Receive(w, t)
  /\ \A w \in Worker, n \in dlq :
       Delivery!RecordDeadLetter(w, n) => Task!RecordDeadLetter(w, n)
  /\ \A t \in unacked : Delivery!Restore(t) => Task!Restore(t)
  /\ Delivery!FaultStep => Task!FaultStep
  BY DEF Delivery!Receive, Task!Receive,
         Delivery!RecordDeadLetter, Task!RecordDeadLetter,
         Delivery!Restore, Task!Restore, Delivery!FaultStep, Task!FaultStep,
         Delivery!Crash, Task!Crash, Delivery!TaskFails, Task!TaskFails,
         Delivery!RetryPublishFails, Task!RetryPublishFails,
         Delivery!DeadLetterPublishFails, Task!DeadLetterPublishFails,
         Delivery!Redeliver, Task!Redeliver,
         Delivery!Fault, Task!Fault, Delivery!Goto, Task!Goto,
         Delivery!Close, Task!Close, Delivery!Release, Task!Release,
         Delivery!NextRetries, Task!NextRetries,
         Delivery!MaxRetries, Task!MaxRetries,
         Delivery!Deliver, Task!Deliver, Delivery!Requeue, Task!Requeue,
         Delivery!Acknowledge, Task!Acknowledge,
         Delivery!brokerVars, Task!brokerVars,
         Delivery!workerVars, Task!workerVars,
         Delivery!dlqVars, Task!dlqVars, Delivery!historyVars, Task!historyVars

LEMMA DeliveryNext == DeliveryStep => Task!Next
  BY SameWorkerStep, SameOtherSteps DEF DeliveryStep, Task!Next

LEMMA SameType == Delivery!TypeOK <=> Task!TypeOK
  BY DEF Delivery!TypeOK, Task!TypeOK, Delivery!BrokerTypeOK, Task!BrokerTypeOK,
         Delivery!Ticket, Task!Ticket, Delivery!Row, Task!Row,
         Delivery!Status, Task!Status, Delivery!PC, Task!PC,
         Delivery!Outcome, Task!Outcome

-----------------------------------------------------------------------------
(* What a worker may touch *)

\* A ticket or a task of n exists.
Carried(n) ==
  \/ \E t \in ready \cup unacked : t.id = n
  \/ \E w \in Worker : pc[w] # "idle" /\ job[w].id = n

\* A step of Delivery, as the requests and the clients of n see it.
Effect(n) ==
  /\ rows'[n] = None <=> rows[n] = None
  /\ Carried(n)' => Carried(n)
  /\ published[n] > 0 => published'[n] > 0
  /\ ~Carried(n) =>
       /\ rows'[n] = rows[n]
       /\ attempts'[n] = attempts[n]
       /\ deliveries'[n] = deliveries[n]
       /\ published'[n] = published[n]

LEMMA DeliveryEffect ==
  ASSUME Task!SafeInv, Task!SafeInv', DeliveryStep
  PROVE  \A n \in Notification : Effect(n)
<1>a. /\ pc \in [Worker -> Task!PC]
      /\ job \in [Worker -> Task!Ticket \cup {None}]
      /\ rows \in [Notification -> Task!Row \cup {None}]
      /\ attempts \in [Notification -> Nat]
      /\ deliveries \in [Notification -> Nat]
      /\ published \in [Notification -> Nat]
      /\ rows' \in [Notification -> Task!Row \cup {None}]
  BY DEF Task!SafeInv, Task!TypeOK, Task!BrokerTypeOK
<1>b. \A w \in Worker : pc[w] # "idle" => Task!Id(w) \in Notification
  BY Task!TicketFields DEF Task!SafeInv, Task!BusyHasTicket, Task!Id, Task!Ticket
\* Tickets and tasks only move on, end, or are put back.
<1>1. ASSUME UNCHANGED <<rows, attempts, deliveries, published>>,
             ready' \cup unacked' \subseteq ready \cup unacked,
             \A w \in Worker :
               pc'[w] # "idle" =>
                 \/ pc[w] # "idle" /\ job'[w] = job[w]
                 \/ job'[w] \in ready \cup unacked
      PROVE  \A n \in Notification : Effect(n)
  BY <1>1 DEF Effect, Carried
\* A task writes its own row or its own history.
<1>2. ASSUME NEW w \in Worker, NEW label, pc[w] # "idle",
             pc' = [pc EXCEPT ![w] = label],
             UNCHANGED <<ready, unacked, published, job>>,
             rows'[Task!Id(w)] = None <=> rows[Task!Id(w)] = None,
             \A n \in Notification \ {Task!Id(w)} :
               /\ rows'[n] = rows[n]
               /\ attempts'[n] = attempts[n]
               /\ deliveries'[n] = deliveries[n]
      PROVE  \A n \in Notification : Effect(n)
  BY <1>a, <1>2 DEF Effect, Carried, Task!Id
<1>3. ASSUME NEW w \in Worker, NEW t \in ready, Task!Receive(w, t)
      PROVE  \A n \in Notification : Effect(n)
  BY <1>1, <1>3, <1>a
  DEF Task!Receive, Task!Deliver, Task!Goto, Task!historyVars
<1>4. ASSUME NEW w \in Worker,
             \/ Task!LoadMissing(w) \/ Task!LoadSettled(w) \/ Task!LoadOpen(w)
             \/ Task!RetryRefused(w) \/ Task!PublishDeadLetter(w)
             \/ Task!RetryPublishFails(w) \/ Task!DeadLetterPublishFails(w)
      PROVE  \A n \in Notification : Effect(n)
  <2>1. /\ UNCHANGED <<rows, attempts, deliveries, published, ready, unacked, job>>
        /\ pc[w] # "idle"
        /\ \E label : pc' = [pc EXCEPT ![w] = label]
    BY <1>4
    DEF Task!LoadMissing, Task!LoadSettled, Task!LoadOpen, Task!RetryRefused,
        Task!PublishDeadLetter, Task!RetryPublishFails,
        Task!DeadLetterPublishFails, Task!Goto, Task!brokerVars, Task!historyVars
  <2>2. QED
    BY <1>2, <2>1
<1>5. ASSUME NEW w \in Worker,
             \/ Task!BeginProcessing(w) \/ Task!CommitSent(w)
             \/ Task!CommitRetry(w) \/ Task!CommitFailed(w)
      PROVE  \A n \in Notification : Effect(n)
  <2>1. /\ UNCHANGED <<attempts, deliveries, published, ready, unacked, job>>
        /\ pc[w] \in {"begin"} \cup Task!Outcome
        /\ \E label : pc' = [pc EXCEPT ![w] = label]
        /\ \E row : rows' = [rows EXCEPT ![Task!Id(w)] = row]
    BY <1>5
    DEF Task!BeginProcessing, Task!CommitSent, Task!CommitRetry,
        Task!CommitFailed, Task!FailedAttempt, Task!Update, Task!Outcome,
        Task!Goto, Task!brokerVars, Task!historyVars
  <2>2. pc[w] # "idle" /\ Task!Id(w) \in Notification /\ rows[Task!Id(w)] # None
    BY <1>b, <2>1 DEF Task!SafeInv, Task!SessionLoaded, Task!Outcome
  <2>3. rows'[Task!Id(w)] \in Task!Row
    <3>1. CASE Task!BeginProcessing(w)
      BY <1>a, <2>2, <3>1, TaskAssumptions, Task!BegunRow
      DEF Task!BeginProcessing, Task!Update
    <3>2. CASE Task!CommitSent(w)
      BY <1>a, <2>1, <2>2, <3>2, TaskAssumptions, Task!SentRowFacts
      DEF Task!CommitSent, Task!Update, Task!SafeInv, Task!SessionLoaded
    <3>3. CASE Task!CommitRetry(w)
      <4>1. PICK written :
              rows' = [rows EXCEPT ![Task!Id(w)] =
                         Task!FailedRow(rows[Task!Id(w)], session[w], "PENDING", written)]
        BY <3>3 DEF Task!CommitRetry, Task!FailedAttempt, Task!Update
      <4> DEFINE row == Task!FailedRow(rows[Task!Id(w)], session[w], "PENDING", written)
      <4>2. rows[Task!Id(w)] \in Task!Row /\ session[w] \in Task!Row
        BY <1>a, <2>1, <2>2 DEF Task!SafeInv, Task!SessionLoaded
      <4>3. "PENDING" \in Task!Status
        BY DEF Task!Status
      <4>4. row \in Task!Row
        BY <4>2, <4>3, TaskAssumptions, Task!FailedRowFacts
      <4>5. QED
        BY <1>a, <2>2, <4>1, <4>4
    <3>4. CASE Task!CommitFailed(w)
      <4>1. PICK written :
              rows' = [rows EXCEPT ![Task!Id(w)] =
                         Task!FailedRow(rows[Task!Id(w)], session[w], "FAILED", written)]
        BY <3>4 DEF Task!CommitFailed, Task!FailedAttempt, Task!Update
      <4> DEFINE row == Task!FailedRow(rows[Task!Id(w)], session[w], "FAILED", written)
      <4>2. rows[Task!Id(w)] \in Task!Row /\ session[w] \in Task!Row
        BY <1>a, <2>1, <2>2 DEF Task!SafeInv, Task!SessionLoaded
      <4>3. "FAILED" \in Task!Status
        BY DEF Task!Status
      <4>4. row \in Task!Row
        BY <4>2, <4>3, TaskAssumptions, Task!FailedRowFacts
      <4>5. QED
        BY <1>a, <2>2, <4>1, <4>4
    <3>5. QED
      BY <1>5, <3>1, <3>2, <3>3, <3>4
  <2>4. rows'[Task!Id(w)] # None
    BY <2>3, TaskAssumptions
  <2>5. QED
    BY <1>2, <1>a, <2>1, <2>2, <2>4
<1>6. ASSUME NEW w \in Worker, Task!Send(w)
      PROVE  \A n \in Notification : Effect(n)
  <2>1. /\ UNCHANGED <<rows, published, ready, unacked, job>>
        /\ pc[w] # "idle"
        /\ \E label : pc' = [pc EXCEPT ![w] = label]
        /\ \E d : deliveries' = [deliveries EXCEPT ![Task!Id(w)] = d]
        /\ \E d : attempts' = [attempts EXCEPT ![Task!Id(w)] = d]
    <3>1. PICK outcome :
            /\ pc' = [pc EXCEPT ![w] = outcome]
            /\ deliveries' = [deliveries EXCEPT ![Task!Id(w)] =
                                IF outcome = "ok" THEN @ + 1 ELSE @]
      BY <1>6 DEF Task!Send, Task!Goto
    <3>2. QED
      BY <1>6, <3>1 DEF Task!Send, Task!brokerVars
  <2>2. QED
    BY <1>2, <1>a, <2>1
<1>7. ASSUME NEW w \in Worker, Task!Retry(w)
      PROVE  \A n \in Notification : Effect(n)
  <2>1. PICK t :
          /\ ready' = ready \cup {t} /\ t.id = Task!Id(w)
          /\ published' = [published EXCEPT ![Task!Id(w)] = @ + 1]
          /\ UNCHANGED <<unacked, job, rows, attempts, deliveries>>
          /\ pc[w] = "retry" /\ pc' = [pc EXCEPT ![w] = "ack"]
    BY <1>7 DEF Task!Retry, Task!Publish, Task!Goto, Task!historyVars
  <2>2. Task!Id(w) \in Notification /\ Carried(Task!Id(w))
    BY <1>b, <2>1 DEF Carried, Task!Id
  <2>3. \A n \in Notification : Carried(n)' => Carried(n)
    BY <1>a, <2>1, <2>2 DEF Carried
  <2>4. QED
    BY <1>a, <2>1, <2>2, <2>3 DEF Effect
<1>8. ASSUME NEW w \in Worker,
             Task!Ack(w) \/ Task!Crash(w) \/ Task!TaskFails(w)
      PROVE  \A n \in Notification : Effect(n)
  <2>1. /\ UNCHANGED <<rows, attempts, deliveries, published, ready>>
        /\ unacked' \subseteq unacked
        /\ pc' = [pc EXCEPT ![w] = "idle"]
        /\ job' = [job EXCEPT ![w] = None]
    BY <1>8
    DEF Task!Ack, Task!Crash, Task!TaskFails, Task!Acknowledge, Task!Release,
        Task!brokerVars, Task!historyVars
  <2>2. QED
    BY <1>1, <1>a, <2>1
<1>9. ASSUME NEW w \in Worker, NEW n \in dlq, Task!RecordDeadLetter(w, n)
      PROVE  \A m \in Notification : Effect(m)
  BY <1>1, <1>9
  DEF Task!RecordDeadLetter, Task!brokerVars, Task!workerVars, Task!historyVars
<1>10. ASSUME NEW t \in unacked, Task!Restore(t) \/ Task!Redeliver(t)
       PROVE  \A n \in Notification : Effect(n)
  BY <1>1, <1>10
  DEF Task!Restore, Task!Redeliver, Task!Requeue, Task!workerVars, Task!historyVars
<1>11. ASSUME Task!Idle PROVE \A n \in Notification : Effect(n)
  BY <1>1, <1>11
  DEF Task!Idle, Task!vars, Task!brokerVars, Task!workerVars, Task!historyVars
<1>12. QED
  BY <1>3, <1>4, <1>5, <1>6, <1>7, <1>8, <1>9, <1>10, <1>11, DeliveryNext
  DEF Task!Next, Task!WorkerStep, Task!FaultStep

-----------------------------------------------------------------------------
(* Any faults at all *)

\* No two rows answer to the same client and key.
UniqueRows ==
  \A m, n \in Notification :
    (rows[m] # None /\ rows[n] # None /\ API!SameRequest(m, n)) => m = n

\* What a request's step says about its own row, ticket and answer.
StepFits(r) ==
  /\ step[r] \in {"lookup", "insert", "recover"} => rows[r] = None
  /\ step[r] = "enqueue" => rows[r] # None
  /\ step[r] # "done" => published[r] = 0 /\ reply[r] = None

\* An answer names a row that is there and is what the request asked for.
AnswerFits(r) ==
  API!IsAccepted(r) =>
    /\ reply[r].id \in Notification
    /\ rows[reply[r].id] # None
    /\ API!SameRequest(r, reply[r].id)

\* Work on n starts with a publish, and the publish comes after the commit.
WorkFits(n) ==
  /\ Carried(n) => published[n] > 0
  /\ published[n] > 0 => rows[n] # None
  /\ published[n] = 0 =>
       attempts[n] = 0 /\ deliveries[n] = 0 /\ rows[n] \in {None, NewRow}

RequestTypes ==
  /\ step \in [Notification -> API!Step]
  /\ reply \in [Notification -> API!Accepted \cup API!Refused \cup {None}]
  /\ requestFaults \in Nat

BaseInv ==
  /\ Task!SafeInv
  /\ RequestTypes
  /\ told \in [Notification -> Status \cup {None}]
  /\ UniqueRows
  /\ \A r \in Notification : StepFits(r) /\ AnswerFits(r) /\ WorkFits(r)

LEMMA NewRowType ==
  /\ NewRow \in Row /\ NewRow # None
  /\ NewRow.status = "PENDING" /\ NewRow.retry_count = 0
  /\ NewRow.sent_at = FALSE
<1>1. NewRow \in Row
  BY DEF NewRow, Row, Status
<1>2. NewRow.status = "PENDING" /\ NewRow.retry_count = 0 /\ NewRow.sent_at = FALSE
  BY DEF NewRow
<1>3. QED
  BY <1>1, <1>2, NoneAssumption

LEMMA SameRows == Task!Row = Row /\ Task!Status = Status
  BY DEF Task!Row, Row, Task!Status, Status

\* What a step of a request may do to what it shares with the workers.
Quiet == UNCHANGED <<rows, ready, unacked, published>>

Commits(r) ==
  /\ step[r] = "insert" /\ ~API!Conflict(r)
  /\ rows' = [rows EXCEPT ![r] = NewRow]
  /\ UNCHANGED <<ready, unacked, published>>

Publishes(r) ==
  /\ step[r] = "enqueue" /\ step' = [step EXCEPT ![r] = "done"]
  /\ ready' = ready \cup {[id |-> r, seq |-> published[r] + 1,
                           retries |-> 0, countdown |-> 0]}
  /\ published' = [published EXCEPT ![r] = @ + 1]
  /\ UNCHANGED <<rows, unacked>>

LEMMA APIShape ==
  ASSUME APIStep
  PROVE  /\ Quiet \/ \E r \in Notification : Commits(r) \/ Publishes(r)
         /\ UNCHANGED <<pc, job, session, dlq, logged, attempts, deliveries,
                        faults, told, counted>>
<1>1. UNCHANGED <<pc, job, session, dlq, logged, attempts, deliveries,
                  faults, told, counted>>
  BY DEF APIStep, workerState, clientState
<1>2. PICK r \in Notification : API!RequestStep(r) \/ API!RequestFaultStep(r)
  BY DEF APIStep, API!Request
<1>3. Quiet \/ Commits(r) \/ Publishes(r)
  BY <1>2
  DEF API!RequestStep, API!RequestFaultStep, API!Replay, API!LookupMisses,
      API!CommitRow, API!LoseRace, API!ReadWinner, API!Reraise,
      API!Enqueue, API!EnqueueFails, API!CommitFails, API!CommitRefused,
      API!SelectFails, API!RequestDies, API!ReplyWith,
      API!Finish, API!Proceed, API!Publish, API!brokerVars, NewRow, API!NewRow,
      Quiet, Commits, Publishes
<1>4. QED
  BY <1>1, <1>3

LEMMA SafeAPI ==
  ASSUME BaseInv, APIStep
  PROVE  Task!SafeInv'
<1> USE DEF BaseInv, Task!SafeInv, Task!TypeOK, Task!BrokerTypeOK
<1>0. UNCHANGED <<pc, job, session, dlq, logged, attempts, deliveries, faults>>
  BY APIShape
<1>1. CASE Quiet
  BY <1>0, <1>1
  DEF Quiet, Task!BusyHasTicket, Task!SessionLoaded, Task!OkWasDelivered,
      Task!SentWasDelivered, Task!Id
<1>2. ASSUME NEW r \in Notification, Commits(r) PROVE Task!SafeInv'
  <2>1. /\ rows' = [rows EXCEPT ![r] = NewRow]
        /\ UNCHANGED <<ready, unacked, published>>
        /\ NewRow \in Task!Row
    BY <1>2, NewRowType, SameRows DEF Commits
  <2>2. Task!TypeOK'
    BY <1>0, <2>1
  <2>3. Task!SessionLoaded'
    BY <1>0, <2>1, NewRowType DEF Task!SessionLoaded, Task!Id
  <2>4. Task!SentWasDelivered'
    BY <1>0, <2>1, NewRowType DEF Task!SentWasDelivered
  <2>5. Task!BusyHasTicket' /\ Task!OkWasDelivered'
    BY <1>0 DEF Task!BusyHasTicket, Task!OkWasDelivered, Task!Id
  <2>6. QED
    BY <2>2, <2>3, <2>4, <2>5
<1>3. ASSUME NEW r \in Notification, Publishes(r) PROVE Task!SafeInv'
  <2>1. Task!TypeOK'
    BY <1>0, <1>3 DEF Publishes, Task!Ticket
  <2>2. QED
    BY <1>0, <1>3, <2>1
    DEF Publishes, Task!BusyHasTicket, Task!SessionLoaded, Task!OkWasDelivered,
        Task!SentWasDelivered, Task!Id
<1>4. QED
  BY <1>1, <1>2, <1>3, APIShape

LEMMA BaseInit == Init => BaseInv
<1> SUFFICES ASSUME Init PROVE BaseInv
  OBVIOUS
<1> USE DEF Init, API!Init
<1>1. Task!SafeInv
  BY NoneAssumption
  DEF Task!SafeInv, Task!TypeOK, Task!BrokerTypeOK, Task!PC, Task!BusyHasTicket,
      Task!SessionLoaded, Task!OkWasDelivered, Task!SentWasDelivered, Task!Outcome
<1>2. RequestTypes /\ UniqueRows
  BY DEF RequestTypes, UniqueRows, API!Request, API!Step
<1>3. \A r \in Notification : StepFits(r) /\ AnswerFits(r) /\ WorkFits(r)
  <2> SUFFICES ASSUME NEW r \in Notification
               PROVE  StepFits(r) /\ AnswerFits(r) /\ WorkFits(r)
    OBVIOUS
  <2>1. /\ rows[r] = None /\ published[r] = 0 /\ step[r] = "lookup" /\ reply[r] = None
        /\ attempts[r] = 0 /\ deliveries[r] = 0
    BY DEF API!Request
  <2>2. ~Carried(r)
    BY DEF Carried
  <2>3. QED
    BY <2>1, <2>2 DEF StepFits, AnswerFits, WorkFits, API!IsAccepted
<1>4. QED
  BY <1>1, <1>2, <1>3 DEF BaseInv

\* A step that makes no row, answers no request and only carries what was
\* carried: a worker's, or a read.
LEMMA BaseQuiet ==
  ASSUME BaseInv, Task!SafeInv', UNCHANGED requestState,
         told' \in [Notification -> Status \cup {None}],
         \A n \in Notification : Effect(n)
  PROVE  BaseInv'
<1>0. UNCHANGED <<step, reply, requestFaults>>
  BY DEF requestState
<1>a. /\ published \in [Notification -> Nat] /\ published' \in [Notification -> Nat]
  BY DEF BaseInv, Task!SafeInv, Task!TypeOK, Task!BrokerTypeOK
<1>b. \A n \in Notification :
        /\ rows'[n] = None <=> rows[n] = None
        /\ Carried(n)' => Carried(n)
        /\ published[n] > 0 => published'[n] > 0
        /\ published[n] = 0 =>
             /\ rows'[n] = rows[n] /\ attempts'[n] = attempts[n]
             /\ deliveries'[n] = deliveries[n] /\ published'[n] = 0
  <2> SUFFICES ASSUME NEW n \in Notification
               PROVE  published[n] = 0 => ~Carried(n)
    BY DEF Effect
  <2>1. QED
    BY DEF BaseInv, WorkFits
<1>1. UniqueRows'
  BY <1>b DEF BaseInv, UniqueRows, API!SameRequest
<1>2. \A r \in Notification : StepFits(r)'
  BY <1>0, <1>b DEF BaseInv, StepFits
<1>3. \A r \in Notification : AnswerFits(r)'
  BY <1>0, <1>b DEF BaseInv, AnswerFits, API!IsAccepted, API!SameRequest
<1>4. \A n \in Notification : WorkFits(n)'
  BY <1>a, <1>b DEF BaseInv, WorkFits
<1>5. QED
  BY <1>0, <1>1, <1>2, <1>3, <1>4 DEF BaseInv, RequestTypes

\* Steps of requests, one at a time.
LEMMA BaseAPI ==
  ASSUME BaseInv, APIStep
  PROVE  BaseInv'
<1>0. /\ UNCHANGED <<pc, job, attempts, deliveries, told>>
      /\ Task!SafeInv'
      /\ published \in [Notification -> Nat]
      /\ rows \in [Notification -> Row \cup {None}]
  BY APIShape, SafeAPI, SameRows
  DEF BaseInv, Task!SafeInv, Task!TypeOK, Task!BrokerTypeOK
<1> DEFINE Rest == /\ RequestTypes'
                   /\ UniqueRows'
                   /\ \A r \in Notification :
                        StepFits(r)' /\ AnswerFits(r)' /\ WorkFits(r)'
<1> SUFFICES Rest
  BY <1>0 DEF BaseInv
<1> USE DEF BaseInv, RequestTypes
\* What is left alone when rows and broker are.
<1>a. ASSUME Quiet PROVE UniqueRows' /\ \A n \in Notification : WorkFits(n)'
  BY <1>0, <1>a DEF Quiet, UniqueRows, API!SameRequest, WorkFits, Carried
<1>1. ASSUME NEW r \in Notification, API!Replay(r) \/ API!ReadWinner(r)
      PROVE  Rest
  <2>1. PICK n \in API!FindByKey(r) :
          /\ step' = [step EXCEPT ![r] = "done"]
          /\ reply' = [reply EXCEPT ![r] =
                         [code |-> 202, id |-> n, status |-> rows[n].status]]
    BY <1>1 DEF API!Replay, API!ReadWinner, API!ReplyWith, API!Finish, API!Proceed
  <2>2. Quiet /\ UNCHANGED requestFaults
    BY <1>1 DEF API!Replay, API!ReadWinner, API!brokerVars, Quiet
  <2>3. n \in Notification /\ rows[n] # None /\ API!SameRequest(r, n)
    BY <1>1, <2>1
    DEF API!FindByKey, API!SameRequest, API!Replay, API!ReadWinner
  <2>4. rows[n].status \in API!Status
    BY <1>0, <2>3 DEF Row, Status, API!Status
  <2>5. RequestTypes'
    BY <2>1, <2>2, <2>3, <2>4 DEF API!Step, API!Accepted
  <2>6. \A s \in Notification : StepFits(s)'
    BY <2>1, <2>2 DEF StepFits, API!Step, Quiet
  <2>7. \A s \in Notification : AnswerFits(s)'
    BY <2>1, <2>2, <2>3
    DEF AnswerFits, API!IsAccepted, API!SameRequest, Quiet
  <2>8. QED
    BY <1>a, <2>2, <2>5, <2>6, <2>7
<1>2. ASSUME NEW r \in Notification,
             API!LookupMisses(r) \/ API!LoseRace(r) \/ API!CommitRefused(r)
      PROVE  Rest
  <2>1. PICK label \in {"insert", "recover"} : step' = [step EXCEPT ![r] = label]
    BY <1>2 DEF API!LookupMisses, API!LoseRace, API!CommitRefused, API!Proceed
  <2>2. /\ Quiet /\ UNCHANGED reply /\ requestFaults' \in Nat
        /\ step[r] \in {"lookup", "insert"}
    BY <1>2
    DEF API!LookupMisses, API!LoseRace, API!CommitRefused, API!RequestFault,
        API!brokerVars, Quiet
  <2>3. RequestTypes'
    BY <2>1, <2>2 DEF API!Step
  <2>4. \A s \in Notification : StepFits(s)'
    BY <2>1, <2>2 DEF StepFits, API!Step, Quiet
  <2>5. \A s \in Notification : AnswerFits(s)'
    BY <2>2 DEF AnswerFits, API!IsAccepted, API!SameRequest, Quiet
  <2>6. QED
    BY <1>a, <2>2, <2>3, <2>4, <2>5
\* The commit of a row, seen or not seen by the request.
<1>3. ASSUME NEW r \in Notification, NEW label \in {"enqueue", "done"}, NEW answer,
             Commits(r),
             step' = [step EXCEPT ![r] = label],
             reply' = [reply EXCEPT ![r] = answer],
             answer \in {None, [code |-> 500]},
             label = "enqueue" => answer = None,
             requestFaults' \in Nat
      PROVE  Rest
  <2>1. /\ step[r] = "insert" /\ ~API!Conflict(r)
        /\ rows' = [rows EXCEPT ![r] = NewRow]
        /\ UNCHANGED <<ready, unacked, published>>
    BY <1>3 DEF Commits
  <2>2. RequestTypes'
    BY <1>3 DEF API!Step, API!Refused
  <2>3. UniqueRows'
    <3>1. \A n \in Notification : rows[n] # None => n = r \/ ~API!SameRequest(r, n)
      BY <2>1 DEF API!Conflict, API!SameRequest
    <3>2. \A m, n \in Notification : API!SameRequest(m, n) <=> API!SameRequest(n, m)
      BY DEF API!SameRequest
    <3>3. \A m, n \in Notification : API!SameRequest(m, n)' <=> API!SameRequest(m, n)
      BY DEF API!SameRequest
    <3>4. QED
      BY <1>0, <2>1, <3>1, <3>2, <3>3 DEF UniqueRows
  <2>4. \A s \in Notification : AnswerFits(s)'
    BY <1>0, <1>3, <2>1, NewRowType DEF AnswerFits, API!IsAccepted, API!SameRequest
  <2>5. \A s \in Notification : StepFits(s)'
    BY <1>0, <1>3, <2>1, NewRowType DEF StepFits, API!Step
  <2>6. \A n \in Notification : WorkFits(n)'
    BY <1>0, <2>1, NewRowType DEF WorkFits, Carried, StepFits
  <2>7. QED
    BY <2>2, <2>3, <2>4, <2>5, <2>6
\* A request that ends and leaves nothing behind.
<1>4. ASSUME NEW r \in Notification, NEW answer, step[r] # "done", Quiet,
             answer \in API!Refused \cup {None},
             step' = [step EXCEPT ![r] = "done"],
             reply' = [reply EXCEPT ![r] = answer],
             requestFaults' \in Nat
      PROVE  Rest
  <2>1. RequestTypes'
    BY <1>4 DEF API!Step
  <2>2. \A s \in Notification : StepFits(s)'
    BY <1>4 DEF StepFits, API!Step, Quiet
  <2>3. answer # None => answer.code # 202
    BY <1>4 DEF API!Refused
  <2>4. \A s \in Notification : AnswerFits(s)'
    BY <1>4, <2>3 DEF AnswerFits, API!IsAccepted, API!SameRequest, Quiet
  <2>5. QED
    BY <1>4, <1>a, <2>1, <2>2, <2>4
\* The publish, confirmed or not.
<1>5. ASSUME NEW r \in Notification, NEW answer, Publishes(r),
             answer \in API!Refused \cup {[code |-> 202, id |-> r, status |-> "PENDING"]},
             reply' = [reply EXCEPT ![r] = answer],
             requestFaults' \in Nat
      PROVE  Rest
  <2>1. rows[r] # None /\ published[r] = 0 /\ rows' = rows
        /\ step' = [step EXCEPT ![r] = "done"]
        /\ published' = [published EXCEPT ![r] = 1]
    <3>1. step[r] = "enqueue" /\ step[r] # "done"
      BY <1>5 DEF Publishes
    <3>2. rows[r] # None /\ published[r] = 0
      BY <3>1 DEF StepFits
    <3>3. QED
      BY <1>5, <3>2 DEF Publishes
  <2>2. RequestTypes'
    BY <1>5, <2>1 DEF API!Step, API!Accepted, API!Status
  <2>3. UniqueRows'
    BY <2>1 DEF UniqueRows, API!SameRequest
  <2>4. \A s \in Notification : StepFits(s)'
    BY <1>0, <1>5, <2>1 DEF StepFits, API!Step
  <2>5. \A s \in Notification : AnswerFits(s)'
    BY <1>5, <2>1 DEF AnswerFits, API!IsAccepted, API!Refused, API!SameRequest
  <2>6. \A n \in Notification \ {r} : Carried(n)' => Carried(n)
    BY <1>0, <1>5 DEF Publishes, Carried
  <2>7. \A n \in Notification : WorkFits(n)'
    BY <1>0, <2>1, <2>6 DEF WorkFits
  <2>8. QED
    BY <2>2, <2>3, <2>4, <2>5, <2>7
<1> HIDE DEF Rest
<1>6. ASSUME NEW r \in Notification, API!CommitRow(r) PROVE Rest
  <2>1. reply' = [reply EXCEPT ![r] = None]
    BY <1>6 DEF API!CommitRow, StepFits
  <2>2. Commits(r) /\ step' = [step EXCEPT ![r] = "enqueue"] /\ requestFaults' \in Nat
    BY <1>6 DEF API!CommitRow, API!Proceed, API!brokerVars, API!NewRow, NewRow, Commits
  <2>3. QED
    BY <1>3, <2>1, <2>2
<1>7. ASSUME NEW r \in Notification, API!CommitFails(r) PROVE Rest
  <2>1. /\ step[r] = "insert" /\ requestFaults' \in Nat
        /\ step' = [step EXCEPT ![r] = "done"]
        /\ reply' = [reply EXCEPT ![r] = [code |-> 500]]
        /\ Quiet \/ Commits(r)
    BY <1>7
    DEF API!CommitFails, API!Finish, API!Proceed, API!RequestFault,
        API!brokerVars, API!NewRow, NewRow, Quiet, Commits
  <2>2. [code |-> 500] \in API!Refused \cup {None}
    BY DEF API!Refused
  <2>3. CASE Quiet
    <3>1. step[r] # "done"
      BY <2>1
    <3>2. QED
      BY ZenonT(30), <1>4, <2>1, <2>2, <2>3, <3>1
  <2>4. CASE Commits(r)
    BY ZenonT(30), <1>3, <2>1, <2>4
  <2>5. QED
    BY <2>1, <2>3, <2>4
<1>8. ASSUME NEW r \in Notification, API!Enqueue(r) PROVE Rest
  <2>1. /\ Publishes(r) /\ requestFaults' \in Nat
        /\ reply' = [reply EXCEPT ![r] =
                       [code |-> 202, id |-> r, status |-> "PENDING"]]
    BY <1>8
    DEF API!Enqueue, API!ReplyWith, API!Finish, API!Proceed, API!Publish,
        API!NewRow, Publishes
  <2>2. QED
    BY <1>5, <2>1
<1>9. ASSUME NEW r \in Notification, API!EnqueueFails(r) PROVE Rest
  <2>1. /\ step[r] = "enqueue" /\ requestFaults' \in Nat
        /\ step' = [step EXCEPT ![r] = "done"]
        /\ reply' = [reply EXCEPT ![r] = [code |-> 503]]
        /\ Quiet \/ Publishes(r)
        /\ [code |-> 503] \in API!Refused
    BY <1>9
    DEF API!EnqueueFails, API!Finish, API!Proceed, API!RequestFault, API!Refused,
        API!Publish, API!brokerVars, Quiet, Publishes
  <2>2. CASE Quiet
    BY ZenonT(30), <1>4, <2>1, <2>2
  <2>3. CASE Publishes(r)
    BY ZenonT(30), <1>5, <2>1, <2>3
  <2>4. QED
    BY <2>1, <2>2, <2>3
<1>10. ASSUME NEW r \in Notification, API!RequestDies(r) PROVE Rest
  <2>1. /\ step[r] # "done" /\ requestFaults' \in Nat
        /\ step' = [step EXCEPT ![r] = "done"]
        /\ reply' = [reply EXCEPT ![r] = None]
        /\ Quiet
    BY <1>10
    DEF API!RequestDies, API!Proceed, API!RequestFault, API!brokerVars, StepFits, Quiet
  <2>2. QED
    BY <1>4, <2>1
<1>11. ASSUME NEW r \in Notification, API!SelectFails(r) \/ API!Reraise(r)
       PROVE  Rest
  <2>1. /\ step[r] # "done" /\ requestFaults' \in Nat
        /\ step' = [step EXCEPT ![r] = "done"]
        /\ reply' = [reply EXCEPT ![r] = [code |-> 500]]
        /\ Quiet
        /\ [code |-> 500] \in API!Refused \cup {None}
    BY <1>11
    DEF API!SelectFails, API!Reraise, API!Finish, API!Proceed, API!RequestFault,
        API!brokerVars, API!Refused, Quiet
  <2>2. QED
    BY ZenonT(30), <1>4, <2>1
<1>12. QED
  BY <1>1, <1>2, <1>6, <1>7, <1>8, <1>9, <1>10, <1>11
  DEF APIStep, API!Request, API!RequestStep, API!RequestFaultStep

\* What a read leaves alone.
LEMMA ReadShape ==
  ASSUME \/ \E c \in Reader, n \in Notification : GetStatus(c, n)
         \/ \E c \in Reader : GetMetrics(c)
  PROVE  UNCHANGED <<ready, unacked, published, rows, step, reply, requestFaults,
                     pc, job, session, dlq, logged, attempts, deliveries, faults>>
  BY DEF GetStatus, GetMetrics, brokerVars, requestState, workerState

LEMMA SameSafe ==
  ASSUME Task!SafeInv,
         UNCHANGED <<ready, unacked, published, rows, pc, job, session, dlq,
                     logged, attempts, deliveries, faults>>
  PROVE  Task!SafeInv'
  BY DEF Task!SafeInv, Task!TypeOK, Task!BrokerTypeOK, Task!BusyHasTicket,
         Task!SessionLoaded, Task!OkWasDelivered, Task!SentWasDelivered, Task!Id

LEMMA BaseStep == BaseInv /\ [Next]_vars => BaseInv'
<1> SUFFICES ASSUME BaseInv, [Next]_vars PROVE BaseInv'
  OBVIOUS
<1>1. CASE APIStep
  BY <1>1, BaseAPI
<1>2. CASE DeliveryStep
  <2>1. Task!SafeInv'
    BY <1>2, DeliveryNext, TaskAssumptions, Task!SafeStep DEF BaseInv
  <2>2. UNCHANGED requestState /\ told' = told
    BY <1>2 DEF DeliveryStep, clientState
  <2>3. QED
    BY <1>2, <2>1, <2>2, DeliveryEffect, BaseQuiet DEF BaseInv
<1>3. ASSUME UNCHANGED <<ready, unacked, published, rows, step, reply, requestFaults,
                         pc, job, session, dlq, logged, attempts, deliveries, faults>>,
             told' \in [Notification -> Status \cup {None}]
      PROVE  BaseInv'
  <2>1. Task!SafeInv' /\ UNCHANGED requestState
    BY <1>3, SameSafe DEF BaseInv, requestState
  <2>2. \A n \in Notification : Effect(n)
    BY <1>3 DEF Effect, Carried
  <2>3. QED
    BY <1>3, <2>1, <2>2, BaseQuiet
<1>4. ASSUME NEW c \in Reader, NEW n \in Notification, GetStatus(c, n) PROVE BaseInv'
  <2>1. rows[n] \in Row
    BY <1>4, SameRows
    DEF GetStatus, Visible, BaseInv, Task!SafeInv, Task!TypeOK
  <2>2. told' \in [Notification -> Status \cup {None}]
    BY <1>4, <2>1 DEF GetStatus, BaseInv, Row
  <2>3. QED
    BY <1>3, <1>4, <2>2, ReadShape
<1>5. ASSUME NEW c \in Reader, GetMetrics(c) PROVE BaseInv'
  <2>1. told' = told
    BY <1>5 DEF GetMetrics
  <2>2. QED
    BY <1>3, <1>5, <2>1, ReadShape DEF BaseInv
<1>6. CASE UNCHANGED vars
  BY <1>3, <1>6 DEF vars, brokerVars, requestState, workerState, clientState, BaseInv
<1>7. QED
  BY <1>1, <1>2, <1>4, <1>5, <1>6 DEF Next

LEMMA BaseInvariant == Spec => []BaseInv
  BY BaseInit, BaseStep, PTL DEF Spec

\* Whatever requests race, whatever fails and however often a ticket is
\* delivered, dispatch never answers MISSING.
THEOREM RowsAreThere == Spec => []NeverMissing
<1>1. ASSUME BaseInv PROVE NeverMissing
  <2> SUFFICES ASSUME NEW w \in Worker, pc[w] = "load" PROVE rows[job[w].id] # None
    BY DEF NeverMissing
  <2>1. job[w].id \in Notification
    BY <1>1 DEF BaseInv, Task!SafeInv, Task!BusyHasTicket, Task!Ticket
  <2>2. QED
    BY <1>1, <2>1 DEF BaseInv, WorkFits, Carried
<1>2. QED
  BY <1>1, BaseInvariant, PTL

\* Whoever holds a 202 can poll the id in it, under any faults: the row is
\* committed, stays, and belongs to the client that asked.
THEOREM AcceptedCanBePolled == Spec => []AcceptedIsVisible
<1>1. BaseInv => AcceptedIsVisible
  BY DEF BaseInv, AcceptedIsVisible, AnswerFits, Visible, API!SameRequest, API!Request
<1>2. QED
  BY <1>1, BaseInvariant, PTL

-----------------------------------------------------------------------------
(* No duplicated tickets.                                                  *)
(*                                                                         *)
(* Requests keep the invariant of DispatchProofs: a commit makes a row     *)
(* nobody carries, and the one publish of a request makes the only ticket  *)
(* of a row that was never tried.                                          *)

LEMMA SameTask ==
  ASSUME Task!Inv,
         UNCHANGED <<ready, unacked, published, rows, pc, job, session, dlq,
                     logged, attempts, deliveries, faults>>
  PROVE  Task!Inv'
<1>1. Task!SafeInv'
  BY SameSafe DEF Task!Inv
<1>2. Task!Working' = Task!Working
  BY DEF Task!Working
<1>3. Task!UnackedHeld' /\ Task!OneCarrier'
  BY <1>2 DEF Task!Inv, Task!UnackedHeld, Task!OneCarrier, Task!Id
<1>4. \A t \in ready' : Task!TicketFits(t)'
  BY DEF Task!Inv, Task!TicketFits, Task!Waiting
<1>5. \A w \in Task!Working' : Task!TaskFits(w)'
  BY <1>2 DEF Task!Inv, Task!TaskFits, Task!Waiting, Task!Id
<1>6. (Task!AtMostOneDelivery /\ Task!SendsWithinBudget /\ Task!RowsConsistent)'
  BY DEF Task!Inv, Task!AtMostOneDelivery, Task!SendsWithinBudget,
         Task!RowsConsistent
<1>7. QED
  BY <1>1, <1>3, <1>4, <1>5, <1>6 DEF Task!Inv

\* A ticket or a task of a notification that waits, runs or ends carries it.
LEMMA CarriersCarry ==
  /\ \A t \in ready : Carried(t.id)
  /\ \A w \in Task!Working : Carried(Task!Id(w))
  BY DEF Carried, Task!Working, Task!Id

LEMMA CommitKeepsTask ==
  ASSUME BaseInv, Task!Inv, APIStep, NEW r \in Notification, Commits(r)
  PROVE  Task!Inv'
<1>0. /\ UNCHANGED <<pc, job, session, dlq, logged, attempts, deliveries, faults,
                     ready, unacked, published>>
      /\ rows' = [rows EXCEPT ![r] = NewRow]
      /\ rows \in [Notification -> Row \cup {None}]
  BY APIShape, SameRows
  DEF Commits, BaseInv, Task!SafeInv, Task!TypeOK
<1>1. Task!SafeInv'
  BY SafeAPI
<1>2. ~Carried(r)
  BY DEF Commits, BaseInv, StepFits, WorkFits
<1>3. Task!Working' = Task!Working
  BY <1>0 DEF Task!Working
<1>4. \A n \in Notification : Carried(n) => rows'[n] = rows[n]
  BY <1>0, <1>2
<1>5. /\ \A t \in ready : t.id \in Notification
      /\ \A w \in Task!Working : Task!Id(w) \in Notification
  BY DEF Task!Inv, Task!SafeInv, Task!TypeOK, Task!BrokerTypeOK, Task!Ticket,
         Task!BusyHasTicket, Task!Working, Task!Id
<1>6. Task!UnackedHeld' /\ Task!OneCarrier'
  BY <1>0, <1>3 DEF Task!Inv, Task!UnackedHeld, Task!OneCarrier, Task!Id
<1>7. \A t \in ready' : Task!TicketFits(t)'
  <2> SUFFICES ASSUME NEW t \in ready PROVE Task!TicketFits(t)'
    BY <1>0
  <2>1. rows'[t.id] = rows[t.id]
    BY <1>4, <1>5, CarriersCarry
  <2>2. QED
    BY <1>0, <2>1 DEF Task!Inv, Task!TicketFits, Task!Waiting
<1>8. \A w \in Task!Working' : Task!TaskFits(w)'
  <2> SUFFICES ASSUME NEW w \in Task!Working PROVE Task!TaskFits(w)'
    BY <1>3
  <2>1. rows'[Task!Id(w)] = rows[Task!Id(w)] /\ Task!Id(w)' = Task!Id(w)
    BY <1>0, <1>4, <1>5, CarriersCarry DEF Task!Id
  <2>2. Task!TaskFits(w)
    BY DEF Task!Inv
  <2>3. QED
    BY <1>0, <2>1, <2>2 DEF Task!TaskFits, Task!Waiting
<1>9. (Task!AtMostOneDelivery /\ Task!SendsWithinBudget)'
  BY <1>0 DEF Task!Inv, Task!AtMostOneDelivery, Task!SendsWithinBudget
<1>10. Task!RowsConsistent'
  <2>1. Task!RowConsistent(NewRow)
    BY TaskAssumptions DEF Task!RowConsistent, NewRow
  <2>2. QED
    BY <1>0, <2>1 DEF Task!Inv, Task!RowsConsistent
<1>11. QED
  BY <1>1, <1>6, <1>7, <1>8, <1>9, <1>10 DEF Task!Inv

LEMMA PublishKeepsTask ==
  ASSUME BaseInv, Task!Inv, APIStep, NEW r \in Notification, Publishes(r)
  PROVE  Task!Inv'
<1>0. UNCHANGED <<pc, job, session, dlq, logged, attempts, deliveries, faults,
                  rows, unacked>>
  BY APIShape DEF Publishes
<1>1. PICK new :
        /\ ready' = ready \cup {new}
        /\ new.id = r /\ new.retries = 0
  <2> DEFINE t == [id |-> r, seq |-> published[r] + 1,
                   retries |-> 0, countdown |-> 0]
  <2>1. ready' = ready \cup {t} /\ t.id = r /\ t.retries = 0
    BY DEF Publishes
  <2>2. QED
    BY <2>1
<1>2. Task!SafeInv'
  BY SafeAPI
<1>3. /\ published[r] = 0 /\ ~Carried(r)
      /\ attempts[r] = 0 /\ deliveries[r] = 0 /\ rows[r] \in {None, NewRow}
  <2>1. published[r] = 0
    BY DEF Publishes, BaseInv, StepFits
  <2>2. QED
    BY <2>1 DEF BaseInv, WorkFits
<1>4. Task!Working' = Task!Working
  BY <1>0 DEF Task!Working
<1>5. Task!UnackedHeld'
  BY <1>0 DEF Task!Inv, Task!UnackedHeld
<1>6. Task!OneCarrier'
  <2>1. /\ \A t \in ready : t.id # r
        /\ \A w \in Task!Working : Task!Id(w) # r
    BY <1>3, CarriersCarry
  <2>2. \A w \in Task!Working : Task!Id(w)' = Task!Id(w)
    BY <1>0 DEF Task!Id
  <2>3. QED
    BY <1>1, <1>4, <2>1, <2>2 DEF Task!Inv, Task!OneCarrier
<1>7. \A t \in ready : Task!TicketFits(t)'
  BY <1>0 DEF Task!Inv, Task!TicketFits, Task!Waiting
<1>8. Task!TicketFits(new)'
  BY <1>0, <1>1, <1>3, TaskAssumptions, NewRowType DEF Task!TicketFits, Task!Waiting
<1>9. \A w \in Task!Working' : Task!TaskFits(w)'
  BY <1>0, <1>4 DEF Task!Inv, Task!TaskFits, Task!Waiting, Task!Id
<1>10. (Task!AtMostOneDelivery /\ Task!SendsWithinBudget /\ Task!RowsConsistent)'
  BY <1>0
  DEF Task!Inv, Task!AtMostOneDelivery, Task!SendsWithinBudget, Task!RowsConsistent
<1>11. QED
  BY <1>1, <1>2, <1>5, <1>6, <1>7, <1>8, <1>9, <1>10 DEF Task!Inv

LEMMA TaskInit == Init => Task!Inv
<1> SUFFICES ASSUME Init PROVE Task!Inv
  OBVIOUS
<1>1. Task!SafeInv
  BY BaseInit DEF BaseInv
<1>2. Task!Working = {}
  BY DEF Init, Task!Working
<1>3. ready = {} /\ unacked = {}
  BY DEF Init, API!Init
<1>4. Task!UnackedHeld /\ Task!OneCarrier
  BY <1>2, <1>3 DEF Task!UnackedHeld, Task!OneCarrier
<1>5. Task!AtMostOneDelivery /\ Task!SendsWithinBudget /\ Task!RowsConsistent
  BY TaskAssumptions
  DEF Init, API!Init, Task!AtMostOneDelivery, Task!SendsWithinBudget,
      Task!RowsConsistent
<1>6. QED
  BY <1>1, <1>2, <1>3, <1>4, <1>5 DEF Task!Inv

LEMMA TaskStep ==
  ASSUME Task!NoDuplication, BaseInv, Task!Inv, BaseInv', [Next]_vars
  PROVE  Task!Inv'
<1>1. CASE APIStep
  <2>1. CASE Quiet
    BY <1>1, <2>1, APIShape, SameTask DEF Quiet
  <2>2. QED
    BY <1>1, <2>1, APIShape, CommitKeepsTask, PublishKeepsTask
<1>2. CASE DeliveryStep
  BY <1>2, DeliveryNext, TaskAssumptions, Task!NoDupStep DEF BaseInv
<1>3. CASE \/ \E c \in Reader, n \in Notification : GetStatus(c, n)
           \/ \E c \in Reader : GetMetrics(c)
  BY <1>3, ReadShape, SameTask
<1>4. CASE UNCHANGED vars
  BY <1>4, SameTask DEF vars, brokerVars, workerState
<1>5. QED
  BY <1>1, <1>2, <1>3, <1>4 DEF Next

LEMMA TaskInvariant ==
  ASSUME Task!NoDuplication
  PROVE  Spec => [](BaseInv /\ Task!Inv)
<1>1. BaseInv /\ Task!Inv /\ BaseInv' /\ [Next]_vars => Task!Inv'
  BY TaskStep
<1>2. QED
  BY <1>1, TaskInit, BaseInvariant, PTL DEF Spec

\* One key, one message: however often a client repeats a key, however the
\* repetitions race and whatever fails, the recipient gets it at most once.
THEOREM OneKeyOneMessage ==
  ASSUME Task!NoDuplication
  PROVE  Spec => []OneMessagePerKey
<1>1. ASSUME BaseInv, Task!Inv PROVE OneMessagePerKey
  <2> SUFFICES ASSUME NEW r \in Notification, NEW s \in Notification,
                      API!SameRequest(r, s), deliveries[r] > 0, deliveries[s] > 0
               PROVE  r = s /\ deliveries[r] = 1
    BY DEF OneMessagePerKey, API!Request
  <2>1. /\ deliveries[r] \in Nat /\ deliveries[s] \in Nat
        /\ published[r] \in Nat /\ published[s] \in Nat
    BY <1>1 DEF Task!Inv, Task!SafeInv, Task!TypeOK, Task!BrokerTypeOK
  <2>2. rows[r] # None /\ rows[s] # None
    BY <1>1, <2>1 DEF BaseInv, WorkFits
  <2>3. r = s
    BY <1>1, <2>2 DEF BaseInv, UniqueRows
  <2>4. deliveries[r] <= 1
    BY <1>1 DEF Task!Inv, Task!AtMostOneDelivery
  <2>5. QED
    BY <2>1, <2>3, <2>4
<1>2. QED
  BY <1>1, TaskInvariant, PTL

-----------------------------------------------------------------------------
(* What settles stays settled *)

IsSettled(n) == rows[n] # None /\ rows[n].status \in Terminal

\* A task commits from a copy that is the row, and sends what is not settled.
TrueCopy(w) ==
  /\ pc[w] \in {"begin"} \cup Task!Outcome =>
       rows[Task!Id(w)] # None /\ session[w] = rows[Task!Id(w)]
  /\ pc[w] = "send" => rows[Task!Id(w)].status = "PROCESSING"

TrueCopiesOf(n) == \A w \in Worker : Task!Id(w) = n => TrueCopy(w)

TrueCopies == \A w \in Worker : TrueCopy(w)

LEMMA OneCarrierKeepsCopies ==
  ASSUME Task!Inv
  PROVE  TrueCopies
<1>1. \A w \in Worker :
        pc[w] \in {"begin", "send"} \cup Task!Outcome =>
          pc[w] # "load" /\ Task!TaskFits(w)
  BY DEF Task!Inv, Task!Working, Task!Outcome
<1>2. QED
  BY <1>1 DEF TrueCopies, TrueCopy, Task!TaskFits

LEMMA SettledStaysOf ==
  ASSUME BaseInv, [Next]_vars,
         NEW n \in Notification, IsSettled(n), TrueCopiesOf(n)
  PROVE  /\ rows'[n] = rows[n]
         /\ attempts'[n] = attempts[n]
         /\ deliveries'[n] = deliveries[n]
<1>a. /\ rows \in [Notification -> Task!Row \cup {None}]
      /\ attempts \in [Notification -> Nat]
      /\ deliveries \in [Notification -> Nat]
  BY DEF BaseInv, Task!SafeInv, Task!TypeOK
<1>1. CASE UNCHANGED <<rows, attempts, deliveries>>
  BY <1>1
<1>2. CASE APIStep
  <2>1. \A r \in Notification : Commits(r) => rows[r] = None
    BY DEF Commits, BaseInv, StepFits
  <2>2. Quiet \/ \E r \in Notification : Commits(r) \/ Publishes(r)
    BY <1>2, APIShape
  <2>3. rows'[n] = rows[n]
    BY <1>a, <2>1, <2>2 DEF Quiet, Commits, Publishes, IsSettled
  <2>4. QED
    BY <1>2, <2>3, APIShape
\* A commit goes from the status of the row, and nothing leaves SENT or FAILED.
<1>3. ASSUME NEW w \in Worker,
             \/ Task!BeginProcessing(w) \/ Task!CommitSent(w)
             \/ Task!CommitRetry(w) \/ Task!CommitFailed(w)
      PROVE  rows'[n] = rows[n] /\ UNCHANGED <<attempts, deliveries>>
  <2>1. Task!Id(w) = n => session[w] = rows[n] /\ rows[n] # None
    BY <1>3
    DEF TrueCopiesOf, TrueCopy, Task!BeginProcessing, Task!CommitSent,
        Task!CommitRetry, Task!CommitFailed, Task!Outcome
  <2>2. \E status : Task!CanTransition(session[w].status, status)
    BY <1>3
    DEF Task!BeginProcessing, Task!CommitSent, Task!CommitRetry, Task!CommitFailed
  <2>3. Task!Id(w) # n
    BY <2>1, <2>2
    DEF IsSettled, Terminal, Task!CanTransition, Task!Allowed, Task!Status,
        Task!Terminal
  <2>4. QED
    BY <1>a, <1>3, <2>3
    DEF Task!BeginProcessing, Task!CommitSent, Task!CommitRetry, Task!CommitFailed,
        Task!FailedAttempt, Task!Update, Task!historyVars
<1>4. ASSUME NEW w \in Worker, Task!Send(w)
      PROVE  rows' = rows /\ attempts'[n] = attempts[n] /\ deliveries'[n] = deliveries[n]
  <2>1. Task!Id(w) = n => rows[n].status = "PROCESSING"
    BY <1>4 DEF Task!Send, TrueCopiesOf, TrueCopy
  <2>2. Task!Id(w) # n
    BY <2>1 DEF IsSettled, Terminal
  <2>3. QED
    BY <1>a, <1>4, <2>2 DEF Task!Send
<1>5. CASE DeliveryStep
  <2>1. \/ UNCHANGED <<rows, attempts, deliveries>>
        \/ \E w \in Worker :
             \/ Task!BeginProcessing(w) \/ Task!Send(w) \/ Task!CommitSent(w)
             \/ Task!CommitRetry(w) \/ Task!CommitFailed(w)
    BY <1>5, DeliveryNext
    DEF Task!Next, Task!WorkerStep, Task!FaultStep, Task!Idle, Task!vars,
        Task!historyVars, Task!Receive, Task!LoadMissing, Task!LoadSettled,
        Task!LoadOpen, Task!Retry, Task!RetryRefused, Task!PublishDeadLetter,
        Task!Ack, Task!RecordDeadLetter, Task!Restore, Task!Crash,
        Task!Redeliver, Task!TaskFails, Task!RetryPublishFails,
        Task!DeadLetterPublishFails
  <2>2. QED
    BY <1>1, <1>3, <1>4, <2>1
<1>6. CASE \/ \E c \in Reader, m \in Notification : GetStatus(c, m)
           \/ \E c \in Reader : GetMetrics(c)
  BY <1>6, ReadShape
<1>7. CASE UNCHANGED vars
  BY <1>7 DEF vars, workerState
<1>8. QED
  BY <1>2, <1>5, <1>6, <1>7 DEF Next

LEMMA SettledStays ==
  ASSUME BaseInv, TrueCopies, [Next]_vars,
         NEW n \in Notification, IsSettled(n)
  PROVE  /\ rows'[n] = rows[n]
         /\ attempts'[n] = attempts[n]
         /\ deliveries'[n] = deliveries[n]
<1>1. TrueCopiesOf(n)
  BY DEF TrueCopies, TrueCopiesOf
<1>2. QED
  BY <1>1, SettledStaysOf

\* What clients know of a notification once it is settled.
AnswersOf(n) ==
  /\ told[n] \in Terminal => IsSettled(n) /\ rows[n].status = told[n]
  /\ \A r \in Notification :
       (API!IsAccepted(r) /\ reply[r].id = n /\ reply[r].status \in Terminal)
         => IsSettled(n) /\ rows[n].status = reply[r].status

AnswersInv == \A n \in Notification : AnswersOf(n)

LEMMA AnswersInit == Init => AnswersInv
<1>1. None \notin Terminal
  BY EngineAssumption DEF Terminal, Status
<1>2. ASSUME Init, NEW n \in Notification PROVE AnswersOf(n)
  <2>1. told[n] = None /\ \A r \in Notification : reply[r] = None
    BY <1>2 DEF Init, API!Init, API!Request
  <2>2. QED
    BY <1>1, <2>1 DEF AnswersOf, API!IsAccepted
<1>3. QED
  BY <1>2 DEF AnswersInv

\* A 202 that says SENT or FAILED read it in the row, in the same step.
LEMMA NewAnswer ==
  ASSUME BaseInv, APIStep, NEW r \in Notification,
         reply'[r] # reply[r], reply'[r] # None, reply'[r].code = 202,
         reply'[r].status \in Terminal
  PROVE  /\ reply'[r].id \in Notification
         /\ rows[reply'[r].id] # None
         /\ rows[reply'[r].id].status = reply'[r].status
         /\ rows' = rows
<1>a. reply \in [Notification -> API!Accepted \cup API!Refused \cup {None}]
  BY DEF BaseInv, RequestTypes
<1>1. PICK s \in Notification : API!RequestStep(s) \/ API!RequestFaultStep(s)
  BY DEF APIStep, API!Request
<1>2. \/ UNCHANGED reply
      \/ \E code \in {500, 503} : reply' = [reply EXCEPT ![s] = [code |-> code]]
      \/ reply' = [reply EXCEPT ![s] = [code |-> 202, id |-> s, status |-> "PENDING"]]
      \/ /\ rows' = rows
         /\ step[s] \in {"lookup", "recover"}
         /\ \E n \in API!FindByKey(s) :
              reply' = [reply EXCEPT ![s] =
                          [code |-> 202, id |-> n, status |-> rows[n].status]]
  BY <1>1
  DEF API!RequestStep, API!RequestFaultStep, API!Replay, API!LookupMisses,
      API!CommitRow, API!LoseRace, API!ReadWinner, API!Reraise,
      API!Enqueue, API!EnqueueFails, API!CommitFails, API!CommitRefused,
      API!SelectFails, API!RequestDies, API!ReplyWith,
      API!Finish, API!NewRow
<1>3. ASSUME NEW code \in {500, 503}, reply' = [reply EXCEPT ![s] = [code |-> code]]
      PROVE  FALSE
  <2>1. r = s /\ reply'[r] = [code |-> code]
    BY <1>a, <1>3
  <2>2. reply'[r].code # 202
    BY <2>1
  <2>3. QED
    BY <2>2
<1>4. ASSUME reply' = [reply EXCEPT ![s] =
                         [code |-> 202, id |-> s, status |-> "PENDING"]]
      PROVE  FALSE
  BY <1>a, <1>4 DEF Terminal
<1>5. ASSUME NEW n \in API!FindByKey(s),
             reply' = [reply EXCEPT ![s] =
                         [code |-> 202, id |-> n, status |-> rows[n].status]]
      PROVE  /\ reply'[r].id = n /\ n \in Notification /\ rows[n] # None
             /\ reply'[r].status = rows[n].status
  BY <1>a, <1>5 DEF API!FindByKey
<1>6. QED
  BY <1>2, <1>3, <1>4, <1>5

LEMMA AnswersOfStep ==
  ASSUME BaseInv, [Next]_vars,
         NEW n \in Notification, TrueCopiesOf(n), AnswersOf(n)
  PROVE  AnswersOf(n)'
<1>1. IsSettled(n) => rows[n] # None /\ rows'[n] = rows[n]
  BY SettledStaysOf DEF IsSettled
<1>2. ASSUME told'[n] \in Terminal
      PROVE  rows'[n] # None /\ rows'[n].status = told'[n]
  <2>1. CASE told'[n] = told[n]
    BY <1>1, <1>2, <2>1 DEF AnswersOf
  <2>2. CASE told'[n] # told[n]
    <3>1. PICK c \in Reader, m \in Notification : GetStatus(c, m)
      BY <2>2, APIShape
      DEF Next, vars, DeliveryStep, clientState, GetMetrics
    <3>2. m = n /\ told'[n] = rows[n].status /\ rows[n] # None /\ rows' = rows
      BY <2>2, <3>1 DEF GetStatus, Visible, BaseInv
    <3>3. QED
      BY <1>2, <3>2 DEF IsSettled
  <2>3. QED
    BY <2>1, <2>2
<1>3. ASSUME NEW r \in Notification, reply'[r] # None, reply'[r].code = 202,
             reply'[r].id = n, reply'[r].status \in Terminal
      PROVE  rows'[n] # None /\ rows'[n].status = reply'[r].status
  <2>1. CASE reply'[r] = reply[r]
    BY <1>1, <1>3, <2>1 DEF AnswersOf, API!IsAccepted
  <2>2. CASE reply'[r] # reply[r]
    <3>1. APIStep
      BY <2>2, ReadShape DEF Next, vars, requestState, DeliveryStep
    <3>2. QED
      BY <1>3, <2>2, <3>1, NewAnswer
  <2>3. QED
    BY <2>1, <2>2
<1>4. QED
  BY <1>2, <1>3 DEF AnswersOf, IsSettled, API!IsAccepted

LEMMA AnswersStep ==
  ASSUME BaseInv, TrueCopies, AnswersInv, [Next]_vars
  PROVE  AnswersInv'
<1>1. ASSUME NEW n \in Notification PROVE AnswersOf(n)'
  <2>1. TrueCopiesOf(n) /\ AnswersOf(n)
    BY DEF TrueCopies, TrueCopiesOf, AnswersInv
  <2>2. QED
    BY <2>1, AnswersOfStep
<1>2. QED
  BY <1>1 DEF AnswersInv

LEMMA AnswersFinal ==
  ASSUME BaseInv, AnswersInv
  PROVE  AnswersAreFinal
<1>1. \A r \in Notification : API!IsAccepted(r) => reply[r].id \in Notification
  BY DEF BaseInv, RequestTypes, API!IsAccepted, API!Accepted, API!Refused, API!Request
<1>2. QED
  BY <1>1 DEF AnswersInv, AnswersOf, AnswersAreFinal, API!Request

\* A client told SENT or FAILED, by a poll or by a 202, is never told
\* anything else, for any clients, workers, providers and polling.
THEOREM AnswersStand ==
  ASSUME Task!NoDuplication
  PROVE  Spec => []AnswersAreFinal
<1>1. BaseInv /\ Task!Inv /\ AnswersInv /\ [Next]_vars => AnswersInv'
  BY AnswersStep, OneCarrierKeepsCopies
<1>2. BaseInv /\ AnswersInv => AnswersAreFinal
  BY AnswersFinal
<1>3. QED
  BY <1>1, <1>2, AnswersInit, TaskInvariant, PTL DEF Spec

-----------------------------------------------------------------------------
(* The counts of GET /metrics *)

RowsOf(c, status) == {n \in Notification : Visible(c, n) /\ rows[n].status = status}

CountTypes == counted \in [Client -> [sent : Nat, failed : Nat]]

\* A count shown is of rows that are still there, since none of them leaves
\* its status.
CountsInv ==
  \A c \in Client :
    /\ counted[c].sent <= Cardinality(RowsOf(c, "SENT"))
    /\ counted[c].failed <= Cardinality(RowsOf(c, "FAILED"))

\* A FAILED row was tried and did not arrive.
FailuresAreTrue ==
  \A n \in Notification :
    (rows[n] # None /\ rows[n].status = "FAILED")
      => attempts[n] > 0 /\ deliveries[n] = 0

LEMMA Finite ==
  ASSUME IsFiniteSet(Notification), NEW S \in SUBSET Notification
  PROVE  IsFiniteSet(S) /\ Cardinality(S) \in Nat
<1>1. IsFiniteSet(S)
  BY FS_Subset
<1>2. QED
  BY <1>1, FS_CardinalityType

LEMMA CountIs ==
  ASSUME NEW c
  PROVE  CountSentAndFailed(c) = [sent |-> Cardinality(RowsOf(c, "SENT")),
                                  failed |-> Cardinality(RowsOf(c, "FAILED"))]
  BY DEF CountSentAndFailed, RowsOf

\* Only GET /metrics changes what a client was shown.
LEMMA CountShape ==
  ASSUME [Next]_vars
  PROVE  \/ counted' = counted
         \/ /\ rows' = rows
            /\ \E c \in Reader :
                 counted' = [counted EXCEPT ![c] = CountSentAndFailed(c)]
  BY APIShape
  DEF Next, vars, DeliveryStep, clientState, GetStatus, GetMetrics

LEMMA CountTypeInit == Init => CountTypes
  BY DEF Init, CountTypes

LEMMA CountTypeStep ==
  ASSUME IsFiniteSet(Notification), CountTypes, [Next]_vars
  PROVE  CountTypes'
<1>1. \A c, s : RowsOf(c, s) \in SUBSET Notification
  BY DEF RowsOf
<1>2. \A c : CountSentAndFailed(c) \in [sent : Nat, failed : Nat]
  BY <1>1, CountIs, Finite
<1>3. QED
  BY <1>2, CountShape DEF CountTypes

\* Every variable of the engine keeps its type, whatever faults strike.
THEOREM TypeCorrect ==
  ASSUME IsFiniteSet(Notification)
  PROVE  Spec => []TypeOK
<1>1. CountTypes /\ [Next]_vars => CountTypes'
  BY CountTypeStep
<1>2. ASSUME BaseInv, CountTypes PROVE TypeOK
  <2>1. Delivery!TypeOK
    BY <1>2, SameType DEF BaseInv, Task!SafeInv
  <2>2. API!TypeOK
    BY <1>2
    DEF BaseInv, RequestTypes, Task!SafeInv, Task!TypeOK, Task!BrokerTypeOK,
        Task!Ticket, Task!Row, Task!Status, API!TypeOK, API!BrokerTypeOK,
        API!Ticket, API!Row, API!Status, API!Request
  <2>3. QED
    BY <1>2, <2>1, <2>2 DEF TypeOK, BaseInv, CountTypes
<1>3. QED
  BY <1>1, <1>2, CountTypeInit, BaseInvariant, PTL DEF Spec

LEMMA CountsInit == Init => CountsInv /\ FailuresAreTrue
<1> SUFFICES ASSUME Init PROVE CountsInv /\ FailuresAreTrue
  OBVIOUS
<1>1. \A c : RowsOf(c, "SENT") = {} /\ RowsOf(c, "FAILED") = {}
  BY DEF Init, API!Init, RowsOf, Visible
<1>2. QED
  BY <1>1, FS_EmptySet DEF Init, API!Init, CountsInv, FailuresAreTrue

\* What was counted stays there to be counted.
LEMMA RowsOfGrow ==
  ASSUME BaseInv, TrueCopies, [Next]_vars,
         IsFiniteSet(Notification), NEW c \in Client, NEW s \in Terminal
  PROVE  Cardinality(RowsOf(c, s)) <= Cardinality(RowsOf(c, s)')
<1>1. RowsOf(c, s) \subseteq RowsOf(c, s)'
  BY SettledStays DEF RowsOf, Visible, IsSettled
<1>2. IsFiniteSet(RowsOf(c, s)')
  <2>1. RowsOf(c, s)' \in SUBSET Notification
    BY DEF RowsOf
  <2>2. QED
    BY <2>1, Finite
<1>3. QED
  BY <1>1, <1>2, FS_Subset

LEMMA FailedHistory ==
  ASSUME BaseInv, Task!Inv, FailuresAreTrue, [Next]_vars,
         NEW n \in Notification, rows'[n] # None, rows'[n].status = "FAILED"
  PROVE  attempts'[n] > 0 /\ deliveries'[n] = 0
<1>a. /\ rows \in [Notification -> Task!Row \cup {None}]
      /\ attempts \in [Notification -> Nat]
  BY DEF BaseInv, Task!SafeInv, Task!TypeOK
<1>1. CASE rows[n] # None /\ rows[n].status = "FAILED"
  BY <1>1, SettledStays, OneCarrierKeepsCopies DEF FailuresAreTrue, IsSettled, Terminal
<1>2. CASE ~(rows[n] # None /\ rows[n].status = "FAILED")
  <2>1. rows' # rows
    BY <1>2
  <2>2. ~APIStep
    <3>1. ASSUME NEW r \in Notification, Commits(r) PROVE FALSE
      BY <1>a, <1>2, <3>1, NewRowType DEF Commits
    <3>2. QED
      BY <2>1, <3>1, APIShape DEF Quiet, Publishes
  <2>3. DeliveryStep
    BY <2>1, <2>2, ReadShape DEF Next, vars
  <2>4. PICK w \in Worker :
          \/ Task!BeginProcessing(w) \/ Task!CommitSent(w)
          \/ Task!CommitRetry(w) \/ Task!CommitFailed(w)
    BY <2>1, <2>3, DeliveryNext
    DEF Task!Next, Task!WorkerStep, Task!FaultStep, Task!Idle, Task!vars,
        Task!Receive, Task!LoadMissing, Task!LoadSettled, Task!LoadOpen,
        Task!Send, Task!Retry, Task!RetryRefused, Task!PublishDeadLetter,
        Task!Ack, Task!RecordDeadLetter, Task!Restore, Task!Crash,
        Task!Redeliver, Task!TaskFails, Task!RetryPublishFails,
        Task!DeadLetterPublishFails
  <2>5. /\ Task!TaskFits(w) /\ job[w].retries \in Nat
        /\ session[w] = rows[Task!Id(w)]
        /\ Task!Id(w) \in Notification /\ rows[Task!Id(w)] \in Task!Row
    BY <2>4, TaskAssumptions, Task!CommitFacts
  <2>6. /\ Task!Id(w) = n
        /\ UNCHANGED <<attempts, deliveries>>
    BY <1>a, <1>2, <2>4
    DEF Task!BeginProcessing, Task!CommitSent, Task!CommitRetry, Task!CommitFailed,
        Task!FailedAttempt, Task!Update, Task!historyVars
  <2>7. CASE Task!BeginProcessing(w)
    BY <1>a, <2>5, <2>6, <2>7, TaskAssumptions, Task!BegunRow
    DEF Task!BeginProcessing, Task!Update
  <2>8. CASE Task!CommitSent(w)
    BY <1>a, <2>5, <2>6, <2>8, TaskAssumptions, Task!SentRowFacts
    DEF Task!CommitSent, Task!Update
  <2>9. CASE Task!CommitRetry(w)
    <3>1. PICK written :
            rows' = [rows EXCEPT ![n] =
                       Task!FailedRow(rows[n], rows[n], "PENDING", written)]
      BY <2>5, <2>6, <2>9 DEF Task!CommitRetry, Task!FailedAttempt, Task!Update
    <3>2. "PENDING" \in Task!Status
      BY DEF Task!Status
    <3>3. Task!FailedRow(rows[n], rows[n], "PENDING", written).status = "PENDING"
      BY <2>5, <2>6, <3>2, TaskAssumptions, Task!FailedRowFacts
    <3>4. QED
      BY <1>a, <3>1, <3>3
  <2>10. CASE Task!CommitFailed(w)
    <3>1. pc[w] \in {"transient", "permanent"}
      BY <2>10 DEF Task!CommitFailed
    <3>2. attempts[n] = job[w].retries + 1 /\ deliveries[n] = 0
      BY <2>5, <2>6, <3>1 DEF Task!TaskFits, Task!Outcome
    <3>3. QED
      BY <2>5, <2>6, <3>2
  <2>11. QED
    BY <2>4, <2>7, <2>8, <2>9, <2>10
<1>3. QED
  BY <1>1, <1>2

LEMMA CountsStep ==
  ASSUME IsFiniteSet(Notification),
         BaseInv, TrueCopies, CountTypes, CountsInv, [Next]_vars
  PROVE  /\ CountsInv'
         /\ \A c \in Client :
              /\ counted'[c].sent >= counted[c].sent
              /\ counted'[c].failed >= counted[c].failed
<1> DEFINE Sent(c) == Cardinality(RowsOf(c, "SENT"))
           Failed(c) == Cardinality(RowsOf(c, "FAILED"))
<1>1. \A c \in Client :
        /\ Sent(c) \in Nat /\ Failed(c) \in Nat
        /\ Sent(c)' \in Nat /\ Failed(c)' \in Nat
        /\ Sent(c) <= Sent(c)' /\ Failed(c) <= Failed(c)'
  <2>1. \A c, s : RowsOf(c, s) \in SUBSET Notification
    BY DEF RowsOf
  <2>2. \A c, s : RowsOf(c, s)' \in SUBSET Notification
    BY DEF RowsOf
  <2>3. "SENT" \in Terminal /\ "FAILED" \in Terminal
    BY DEF Terminal
  <2>4. QED
    BY <2>1, <2>2, <2>3, Finite, RowsOfGrow
<1>2. \A c \in Client :
        /\ counted[c].sent \in Nat /\ counted[c].failed \in Nat
        /\ counted[c].sent <= Sent(c) /\ counted[c].failed <= Failed(c)
  BY DEF CountTypes, CountsInv
<1>3. \A c \in Client :
        \/ counted'[c] = counted[c]
        \/ counted'[c] = [sent |-> Sent(c), failed |-> Failed(c)]
  BY CountShape, CountIs DEF CountTypes
<1> HIDE DEF Sent, Failed
<1>4. ASSUME NEW c \in Client
      PROVE  /\ counted'[c].sent >= counted[c].sent
             /\ counted'[c].failed >= counted[c].failed
             /\ counted'[c].sent <= Sent(c)'
             /\ counted'[c].failed <= Failed(c)'
  <2>1. CASE counted'[c] = counted[c]
    BY <1>1, <1>2, <2>1
  <2>2. CASE counted'[c] = [sent |-> Sent(c), failed |-> Failed(c)]
    BY <1>1, <1>2, <2>2
  <2>3. QED
    BY <1>3, <2>1, <2>2
<1>5. CountsInv'
  BY <1>4 DEF CountsInv, Sent, Failed
<1>6. QED
  BY <1>4, <1>5

LEMMA CountsInvariant ==
  ASSUME Task!NoDuplication, IsFiniteSet(Notification)
  PROVE  Spec => [](BaseInv /\ Task!Inv /\ CountTypes /\ CountsInv /\ FailuresAreTrue)
<1>1. BaseInv /\ Task!Inv /\ CountTypes /\ CountsInv /\ [Next]_vars => CountsInv'
  BY CountsStep, OneCarrierKeepsCopies
<1>2. CountTypes /\ [Next]_vars => CountTypes'
  BY CountTypeStep
<1>3. BaseInv /\ Task!Inv /\ FailuresAreTrue /\ [Next]_vars => FailuresAreTrue'
  BY FailedHistory DEF FailuresAreTrue
<1>4. QED
  BY <1>1, <1>2, <1>3, CountsInit, CountTypeInit, TaskInvariant, PTL DEF Spec

\* What has been counted is still there, and what is there is true.
LEMMA CountsAreTrue ==
  ASSUME IsFiniteSet(Notification),
         BaseInv, CountTypes, CountsInv, FailuresAreTrue
  PROVE  MetricsAreTrue
<1> SUFFICES ASSUME NEW c \in Client
             PROVE  LET Mine == {n \in Notification : Owner[n] = c} IN
                      /\ counted[c].sent <=
                           Cardinality({n \in Mine : deliveries[n] > 0})
                      /\ counted[c].failed <=
                           Cardinality({n \in Mine : attempts[n] > 0 /\ deliveries[n] = 0})
  BY DEF MetricsAreTrue
<1> DEFINE Mine == {n \in Notification : Owner[n] = c}
           Arrived == {n \in Mine : deliveries[n] > 0}
           Lost == {n \in Mine : attempts[n] > 0 /\ deliveries[n] = 0}
<1>1. RowsOf(c, "SENT") \subseteq Arrived
  BY DEF RowsOf, Visible, BaseInv, Task!SafeInv, Task!SentWasDelivered
<1>2. RowsOf(c, "FAILED") \subseteq Lost
  BY DEF RowsOf, Visible, FailuresAreTrue
<1>3. Arrived \in SUBSET Notification /\ Lost \in SUBSET Notification
  OBVIOUS
<1>4. /\ counted[c].sent \in Nat /\ counted[c].failed \in Nat
      /\ counted[c].sent <= Cardinality(RowsOf(c, "SENT"))
      /\ counted[c].failed <= Cardinality(RowsOf(c, "FAILED"))
  BY DEF CountTypes, CountsInv
<1>5. RowsOf(c, "SENT") \in SUBSET Notification
      /\ RowsOf(c, "FAILED") \in SUBSET Notification
  BY DEF RowsOf
<1> HIDE DEF Arrived, Lost
<1>6. /\ Cardinality(RowsOf(c, "SENT")) <= Cardinality(Arrived)
      /\ Cardinality(RowsOf(c, "FAILED")) <= Cardinality(Lost)
  BY <1>1, <1>2, <1>3, Finite, FS_Subset
<1>7. /\ Cardinality(RowsOf(c, "SENT")) \in Nat /\ Cardinality(Arrived) \in Nat
      /\ Cardinality(RowsOf(c, "FAILED")) \in Nat /\ Cardinality(Lost) \in Nat
  BY <1>3, <1>5, Finite
<1>8. counted[c].sent <= Cardinality(Arrived) /\ counted[c].failed <= Cardinality(Lost)
  BY <1>4, <1>6, <1>7
<1>9. QED
  BY <1>8 DEF Arrived, Lost

\* GET /metrics never counts a SENT that did not arrive, nor a FAILED that
\* arrived or was not tried, for any clients, requests and providers.
THEOREM MetricsTrue ==
  ASSUME Task!NoDuplication, IsFiniteSet(Notification)
  PROVE  Spec => []MetricsAreTrue
<1>1. BaseInv /\ CountTypes /\ CountsInv /\ FailuresAreTrue => MetricsAreTrue
  BY CountsAreTrue
<1>2. QED
  BY <1>1, CountsInvariant, PTL

\* Between two readings of GET /metrics no count goes down.
THEOREM MetricsOnlyGrow ==
  ASSUME Task!NoDuplication, IsFiniteSet(Notification)
  PROVE  Spec => MetricsNeverShrink
<1> DEFINE Grow == \A c \in Client :
                     /\ counted'[c].sent >= counted[c].sent
                     /\ counted'[c].failed >= counted[c].failed
<1>1. BaseInv /\ Task!Inv /\ CountTypes /\ CountsInv /\ [Next]_vars => [Grow]_counted
  BY CountsStep, OneCarrierKeepsCopies
<1>2. QED
  BY <1>1, CountsInvariant, PTL DEF Spec, MetricsNeverShrink
-----------------------------------------------------------------------------
(* One task slot.                                                          *)
(*                                                                         *)
(* Tickets may be delivered again and tasks may die: with one slot the     *)
(* copies stay true, and with them what clients were told.                 *)

LEMMA SameCopies ==
  ASSUME Task!CopyInv,
         UNCHANGED <<ready, unacked, published, rows, pc, job, session, dlq,
                     logged, attempts, deliveries, faults>>
  PROVE  Task!CopyInv'
<1>1. Task!SafeInv'
  BY SameSafe DEF Task!CopyInv
<1>2. QED
  BY <1>1 DEF Task!CopyInv, Task!CopyFits, Task!Behind, Task!Id

\* A row that a request commits has neither ticket nor task, and the ticket
\* that it publishes has not been retried.
LEMMA RequestsKeepCopies ==
  ASSUME BaseInv, Task!CopyInv, APIStep
  PROVE  Task!CopyInv'
<1>a. /\ UNCHANGED <<pc, job, session, dlq, logged, attempts, deliveries, faults>>
      /\ Task!SafeInv'
      /\ rows \in [Notification -> Task!Row \cup {None}]
      /\ published \in [Notification -> Nat]
  BY APIShape, SafeAPI DEF BaseInv, Task!SafeInv, Task!TypeOK, Task!BrokerTypeOK
<1>1. CASE Quiet
  BY <1>1, <1>a, SameCopies DEF Quiet
<1>2. ASSUME NEW r \in Notification, Commits(r) PROVE Task!CopyInv'
  <2>1. ~Carried(r) /\ rows' = [rows EXCEPT ![r] = NewRow]
        /\ UNCHANGED <<ready, unacked>>
    BY <1>2 DEF Commits, BaseInv, StepFits, WorkFits
  <2>2. /\ \A t \in ready \cup unacked : t.id # r
        /\ \A w \in Worker : pc[w] # "idle" => job[w].id # r
    BY <2>1 DEF Carried
  <2>3. \A n : n # r => rows'[n] = rows[n]
    BY <1>a, <2>1
  <2>4. \A t \in ready' \cup unacked' : Task!Behind(t)'
    BY <2>1, <2>2, <2>3 DEF Task!CopyInv, Task!Behind
  <2>5. \A w \in Worker : Task!CopyFits(w)'
    <3> SUFFICES ASSUME NEW w \in Worker PROVE Task!CopyFits(w)'
      OBVIOUS
    <3>1. CASE pc[w] = "idle"
      BY <1>a, <3>1 DEF Task!CopyFits, Task!Outcome
    <3>2. CASE pc[w] # "idle"
      <4>1. rows'[job[w].id] = rows[job[w].id]
        BY <2>2, <2>3, <3>2
      <4>2. Task!CopyFits(w)
        BY DEF Task!CopyInv
      <4>3. QED
        BY <1>a, <4>1, <4>2 DEF Task!CopyFits, Task!Behind, Task!Id
    <3>3. QED
      BY <3>1, <3>2
  <2>6. QED
    BY <1>a, <2>4, <2>5 DEF Task!CopyInv
<1>3. ASSUME NEW r \in Notification, Publishes(r) PROVE Task!CopyInv'
  <2> DEFINE first == [id |-> r, seq |-> published[r] + 1,
                       retries |-> 0, countdown |-> 0]
  <2>1. ready' = ready \cup {first} /\ UNCHANGED <<rows, unacked>>
    BY <1>3 DEF Publishes
  <2>2. Task!Behind(first)
    <3>1. rows[r] # None => rows[r].retry_count \in Nat
      BY <1>a DEF Task!Row
    <3>2. QED
      BY <3>1 DEF Task!Behind
  <2> HIDE DEF first
  <2>3. \A t \in ready' \cup unacked' : Task!Behind(t)'
    BY <2>1, <2>2 DEF Task!CopyInv, Task!Behind
  <2>4. \A w \in Worker : Task!CopyFits(w)'
    BY <1>a, <2>1 DEF Task!CopyInv, Task!CopyFits, Task!Behind, Task!Id
  <2>5. QED
    BY <1>a, <2>3, <2>4 DEF Task!CopyInv
<1>4. QED
  BY <1>1, <1>2, <1>3, APIShape

LEMMA CopyInit == Init => Task!CopyInv
<1>1. Init => Task!SafeInv /\ ready = {} /\ unacked = {}
  BY BaseInit DEF BaseInv, Init, API!Init
<1>2. Init => \A w \in Worker : Task!CopyFits(w)
  BY DEF Init, Task!CopyFits, Task!Outcome
<1>3. QED
  BY <1>1, <1>2 DEF Task!CopyInv

LEMMA CopyStep ==
  ASSUME Task!OneWorker, BaseInv, Task!CopyInv, BaseInv', [Next]_vars
  PROVE  Task!CopyInv'
<1>1. CASE APIStep
  BY <1>1, RequestsKeepCopies
<1>2. CASE DeliveryStep
  BY <1>2, DeliveryNext, TaskAssumptions, Task!CopyStep DEF BaseInv
<1>3. CASE \/ \E c \in Reader, n \in Notification : GetStatus(c, n)
           \/ \E c \in Reader : GetMetrics(c)
  BY <1>3, ReadShape, SameCopies
<1>4. CASE UNCHANGED vars
  BY <1>4, SameCopies DEF vars, brokerVars, workerState
<1>5. QED
  BY <1>1, <1>2, <1>3, <1>4 DEF Next

LEMMA OneWorkerKeepsCopies ==
  ASSUME Task!CopyInv
  PROVE  TrueCopies
<1> SUFFICES ASSUME NEW w \in Worker
             PROVE  /\ pc[w] \in {"begin"} \cup Task!Outcome =>
                         rows[Task!Id(w)] # None /\ session[w] = rows[Task!Id(w)]
                    /\ pc[w] = "send" => rows[Task!Id(w)].status = "PROCESSING"
  BY DEF TrueCopies, TrueCopy
<1>1. Task!CopyFits(w)
  BY DEF Task!CopyInv
<1>2. pc[w] \in {"begin"} \cup Task!Outcome => rows[Task!Id(w)] # None
  BY DEF Task!CopyInv, Task!SafeInv, Task!SessionLoaded, Task!Outcome
<1>3. QED
  BY <1>1, <1>2 DEF Task!CopyFits

LEMMA CopyInvariant ==
  ASSUME Task!OneWorker
  PROVE  Spec => [](BaseInv /\ Task!CopyInv)
<1>1. BaseInv /\ Task!CopyInv /\ BaseInv' /\ [Next]_vars => Task!CopyInv'
  BY CopyStep
<1>2. QED
  BY <1>1, CopyInit, BaseInvariant, PTL DEF Spec

\* With one task slot a client told SENT or FAILED is never told anything
\* else, whatever dies or is delivered again: the status check of dispatch
\* stops a ticket that comes back after its notification has settled.
THEOREM AnswersStandByOne ==
  ASSUME Task!OneWorker
  PROVE  Spec => []AnswersAreFinal
<1>1. BaseInv /\ Task!CopyInv /\ AnswersInv /\ [Next]_vars => AnswersInv'
  BY AnswersStep, OneWorkerKeepsCopies
<1>2. BaseInv /\ AnswersInv => AnswersAreFinal
  BY AnswersFinal
<1>3. QED
  BY <1>1, <1>2, AnswersInit, CopyInvariant, PTL DEF Spec

\* ... and the counts of GET /metrics never go down.
THEOREM MetricsOnlyGrowByOne ==
  ASSUME Task!OneWorker, IsFiniteSet(Notification)
  PROVE  Spec => MetricsNeverShrink
<1> DEFINE Grow == \A c \in Client :
                     /\ counted'[c].sent >= counted[c].sent
                     /\ counted'[c].failed >= counted[c].failed
<1>1. BaseInv /\ Task!CopyInv /\ CountTypes /\ CountsInv /\ [Next]_vars =>
        CountsInv' /\ [Grow]_counted
  BY CountsStep, OneWorkerKeepsCopies
<1>2. CountTypes /\ [Next]_vars => CountTypes'
  BY CountTypeStep
<1>3. QED
  BY <1>1, <1>2, CountsInit, CountTypeInit, CopyInvariant, PTL
  DEF Spec, MetricsNeverShrink

\* A row that a request commits has cost nothing yet.
LEMMA RequestsKeepCost ==
  ASSUME BaseInv, Task!ColumnsInv, Task!CostInv, APIStep
  PROVE  Task!ColumnsInv' /\ Task!CostInv'
<1>a. /\ UNCHANGED <<pc, job, attempts, deliveries, faults>>
      /\ rows \in [Notification -> Task!Row \cup {None}]
  BY APIShape DEF BaseInv, Task!SafeInv, Task!TypeOK
<1>1. ASSUME rows' = rows PROVE Task!ColumnsInv' /\ Task!CostInv'
  <2>1. Task!Killed' = Task!Killed
    BY <1>a DEF Task!Killed
  <2>2. \A n \in Notification :
          /\ Task!Counted(n)' = Task!Counted(n)
          /\ Task!Uncounted(n)' <=> Task!Uncounted(n)
          /\ Task!Delivered(n)' <=> Task!Delivered(n)
    BY <1>1, <1>a DEF Task!Counted, Task!Uncounted, Task!Delivered, Task!Id
  <2>3. QED
    BY <1>1, <1>a, <2>1, <2>2 DEF Task!ColumnsInv, Task!CostInv, Task!One
<1>2. ASSUME NEW r \in Notification, Commits(r)
      PROVE  Task!ColumnsInv' /\ Task!CostInv'
  <2>1. rows' = [rows EXCEPT ![r] = NewRow] /\ rows[r] = None
    BY <1>2 DEF Commits, BaseInv, StepFits
  <2>2. Task!RowConsistent(NewRow) /\ Task!HasBudget(NewRow)
    BY TaskAssumptions DEF Task!RowConsistent, Task!HasBudget, NewRow
  <2>3. Task!ColumnsInv'
    BY <1>a, <2>1, <2>2 DEF Task!ColumnsInv
  <2>4. Task!Killed' = Task!Killed
    BY <1>a DEF Task!Killed
  <2>5. \A n \in Notification :
          /\ Task!Counted(n)' = Task!Counted(n)
          /\ Task!Uncounted(n)' <=> Task!Uncounted(n)
          /\ Task!Delivered(n)' <=> Task!Delivered(n)
    BY <1>a, <2>1, NewRowType
    DEF Task!Counted, Task!Uncounted, Task!Delivered, Task!Id
  <2>6. Task!CostInv'
    BY <1>a, <2>4, <2>5 DEF Task!CostInv, Task!One
  <2>7. QED
    BY <2>3, <2>6
<1>3. QED
  BY <1>1, <1>2, APIShape DEF Quiet, Publishes

LEMMA CostInvariant ==
  ASSUME Task!OneWorker
  PROVE  Spec => [](BaseInv /\ Task!CopyInv /\ Task!ColumnsInv /\ Task!CostInv)
<1>1. Init => Task!ColumnsInv /\ Task!CostInv
  <2> SUFFICES ASSUME Init PROVE Task!ColumnsInv /\ Task!CostInv
    OBVIOUS
  <2>1. /\ \A n \in Notification :
             rows[n] = None /\ attempts[n] = 0 /\ deliveries[n] = 0
        /\ faults = 0
    BY DEF Init, API!Init
  <2>2. ASSUME NEW n \in Notification
        PROVE  /\ attempts[n] <= Task!Counted(n) + Task!One(Task!Uncounted(n))
                                   + Task!Killed
               /\ deliveries[n] <= Task!One(Task!Delivered(n)) + Task!Killed
    <3>1. attempts[n] = 0 /\ deliveries[n] = 0 /\ Task!Counted(n) = 0 /\ Task!Killed = 0
      BY <2>1 DEF Task!Counted, Task!Killed
    <3>2. /\ Task!One(Task!Uncounted(n)) \in {0, 1}
          /\ Task!One(Task!Delivered(n)) \in {0, 1}
      BY DEF Task!One
    <3>3. QED
      BY <3>1, <3>2
  <2>3. Task!CostInv
    BY <2>2 DEF Task!CostInv
  <2>4. QED
    BY <2>1, <2>3 DEF Task!ColumnsInv
<1>2. ASSUME BaseInv, Task!CopyInv, Task!ColumnsInv, Task!CostInv, [Next]_vars
      PROVE  Task!ColumnsInv' /\ Task!CostInv'
  <2>1. CASE APIStep
    BY <1>2, <2>1, RequestsKeepCost
  <2>2. CASE ~APIStep
    <3>1. ASSUME ~DeliveryStep PROVE UNCHANGED Task!vars
      <4>1. UNCHANGED <<ready, unacked, published, rows, pc, job, session, dlq,
                        logged, attempts, deliveries, faults>>
        BY <1>2, <2>2, <3>1, ReadShape DEF Next, vars, brokerVars, workerState
      <4>2. QED
        BY <4>1
        DEF Task!vars, Task!brokerVars, Task!workerVars, Task!dlqVars,
            Task!historyVars
    <3>2. [Task!Next]_(Task!vars)
      BY <3>1, DeliveryNext
    <3>3. QED
      BY <1>2, <3>2, TaskAssumptions, Task!ColumnsStep, Task!CostStep
  <2>3. QED
    BY <2>1, <2>2
<1>3. QED
  BY <1>1, <1>2, CopyInvariant, PTL DEF Spec

\* With one task slot that never dies a key still makes at most one
\* message when the broker delivers a ticket again under a running task.
THEOREM OneKeyOneMessageByOne ==
  ASSUME Task!OneWorker, Faults \cap Task!Kills = {}
  PROVE  Spec => []OneMessagePerKey
<1>1. ASSUME BaseInv, Task!CopyInv, Task!ColumnsInv, Task!CostInv
      PROVE  OneMessagePerKey
  <2> SUFFICES ASSUME NEW r \in Notification, NEW s \in Notification,
                      API!SameRequest(r, s), deliveries[r] > 0, deliveries[s] > 0
               PROVE  r = s /\ deliveries[r] = 1
    BY DEF OneMessagePerKey, API!Request
  <2>1. /\ deliveries[r] \in Nat /\ deliveries[s] \in Nat
        /\ published[r] \in Nat /\ published[s] \in Nat
    BY <1>1 DEF BaseInv, Task!SafeInv, Task!TypeOK, Task!BrokerTypeOK
  <2>2. rows[r] # None /\ rows[s] # None
    BY <1>1, <2>1 DEF BaseInv, WorkFits
  <2>3. r = s
    BY <1>1, <2>2 DEF BaseInv, UniqueRows
  <2>4. Task!EachKillCostsOneSend
    BY <1>1, TaskAssumptions, Task!CostBound
  <2>5. deliveries[r] <= 1
    BY <2>1, <2>4 DEF Task!EachKillCostsOneSend, Task!Killed
  <2>6. QED
    BY <2>1, <2>3, <2>5
<1>2. QED
  BY <1>1, CostInvariant, PTL

-----------------------------------------------------------------------------
(* What the counts are worth whatever fails                                *)
(*                                                                         *)
(* Tickets may be doubled here, rows may leave SENT and FAILED, and counts *)
(* may go down.  What they count has happened all the same.                *)

\* An answer was asked for, and a row only FAILED after an answer.
Tried ==
  /\ \A w \in Worker : pc[w] \in Task!Outcome => attempts[Task!Id(w)] > 0
  /\ \A n \in Notification :
       (rows[n] # None /\ rows[n].status = "FAILED") => attempts[n] > 0

LEMMA TriedInit == Init => Tried
  BY DEF Init, API!Init, Tried, Task!Outcome

LEMMA TriedByTask ==
  ASSUME BaseInv, Tried, Task!Next
  PROVE  Tried'
<1> USE DEF Tried
<1>a. /\ pc \in [Worker -> Task!PC]
      /\ job \in [Worker -> Task!Ticket \cup {None}]
      /\ rows \in [Notification -> Task!Row \cup {None}]
      /\ attempts \in [Notification -> Nat]
  BY DEF BaseInv, Task!SafeInv, Task!TypeOK
<1>b. \A w \in Worker : pc[w] # "idle" => Task!Id(w) \in Notification
  BY Task!TicketFields DEF BaseInv, Task!SafeInv, Task!BusyHasTicket, Task!Id, Task!Ticket
<1>c. \A w \in Worker : pc[w] \in {"begin"} \cup Task!Outcome => session[w] \in Task!Row
  BY DEF BaseInv, Task!SafeInv, Task!SessionLoaded, Task!TypeOK, Task!Outcome
<1>1. ASSUME rows' = rows, attempts' = attempts,
             NEW w \in Worker, pc'[w] \notin Task!Outcome,
             \A v \in Worker \ {w} : pc'[v] = pc[v] /\ job'[v] = job[v]
      PROVE  Tried'
  BY <1>1 DEF Task!Id
<1>2. ASSUME UNCHANGED <<rows, attempts, pc, job>> PROVE Tried'
  BY <1>2 DEF Task!Id
<1>3. ASSUME NEW w \in Worker, Task!Send(w) PROVE Tried'
  <2>1. /\ Task!Id(w) \in Notification
        /\ attempts' = [attempts EXCEPT ![Task!Id(w)] = @ + 1]
        /\ UNCHANGED <<rows, job>>
        /\ \A v \in Worker \ {w} : pc'[v] = pc[v]
    BY <1>a, <1>b, <1>3 DEF Task!Send, Task!Goto
  <2>2. \A n \in Notification : attempts'[n] >= attempts[n]
    BY <1>a, <2>1
  <2>3. attempts'[Task!Id(w)] > 0
    BY <1>a, <2>1
  <2>4. \A v \in Worker : Task!Id(v)' = Task!Id(v)
    BY <2>1 DEF Task!Id
  <2>5. ASSUME NEW v \in Worker, pc'[v] \in Task!Outcome
        PROVE  attempts'[Task!Id(v)] > 0
    <3>1. CASE v = w
      BY <2>3, <3>1
    <3>2. CASE v # w
      <4>1. pc[v] \in Task!Outcome
        BY <2>1, <2>5, <3>2
      <4>2. Task!Id(v) \in Notification /\ attempts[Task!Id(v)] > 0
        BY <1>b, <4>1 DEF Task!Outcome
      <4>3. QED
        BY <1>a, <2>1, <2>2, <4>2
    <3>3. QED
      BY <3>1, <3>2
  <2>6. ASSUME NEW n \in Notification, rows'[n] # None, rows'[n].status = "FAILED"
        PROVE  attempts'[n] > 0
    BY <1>a, <2>1, <2>2, <2>6
  <2>7. QED
    BY <2>4, <2>5, <2>6
\* A commit writes the row of a task with an answer, or does not write FAILED.
<1>4. ASSUME NEW w \in Worker, Task!Id(w) \in Notification,
             NEW row, rows' = [rows EXCEPT ![Task!Id(w)] = row],
             row.status = "FAILED" => pc[w] \in Task!Outcome,
             UNCHANGED <<attempts, job>>, pc'[w] \notin Task!Outcome,
             \A v \in Worker \ {w} : pc'[v] = pc[v]
      PROVE  Tried'
  <2>1. ASSUME NEW n \in Notification, rows'[n] # None, rows'[n].status = "FAILED"
        PROVE  attempts[n] > 0
    BY <1>a, <1>4, <2>1
  <2>2. QED
    BY <1>4, <2>1 DEF Task!Id
<1>5. ASSUME NEW w \in Worker, Task!BeginProcessing(w) PROVE Tried'
  <2>1. Task!Id(w) \in Notification /\ rows[Task!Id(w)] \in Task!Row
    BY <1>b, <1>5 DEF Task!BeginProcessing, BaseInv, Task!SafeInv, Task!SessionLoaded,
                      Task!TypeOK
  <2>2. QED
    BY <1>a, <1>4, <1>5, <2>1, TaskAssumptions, Task!BegunRow
    DEF Task!BeginProcessing, Task!Update, Task!Goto, Task!Outcome, Task!historyVars
<1>6. ASSUME NEW w \in Worker, Task!CommitSent(w) PROVE Tried'
  <2>1. Task!Id(w) \in Notification /\ rows[Task!Id(w)] \in Task!Row
    BY <1>b, <1>6 DEF Task!CommitSent, Task!Outcome, BaseInv, Task!SafeInv,
                      Task!SessionLoaded, Task!TypeOK
  <2>2. Task!SentRow(rows[Task!Id(w)], session[w]).status = "SENT"
    BY <1>c, <1>6, <2>1, TaskAssumptions, Task!SentRowFacts DEF Task!CommitSent, Task!Outcome
  <2>3. QED
    BY <1>a, <1>4, <1>6, <2>1, <2>2
    DEF Task!CommitSent, Task!Update, Task!Goto, Task!Outcome, Task!historyVars
<1>7. ASSUME NEW w \in Worker, Task!CommitRetry(w) \/ Task!CommitFailed(w)
      PROVE  Tried'
  <2>1. /\ Task!Id(w) \in Notification
        /\ pc[w] \in Task!Outcome
        /\ UNCHANGED <<attempts, job>>
        /\ pc'[w] \notin Task!Outcome
        /\ \A v \in Worker \ {w} : pc'[v] = pc[v]
    BY <1>a, <1>b, <1>7
    DEF Task!CommitRetry, Task!CommitFailed, Task!Goto, Task!Outcome, Task!historyVars
  <2>2. PICK row : rows' = [rows EXCEPT ![Task!Id(w)] = row]
    BY <1>7 DEF Task!CommitRetry, Task!CommitFailed, Task!FailedAttempt, Task!Update
  <2>3. QED
    BY <1>4, <2>1, <2>2
<1>8. QED
  <2>1. ASSUME NEW w \in Worker, Task!WorkerStep(w) PROVE Tried'
    BY <1>a, <1>1, <1>3, <1>5, <1>6, <1>7, <2>1
    DEF Task!WorkerStep, Task!LoadMissing, Task!LoadSettled, Task!LoadOpen,
        Task!Retry, Task!RetryRefused, Task!PublishDeadLetter, Task!Ack,
        Task!Goto, Task!Release, Task!Outcome, Task!historyVars
  <2>2. ASSUME NEW w \in Worker, NEW t \in ready, Task!Receive(w, t) PROVE Tried'
    BY <1>a, <1>1, <2>2 DEF Task!Receive, Task!Goto, Task!Outcome, Task!historyVars
  <2>3. ASSUME NEW w \in Worker, NEW n \in dlq, Task!RecordDeadLetter(w, n)
        PROVE  Tried'
    BY <1>2, <2>3 DEF Task!RecordDeadLetter, Task!workerVars, Task!historyVars
  <2>4. ASSUME NEW t \in unacked, Task!Restore(t) PROVE Tried'
    BY <1>2, <2>4 DEF Task!Restore, Task!workerVars, Task!historyVars
  <2>5. ASSUME Task!FaultStep PROVE Tried'
    BY <1>a, <1>1, <1>2, <2>5
    DEF Task!FaultStep, Task!Crash, Task!Redeliver, Task!TaskFails,
        Task!RetryPublishFails, Task!DeadLetterPublishFails, Task!Goto,
        Task!Release, Task!Outcome, Task!workerVars, Task!historyVars
  <2>6. ASSUME Task!Idle PROVE Tried'
    BY <1>2, <2>6 DEF Task!Idle, Task!vars, Task!workerVars, Task!historyVars
  <2>7. QED
    BY <2>1, <2>2, <2>3, <2>4, <2>5, <2>6 DEF Task!Next

LEMMA TriedStep ==
  ASSUME BaseInv, Tried, [Next]_vars
  PROVE  Tried'
<1>a. rows \in [Notification -> Task!Row \cup {None}]
  BY DEF BaseInv, Task!SafeInv, Task!TypeOK
<1>1. ASSUME rows' = rows, UNCHANGED <<pc, job, attempts>> PROVE Tried'
  BY <1>1 DEF Tried, Task!Id
<1>2. ASSUME NEW r \in Notification, Commits(r), UNCHANGED <<pc, job, attempts>>
      PROVE  Tried'
  BY <1>a, <1>2, NewRowType DEF Tried, Task!Id, Commits
<1>3. CASE APIStep
  BY <1>1, <1>2, <1>3, APIShape DEF Quiet, Publishes
<1>4. CASE DeliveryStep
  BY <1>4, DeliveryNext, TriedByTask
<1>5. QED
  BY <1>1, <1>3, <1>4, ReadShape DEF Next, vars, workerState

\* Messages that arrived and notifications that were tried, of one client.
ArrivedOf(c) == {n \in Notification : Owner[n] = c /\ deliveries[n] > 0}
TriedOf(c) == {n \in Notification : Owner[n] = c /\ attempts[n] > 0}

CountsHappened ==
  \A c \in Client :
    /\ counted[c].sent <= Cardinality(ArrivedOf(c))
    /\ counted[c].failed <= Cardinality(TriedOf(c))

\* Neither set loses a member: nothing takes back a send.
LEMMA HistoryGrows ==
  ASSUME BaseInv, BaseInv', [Next]_vars, NEW n \in Notification
  PROVE  attempts'[n] >= attempts[n] /\ deliveries'[n] >= deliveries[n]
<1>a. /\ attempts \in [Notification -> Nat]
      /\ deliveries \in [Notification -> Nat]
  BY DEF BaseInv, Task!SafeInv, Task!TypeOK
<1>1. ASSUME UNCHANGED <<attempts, deliveries>>
      PROVE  attempts'[n] >= attempts[n] /\ deliveries'[n] >= deliveries[n]
  BY <1>a, <1>1
<1>2. CASE APIStep
  BY <1>1, <1>2, APIShape
<1>3. CASE DeliveryStep
  <2>1. ASSUME NEW w \in Worker, Task!Send(w)
        PROVE  attempts'[n] >= attempts[n] /\ deliveries'[n] >= deliveries[n]
    BY <1>a, <2>1 DEF Task!Send
  <2>2. QED
    BY <1>1, <1>3, <2>1, DeliveryNext
    DEF Task!Next, Task!WorkerStep, Task!FaultStep, Task!Idle, Task!vars,
        Task!Receive, Task!LoadMissing, Task!LoadSettled, Task!LoadOpen,
        Task!BeginProcessing, Task!CommitSent, Task!CommitRetry, Task!CommitFailed,
        Task!Retry, Task!RetryRefused, Task!PublishDeadLetter,
        Task!Ack, Task!RecordDeadLetter, Task!Restore, Task!Crash,
        Task!Redeliver, Task!TaskFails, Task!RetryPublishFails,
        Task!DeadLetterPublishFails, Task!historyVars
<1>4. QED
  BY <1>1, <1>2, <1>3, ReadShape DEF Next, vars, workerState

LEMMA HappenedStep ==
  ASSUME IsFiniteSet(Notification),
         BaseInv, BaseInv', Tried, CountTypes, CountsHappened, [Next]_vars
  PROVE  CountsHappened'
<1> SUFFICES ASSUME NEW c \in Client
             PROVE  /\ counted'[c].sent <= Cardinality(ArrivedOf(c))'
                    /\ counted'[c].failed <= Cardinality(TriedOf(c))'
  BY DEF CountsHappened
<1>a. /\ attempts \in [Notification -> Nat] /\ attempts' \in [Notification -> Nat]
      /\ deliveries \in [Notification -> Nat] /\ deliveries' \in [Notification -> Nat]
  BY DEF BaseInv, Task!SafeInv, Task!TypeOK
<1>1. ArrivedOf(c) \subseteq ArrivedOf(c)' /\ TriedOf(c) \subseteq TriedOf(c)'
  BY <1>a, HistoryGrows DEF ArrivedOf, TriedOf
<1>2. /\ ArrivedOf(c) \in SUBSET Notification /\ ArrivedOf(c)' \in SUBSET Notification
      /\ TriedOf(c) \in SUBSET Notification /\ TriedOf(c)' \in SUBSET Notification
      /\ RowsOf(c, "SENT") \in SUBSET Notification
      /\ RowsOf(c, "FAILED") \in SUBSET Notification
  BY DEF ArrivedOf, TriedOf, RowsOf
<1>3. /\ RowsOf(c, "SENT") \subseteq ArrivedOf(c)
      /\ RowsOf(c, "FAILED") \subseteq TriedOf(c)
  BY DEF RowsOf, Visible, ArrivedOf, TriedOf, Tried, BaseInv, Task!SafeInv,
         Task!SentWasDelivered
<1>4. /\ Cardinality(ArrivedOf(c)) <= Cardinality(ArrivedOf(c)')
      /\ Cardinality(TriedOf(c)) <= Cardinality(TriedOf(c)')
      /\ Cardinality(RowsOf(c, "SENT")) <= Cardinality(ArrivedOf(c))
      /\ Cardinality(RowsOf(c, "FAILED")) <= Cardinality(TriedOf(c))
  BY <1>1, <1>2, <1>3, Finite, FS_Subset
<1>5. /\ Cardinality(ArrivedOf(c)) \in Nat /\ Cardinality(ArrivedOf(c)') \in Nat
      /\ Cardinality(TriedOf(c)) \in Nat /\ Cardinality(TriedOf(c)') \in Nat
      /\ Cardinality(RowsOf(c, "SENT")) \in Nat
      /\ Cardinality(RowsOf(c, "FAILED")) \in Nat
  BY <1>2, Finite
<1>6. /\ counted[c].sent \in Nat /\ counted[c].failed \in Nat
      /\ counted[c].sent <= Cardinality(ArrivedOf(c))
      /\ counted[c].failed <= Cardinality(TriedOf(c))
  BY DEF CountTypes, CountsHappened
<1>7. \/ counted'[c] = counted[c]
      \/ counted'[c] = [sent |-> Cardinality(RowsOf(c, "SENT")),
                        failed |-> Cardinality(RowsOf(c, "FAILED"))]
  BY CountShape, CountIs DEF CountTypes
<1>8. CASE counted'[c] = counted[c]
  BY <1>4, <1>5, <1>6, <1>8
<1>9. CASE counted'[c] = [sent |-> Cardinality(RowsOf(c, "SENT")),
                          failed |-> Cardinality(RowsOf(c, "FAILED"))]
  BY <1>4, <1>5, <1>9
<1>10. QED
  BY <1>7, <1>8, <1>9

LEMMA HappenedInit ==
  ASSUME IsFiniteSet(Notification), Init
  PROVE  CountsHappened
<1>1. \A c \in Client : counted[c].sent = 0 /\ counted[c].failed = 0
  BY DEF Init
<1>2. \A c \in Client : /\ Cardinality(ArrivedOf(c)) \in Nat
                        /\ Cardinality(TriedOf(c)) \in Nat
  <2>1. \A c : ArrivedOf(c) \in SUBSET Notification /\ TriedOf(c) \in SUBSET Notification
    BY DEF ArrivedOf, TriedOf
  <2>2. QED
    BY <2>1, Finite
<1>3. QED
  BY <1>1, <1>2 DEF CountsHappened

\* Whatever dies, fails or is delivered twice, and with any number of workers:
\* GET /metrics shows a client no more SENT than messages of its own that
\* arrived, and no more FAILED than notifications of its own that were tried.
THEOREM CountedHasHappened ==
  ASSUME IsFiniteSet(Notification)
  PROVE  Spec => []CountsHappened
<1>1. Init => Tried /\ CountsHappened
  BY TriedInit, HappenedInit
<1>2. BaseInv /\ BaseInv' /\ Tried /\ CountTypes /\ CountsHappened /\ [Next]_vars
        => Tried' /\ CountsHappened'
  BY TriedStep, HappenedStep
<1>3. CountTypes /\ [Next]_vars => CountTypes'
  BY CountTypeStep
<1>4. QED
  BY <1>1, <1>2, <1>3, CountTypeInit, BaseInvariant, PTL DEF Spec

\* With one task slot that never dies the FAILED a client is shown did
\* not arrive either, although tickets are delivered again under their task: a
\* row that says FAILED has never been answered for with "ok".
THEOREM MetricsTrueByOne ==
  ASSUME Task!OneWorker, Faults \cap Task!Kills = {}, IsFiniteSet(Notification)
  PROVE  Spec => []MetricsAreTrue
<1>1. ASSUME BaseInv, Task!CopyInv, Task!CostInv, Tried PROVE FailuresAreTrue
  <2> SUFFICES ASSUME NEW n \in Notification,
                      rows[n] # None, rows[n].status = "FAILED"
               PROVE  attempts[n] > 0 /\ deliveries[n] = 0
    BY DEF FailuresAreTrue
  <2>1. \A w \in Worker : pc[w] = "ok" => Task!Id(w) # n
    BY <1>1 DEF Task!CopyInv, Task!CopyFits, Task!Outcome
  <2>2. ~Task!Delivered(n)
    BY <2>1 DEF Task!Delivered
  <2>3. deliveries[n] <= 0 /\ deliveries[n] \in Nat
    BY <1>1, <2>2 DEF Task!CostInv, Task!One, Task!Killed, BaseInv, Task!SafeInv,
                      Task!TypeOK
  <2>4. QED
    BY <1>1, <2>3 DEF Tried
<1>2. BaseInv /\ Task!CopyInv /\ CountTypes /\ CountsInv /\ [Next]_vars => CountsInv'
  BY CountsStep, OneWorkerKeepsCopies
<1>3. CountTypes /\ [Next]_vars => CountTypes'
  BY CountTypeStep
<1>4. BaseInv /\ Tried /\ [Next]_vars => Tried'
  BY TriedStep
<1>5. BaseInv /\ CountTypes /\ CountsInv /\ FailuresAreTrue => MetricsAreTrue
  BY CountsAreTrue
<1>6. QED
  BY <1>1, <1>2, <1>3, <1>4, <1>5, TriedInit, CountsInit, CountTypeInit,
     CostInvariant, PTL
  DEF Spec

-----------------------------------------------------------------------------
(* Faults of requests and workers together                                 *)
(*                                                                         *)
(* ContainmentProofs counts the notifications a worker's fault may harm.   *)
(* An open row has one more keeper here: the request that made it, until   *)
(* it has published.  A request's own fault harms its own row alone.       *)

\* Somebody will come back to n as long as it is open.
Awaited(n) == Task!Open(n) => Task!Carried(n) \/ step[n] = "enqueue"

Hurt == {n \in Notification : ~(Task!Sound(n) /\ Awaited(n))}

HurtInv ==
  /\ IsFiniteSet(Hurt)
  /\ Cardinality(Hurt) <= faults + requestFaults

\* Nobody carries n, and nobody has tried it.
Untried(n) ==
  /\ ~Carried(n)
  /\ attempts[n] = 0 /\ deliveries[n] = 0
  /\ rows[n] \in {None, NewRow}

LEMMA UntriedIsSound ==
  ASSUME NEW n \in Notification
  PROVE  Untried(n) => Task!Sound(n)
<1> SUFFICES ASSUME Untried(n) PROVE Task!Sound(n)
  OBVIOUS
<1> USE DEF Untried
<1>1. Task!UnackedHeldOf(n) /\ Task!OneCarrierOf(n) /\ Task!CarriersFit(n) /\ Task!AnswersFitOf(n)
  BY DEF Carried, Task!UnackedHeldOf, Task!OneCarrierOf, Task!CarriersFit,
         Task!AnswersFitOf, Task!Working, Task!Id
<1>2. rows[n] # None => Task!RowConsistent(rows[n])
  BY TaskAssumptions DEF Task!RowConsistent, NewRow
<1>3. Task!FailedFits(n)
  BY NewRowType DEF Task!FailedFits, Task!IsFailed
<1>4. QED
  BY <1>1, <1>2, <1>3, TaskAssumptions DEF Task!Sound

LEMMA UntriedIsSoundNext ==
  ASSUME NEW n \in Notification
  PROVE  Untried(n)' => Task!Sound(n)'
<1>1. Untried(n) => Task!Sound(n)
  BY UntriedIsSound
<1>2. QED
  BY <1>1, PTL

\* What a step that touches neither the workers nor n leaves as it was.
LEMMA ElsewhereSound ==
  ASSUME Task!SafeInv, NEW n \in Notification, Task!Sound(n),
         UNCHANGED <<pc, job, session, dlq, logged, attempts, deliveries, unacked>>,
         \A t : t.id = n => (t \in ready' <=> t \in ready),
         rows'[n] = rows[n]
  PROVE  Task!Sound(n)' /\ (Task!Followed(n) => Task!Followed(n)')
<1>1. Task!TicketsAs(n) /\ Task!DataAs(n) /\ Task!TasksAs(n)
  BY DEF Task!TicketsAs, Task!DataAs, Task!TasksAs, Task!Id
<1>2. QED
  BY <1>1, TaskAssumptions, Task!SoundElsewhere

\* A request makes a row nobody has seen, or the one ticket of such a row.
LEMMA RequestKeepsSound ==
  ASSUME BaseInv, BaseInv', APIStep, NEW n \in Notification, Task!Sound(n)
  PROVE  /\ Task!Sound(n)'
         /\ Task!Followed(n) /\ rows'[n] = rows[n] => Task!Followed(n)'
<1>0. /\ UNCHANGED <<pc, job, session, dlq, logged, attempts, deliveries>>
      /\ rows \in [Notification -> Row \cup {None}]
      /\ Task!SafeInv /\ Task!SafeInv'
  BY APIShape, SameRows DEF BaseInv, Task!SafeInv, Task!TypeOK
<1>1. CASE Quiet
  BY <1>0, <1>1, ElsewhereSound DEF Quiet
<1>2. ASSUME NEW r \in Notification, Commits(r)
      PROVE  /\ Task!Sound(n)'
             /\ Task!Followed(n) /\ rows'[n] = rows[n] => Task!Followed(n)'
  <2>1. CASE r # n
    BY <1>0, <1>2, <2>1, ElsewhereSound DEF Commits
  <2>2. CASE r = n
    <3>1. rows[n] = None /\ rows'[n] = NewRow /\ published[n] = 0
      BY <1>0, <1>2, <2>2 DEF Commits, BaseInv, StepFits
    <3>2. ~Carried(n) /\ attempts[n] = 0 /\ deliveries[n] = 0
      BY <3>1 DEF BaseInv, WorkFits
    <3>3. Untried(n)'
      BY <1>0, <1>2, <3>1, <3>2 DEF Commits, Carried, Untried
    <3>4. Task!Sound(n)'
      BY <3>3, UntriedIsSoundNext
    <3>5. QED
      BY <3>1, <3>4, NewRowType
  <2>3. QED
    BY <2>1, <2>2
<1>3. ASSUME NEW r \in Notification, Publishes(r)
      PROVE  Task!Sound(n)' /\ (Task!Followed(n) => Task!Followed(n)')
  <2>1. PICK new : /\ ready' = ready \cup {new}
                   /\ new.id = r /\ new.retries = 0
    <3> DEFINE t == [id |-> r, seq |-> published[r] + 1,
                     retries |-> 0, countdown |-> 0]
    <3>1. ready' = ready \cup {t} /\ t.id = r /\ t.retries = 0
      BY <1>3 DEF Publishes
    <3>2. QED
      BY <3>1
  <2>2. UNCHANGED <<rows, unacked>>
    BY <1>3 DEF Publishes
  <2>3. CASE r # n
    BY <1>0, <2>1, <2>2, <2>3, ElsewhereSound
  <2>4. CASE r = n
    <3>1. published[n] = 0
      BY <1>3, <2>4 DEF Publishes, BaseInv, StepFits
    <3>2. Untried(n)
      BY <3>1 DEF BaseInv, WorkFits, Untried
    <3>3. Task!UnackedHeldOf(n)'
      BY <1>0, <2>2 DEF Task!Sound, Task!UnackedHeldOf
    <3>4. /\ \A t \in ready' : t.id = n => t = new
          /\ \A w \in Task!Working' : Task!Id(w)' # n
      BY <1>0, <2>1, <3>2 DEF Untried, Carried, Task!Working, Task!Id
    <3>5. Task!OneCarrierOf(n)'
      BY <3>4 DEF Task!OneCarrierOf
    <3>6. Task!TicketFits(new)'
      BY <1>0, <2>1, <2>2, <2>4, <3>2, TaskAssumptions, NewRowType
      DEF Untried, Task!TicketFits, Task!Waiting
    <3>7. Task!CarriersFit(n)'
      BY <3>4, <3>6 DEF Task!CarriersFit
    <3>8. Task!AnswersFitOf(n)'
      BY <2>1, <3>4 DEF Task!AnswersFitOf
    <3>9. Task!FailedFits(n)'
      BY <2>2, <3>2, NewRowType DEF Untried, Task!FailedFits, Task!IsFailed
    <3>10. Task!Followed(n)'
      BY <2>1, <2>4 DEF Task!Followed, Task!Carried
    <3>11. QED
      BY <1>0, <2>2, <3>3, <3>5, <3>7, <3>8, <3>9, <3>10 DEF Task!Sound
  <2>5. QED
    BY <2>3, <2>4
<1>4. QED
  BY <1>1, <1>2, <1>3, APIShape

\* Only the fault of a request leaves its row to nobody.
LEMMA RequestAwaits ==
  ASSUME BaseInv, BaseInv', NEW r \in Notification,
         API!RequestStep(r) \/ API!RequestFaultStep(r),
         UNCHANGED <<workerState, clientState>>,
         NEW n \in Notification, Task!Sound(n), Awaited(n),
         API!RequestFaultStep(r) => n # r
  PROVE  Task!Sound(n)' /\ Awaited(n)'
<1>1. APIStep
  BY DEF APIStep, API!Request
<1>2. Task!Sound(n)'
  BY <1>1, RequestKeepsSound
<1>3. /\ step \in [Notification -> API!Step]
      /\ \E label : step' = [step EXCEPT ![r] = label]
  BY DEF BaseInv, RequestTypes, API!RequestStep, API!RequestFaultStep, API!Replay,
         API!LookupMisses, API!CommitRow, API!LoseRace, API!ReadWinner, API!Reraise,
         API!Enqueue, API!EnqueueFails, API!CommitFails, API!CommitRefused,
         API!SelectFails, API!RequestDies, API!ReplyWith,
         API!Finish, API!Proceed
<1>4. Task!Followed(n) /\ rows'[n] = rows[n] => Awaited(n)'
  BY <1>1, RequestKeepsSound DEF Task!Followed, Awaited
<1>5. Awaited(n) /\ step[n] # "enqueue" => Task!Followed(n)
  BY DEF Awaited, Task!Followed
<1>6. UNCHANGED <<pc, job>>
  BY DEF workerState
<1>7. CASE n # r
  <2>1. step'[n] = step[n]
    BY <1>3, <1>7
  <2>2. rows'[n] = rows[n]
    BY <1>7
    DEF API!RequestStep, API!RequestFaultStep, API!Replay, API!LookupMisses,
        API!CommitRow, API!LoseRace, API!ReadWinner, API!Reraise,
        API!Enqueue, API!EnqueueFails, API!CommitFails, API!CommitRefused,
        API!SelectFails, API!RequestDies, BaseInv,
        Task!SafeInv, Task!TypeOK
  <2>3. QED
    BY <1>2, <1>4, <1>5, <2>1, <2>2 DEF Awaited
<1>8. CASE n = r
  <2>1. API!RequestStep(n)
    BY <1>8
  <2>2. CASE API!CommitRow(n)
    BY <1>2, <1>3, <1>8, <2>2 DEF API!CommitRow, API!Proceed, Awaited, BaseInv, RequestTypes
  <2>3. CASE API!Enqueue(n)
    <3> DEFINE t == [id |-> n, seq |-> published[n] + 1,
                     retries |-> 0, countdown |-> 0]
    <3>1. t \in ready' /\ t.id = n
      BY <2>3 DEF API!Enqueue, API!Publish
    <3>2. QED
      BY <1>2, <3>1 DEF Awaited, Task!Carried
  <2>4. CASE \/ API!Replay(n) \/ API!LookupMisses(n) \/ API!LoseRace(n)
             \/ API!ReadWinner(n) \/ API!Reraise(n)
    <3>1. step[n] # "enqueue" /\ rows' = rows
      BY <2>4
      DEF API!Replay, API!LookupMisses, API!LoseRace, API!ReadWinner, API!Reraise
    <3>2. QED
      BY <1>2, <1>4, <1>5, <3>1
  <2>5. QED
    BY <2>1, <2>2, <2>3, <2>4 DEF API!RequestStep
<1>9. QED
  BY <1>2, <1>7, <1>8

LEMMA HurtInit == Init => HurtInv
<1> SUFFICES ASSUME Init PROVE HurtInv
  OBVIOUS
<1>1. BaseInv
  BY BaseInit
<1>2. ASSUME NEW n \in Notification PROVE Task!Sound(n) /\ Awaited(n)
  <2>1. /\ ~Carried(n) /\ rows[n] = None
        /\ attempts[n] = 0 /\ deliveries[n] = 0
    BY DEF Init, API!Init, Carried
  <2>2. QED
    BY <2>1, UntriedIsSound DEF Untried, Awaited, Task!Open
<1>3. Hurt = {} /\ IsFiniteSet({}) /\ Cardinality({}) = 0
  BY <1>2, FS_EmptySet DEF Hurt
<1>4. QED
  BY <1>3 DEF Init, API!Init, HurtInv

LEMMA HurtStep ==
  ASSUME BaseInv, BaseInv', HurtInv, [Next]_vars
  PROVE  HurtInv'
<1> USE DEF HurtInv
<1>0. faults \in Nat /\ requestFaults \in Nat /\ Cardinality(Hurt) \in Nat
  BY FS_CardinalityType DEF BaseInv, RequestTypes, Task!SafeInv, Task!TypeOK
\* At most one more is hurt, and only by a fault.
<1>a. ASSUME NEW m, Hurt' \subseteq Hurt \cup {m},
             (faults + requestFaults)' = faults + requestFaults + 1
      PROVE  HurtInv'
  <2>1. /\ IsFiniteSet(Hurt \cup {m})
        /\ Cardinality(Hurt \cup {m}) \in {Cardinality(Hurt), Cardinality(Hurt) + 1}
    BY FS_AddElement
  <2>2. IsFiniteSet(Hurt') /\ Cardinality(Hurt') <= Cardinality(Hurt \cup {m})
    BY <1>a, <2>1, FS_Subset
  <2>3. Cardinality(Hurt') \in Nat
    BY <2>2, FS_CardinalityType
  <2>4. QED
    BY <1>0, <1>a, <2>1, <2>2, <2>3
<1>b. ASSUME Hurt' \subseteq Hurt, (faults + requestFaults)' = faults + requestFaults
      PROVE  HurtInv'
  <2>1. IsFiniteSet(Hurt') /\ Cardinality(Hurt') <= Cardinality(Hurt)
    BY <1>b, FS_Subset
  <2>2. Cardinality(Hurt') \in Nat
    BY <2>1, FS_CardinalityType
  <2>3. QED
    BY <1>0, <1>b, <2>1, <2>2
<1>1. ASSUME NEW r \in Notification, API!RequestStep(r) \/ API!RequestFaultStep(r),
             UNCHANGED <<workerState, clientState>>
      PROVE  HurtInv'
  <2>1. faults' = faults
    BY <1>1 DEF workerState
  <2>2. CASE API!RequestFaultStep(r)
    <3>1. Hurt' \subseteq Hurt \cup {r}
      BY <1>1, <2>2, RequestAwaits DEF Hurt
    <3>2. requestFaults' = requestFaults + 1
      BY <2>2 DEF API!RequestFaultStep, API!EnqueueFails, API!CommitFails,
                  API!CommitRefused, API!SelectFails, API!RequestDies,
                  API!RequestFault
    <3>3. QED
      BY <1>0, <1>a, <2>1, <3>1, <3>2
  <2>3. CASE ~API!RequestFaultStep(r)
    <3>1. Hurt' \subseteq Hurt
      BY <1>1, <2>3, RequestAwaits DEF Hurt
    <3>2. requestFaults' = requestFaults
      BY <1>1, <2>3
      DEF API!RequestStep, API!Replay, API!LookupMisses, API!CommitRow,
          API!LoseRace, API!ReadWinner, API!Reraise, API!Enqueue
    <3>3. QED
      BY <1>0, <1>b, <2>1, <3>1, <3>2
  <2>4. QED
    BY <2>2, <2>3
\* Requests do not move, and what is followed stays followed.
<1>c. ASSUME NEW n \in Notification, step' = step, Task!Sound(n) /\ Awaited(n),
             Task!Sound(n)' /\ (Task!Followed(n) => Task!Followed(n)')
      PROVE  Task!Sound(n)' /\ Awaited(n)'
  BY <1>c DEF Awaited, Task!Followed
<1>2. CASE DeliveryStep
  <2>1. /\ step' = step /\ requestFaults' = requestFaults
        /\ Task!SafeInv
        /\ [Task!Next]_(Task!vars)
    BY <1>2, DeliveryNext DEF DeliveryStep, requestState, BaseInv
  <2>2. CASE Task!FaultStep
    <3>1. faults' = faults + 1
      BY <2>1, <2>2, TaskAssumptions, Task!FaultStrikesOne
    <3>2. PICK m \in Notification : Task!Strikes(m)
      BY <2>1, <2>2, TaskAssumptions, Task!FaultStrikesOne
    <3>3. ASSUME NEW n \in Notification, n # m, Task!Sound(n)
          PROVE  Task!Sound(n)' /\ (Task!Followed(n) => Task!Followed(n)')
      BY <2>1, <3>2, <3>3, TaskAssumptions, Task!StrikeElsewhere
    <3>4. Hurt' \subseteq Hurt \cup {m}
      BY <1>c, <2>1, <3>3 DEF Hurt
    <3>5. QED
      BY <1>0, <1>a, <2>1, <3>1, <3>4
  <2>3. CASE ~Task!FaultStep
    <3>1. ASSUME NEW n \in Notification, Task!Sound(n)
          PROVE  Task!Sound(n)' /\ (Task!Followed(n) => Task!Followed(n)')
      BY <2>1, <2>3, <3>1, TaskAssumptions, Task!FaultlessStep
    <3>2. Hurt' \subseteq Hurt
      BY <1>c, <2>1, <3>1 DEF Hurt
    <3>3. faults' = faults
      BY <1>2, <2>3, TaskAssumptions, DeliveryNext, Task!OnlyFaultsCount
    <3>4. QED
      BY <1>0, <1>b, <2>1, <3>2, <3>3
  <2>4. QED
    BY <2>2, <2>3
<1>3. ASSUME UNCHANGED <<ready, unacked, rows, step, requestFaults, pc, job, session,
                         dlq, logged, attempts, deliveries, faults>>
      PROVE  HurtInv'
  <2>1. ASSUME NEW n \in Notification, Task!Sound(n)
        PROVE  Task!Sound(n)' /\ (Task!Followed(n) => Task!Followed(n)')
    BY <1>3, <2>1, ElsewhereSound DEF BaseInv
  <2>2. Hurt' \subseteq Hurt
    BY <1>3, <1>c, <2>1 DEF Hurt
  <2>3. QED
    BY <1>3, <1>b, <2>2
<1>4. CASE \/ \E c \in Reader, n \in Notification : GetStatus(c, n)
           \/ \E c \in Reader : GetMetrics(c)
  BY <1>3, <1>4, ReadShape
<1>5. CASE UNCHANGED vars
  BY <1>3, <1>5 DEF vars, brokerVars, requestState, workerState
<1>6. QED
  BY <1>1, <1>2, <1>4, <1>5 DEF Next, APIStep, API!Request

LEMMA SameUnharmed ==
  ASSUME NEW n
  PROVE  Delivery!Unharmed(n) <=> Task!Unharmed(n)
  BY DEF Delivery!Unharmed, Task!Unharmed, Delivery!RowConsistent, Task!RowConsistent,
         Delivery!Open, Task!Open, Delivery!Settled, Task!Settled,
         Delivery!Terminal, Task!Terminal, Delivery!InFlight, Task!InFlight,
         Delivery!Working, Task!Working, Delivery!Id, Task!Id

\* From the request to the end, f faults of API processes, publishes, workers
\* and broker together break the promises of the service (one delivery, the
\* attempt budget, consistent columns, no open row that nobody will take up,
\* no FAILED row unburied or without a reason) for at most f of the
\* notifications whose requests are over, whatever requests race for one key.
THEOREM FaultsHarmOneEach == Spec => []EachFaultHarmsOne
<1>1. ASSUME BaseInv, HurtInv PROVE EachFaultHarmsOne
  <2> DEFINE Harmed == {r \in API!Request : step[r] = "done" /\ ~Delivery!Unharmed(r)}
  <2>1. Harmed \subseteq Hurt
    <3> SUFFICES ASSUME NEW n \in Notification, step[n] = "done",
                        Task!Sound(n), Awaited(n)
                 PROVE  Delivery!Unharmed(n)
      BY DEF Hurt, API!Request
    <3>1. Task!Followed(n)
      BY DEF Awaited, Task!Followed
    <3>2. QED
      BY <1>1, <3>1, TaskAssumptions, Task!SoundIsUnharmed, SameUnharmed DEF BaseInv
  <2>2. IsFiniteSet(Harmed) /\ Cardinality(Harmed) <= Cardinality(Hurt)
    BY <1>1, <2>1, FS_Subset DEF HurtInv
  <2>3. /\ Cardinality(Hurt) \in Nat /\ Cardinality(Harmed) \in Nat
        /\ faults \in Nat /\ requestFaults \in Nat
    BY <1>1, <2>2, FS_CardinalityType
    DEF HurtInv, BaseInv, RequestTypes, Task!SafeInv, Task!TypeOK
  <2> HIDE DEF Harmed
  <2>4. Cardinality(Harmed) <= faults + requestFaults
    BY <1>1, <2>2, <2>3 DEF HurtInv
  <2>5. QED
    BY <2>4 DEF EachFaultHarmsOne, Harmed
<1>2. QED
  BY <1>1, HurtInit, HurtStep, BaseInvariant, PTL DEF Spec

-----------------------------------------------------------------------------
(* What clients are told of a notification that no fault strikes           *)

LEMMA SoundHasTrueCopies ==
  ASSUME NEW n \in Notification, Task!Sound(n)
  PROVE  TrueCopiesOf(n)
<1>1. \A w \in Worker :
        (Task!Id(w) = n /\ pc[w] \in {"begin", "send"} \cup Task!Outcome) =>
          pc[w] # "load" /\ Task!TaskFits(w)
  BY DEF Task!Sound, Task!CarriersFit, Task!Working, Task!Outcome
<1>2. QED
  BY <1>1 DEF TrueCopiesOf, TrueCopy, Task!TaskFits

LEMMA SoundSurvives ==
  ASSUME BaseInv, BaseInv', [Next]_vars,
         NEW n \in Notification, Task!Sound(n), [~Task!Strikes(n)]_vars
  PROVE  Task!Sound(n)'
<1>1. ASSUME UNCHANGED <<ready, unacked, rows, pc, job, session, dlq, logged,
                         attempts, deliveries>>
      PROVE  Task!Sound(n)'
  BY <1>1, ElsewhereSound DEF BaseInv
<1>2. CASE APIStep
  BY <1>2, RequestKeepsSound
<1>3. CASE UNCHANGED vars
  BY <1>1, <1>3 DEF vars, brokerVars, workerState
<1>4. CASE DeliveryStep /\ ~Task!Strikes(n)
  BY <1>4, DeliveryNext, TaskAssumptions, Task!UnstruckStep DEF BaseInv
<1>5. QED
  BY <1>1, <1>2, <1>3, <1>4, ReadShape DEF Next

\* AnswersAreFinal, as the owner of n sees it.
AnswersFinalFor(n) ==
  /\ told[n] \in Terminal => rows[n].status = told[n]
  /\ \A r \in API!Request :
       (API!IsAccepted(r) /\ reply[r].id = n /\ reply[r].status \in Terminal)
         => rows[n].status = reply[r].status

\* With any number of workers, and whatever crashes, fails or is delivered
\* twice elsewhere: who was told SENT or FAILED of a notification that no fault
\* of a worker or of the broker strikes is never told anything else.  The
\* requests that ask for it and those that race for its key may fail.
THEOREM UnstruckAnswersStand ==
  ASSUME NEW n \in Notification
  PROVE  Spec /\ [][~Task!Strikes(n)]_vars => []AnswersFinalFor(n)
<1>1. Init => Task!Sound(n) /\ AnswersOf(n)
  <2>1. ASSUME Init PROVE Untried(n)
    BY <2>1 DEF Init, API!Init, Untried, Carried
  <2>2. QED
    BY <2>1, UntriedIsSound, AnswersInit DEF AnswersInv
<1>2. BaseInv /\ BaseInv' /\ Task!Sound(n) /\ [Next]_vars /\ [~Task!Strikes(n)]_vars
        => Task!Sound(n)'
  BY SoundSurvives
<1>3. BaseInv /\ Task!Sound(n) /\ AnswersOf(n) /\ [Next]_vars => AnswersOf(n)'
  BY SoundHasTrueCopies, AnswersOfStep
<1>4. AnswersOf(n) => AnswersFinalFor(n)
  BY DEF AnswersOf, AnswersFinalFor, API!Request
<1>5. QED
  BY <1>1, <1>2, <1>3, <1>4, BaseInvariant, PTL DEF Spec

-----------------------------------------------------------------------------
(* Any number of workers, any faults                                       *)
(*                                                                         *)
(* A request opens the one chain of sends that no fault has to pay for.    *)

LEMMA FreshIsCoveredNext ==
  ASSUME NEW n \in Notification
  PROVE  Task!Fresh(n)' => Task!Covered(n)'
<1>1. Task!Fresh(n) => Task!Covered(n)
  BY TaskAssumptions, Task!FreshIsCovered
<1>2. QED
  BY <1>1, PTL

LEMMA RequestsKeepChains ==
  ASSUME BaseInv, Task!ChainInv, APIStep
  PROVE  Task!ChainInv'
<1>0. /\ UNCHANGED <<pc, job, attempts, deliveries, faults>>
      /\ Task!SafeInv' /\ faults \in Nat
  BY APIShape, SafeAPI DEF BaseInv, Task!SafeInv, Task!TypeOK
<1>1. UNCHANGED <<Task!Sending, Task!Delivering>>
  BY <1>0 DEF Task!Sending, Task!Delivering
<1>2. ASSUME NEW n \in Notification
      PROVE  /\ Task!LeftInTasks(n)' \subseteq Task!LeftInTasks(n)
             /\ Task!RunningChains(n)' \subseteq Task!RunningChains(n)
  BY <1>0, <1>1
  DEF Task!LeftInTasks, Task!RunningChains, Task!Id, Task!Made
\* The tickets of n are the same.
<1>3. ASSUME NEW n \in Notification, unacked' = unacked,
             \A t : t.id = n => (t \in ready' <=> t \in ready)
      PROVE  Task!Covered(n)'
  <2>1. \A t : t.id = n => (t \in Task!Loose' <=> t \in Task!Loose)
    BY <1>0, <1>3 DEF Task!Loose, Task!Held
  <2>2. /\ Task!LeftInQueue(n)' \subseteq Task!LeftInQueue(n)
        /\ Task!QueuedChains(n)' \subseteq Task!QueuedChains(n)
    BY <2>1 DEF Task!LeftInQueue, Task!QueuedChains
  <2>3. QED
    BY <1>0, <1>2, <2>2, TaskAssumptions, Task!NothingNew
<1>4. ASSUME UNCHANGED <<ready, unacked>> PROVE Task!ChainInv'
  <2>1. Task!RetriesInBudget'
    BY <1>0, <1>4 DEF Task!ChainInv, Task!RetriesInBudget
  <2>2. QED
    BY <1>0, <1>3, <1>4, <2>1 DEF Task!ChainInv
<1>5. ASSUME NEW r \in Notification, Publishes(r) PROVE Task!ChainInv'
  <2>1. PICK new : /\ ready' = ready \cup {new}
                   /\ new.id = r /\ new.retries = 0
    <3> DEFINE t == [id |-> r, seq |-> published[r] + 1,
                     retries |-> 0, countdown |-> 0]
    <3>1. ready' = ready \cup {t} /\ t.id = r /\ t.retries = 0
      BY <1>5 DEF Publishes
    <3>2. QED
      BY <3>1
  <2>2. unacked' = unacked /\ published[r] = 0
    BY <1>5 DEF Publishes, BaseInv, StepFits
  <2>3. ~Carried(r) /\ attempts[r] = 0 /\ deliveries[r] = 0
    BY <2>2 DEF BaseInv, WorkFits
  <2>4. Task!Fresh(r)'
    <3>1. Task!QueuedChains(r)' \subseteq {new}
      BY <2>1, <2>2, <2>3 DEF Task!QueuedChains, Task!Loose, Carried
    <3>2. \A w \in Worker : pc'[w] # "idle" => Task!Id(w)' # r
      BY <1>0, <2>3 DEF Carried, Task!Id
    <3>3. QED
      BY <1>0, <2>1, <2>3, <3>1, <3>2 DEF Task!Fresh
  <2>5. \A n \in Notification : Task!Covered(n)'
    BY <1>3, <2>1, <2>2, <2>4, FreshIsCoveredNext
  <2>6. Task!RetriesInBudget'
    BY <1>0, <2>1, <2>2, TaskAssumptions DEF Task!ChainInv, Task!RetriesInBudget
  <2>7. QED
    BY <1>0, <2>5, <2>6 DEF Task!ChainInv
<1>6. QED
  BY <1>4, <1>5, APIShape DEF Quiet, Commits

LEMMA ChainsInit == Init => Task!ChainInv
<1> SUFFICES ASSUME Init PROVE Task!ChainInv
  OBVIOUS
<1>1. BaseInv
  BY BaseInit
<1>2. Task!RetriesInBudget
  BY DEF Init, API!Init, Task!RetriesInBudget
<1>3. ASSUME NEW n \in Notification PROVE Task!Covered(n)
  <2> DEFINE t == [retries |-> 0]
  <2>1. t.retries = 0 /\ Task!QueuedChains(n) \subseteq {t}
    BY DEF Init, API!Init, Task!QueuedChains, Task!Loose
  <2>2. Task!Fresh(n)
    BY <2>1 DEF Init, API!Init, Task!Fresh
  <2>3. QED
    BY <2>2, TaskAssumptions, Task!FreshIsCovered
<1>4. QED
  BY <1>1, <1>2, <1>3 DEF BaseInv, Task!ChainInv

LEMMA ChainsStep ==
  ASSUME BaseInv, BaseInv', Task!ChainInv, [Next]_vars
  PROVE  Task!ChainInv'
<1>1. CASE APIStep
  BY <1>1, RequestsKeepChains
<1>2. CASE ~APIStep
  <2>1. ASSUME ~DeliveryStep PROVE UNCHANGED Task!vars
    <3>1. UNCHANGED <<ready, unacked, published, rows, pc, job, session, dlq,
                      logged, attempts, deliveries, faults>>
      BY <1>2, <2>1, ReadShape DEF Next, vars, brokerVars, workerState
    <3>2. QED
      BY <3>1
      DEF Task!vars, Task!brokerVars, Task!workerVars, Task!dlqVars, Task!historyVars
  <2>2. [Task!Next]_(Task!vars)
    BY <2>1, DeliveryNext
  <2>3. QED
    BY <2>2, TaskAssumptions, Task!ChainStep DEF BaseInv
<1>3. QED
  BY <1>1, <1>2

\* All messages of a key are messages of one notification, and each beyond
\* the first was paid for by a fault.
MessagesPaidFor ==
  \A r, s \in API!Request :
    (API!SameRequest(r, s) /\ deliveries[r] > 0 /\ deliveries[s] > 0)
      => r = s /\ deliveries[r] <= 1 + faults

\* However often a client repeats a key, however many workers there are and
\* whatever strikes them, the provider takes at most 1 + f messages for the
\* key after f faults of workers and broker: retried requests add none, and
\* neither do faults of the API.
THEOREM FaultsPayForMessages == Spec => []MessagesPaidFor
<1>1. ASSUME BaseInv, Task!ChainInv PROVE MessagesPaidFor
  <2> SUFFICES ASSUME NEW r \in Notification, NEW s \in Notification,
                      API!SameRequest(r, s), deliveries[r] > 0, deliveries[s] > 0
               PROVE  r = s /\ deliveries[r] <= 1 + faults
    BY DEF MessagesPaidFor, API!Request
  <2>1. /\ deliveries[r] \in Nat /\ deliveries[s] \in Nat
        /\ published[r] \in Nat /\ published[s] \in Nat
    BY <1>1 DEF BaseInv, Task!SafeInv, Task!TypeOK, Task!BrokerTypeOK
  <2>2. rows[r] # None /\ rows[s] # None
    BY <1>1, <2>1 DEF BaseInv, WorkFits
  <2>3. r = s
    BY <1>1, <2>2 DEF BaseInv, UniqueRows
  <2>4. Task!SendsBounded
    BY <1>1, TaskAssumptions, Task!ChainBound
  <2>5. QED
    BY <2>3, <2>4 DEF Task!SendsBounded
<1>2. QED
  BY <1>1, ChainsInit, ChainsStep, BaseInvariant, PTL DEF Spec

-----------------------------------------------------------------------------
(* Refinement: requests and workers together implement Service             *)
(*                                                                         *)
(* A worker's step is one of Lifecycle, by DispatchProofs; a request's     *)
(* commit creates, and its 202 answers.                                    *)

LEMMA StatusSeen ==
  ASSUME rows \in [Notification -> Row \cup {None}]
  PROVE  \A n \in Notification : Delivery!StatusOf[n] # None <=> rows[n] # None
  BY EngineAssumption DEF Delivery!StatusOf, Row

LEMMA StatusSeenNext ==
  ASSUME rows' \in [Notification -> Row \cup {None}]
  PROVE  \A n \in Notification : Delivery!StatusOf'[n] # None <=> rows'[n] # None
  BY EngineAssumption DEF Delivery!StatusOf, Row

LEMMA ServiceInit == Init => Abstract!Init
<1> SUFFICES ASSUME Init PROVE Abstract!Init
  OBVIOUS
<1>1. /\ rows = [n \in Notification |-> None]
      /\ deliveries = [n \in Notification |-> 0]
      /\ reply = [r \in API!Request |-> None]
      /\ dlq = {} /\ logged = {}
  BY DEF Init, API!Init
<1>2. /\ Delivery!StatusOf = [n \in Notification |-> None]
      /\ Delivery!BurnedOf = [n \in Notification |-> 0]
      /\ deliveries = [n \in Notification |-> 0]
      /\ dlq \cup logged = {}
  BY <1>1 DEF Delivery!StatusOf, Delivery!BurnedOf
<1>3. API!AnswerOf = [r \in Notification |-> None]
  BY <1>1 DEF API!AnswerOf, API!IsAccepted, API!Request
<1>4. Abstract!Life!Init
  BY <1>2 DEF Abstract!Life!Init
<1>5. Abstract!Keys!Init
  BY <1>2, <1>3 DEF Abstract!Keys!Init
<1>6. QED
  BY <1>4, <1>5 DEF Abstract!Init

LEMMA ServiceQuiet ==
  ASSUME UNCHANGED <<rows, reply, deliveries, dlq, logged>>
  PROVE  UNCHANGED Abstract!vars
  BY DEF Abstract!vars, Abstract!life, Delivery!StatusOf, Delivery!BurnedOf,
         API!AnswerOf, API!IsAccepted

\* A step of a life is the same in both places.
LEMMA SameLife ==
  ASSUME NEW n \in Notification, Task!Abstract!Progress(n)
  PROVE  Abstract!Life!Progress(n)
<1> USE DEF Task!StatusOf, Delivery!StatusOf, Task!BurnedOf, Delivery!BurnedOf,
            Task!Abstract!Move, Abstract!Life!Move,
            Task!Abstract!Burn, Abstract!Life!Burn
<1>1. CASE Task!Abstract!Begin(n)
  BY <1>1 DEF Task!Abstract!Begin, Abstract!Life!Begin, Abstract!Life!Progress
<1>2. CASE Task!Abstract!Deliver(n)
  BY <1>2 DEF Task!Abstract!Deliver, Abstract!Life!Deliver, Abstract!Life!Progress
<1>3. CASE Task!Abstract!Confirm(n)
  BY <1>3 DEF Task!Abstract!Confirm, Abstract!Life!Confirm, Abstract!Life!Progress
<1>4. CASE Task!Abstract!Defer(n)
  BY <1>4 DEF Task!Abstract!Defer, Abstract!Life!Defer, Abstract!Life!Progress
<1>5. CASE Task!Abstract!Fail(n)
  BY <1>5 DEF Task!Abstract!Fail, Abstract!Life!Fail, Abstract!Life!Progress
<1>6. CASE Task!Abstract!Bury(n)
  BY <1>6 DEF Task!Abstract!Bury, Abstract!Life!Bury, Abstract!Life!Progress
<1>7. QED
  BY <1>1, <1>2, <1>3, <1>4, <1>5, <1>6 DEF Task!Abstract!Progress

LEMMA WorkersServe ==
  ASSUME Task!Inv, DeliveryStep
  PROVE  [Abstract!Next]_(Abstract!vars)
<1>1. [Task!Abstract!Next]_(Task!Abstract!vars)
  BY DeliveryNext, TaskAssumptions, Task!AbstractStep
<1>2. UNCHANGED reply
  BY DEF DeliveryStep, requestState
<1>3. API!AnswerOf' = API!AnswerOf
  BY <1>2 DEF API!AnswerOf, API!IsAccepted
<1>4. CASE Task!Abstract!Next
  <2>1. PICK n \in Notification : Task!Abstract!Progress(n)
    BY <1>4 DEF Task!Abstract!Next
  <2>2. Abstract!Life!Progress(n)
    BY <2>1, SameLife
  <2>3. QED
    BY <1>3, <2>2 DEF Abstract!Next
<1>5. CASE UNCHANGED Task!Abstract!vars
  BY <1>3, <1>5
  DEF Task!Abstract!vars, Abstract!vars, Abstract!life, Task!StatusOf,
      Delivery!StatusOf, Task!BurnedOf, Delivery!BurnedOf
<1>6. QED
  BY <1>1, <1>4, <1>5

LEMMA RequestsServe ==
  ASSUME BaseInv, BaseInv', APIStep
  PROVE  [Abstract!Next]_(Abstract!vars)
<1>0. /\ UNCHANGED <<deliveries, dlq, logged>>
      /\ rows \in [Notification -> Row \cup {None}]
      /\ rows' \in [Notification -> Row \cup {None}]
      /\ reply \in [Notification -> API!Accepted \cup API!Refused \cup {None}]
      /\ \A r \in Notification : StepFits(r)
  BY APIShape, SameRows
  DEF BaseInv, RequestTypes, Task!SafeInv, Task!TypeOK
<1>a. /\ Notification = API!Request
      /\ \A r \in Notification : StepFits(r)
  BY <1>0 DEF API!Request
\* A 202 is the abstract answer.
<1>1. ASSUME NEW r \in Notification, step[r] # "done", UNCHANGED rows,
             NEW n \in Notification, NEW status \in Status, rows[n] # None,
             API!SameRequest(r, n),
             reply' = [reply EXCEPT ![r] =
                         [code |-> 202, id |-> n, status |-> status]]
      PROVE  Abstract!Next
  <2>1. Delivery!StatusOf[n] # None
    BY <1>0, <1>1, StatusSeen
  <2>2. API!AnswerOf[r] = None
    BY <1>a, <1>1 DEF API!AnswerOf, API!IsAccepted, StepFits
  <2>3. API!AnswerOf' = [API!AnswerOf EXCEPT ![r] = n]
    <3>1. [code |-> 202, id |-> n, status |-> status] # None
      BY <1>1, EngineAssumption DEF API!Accepted, API!Status, Status
    <3>2. QED
      BY <1>0, <1>a, <1>1, <3>1 DEF API!AnswerOf, API!IsAccepted
  <2>4. UNCHANGED <<Delivery!StatusOf, Delivery!BurnedOf>>
    BY <1>1 DEF Delivery!StatusOf, Delivery!BurnedOf
  <2>5. Abstract!Keys!Same(r, n)
    BY <1>1 DEF API!SameRequest, Abstract!Keys!Same
  <2>6. Abstract!Keys!Answer(r)
    BY <1>1, <2>1, <2>2, <2>3, <2>4, <2>5 DEF Abstract!Keys!Answer
  <2>7. QED
    BY <1>0, <2>4, <2>6 DEF Abstract!Answer, Abstract!life, Abstract!Next
\* An answer other than 202 is not seen.
<1>2. ASSUME NEW r \in Notification, step[r] # "done", NEW answer \in API!Refused,
             reply' = [reply EXCEPT ![r] = answer]
      PROVE  API!AnswerOf' = API!AnswerOf
  <2>1. answer.code # 202
    BY <1>2 DEF API!Refused
  <2>2. reply[r] = None
    BY <1>0, <1>2 DEF StepFits
  <2>3. QED
    BY <1>0, <1>a, <1>2, <2>1, <2>2 DEF API!AnswerOf, API!IsAccepted
\* A commit is the abstract creation.
<1>3. ASSUME NEW r \in Notification, Commits(r), API!AnswerOf' = API!AnswerOf
      PROVE  Abstract!Next
  <2>1. /\ rows[r] = None /\ rows' = [rows EXCEPT ![r] = NewRow]
        /\ ~API!Conflict(r)
    BY <1>0, <1>3 DEF Commits, StepFits
  <2>2. /\ Delivery!StatusOf' = [Delivery!StatusOf EXCEPT ![r] = "PENDING"]
        /\ Delivery!BurnedOf' = Delivery!BurnedOf
    BY <1>0, <2>1, NewRowType DEF Delivery!StatusOf, Delivery!BurnedOf
  <2>3. \A n \in Notification :
          Delivery!StatusOf[n] # None => ~Abstract!Keys!Same(r, n)
    BY <1>0, <2>1, StatusSeen
    DEF Abstract!Keys!Same, API!Conflict
  <2>4. \A n \in Notification :
          Delivery!StatusOf'[n] # None <=> (Delivery!StatusOf[n] # None \/ n = r)
    BY <1>0, <2>1, NewRowType, StatusSeen, StatusSeenNext
  <2>5. Abstract!Keys!Create(r)
    BY <1>3, <2>3, <2>4 DEF Abstract!Keys!Create
  <2>6. QED
    BY <1>0, <2>2, <2>5 DEF Abstract!Create, Abstract!Next
<1>4. ASSUME UNCHANGED rows, API!AnswerOf' = API!AnswerOf
      PROVE  UNCHANGED Abstract!vars
  BY <1>0, <1>4
  DEF Abstract!vars, Abstract!life, Delivery!StatusOf, Delivery!BurnedOf
<1>5. ASSUME UNCHANGED reply PROVE API!AnswerOf' = API!AnswerOf
  BY <1>5 DEF API!AnswerOf, API!IsAccepted
<1>6. ASSUME NEW r \in Notification, API!Replay(r) \/ API!ReadWinner(r)
      PROVE  Abstract!Next
  <2>1. PICK n \in API!FindByKey(r) :
          reply' = [reply EXCEPT ![r] =
                      [code |-> 202, id |-> n, status |-> rows[n].status]]
    BY <1>6 DEF API!Replay, API!ReadWinner, API!ReplyWith, API!Finish
  <2>2. UNCHANGED rows /\ step[r] # "done"
    BY <1>6 DEF API!Replay, API!ReadWinner
  <2>3. n \in Notification /\ rows[n] # None /\ API!SameRequest(r, n)
    BY <1>0, <1>6, <2>1
    DEF API!FindByKey, API!SameRequest, API!Replay, API!ReadWinner
  <2>4. rows[n].status \in Status
    BY <1>0, <2>3 DEF Row
  <2>5. QED
    BY <1>1, <2>1, <2>2, <2>3, <2>4
<1>7. ASSUME NEW r \in Notification,
             \/ API!LookupMisses(r) \/ API!LoseRace(r)
             \/ API!CommitRefused(r) \/ API!RequestDies(r)
      PROVE  UNCHANGED Abstract!vars
  BY <1>4, <1>5, <1>7
  DEF API!LookupMisses, API!LoseRace, API!CommitRefused, API!RequestDies
<1>8. ASSUME NEW r \in Notification, API!CommitRow(r) PROVE Abstract!Next
  <2>1. Commits(r)
    BY <1>8 DEF API!CommitRow, API!brokerVars, API!NewRow, NewRow, Commits
  <2>2. QED
    BY <1>3, <1>5, <1>8, <2>1 DEF API!CommitRow
<1>9. ASSUME NEW r \in Notification, API!Enqueue(r) PROVE Abstract!Next
  <2>1. step[r] # "done" /\ UNCHANGED rows
    BY <1>9 DEF API!Enqueue
  <2>2. rows[r] # None /\ API!SameRequest(r, r)
    BY <1>0, <1>9 DEF API!Enqueue, StepFits, API!SameRequest
  <2>3. reply' = [reply EXCEPT ![r] =
                    [code |-> 202, id |-> r, status |-> "PENDING"]]
    BY <1>9 DEF API!Enqueue, API!ReplyWith, API!Finish, API!NewRow
  <2>4. "PENDING" \in Status
    BY DEF Status
  <2>5. QED
    BY <1>1, <2>1, <2>2, <2>3, <2>4
<1>10. ASSUME NEW r \in Notification, API!EnqueueFails(r)
       PROVE  UNCHANGED Abstract!vars
  <2>1. step[r] # "done" /\ UNCHANGED rows
        /\ reply' = [reply EXCEPT ![r] = [code |-> 503]]
    BY <1>10 DEF API!EnqueueFails, API!Finish
  <2>2. [code |-> 503] \in API!Refused
    BY DEF API!Refused
  <2>3. API!AnswerOf' = API!AnswerOf
    BY ZenonT(30), <1>2, <2>1, <2>2
  <2>4. QED
    BY <1>4, <2>1, <2>3
<1>11. ASSUME NEW r \in Notification, API!CommitFails(r)
       PROVE  [Abstract!Next]_(Abstract!vars)
  <2>1. /\ step[r] = "insert" /\ reply' = [reply EXCEPT ![r] = [code |-> 500]]
        /\ UNCHANGED rows \/ Commits(r)
    BY <1>11
    DEF API!CommitFails, API!Finish, API!brokerVars, API!NewRow, NewRow, Commits
  <2>2. [code |-> 500] \in API!Refused /\ step[r] # "done"
    BY <2>1 DEF API!Refused
  <2>3. API!AnswerOf' = API!AnswerOf
    BY ZenonT(30), <1>2, <2>1, <2>2
  <2>4. QED
    BY <1>3, <1>4, <2>1, <2>3
<1>12. ASSUME NEW r \in Notification, API!SelectFails(r) \/ API!Reraise(r)
       PROVE  UNCHANGED Abstract!vars
  <2>1. step[r] # "done" /\ UNCHANGED rows
        /\ reply' = [reply EXCEPT ![r] = [code |-> 500]]
    BY <1>12 DEF API!SelectFails, API!Reraise, API!Finish
  <2>2. [code |-> 500] \in API!Refused
    BY DEF API!Refused
  <2>3. API!AnswerOf' = API!AnswerOf
    BY ZenonT(30), <1>2, <2>1, <2>2
  <2>4. QED
    BY <1>4, <2>1, <2>3
<1>13. QED
  BY <1>6, <1>7, <1>8, <1>9, <1>10, <1>11, <1>12
  DEF APIStep, API!Request, API!RequestStep, API!RequestFaultStep

\* accept, deliver_notification, the table and the queue together do nothing
\* that the one-step specification of the service does not allow, whatever
\* requests race, repeat and fail, however many workers there are and whatever
\* of theirs fails, as long as no ticket is delivered twice.
THEOREM EngineImplementsService ==
  ASSUME Task!NoDuplication
  PROVE  Spec => ImplementsService
<1>1. BaseInv /\ Task!Inv /\ BaseInv' /\ [Next]_vars => [Abstract!Next]_(Abstract!vars)
  <2> SUFFICES ASSUME BaseInv, Task!Inv, BaseInv', [Next]_vars
               PROVE  [Abstract!Next]_(Abstract!vars)
    OBVIOUS
  <2>1. CASE APIStep
    BY <2>1, RequestsServe
  <2>2. CASE DeliveryStep
    BY <2>2, WorkersServe
  <2>3. CASE \/ \E c \in Reader, n \in Notification : GetStatus(c, n)
             \/ \E c \in Reader : GetMetrics(c)
    BY <2>3, ReadShape, ServiceQuiet
  <2>4. CASE UNCHANGED vars
    BY <2>4, ServiceQuiet DEF vars, requestState, workerState
  <2>5. QED
    BY <2>1, <2>2, <2>3, <2>4 DEF Next
<1>2. QED
  BY <1>1, ServiceInit, TaskInvariant, PTL
  DEF Spec, ImplementsService, Abstract!Spec
=============================================================================
