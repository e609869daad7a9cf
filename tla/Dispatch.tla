------------------------------ MODULE Dispatch ------------------------------
(***************************************************************************)
(* The Celery side: the task notifications.deliver (app/workers/tasks.py)  *)
(* running DispatchService.dispatch (app/services/dispatch.py) in several  *)
(* task slots, of one worker process or more, against one notifications    *)
(* table and one broker.                                                   *)
(*                                                                         *)
(* A worker's pc names the next thing its task does:                       *)
(*   idle         no task                                                  *)
(*   load         SELECT the row                                           *)
(*   begin        commit PENDING -> PROCESSING                             *)
(*   send         call the provider                                        *)
(*   ok, transient, permanent                                              *)
(*                the provider has answered, the commit is to come         *)
(*   retry        task.retry: publish the next ticket                      *)
(*   dead_letter  publish the id on notifications.dlq                      *)
(*   ack          the task is over, the ticket still to be acknowledged    *)
(* Between any two of these steps another worker may run, and a fault may  *)
(* strike.                                                                 *)
(***************************************************************************)
EXTENDS Broker, Provider, FiniteSets

CONSTANTS
  Worker,     \* task slots of the worker processes
  Outcomes,   \* for each notification, the answers its provider may give
  Faults,     \* the kinds of fault that may happen
  MaxFaults   \* bound on the number of faults

FaultKind == {"crash", "redeliver", "task_error", "retry_publish", "dlq_publish"}

ASSUME DispatchAssumption ==
  /\ Outcomes \in [Notification -> (SUBSET Outcome) \ {{}}]
  /\ Faults \subseteq FaultKind
  /\ MaxFaults \in Nat

VARIABLES
  rows,        \* the notifications table
  pc, job,     \* per worker: control state, and the ticket it executes
  session,     \* per worker: the ORM copy of the row
  dlq,         \* ids waiting on the queue notifications.dlq
  logged,      \* ids logged as notification_dead_lettered
  attempts,    \* history: provider calls per notification
  deliveries,  \* history: successful provider calls per notification
  faults       \* number of faults so far

historyVars == <<attempts, deliveries>>
dlqVars == <<dlq, logged>>
workerVars == <<pc, job, session>>
vars == <<brokerVars, rows, workerVars, dlqVars, historyVars, faults>>

PC == {"idle", "load", "begin", "send", "retry", "dead_letter", "ack"} \cup Outcome

-----------------------------------------------------------------------------
(* Helpers *)

Id(w) == job[w].id

\* A commit of worker w: the UPDATE carries no condition but the id.
Update(w, row) == rows' = [rows EXCEPT ![Id(w)] = row]

Goto(w, label) == pc' = [pc EXCEPT ![w] = label]

Remember(w, row) == session' = [session EXCEPT ![w] = row]

\* session.close() in the finally of deliver_notification.
Close(w) == session' = [session EXCEPT ![w] = None]

\* The task is over: slot free.
Release(w) ==
  /\ pc' = [pc EXCEPT ![w] = "idle"]
  /\ job' = [job EXCEPT ![w] = None]
  /\ Close(w)

Fault(kind) ==
  /\ kind \in Faults
  /\ faults < MaxFaults
  /\ faults' = faults + 1

\* Any table with a ticket for each id.  A ticket may outlive its row: the
\* broker and the database are separate stores.
Init ==
  /\ rows \in [Notification -> {None, NewRow}]
  /\ ready = [id : Notification, seq : {1}, retries : {0}, countdown : {0}]
  /\ unacked = {}
  /\ published = [n \in Notification |-> 1]
  /\ pc = [w \in Worker |-> "idle"]
  /\ job = [w \in Worker |-> None]
  /\ session = [w \in Worker |-> None]
  /\ dlq = {}
  /\ logged = {}
  /\ attempts = [n \in Notification |-> 0]
  /\ deliveries = [n \in Notification |-> 0]
  /\ faults = 0

-----------------------------------------------------------------------------
(* One task *)

\* An idle slot starts deliver_notification on a ticket.
Receive(w, t) ==
  /\ pc[w] = "idle"
  /\ Deliver(t)
  /\ job' = [job EXCEPT ![w] = t]
  /\ Goto(w, "load")
  /\ UNCHANGED <<rows, session, dlqVars, historyVars, faults>>

\* No row: MISSING, the task does nothing more.
LoadMissing(w) ==
  /\ pc[w] = "load"
  /\ rows[Id(w)] = None
  /\ Goto(w, "ack")
  /\ UNCHANGED <<brokerVars, rows, job, session, dlqVars, historyVars, faults>>

\* Variant that only recognises SENT as final.
SkipSentOnly(row) == row # None /\ row.status = "SENT"

\* The statuses for which dispatch answers SKIPPED.
Skip(row) == Settled(row)

\* SENT or FAILED: SKIPPED, which carries no dead_letter flag.
LoadSettled(w) ==
  /\ pc[w] = "load"
  /\ Skip(rows[Id(w)])
  /\ Goto(w, "ack")
  /\ UNCHANGED <<brokerVars, rows, job, session, dlqVars, historyVars, faults>>

\* Variant that takes a PROCESSING row for one already sent.
LoadOpenAssumingSent(w) ==
  /\ pc[w] = "load"
  /\ rows[Id(w)] # None
  /\ ~Skip(rows[Id(w)])
  /\ Remember(w, rows[Id(w)])
  /\ Goto(w, IF rows[Id(w)].status = "PENDING" THEN "begin" ELSE "ok")
  /\ UNCHANGED <<brokerVars, rows, job, dlqVars, historyVars, faults>>

\* PENDING: PROCESSING has to be committed first.  PROCESSING (an earlier
\* task died): straight to the provider.
LoadOpen(w) ==
  /\ pc[w] = "load"
  /\ rows[Id(w)] # None
  /\ ~Skip(rows[Id(w)])
  /\ Remember(w, rows[Id(w)])
  /\ Goto(w, IF rows[Id(w)].status = "PENDING" THEN "begin" ELSE "send")
  /\ UNCHANGED <<brokerVars, rows, job, dlqVars, historyVars, faults>>

\* Variant that tells the session, not the database.
BeginProcessingUncommitted(w) ==
  /\ pc[w] = "begin"
  /\ Remember(w, [session[w] EXCEPT !.status = "PROCESSING"])
  /\ Goto(w, "send")
  /\ UNCHANGED <<brokerVars, rows, job, dlqVars, historyVars, faults>>

\* The write-ahead commit.  Only status changed in the session, so only
\* status is in the UPDATE.
BeginProcessing(w) ==
  /\ pc[w] = "begin"
  /\ CanTransition(session[w].status, "PROCESSING")
  /\ Update(w, [rows[Id(w)] EXCEPT !.status = "PROCESSING"])
  /\ Remember(w, [session[w] EXCEPT !.status = "PROCESSING"])
  /\ Goto(w, "send")
  /\ UNCHANGED <<brokerVars, job, dlqVars, historyVars, faults>>

\* The provider call.  A task that has committed PROCESSING holds no
\* transaction meanwhile; one that resumed from PROCESSING is still in the
\* transaction of its SELECT, which locks nothing.
Send(w) ==
  /\ pc[w] = "send"
  /\ \E outcome \in Outcomes[Id(w)] :
       /\ Goto(w, outcome)
       /\ deliveries' = [deliveries EXCEPT ![Id(w)] =
                           IF outcome = "ok" THEN @ + 1 ELSE @]
  /\ attempts' = [attempts EXCEPT ![Id(w)] = @ + 1]
  /\ UNCHANGED <<brokerVars, rows, job, session, dlqVars, faults>>

\* Variant that forgets to clear error_message.
SentRowKeepingError(row, copy) ==
  [row EXCEPT !.status = "SENT", !.sent_at = TRUE]

\* Setting error_message to None is written only if the session's copy held
\* something else: SQLAlchemy leaves unchanged attributes out of the UPDATE.
SentRow(row, copy) ==
  [row EXCEPT !.status = "SENT", !.sent_at = TRUE,
              !.error_message = @ /\ ~copy.error_message]

CommitSent(w) ==
  /\ pc[w] = "ok"
  /\ CanTransition(session[w].status, "SENT")
  /\ Update(w, SentRow(rows[Id(w)], session[w]))
  /\ Close(w)
  /\ Goto(w, "ack")
  /\ UNCHANGED <<brokerVars, job, dlqVars, historyVars, faults>>

\* Variant that forgets to count the failure.
BurnedUncounted(copy) == copy.retry_count

\* row.retry_count += 1, on the session's copy.
Burned(copy) == copy.retry_count + 1

\* The UPDATE of a failed attempt writes the absolute retry_count.  The error
\* text is not written when it equals the text the session loaded.
FailedRow(row, copy, status, written) ==
  [row EXCEPT !.status = status, !.retry_count = Burned(copy),
              !.error_message = @ \/ written]

FailedAttempt(w, status) ==
  \E written \in {TRUE, ~session[w].error_message} :
    Update(w, FailedRow(rows[Id(w)], session[w], status, written))

\* _handle_send_failure with budget left: back to PENDING, then RETRY.
CommitRetry(w) ==
  /\ pc[w] \in {"transient", "permanent"}
  /\ ShouldRetry(Burned(session[w]), Retryable(pc[w]))
  /\ CanTransition(session[w].status, "PENDING")
  /\ FailedAttempt(w, "PENDING")
  /\ Remember(w, [session[w] EXCEPT !.status = "PENDING",
                                    !.retry_count = Burned(session[w])])
  /\ Goto(w, "retry")
  /\ UNCHANGED <<brokerVars, job, dlqVars, historyVars, faults>>

\* Variant that forgets the dead_letter flag.
CommitFailedSilently(w) ==
  /\ pc[w] \in {"transient", "permanent"}
  /\ ~ShouldRetry(Burned(session[w]), Retryable(pc[w]))
  /\ FailedAttempt(w, "FAILED")
  /\ Close(w)
  /\ Goto(w, "ack")
  /\ UNCHANGED <<brokerVars, job, dlqVars, historyVars, faults>>

\* _handle_send_failure out of budget, or permanent: FAILED, dead_letter.
CommitFailed(w) ==
  /\ pc[w] \in {"transient", "permanent"}
  /\ ~ShouldRetry(Burned(session[w]), Retryable(pc[w]))
  /\ CanTransition(session[w].status, "FAILED")
  /\ FailedAttempt(w, "FAILED")
  /\ Close(w)
  /\ Goto(w, "dead_letter")
  /\ UNCHANGED <<brokerVars, job, dlqVars, historyVars, faults>>

\* Variant that forgets to count Celery's retries up.
NextRetriesStuck(t) == t.retries

\* request.retries of the next ticket.
NextRetries(t) == t.retries + 1

\* task.retry publishes a copy of the ticket with the next retries count and
\* the countdown of the attempt just burned, then raises Retry.
Retry(w) ==
  /\ pc[w] = "retry"
  /\ NextRetries(job[w]) <= MaxRetries
  /\ Publish(Id(w), NextRetries(job[w]), CountdownFor(session[w].retry_count))
  /\ Goto(w, "ack")
  /\ UNCHANGED <<rows, job, session, dlqVars, historyVars, faults>>

\* Celery's own budget is exhausted: task.retry raises
\* MaxRetriesExceededError, the task fails, nothing is published.
RetryRefused(w) ==
  /\ pc[w] = "retry"
  /\ NextRetries(job[w]) > MaxRetries
  /\ Goto(w, "ack")
  /\ UNCHANGED <<brokerVars, rows, job, session, dlqVars, historyVars, faults>>

\* The DLQ ticket.
PublishDeadLetter(w) ==
  /\ pc[w] = "dead_letter"
  /\ dlq' = dlq \cup {Id(w)}
  /\ Goto(w, "ack")
  /\ UNCHANGED <<brokerVars, rows, job, session, logged, historyVars, faults>>

\* Late acknowledgement, once deliver_notification has returned or raised.
Ack(w) ==
  /\ pc[w] = "ack"
  /\ Acknowledge(job[w])
  /\ Release(w)
  /\ UNCHANGED <<rows, dlqVars, historyVars, faults>>

\* The task notifications.dead_letter only logs the id.
RecordDeadLetter(w, n) ==
  /\ pc[w] = "idle"
  /\ n \in dlq
  /\ dlq' = dlq \ {n}
  /\ logged' = logged \cup {n}
  /\ UNCHANGED <<brokerVars, rows, workerVars, historyVars, faults>>

-----------------------------------------------------------------------------
(* Faults *)

\* The celery worker of this slot dies as a whole: its ticket stays
\* unacknowledged.  The death of a worker with several slots is several of
\* these faults.
Crash(w) ==
  /\ pc[w] # "idle"
  /\ Fault("crash")
  /\ Release(w)
  /\ UNCHANGED <<brokerVars, rows, dlqVars, historyVars>>

\* Variant with a visibility timeout shorter than a task.
RestoreEarly(t) ==
  /\ Requeue(t)
  /\ UNCHANGED <<rows, workerVars, dlqVars, historyVars, faults>>

\* The visibility timeout puts the ticket of a dead worker back.
Restore(t) ==
  /\ Requeue(t)
  /\ \A w \in Worker : job[w] # t
  /\ UNCHANGED <<rows, workerVars, dlqVars, historyVars, faults>>

\* A slow task or a lost broker connection: the ticket is put back although
\* its task is still running.
Redeliver(t) ==
  /\ Requeue(t)
  /\ \E w \in Worker : job[w] = t
  /\ Fault("redeliver")
  /\ UNCHANGED <<rows, workerVars, dlqVars, historyVars>>

\* Variant with task_acks_on_failure_or_timeout switched off.
TaskFailsUnacked(w) ==
  /\ pc[w] \notin {"idle", "ack"}
  /\ Fault("task_error")
  /\ Release(w)
  /\ UNCHANGED <<brokerVars, rows, dlqVars, historyVars>>

\* An exception leaves deliver_notification (a SELECT or a COMMIT failed), or
\* the pool process alone is killed: no result is applied, and
\* task_acks_on_failure_or_timeout acknowledges the ticket all the same.
TaskFails(w) ==
  /\ pc[w] \notin {"idle", "ack"}
  /\ Fault("task_error")
  /\ Acknowledge(job[w])
  /\ Release(w)
  /\ UNCHANGED <<rows, dlqVars, historyVars>>

\* The publish inside task.retry fails: Celery rejects the ticket without
\* requeueing it.
RetryPublishFails(w) ==
  /\ pc[w] = "retry"
  /\ NextRetries(job[w]) <= MaxRetries
  /\ Fault("retry_publish")
  /\ Goto(w, "ack")
  /\ UNCHANGED <<brokerVars, rows, job, session, dlqVars, historyVars>>

\* The DLQ publish fails: logged and swallowed.
DeadLetterPublishFails(w) ==
  /\ pc[w] = "dead_letter"
  /\ Fault("dlq_publish")
  /\ Goto(w, "ack")
  /\ UNCHANGED <<brokerVars, rows, job, session, dlqVars, historyVars>>

-----------------------------------------------------------------------------

\* What a worker does by itself once it has a ticket.
WorkerStep(w) ==
  \/ LoadMissing(w) \/ LoadSettled(w) \/ LoadOpen(w)
  \/ BeginProcessing(w)
  \/ Send(w)
  \/ CommitSent(w) \/ CommitRetry(w) \/ CommitFailed(w)
  \/ Retry(w) \/ RetryRefused(w) \/ PublishDeadLetter(w)
  \/ Ack(w)

FaultStep ==
  \/ \E w \in Worker :
       \/ Crash(w) \/ TaskFails(w)
       \/ RetryPublishFails(w) \/ DeadLetterPublishFails(w)
  \/ \E t \in unacked : Redeliver(t)

\* Every worker waits for a ticket and there is none.
Idle ==
  /\ ready = {} /\ unacked = {} /\ dlq = {}
  /\ \A w \in Worker : pc[w] = "idle"
  /\ UNCHANGED vars

Next ==
  \/ \E w \in Worker, t \in ready : Receive(w, t)
  \/ \E w \in Worker : WorkerStep(w)
  \/ \E w \in Worker, n \in dlq : RecordDeadLetter(w, n)
  \/ \E t \in unacked : Restore(t)
  \/ FaultStep
  \/ Idle

Spec == Init /\ [][Next]_vars

ReceiveFor(n) == \E w \in Worker, t \in ready : t.id = n /\ Receive(w, t)

RestoreFor(n) == \E t \in unacked : t.id = n /\ Restore(t)

\* A running task goes on, and the provider call returns; the queue is first
\* in first out, so a ticket is served however often others are; Redis
\* restores unacknowledged tickets by itself.
Fairness ==
  /\ \A w \in Worker : WF_vars(WorkerStep(w))
  /\ \A n \in Notification :
       /\ SF_vars(ReceiveFor(n))
       /\ SF_vars(\E w \in Worker : RecordDeadLetter(w, n))
       /\ WF_vars(RestoreFor(n))

FairSpec == Spec /\ Fairness

-----------------------------------------------------------------------------
(* Properties *)

\* Every variable holds values of the shape the code gives it.
TypeOK ==
  /\ BrokerTypeOK
  /\ rows \in [Notification -> Row \cup {None}]
  /\ pc \in [Worker -> PC]
  /\ job \in [Worker -> Ticket \cup {None}]
  /\ session \in [Worker -> Row \cup {None}]
  /\ dlq \in SUBSET Notification
  /\ logged \in SUBSET Notification
  /\ attempts \in [Notification -> Nat]
  /\ deliveries \in [Notification -> Nat]
  /\ faults \in Nat

\* Workers between loading a row and handing their result to Celery.
Working == {w \in Worker : pc[w] \notin {"idle", "ack"}}

\* A ticket or a task that will still look at n.
InFlight(n) ==
  \/ \E t \in ready \cup unacked : t.id = n
  \/ \E w \in Working : Id(w) = n

Open(n) == rows[n] # None /\ ~Settled(rows[n])

\* The database only ever moves a status along the table of state_machine.py,
\* whatever two tasks do to the same row: the code checks each transition
\* against its session's copy, never against the row.
TransitionsFollowTable ==
  [][\A n \in Notification :
       (rows[n] # None /\ rows'[n].status # rows[n].status)
         => CanTransition(rows[n].status, rows'[n].status)]_rows

\* The recipient gets a notification at most once: a provider success is
\* never followed by another provider success for the same id.
AtMostOneDelivery == \A n \in Notification : deliveries[n] <= 1

\* retry_policy.py: max_attempts is how many sends are allowed.
SendsWithinBudget == \A n \in Notification : attempts[n] <= MaxAttempts

RowConsistent(row) ==
  /\ row.sent_at <=> row.status = "SENT"
  /\ row.error_message <=> row.retry_count > 0 /\ row.status # "SENT"
  /\ row.status = "FAILED" => row.retry_count > 0
  /\ row.retry_count <= MaxAttempts

\* The columns of a row tell the same story: sent_at exactly on SENT rows, no
\* error left on a SENT row, an error on a row that has burned attempts and
\* on no other, and no attempt burned beyond the budget.
RowsConsistent ==
  \A n \in Notification : rows[n] # None => RowConsistent(rows[n])

\* Celery counts retries in the ticket, the code counts attempts in the row.
\* A waiting ticket agrees with its row: max_retries = max_attempts - 1 is
\* then never what ends the retries.  And the schedule advances by one slot
\* per failure (README: "extra attempts cap at
\* 45s").
CountersAgree ==
  /\ \A t \in ready : rows[t.id] # None =>
       /\ t.retries = rows[t.id].retry_count
       /\ t.retries \in DOMAIN Countdowns => t.countdown = Countdowns[t.retries]
       /\ t.retries > Len(Countdowns) => t.countdown = Countdowns[Len(Countdowns)]
  /\ \A w \in Worker : pc[w] = "retry" => NextRetries(job[w]) <= MaxRetries

\* No two tasks work on the same notification at the same time.
NoConcurrentTasks ==
  \A v, w \in Working : v # w => Id(v) # Id(w)

\* SENT, or a sent_at, means the provider took the message: no crash, stale
\* copy or lost update ever makes the database claim a send that was not made.
SentWasDelivered ==
  \A n \in Notification :
    (rows[n] # None /\ (rows[n].status = "SENT" \/ rows[n].sent_at))
      => deliveries[n] > 0

\* An open row always has a ticket or a task that will come back to it, however
\* often the one task slot dies or is given a ticket again.
NothingLost == \A n \in Notification : Open(n) => InFlight(n)

\* A row at rest in FAILED has been dead-lettered (README: "exhausted or
\* permanent failures become FAILED and the id is published to the named
\* queue notifications.dlq").
FailedIsDeadLettered ==
  \A n \in Notification :
    (rows[n] # None /\ rows[n].status = "FAILED" /\ ~InFlight(n))
      => n \in dlq \cup logged

\* Lost updates can rewind the row's retry_count, so the row alone does not
\* bound the sends: Celery's max_retries bounds each ticket's chain, a chain
\* ends with its first success, and a crash or a redelivery adds at most one
\* chain.
SendsBounded ==
  \A n \in Notification :
    /\ attempts[n] <= MaxAttempts * (1 + faults)
    /\ deliveries[n] <= 1 + faults

\* What one notification is promised while nothing strikes it: it arrives at
\* most once and within its budget, its columns agree, it is not lost while
\* open, and it is FAILED for a reason and then dead-lettered.
Unharmed(n) ==
  /\ deliveries[n] <= 1
  /\ attempts[n] <= MaxAttempts
  /\ rows[n] # None => RowConsistent(rows[n])
  /\ Open(n) => InFlight(n)
  /\ (rows[n] # None /\ rows[n].status = "FAILED") =>
       /\ "permanent" \notin Outcomes[n] => attempts[n] = MaxAttempts
       /\ Outcomes[n] = {"permanent"} => attempts[n] = 1
       /\ InFlight(n) \/ n \in dlq \cup logged

\* Whatever strikes, and however many workers there are, a fault breaks these
\* promises for the one notification it strikes: workers share the table and
\* the broker, but never each other's tickets, rows or copies.
DamageContained ==
  Cardinality({n \in Notification : ~Unharmed(n)}) <= faults

\* No provider call is made for a notification whose row already says SENT or
\* FAILED: nothing gets between the status check and the call.
NoSendOnceSettled ==
  [][\A n \in Notification :
       attempts'[n] # attempts[n] => ~Settled(rows[n])]_attempts

\* Retryable failures never give up early and permanent ones never go on: a
\* FAILED row has used the whole budget, unless the provider refused it for
\* good, and then the refusal was its last attempt.
FailedForAReason ==
  \A n \in Notification :
    (rows[n] # None /\ rows[n].status = "FAILED")
      => /\ "permanent" \notin Outcomes[n] => attempts[n] = MaxAttempts
         /\ Outcomes[n] = {"permanent"} => attempts[n] = 1

\* Every accepted notification ends in SENT or FAILED, and stays there (README:
\* "PENDING -> PROCESSING -> SENT (or FAILED)").
EventuallySettled ==
  \A n \in Notification : (rows[n] # None) => <>[]Settled(rows[n])

\* Every FAILED id ends up in the dead-letter log.
EventuallyDeadLettered ==
  \A n \in Notification :
    (rows[n] # None /\ rows[n].status = "FAILED") ~> (n \in logged)

-----------------------------------------------------------------------------
(* The abstract specification this module implements *)

StatusOf == [n \in Notification |-> IF rows[n] = None THEN None ELSE rows[n].status]

BurnedOf == [n \in Notification |-> IF rows[n] = None THEN 0 ELSE rows[n].retry_count]

Abstract ==
  INSTANCE Lifecycle WITH
    status    <- StatusOf,
    burned    <- BurnedOf,
    delivered <- deliveries,
    buried    <- dlq \cup logged

\* Without duplicated tickets, workers, tickets and session copies together
\* do no more than Lifecycle allows.
ImplementsLifecycle == Abstract!Spec

\* Without faults they also do all that Lifecycle promises.
ImplementsFairLifecycle == Abstract!FairSpec
=============================================================================
