# A formal model of notifications-engine

TLA+ modules, TLC configurations and TLAPS proofs for the notification
service in `src/`: a FastAPI process accepts send requests into PostgreSQL and
publishes ids on a Celery queue; Celery workers deliver them through a provider
and retry; a Redis token bucket limits `POST /send`.

    tlasany M.tla                    parse
    tlc -workers 2 -config X.cfg M   model-check (X.cfg and M: table of runs)
    tlapm P.tla                      check the proofs of a *Proofs module

## 1. The system

| component | code (`src/app/...`) | state | operations |
| --- | --- | --- | --- |
| delivery | `workers/tasks.py`, `services/dispatch.py` | per task: ORM copy of a row, ticket | `dispatch`, `_handle_send_failure`, `apply_delivery_result`, `record_dead_letter` |
| domain | `domain/` | none | transition table, retry policy |
| broker | `workers/celery_app.py` (Celery, kombu, Redis index 1) | queues `notifications`, `notifications.dlq`; unacknowledged tickets | publish, deliver, acknowledge late, redeliver |
| provider | `providers/` | none | `send` |
| accept | `services/notification_service.py`, `services/queue.py`, `repositories/notification_repository.py` | per request: a session | `accept`, `enqueue` |
| table | `models/notification.py` | rows; unique index on (client_id, idempotency_key) | insert, update by id, select |
| rate limiter | `core/rate_limit.py`, `api/middleware/rate_limit.py` | one Redis hash per key or address | `consume` |
| HTTP process | `main.py`, `api/deps.py`, `api/routers/`, `api/middleware/`, `core/db.py`, `models/client.py` | requests in flight, worker threads, pooled connections; clients (seeded by hand) | limit, authenticate, validate, run a handler, map errors to codes, close the session |
| reads | `get_status`, `services/metrics_service.py` | none | select, count |
| settings, logging, migrations | `core/config.py`, `core/logging.py`, `alembic/` | none that a request changes | - |

The parts meet in three places. The **row** is written by `accept` (insert) and
by every task that carries the notification's ticket (update by id, no condition
on the status). The **ticket** is published by `accept` after the insert is
committed, and again by `task.retry` for each further attempt. The **bucket** is
shared by all API processes. Between processes nothing else is shared: no locks,
no versions, no transaction spans two of the stores. Within an API process the
requests share worker threads and database connections.

What is hard in it, and hard to reach with a test:

- a task works for its whole life on the copy it loaded; another task may have
  changed the row (stale checks, lost updates of `retry_count`);
- commit, publish and acknowledgement are three stores' steps, and a worker may
  die between any two: attempts repeated, tickets doubled, dead letters missed;
- two retry counters, the row's and Celery's, must agree for the budget to be
  exactly `max_attempts`;
- two requests with one idempotency key race between lookup and insert;
- a publish may fail after the row is committed, or succeed and look failed;
- the limiter reads the clock and runs its script in two round trips;
- a request waits for a thread twice and for a connection in between, and keeps the
  connection over the second wait: threads and connections can wait for each other;
- a request can be refused at four depths, and each way out must give everything
  back and leave nothing behind.

`PROJECT.json` lists each of these at its line under `hazards`, with the
properties that watch it.

What makes each component correct: *delivery* - every open row keeps a carrier,
ends in SENT or FAILED, is sent at most once and at most `max_attempts` times,
follows the table, and a FAILED id is dead-lettered; *accept* - one notification
per client and key, enqueued once, after its row is there, and a 202 only for
such a notification; *limiter* - no more than a full bucket and its refill in any
stretch of time, and a truthful `Retry-After`; *HTTP process* - every request is
answered, holds a thread and a connection only while it is entitled to them, is
charged to its own bucket, and is refused without a trace; *reads* - a client sees
a notification only move forward.

## 2. Modules

    NotificationDomain      statuses, table, retry policy, shape of a row
      Broker                tickets of the queue "notifications"
        Dispatch            workers      (+ Provider)     implements Lifecycle
        Accept              requests                      implements Idempotency
      Lifecycle             what delivery promises
    Idempotency             what accepting promises
      Service               both promises together, from request to recipient
    Engine                  Accept, Dispatch and the reads over one table and broker
                                                          implements Service
    Http                    one API process around the steps of Accept
    TokenBucket             the limiter

    MCDispatch, MCAccept, MCEngine, MCHttp, MCTokenBucket      instances for TLC
    DispatchProofs                                             theorems
      OneWorkerProofs         what a single task slot adds
      ChainProofs             what holds in spite of doubled tickets
        ContainmentProofs     (extends both) whom a fault can harm
          EngineProofs        (instantiates it)
    AcceptProofs
      HttpProofs              (instantiates it)
    TokenBucketProofs

Definitions whose comment begins with "Variant" are plausible mistakes in the
definition after them; they are used to see that a property notices the mistake,
and by nothing else.

**NotificationDomain** has the table `_ALLOWED` as the function `Allowed`, the
policy as `ShouldRetry` and `CountdownFor`, and the columns of a row that the
services change: `status`, `retry_count`, and whether `error_message` and
`sent_at` are set (the texts and times do not matter to anyone).

**Broker** models Celery from how the code uses it. A ticket has the id,
`request.retries`, the countdown and a sequence number standing for the delivery
tag. `Deliver` moves it to the unacknowledged set (`task_acks_late`),
`Acknowledge` drops it, `Requeue` is the redelivery of the Redis transport. Time
is not modelled: a countdown only lets a ticket wait.

**Dispatch** splits `deliver_notification` where another process can get in
between: load, commit of PROCESSING, provider call, commit of the result,
publish, acknowledgement. `session[w]` is the ORM copy: `CanTransition` and
`Burned` read the copy, `Update` writes the row, as in the code
(`expire_on_commit=False`, no condition in the UPDATE, unchanged attributes left
out of it). A `Worker` is a slot that runs one task at a time: a worker process of
its own (`--concurrency=1`, `--pool=solo`), or one child of the prefork pool that
the repository's README starts (line 167). Faults: `Crash` (the celery worker of a
slot dies as a whole with its ticket unacknowledged, which `Restore` later puts
back; when the main process of a prefork pool dies, which holds the tickets of all
its children, that is one such fault for each running task), `TaskFails` (an
exception leaves the task, and `task_acks_on_failure_or_timeout` acknowledges it; the
death of a prefork child alone is the same), `RetryPublishFails` (Celery rejects the
ticket), `DeadLetterPublishFails` (swallowed by the code), and `Redeliver` (a ticket
put back while its task still runs). Initially any of the notifications may have no
row, so that `MISSING` happens.

**Accept** splits `accept` at each round trip: lookup, commit, recovery after an
`IntegrityError`, publish. A request stands for the UUID it would insert. The lookup
(`FindByKey`) and the unique index (`Conflict`) are defined apart, each from its own
source, so that they could disagree. An `IntegrityError` comes from the index
(`LoseRace`) or, as a fault, from another constraint (`CommitRefused`, say the foreign
key to a client that is gone); either way the winner is looked for, and without a key
or without a winner the error goes on (`Reraise`, 500). The other faults: the process
dies, the SELECT by key raises at either of its two places, a commit raises something
else (and may have happened), a publish raises (and may have happened).

**Engine** instantiates Accept and Dispatch with the same rows and tickets: a step
is a request's, a worker's or a read. `GetStatus` and `GetMetrics` are one SELECT
each; `told` and `counted` keep what a client was last shown. It starts with an
empty table, so what Dispatch assumes at its start (any id may have a ticket and
no row) is here a consequence of what requests do.

**Http** follows each request of one API process from the middleware to the closed
session. Dependencies and handlers are synchronous, so FastAPI runs each in a worker
thread (`threads`, at most `Threads`) and gives the thread back in between; the
session takes a connection with its first SELECT, in `get_current_client`, and keeps
it until a commit, a rollback or `session.close()` (`conns`, at most `PoolSize`).
`Admit`, `Deny` and `LimiterFails` are the middleware, `BeginAuthentication` to
`RejectKey` the dependencies, `BeginHandling` and the actions after it the handler.
A body that is no JSON is refused before the dependencies (`RefuseMalformed`), one
that does not fit the schema after them (`RefuseInvalid`), as FastAPI does. The steps
inside `accept` are those of Accept, instantiated as `Service` after the class
`NotificationService`, each with what it does
to threads and connections: `EndTransaction` is the commit or the rollback, which
give the connection back before the publish; `AnswerWithWinner` needs another one.
`PoolTimesOut` is SQLAlchemy's timeout. Each SELECT can raise, and is then answered
500 and its session closed: the one that authenticates (`AuthenticationFails`), those
of the reads (`ReadFails`), and the lookups by key and for the winner
(`KeyLookUpFails`). So can a commit (`CommitBreaks`), the row be refused
(`CommitRefused`, then `AnswerReraised`) and the publish fail (`AnswerUnavailable`).
`failures` counts what failed; a pool that times out is the load's doing and does not
count. That the steps of Http are steps of Accept is so by construction and no
property of the model; the proofs use it (`StepOfAccept`). The bucket is a number of
tokens here (`Budget`); how they refill is TokenBucket's subject. That `consume` is a
synchronous call in the event loop is why one process never has two scripts under
way, the assumption `OneProcess` of TokenBucket.

**TokenBucket** counts a token as `Period` credits, so a refill is an integer.
`ReadClock` is `redis.time()`, `Admit` and `Deny` are the Lua script with that
reading, `StoreFails` is a `RedisError` with or without the script having run,
`Expire` is `PEXPIRE`. The `retry_after < 1` and `tokens < 0` corrections of the
script never apply in exact arithmetic.

**Lifecycle** is delivery without workers, tickets or copies: an attempt
begins, the message is delivered once, a failure is counted and deferred or final,
a final failure is buried. **Idempotency** is accepting in one step. **Service** is
what a client may rely on if it sees neither: a key is looked up or its notification
created in one step, each request is answered with that notification's id, and each
notification lives its Lifecycle alone. Engine maps its table, its history and its
202s to the variables of Service.

## 3. Runs

| run | module, cfg | question | answer |
| --- | --- | --- | --- |
| dispatch_lossy | MCDispatch, DispatchLossy | failing tasks and publishes, no ticket twice | implements Lifecycle; at most one delivery, budget kept, counters agree and the schedule is followed slot by slot; a fault spoils one notification at most |
| dispatch_simulated | MCDispatch, DispatchSimulated | the README's three templates, no faults, fair | each runs to its documented end; failures dead-lettered |
| dispatch_crash | MCDispatch, DispatchCrash | one task slot: three crashes, redeliveries and lost dead letters anywhere, so that several tickets of one notification wait, fair | nothing lost, columns agree, table followed, no settled row sent again, every row settles |
| dispatch_redeliver | MCDispatch, DispatchRedeliver | two workers: two crashes or tickets put back under a running task | each fault adds no more than one chain of sends and one delivery; no false SENT |
| accept | MCAccept, Accept | five racing requests, up to two faults, fair | implements Idempotency; enqueued at most once, after commit; a race refuses nobody, a fault one request at most; without a fault all answered 202 and enqueued |
| engine | MCEngine, Engine | both sides and a polling client, a fault on each side, fair | no ticket without a row; one message per key; a told SENT or FAILED is true and final; counts true and never shrinking; two faults harm two notifications at most; implements Service; without faults all settle |
| http | MCHttp, Http | seven requests compete for two threads and two connections, one failure anywhere, fair | all answered; nothing leaks; halts only in the gridlock of threads and connections, until the timeout; each client within its bucket; refusals leave no trace; a row without a ticket is answered 500 or 503 |
| bucket | MCTokenBucket, Bucket | one API process, lag, lost replies, expiry | a token bucket; `Retry-After` is honoured |

The other runs show where the code does less than its documents say. Each checks
one statement of a document and ends in a counterexample:

| run | statement | what happens |
| --- | --- | --- |
| dead_letter_after_crash | failures are published to `notifications.dlq` | crash between the commit of FAILED and the publish; the restored ticket is skipped |
| table_after_crash | the transition table is final | two tickets after a crash between retry and acknowledgement; a stale task reopens a settled row |
| stuck_after_crash | a polled notification ends SENT or FAILED | two workers, one crash between retry and acknowledgement: a stale task rewinds `retry_count`, another puts the row back to PENDING with a ticket that has used Celery's own budget, and no ticket is left |
| replay_of_stranded | 202 means persisted and enqueued | the publish failed (503); the replay is answered 202 without enqueueing |

Bounds. *Dispatch*: two workers are enough for every overlap of two tasks, which
is all the races here are; two notifications where they can disturb each other
(lossy), three for the three templates, one where faults multiply the states.
`MaxAttempts = 3` gives a first, a repeated and a last attempt; four with a schedule
of two slots, in dispatch_lossy, a slot that repeats; all provider answers are allowed at every
attempt. `MaxFaults = 2` allows a fault in the recovery from a fault. The budget
matters once tickets are doubled: with three attempts two workers still settle every
row after one crash, with four they do not (stuck_after_crash), so dispatch_crash
runs the default of five, with one slot and three faults.
That is the limit of what the documented deployment guarantees: a prefork pool has
as many slots as the host has processors, and once a ticket is doubled two of them
may overlap on one row. What one slot promises under crashes holds for a worker
started with `--concurrency=1`; for more slots the same statements are proved without
doubled tickets (`NoDuplication`), and what is left with them is in dispatch_redeliver,
in *Chains* and in the findings.
*Accept*: three requests with the same key of one client, one of another client
with the same key, one without a key; two faults. *Engine*: two racing requests with
one key and one of another client with the same key, a budget of two, one worker (what
two workers do to one row is Dispatch's question), one request fault and one worker fault; one client polls. A
reader can always read, so the run cannot deadlock; that nothing gets stuck is
`EveryRequestSettles`. *Http*: two threads and two connections, and five requests
that need a connection, one more than it takes to bring about the gridlock
(`PoolSize` that hold one, `Threads` that wait for one); the real sizes are 40 and
15, with the same shape. Three sends of one client from two addresses against a
budget of two, two of them under one idempotency key, one with any body, and a fourth
send from one of these addresses with the key of a client that was switched off; a
client that reads its metrics or a status, somebody who reads without an `X-API-Key`;
a health probe. That a send without the header is charged to its address is left to
the theorems (`RateIsFair`). One failure of the limiter, a SELECT, a commit, a
constraint or a publish (`MaxFailures`); timeouts are not bounded. A request has at most two faults, so `MaxRequestFaults` of the
instance of Accept excludes none. *TokenBucket*: capacity 2 and
period 3 make refill, ceiling and expiry (two periods) fall at different times;
`MaxClock` lets a bucket expire and be used again; `MaxLag` bounds the seconds
between reading the clock and running the script. The number of admissions is
bounded by the clock. That `Retry-After` is honoured when several processes hold
readings out of order is not run but proved (section 4).

The types of Dispatch and Accept are checked where both run, in *Engine*, whose
`TypeOK` contains theirs.

Deadlock is checked in every run: `Idle` and `AllDone` are the states in which
Dispatch and Accept rightly rest.

Seen while modelling, without a run of its own: with two API processes an older
clock reading sets `ts` back and a second is refilled twice, so `WindowBounded` is
claimed of one process; enough requests at once (55 with the real sizes) can stop an
API process until the pool's timeout of thirty seconds, `/health` with it, and those
that waited are answered 500 (`StallsOnlyInGridlock` says that nothing else can);
`Client.rate_limit_per_minute` is never read, all clients get the setting; an attempt whose task dies is never
counted, so a crash may cost one send more than `max_attempts`; the bucket refills
while a minute runs, so "11th send in one minute -> 429" holds for a burst, not for
a minute; a publish that fails after the broker took the message is answered 503
although the row does not "stay PENDING".

Fairness. A started task goes on and its provider call returns (the simulated
adapter answers at once; no task has a time limit), so weak fairness of
`WorkerStep`. A waiting ticket is served in spite of others because the Redis list
is first in first out and workers ask again and again, so strong fairness of
`ReceiveFor(n)` and of the DLQ. The Redis transport restores unacknowledged tickets
by itself, so weak fairness of `RestoreFor(n)`. A request runs in a thread of its
own, so weak fairness of `RequestStep`. In Http the stores answer or raise and a
full pool raises in the end; a request has finitely many steps, so weak fairness of
"some request takes a step or times out" is enough, and no fair queue for threads or
connections is assumed. No fault is ever fair; `EventuallyEnqueued`
and `EveryRequestSettles` are claimed of the behaviours without one.

## 4. Proofs

All theorems hold for every value of the constants: any number of notifications,
workers, requests, clients, keys and faults; any budget, schedule, capacity and
period within what `Settings` accepts (`PolicyAssumption`). Other assumptions:
`None` differs from rows, answers, statuses and hashes; `MaxLag <= Period`; in
Http finitely many sends, and each request has a body and, if it reads, an id to ask
for; finitely many notifications where Engine counts them (its types and the theorems
on metrics).

| theorem | says | under |
| --- | --- | --- |
| DispatchProofs!TypeCorrect, SentClaimsAreTrue | types; SENT only after a send | any faults |
| DispatchProofs!DeliveredAtMostOnce, BudgetIsKept, ColumnsAgree, TasksExclude | at most one delivery, budget kept, columns agree, one task at a time | `NoDuplication` |
| DispatchProofs!GivenUpForAReason | FAILED only after the whole budget or a permanent refusal | `NoDuplication` |
| DispatchProofs!TicketAndRowAgree | both counters agree, each ticket waits for its slot of the schedule | `NoDuplication` |
| DispatchProofs!TableFollowed, NoSendAfterTheEnd | table followed; settled rows not sent | `NoDuplication` |
| DispatchProofs!NothingLostWithoutDuplicates | every open row keeps a ticket or a task | `NoDuplication`, `AcksAreHonest` |
| DispatchProofs!FailedIsBuried | a FAILED row is in the DLQ, or a task is about to put it there | `BurialIsSafe` |
| DispatchProofs!Refinement | implements Lifecycle | `NoDuplication` |
| ContainmentProofs!FaultsDamageOneEach | `f` faults break the promises of dispatch for at most `f` notifications | any faults |
| ContainmentProofs!UnstruckIsUnharmed | a notification no fault strikes keeps every promise, table included | any faults of the others |
| ChainProofs!ChainsBoundSends | at most `max_attempts` sends and one delivery, and as many again for each fault | any faults |
| OneWorkerProofs!TableFollowedByOne, NoSendAfterTheEndByOne, ColumnsAgreeByOne | table followed; settled rows not sent; columns agree | `OneWorker`, any faults |
| OneWorkerProofs!KillsCostOneSendEach | one send and one delivery more for each fault where tasks die, none where they do not | `OneWorker`, any faults |
| OneWorkerProofs!DeliveredAtMostOnceByOne, BudgetIsKeptByOne | at most one delivery; budget kept | `OneWorker`, no task dies |
| OneWorkerProofs!NothingLostByOne | every open row keeps a ticket or a task | `OneWorker`, `AcksAreHonest` |
| AcceptProofs!TypeCorrect, EnqueueIsSafe, KeysAreIdempotent | types; the safety of accepting | any faults |
| AcceptProofs!RacesRefuseNobody | at most `f` requests end without a 202 after `f` faults: races and replays refuse nobody | any faults |
| AcceptProofs!EachFaultStrandsOne | a fault leaves at most one row committed and never enqueued | any faults |
| AcceptProofs!EnqueuedUnlessFault | a 202 is for an enqueued notification | until the first fault |
| AcceptProofs!Refinement | implements Idempotency | any faults |
| EngineProofs!TypeCorrect, RowsAreThere, AcceptedCanBePolled | types; no ticket without a row; a 202 can be polled | any faults |
| EngineProofs!OneKeyOneMessage, AnswersStand | one message per key; a told SENT or FAILED is final | `NoDuplication` |
| EngineProofs!MetricsTrue, MetricsOnlyGrow | counts true and never shrinking | `NoDuplication` |
| EngineProofs!AnswersStandByOne, MetricsOnlyGrowByOne | a told SENT or FAILED is final; counts never shrink | `OneWorker`, any faults |
| EngineProofs!OneKeyOneMessageByOne, MetricsTrueByOne | one message per key; counts true | `OneWorker`, no task dies |
| EngineProofs!FaultsHarmOneEach | `f` faults of requests and workers harm at most `f` of the notifications whose requests are over | any faults |
| EngineProofs!FaultsPayForMessages | messages of one key are of one notification, and at most one more than faults | any faults |
| EngineProofs!CountedHasHappened | no more SENT shown than arrived, no more FAILED than tried | any faults |
| EngineProofs!UnstruckAnswersStand | a told SENT or FAILED of a notification no fault of worker or broker strikes is final | any faults of the others |
| EngineProofs!EngineImplementsService | implements Service | `NoDuplication` |
| HttpProofs!TypeCorrect, ConnectionsAccountedFor | types; nothing overcommitted or leaked | any load and failures, SELECTs that raise included |
| HttpProofs!RateIsFair, NoTrace | within the client's bucket; refusals leave no trace | any load and failures |
| HttpProofs!OnlyGridlockHalts | if no request can go on, threads and connections wait for each other | any load and failures |
| HttpProofs!FailureIsReported | a row stored without a ticket is answered 500 or 503 | any load and failures |
| TokenBucketProofs!TypeCorrect, RetryAfterIsHonoured | range of the bucket; truthful Retry-After | any processes |
| TokenBucketProofs!WindowIsBounded | a token bucket | `OneProcess` |

`NoDuplication` excludes the two faults that leave two live tickets of one
notification (`crash`, `redeliver`); all other faults are allowed. `OneWorker` allows
a single task slot: a celery worker with `--concurrency=1` or `--pool=solo`, and not
the prefork pool that `celery worker` starts by default. `AcksAreHonest` excludes the two faults that acknowledge a
ticket whose work is not done (`task_error`, `retry_publish`): after those a row is
left open by design. `BurialIsSafe` excludes the three that end a task between the
commit of FAILED and its dead letter (`crash`, `task_error`, `dlq_publish`). "No task
dies" excludes `crash` and `task_error`, and allows a ticket to be delivered again
under a running task.

Each finding has its counterpart here, a theorem that says what it takes:

| run | the statement holds | theorem |
| --- | --- | --- |
| dead_letter_after_crash | unless a task or the DLQ publish fails, for any number of workers | FailedIsBuried |
| table_after_crash | without duplicated tickets, or with one worker | TableFollowed, TableFollowedByOne |
| stuck_after_crash | its safety part: without duplicated tickets, or with one worker | NothingLostWithoutDuplicates, NothingLostByOne |
| replay_of_stranded | until the first fault; each strands one notification | EnqueuedUnlessFault, EachFaultStrandsOne |

*Dispatch.* None of the properties is inductive: that a commit follows the table
depends on the copy being the row. The invariant `Inv` says that a notification
has at most one carrier (`OneCarrier`: a ready ticket or a task that has not handed
over its result), that an unacknowledged ticket belongs to a worker
(`UnackedHeld`), and what a carrier knows: a ready ticket's `retries` is the
row's `retry_count` and the number of sends made (`TicketFits`); a task's copy is
the row, and at each control point the row has a known status and the history
variables known values (`TaskFits`). One carrier per notification is what makes
a step of one task leave the facts about every other alone (`TaskMoves`). The
refinement follows: each commit is the Lifecycle step its control point says, and
everything else stutters. `SafeInv`, without one carrier, is what remains under
all faults. `ReasonInv` adds what a task's answer is worth: that it is one the
provider may give, and that a notification which is only ever refused for good has
never been retried. `NothingLostWithoutDuplicates` adds who carries an open row
(`OpenCarried`): a ready ticket, or a task that has not reached its acknowledgement;
`FailedIsBuried` who is about to bury a failed one (`BuriedOrBeing`), for which no
carrier has to be alone.

*Chains.* Under doubled tickets `retry_count` is no measure of anything: two sessions
write absolute values over each other. What bounds the sends is Celery's own counter,
which travels with the ticket and only grows. A ticket with `r` retries behind it may
still make `MaxAttempts - r` sends, and so may the task that carries it. `Covered(n)`
says that the sends made, plus those the tickets and the running tasks may
still make, stay within `MaxAttempts * (1 + faults)`: a retry hands its rest on to the
next ticket, and only a crash or a redelivery leaves a rest behind twice, and pays for
it with the fault. Deliveries are covered in the same way, one per chain: a task that
delivered never retries. The sums run over finite sets of tickets and tasks, which the
invariant keeps finite.

*Containment.* `NoDuplication` asks that a kind of fault never happens. What if it
does, to somebody else? `Sound(n)` is the invariant of *Dispatch* for one notification
(its one carrier, what the carrier knows, its history), `Followed(n)` that somebody
comes back to it while it is open. A step of a task keeps both for every other
notification (`SoundElsewhere`, `TaskElsewhere`), because nothing that one notification
relies on is written by the task of another, and for its own if it is not a fault
(`OwnTaskMoves`, `OwnTaskStep`). A fault strikes one notification and adds it to `Hurt`
(`FaultStrikesOne`). So the number of hurt notifications never exceeds the number of
faults (`DamageInv`), with any number of workers.
`UnstruckIsUnharmed` says the same of one notification by name: from the premise that no
fault strikes it, and no premise about the rest.

*One worker.* Tickets may be doubled at will, but tasks run one after the other, so
`CopyInv` still has the copy equal to the row, and Celery's counter never ahead of
the row's (`Behind`): a retry the policy allows is never refused by Celery.
`KeptInv` adds that every open row has a ticket which nobody is about to
acknowledge (`Keeps`); a retry publishes one that differs from every other
(`Numbered`) before its own is acknowledged. With two workers neither holds: a stale
task can put back a lower `retry_count` while a ticket is ahead of it, and from a
budget of four on `NothingLost` fails with it (stuck_after_crash). `ColumnsInv` adds
that a row that is not FAILED has an attempt left, and `CostInv` that the sends are
those the row has counted, one more while a task holds an answer it has not committed
or after SENT, and one for each fault if tasks may die (`Killed`; the model counts
faults, not their kinds): where they do not die the budget is kept.

*Accept.* `Inv` says that no two rows answer to the same client and key, that a
request that is not done has published nothing and answered nobody, that one in
`recover` has lost to a row, and that a 202 names a row that is what was asked
for. Rows are never deleted, so a winner stays. `Doomed` is the set of requests that
are over without a 202 or hold an `IntegrityError` and have no winner to answer with:
whoever lost a race is not in it, because the entry that refused the row belongs to a
row that the lookup finds, so only a fault adds to it, and one request at most. `Stranded` is the set of rows that
nobody will enqueue any more; a step adds to it at most the row of its own request, and
only with a fault.

*Engine.* `BaseInv` is about any faults: each row belongs to one key (`UniqueRows`),
and whatever a ticket, a task or a 202 names is a row that is there (`WorkFits`,
`AnswerFits`). A worker's step touches only the row its task carries (`Effect`), so
a request's facts survive it; a request inserts a fresh row and publishes its first
ticket, so the invariant of DispatchProofs survives the request (`CommitKeepsTask`,
`PublishKeepsTask`) and is not proved again. With it settled rows stay settled
(`SettledStays`), which makes answers final and lets counts only grow; that counts
are true compares sets of notifications by their sizes. All `SettledStays` needs of the
workers is that tasks commit from copies that are the row (`TrueCopies`), which one
worker has as well: requests keep `CopyInv` and `CostInv`, because a row they commit
is carried by nobody and the ticket they publish has no retries (`RequestsKeepCopies`,
`RequestsKeepCost`).

The theorems under any faults take Engine's side of *Containment* and *Chains*. An
open row has one more keeper here, the request that is about to publish its first
ticket (`Awaited`), and a request's own fault harms its own row only, so `HurtInv`
counts both kinds of fault; a sound notification's tasks have true copies
(`SoundHasTrueCopies`), so what is told of it stays told. A request that publishes opens the first chain of its
notification (`RequestsKeepChains`). What counts show has happened (`CountsHappened`):
an answer was asked for and a row fails only after an answer (`Tried`), sends are
never taken back, so the sets counted against only grow even where a row leaves SENT.
The refinement to Service composes the two below it: a worker's step is a step of a
life by DispatchProofs (`SameLife`), a commit that inserts creates, a 202 answers, and
a request's other steps stutter.

*Http.* A step belongs to one request and leaves what is said of the others alone
(`OneMoves`). `Own` says of each request that it holds a thread or a connection
exactly at the places where it should, `OwnSend` that nothing is stored or published
before the handler and that whoever passed the limiter has paid its own bucket;
`WithinBudget` sums the payments. What accept does inside is not proved again: each
step of Http is a step of Accept or changes nothing of it (`StepOfAccept`), so
Accept's invariant is part of `Inv` by the lemmas of AcceptProofs, instantiated.
`SameInit`, `SameVars`, `SameNext` and `SameType` say that the instance the model
uses and the one the lemmas come from are the same. `OnlyGridlockHalts` counts: if no
thread is free and nobody who has one can go on, all of them wait for a connection, so
the pool is empty, and by `NothingLeaks` its connections are held by requests that are
between their two threads.

*TokenBucket.* `Accounted` says, for every admission, that what is left plus
what was paid since is at most a full bucket plus the refill since; `Ordered` that
readings do not go back, which one process guarantees and two do not. Expiry keeps
it because two periods minus the lag still refill everything. `PromiseKept` says
that a script at or after a promised time finds a token; it survives readings out
of order because setting `ts` back only ever adds.

Checked by TLC only: liveness (`ImplementsFairLifecycle`, `EventuallySettled`,
`EventuallyDeadLettered`, `EventuallyEnqueued`, `EveryRequestSettles`,
`EveryRequestAnswered`), and in `StallsOnlyInGridlock` that `CanProceed` is what the
steps of Http are enabled by; its other half, `HaltsOnlyInGridlock`, is proved. Both
are out of the prover's reach: it has neither fairness nor ENABLED.

## 5. Not modelled

- Time, except in TokenBucket: a countdown does not order tickets.
- Celery republishing on its own (its publish retry policy may double a ticket; it
  would be one more source of duplicated tickets).
- Loss of Redis data, and a Redis clock that is set.
- Floating point in the bucket (and its 1e-9).
- A Redis that neither answers nor refuses: `consume` would block the event loop
  (the client has no socket timeout), and `/health` with it.
- The API process of Http dying as a whole, start and stop; Accept has the death.
- What makes a body valid, the contents of messages and answers, logging, request
  ids, key hashing, parsing of settings: no state depends on them. Of the migrations
  only what they leave is modelled, the empty table and its unique index.
- FastAPI solves `get_db`, `get_current_client` and the service in separate visits to
  a thread; Http has one visit up to the SELECT and one for the handler.
- A rollback or a `session.close()` that raises, and a connection that the pool finds
  broken (`pool_pre_ping`) and replaces.
- The order in which waiting requests get threads and connections.
- The in-memory queue and FakeRedis of the tests.

## 6. Plan

Done: the delivery side (most important: its guarantees are what the service is
for), accepting, the limiter, the API process, and the composition Engine, each with
its proofs; what faults cost when nothing about them is assumed (*Chains*,
*Containment*), and the refinement of one specification from request to recipient.

Left:

1. How many notifications a client can create in a stretch of time: `RateIsPerClient`
   with the refill of `WindowBounded` in place of a fixed budget.
2. Http in the place of Accept in Engine: a step of the API process is one of Accept or
   none (`HttpProofs!StepOfAccept`), so the theorems of Engine should carry over to it.
3. Refinement with doubled tickets: the Lifecycle of one notification that no fault
   strikes, next to others that some do.
