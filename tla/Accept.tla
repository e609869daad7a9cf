------------------------------- MODULE Accept -------------------------------
(***************************************************************************)
(* The HTTP side of POST /api/v1/notifications/send after authentication:  *)
(* NotificationService.accept (app/services/notification_service.py) run   *)
(* by concurrent requests, each with its own database session, against the *)
(* notifications table with its unique index on (client_id,                *)
(* idempotency_key), and CeleryNotificationQueue.enqueue.                  *)
(*                                                                         *)
(* A request's step names what accept does next:                           *)
(*   lookup   SELECT by idempotency key (skipped without a key)            *)
(*   insert   commit the new row                                           *)
(*   recover  after an IntegrityError: roll back, read the winner          *)
(*   enqueue  publish the id on the queue notifications                    *)
(*   done     answered, or its process died                                *)
(***************************************************************************)
EXTENDS Broker, FiniteSets

CONSTANTS
  Client,
  Owner,            \* the authenticated client of each request
  KeyOf,            \* the idempotency key of each request, None without one
  RequestFaults,    \* the kinds of fault that may happen to requests
  MaxRequestFaults  \* bound on their number

\* A request makes at most one row, under a fresh UUID: the request itself
\* stands for that id.
Request == Notification

RequestFaultKind == {"died", "select", "constraint", "commit", "publish"}

\* 202 with the id and status of a row; 503 Queue unavailable; 500.
Accepted == [code : {202}, id : Notification, status : Status]
Refused == [code : {500, 503}]

ASSUME AcceptAssumption ==
  /\ Owner \in [Request -> Client]
  /\ DOMAIN KeyOf = Request
  /\ RequestFaults \subseteq RequestFaultKind
  /\ MaxRequestFaults \in Nat
  /\ None \notin Accepted

VARIABLES
  rows,           \* the notifications table: the columns the worker changes
  step,           \* per request: control state
  reply,          \* per request: None, or the HTTP answer
  requestFaults   \* number of faults so far

requestVars == <<step, reply>>
vars == <<brokerVars, rows, requestVars, requestFaults>>

Step == {"lookup", "insert", "recover", "enqueue", "done"}

-----------------------------------------------------------------------------
(* Helpers *)

\* Variant of the lookup that forgets the client.
FindByKeyOnly(r) ==
  {n \in Notification : rows[n] # None /\ KeyOf[n] = KeyOf[r]}

\* get_by_idempotency_key: the rows of this client with this key.  A row
\* carries the client_id and idempotency_key of the request that made it.
FindByKey(r) ==
  {n \in Notification :
     rows[n] # None /\ KeyOf[n] = KeyOf[r] /\ Owner[n] = Owner[r]}

\* Variant without the unique index.
NoConflict(r) == FALSE

\* Variant with the unique index on the key alone.
ConflictAcrossClients(r) == KeyOf[r] # None /\ FindByKeyOnly(r) # {}

\* The partial unique index uq_notifications_client_idempotency: a row with a
\* key has an entry of client_id and idempotency_key, and no two have the same.
Conflict(r) ==
  /\ KeyOf[r] # None
  /\ \E n \in Notification :
       rows[n] # None /\ <<Owner[n], KeyOf[n]>> = <<Owner[r], KeyOf[r]>>

Proceed(r, label) == step' = [step EXCEPT ![r] = label]

Finish(r, answer) ==
  /\ Proceed(r, "done")
  /\ reply' = [reply EXCEPT ![r] = answer]

\* Variant that forgets status_code=202.
ReplyWithDefaultCode(r, n, status) ==
  Finish(r, [code |-> 200, id |-> n, status |-> status])

\* _to_accepted: 202 with the row as the session sees it.
ReplyWith(r, n, status) ==
  Finish(r, [code |-> 202, id |-> n, status |-> status])

RequestFault(kind) ==
  /\ kind \in RequestFaults
  /\ requestFaults < MaxRequestFaults
  /\ requestFaults' = requestFaults + 1

Init ==
  /\ rows = [n \in Notification |-> None]
  /\ ready = {}
  /\ unacked = {}
  /\ published = [n \in Notification |-> 0]
  /\ step = [r \in Request |-> "lookup"]
  /\ reply = [r \in Request |-> None]
  /\ requestFaults = 0

-----------------------------------------------------------------------------
(* One request *)

\* Same client, same key, row already there: 202 and no enqueue.
Replay(r) ==
  /\ step[r] = "lookup"
  /\ KeyOf[r] # None
  /\ \E n \in FindByKey(r) : ReplyWith(r, n, rows[n].status)
  /\ UNCHANGED <<brokerVars, rows, requestFaults>>

\* Variant that enqueues before it commits.
LookupMissesEnqueues(r) ==
  /\ step[r] = "lookup"
  /\ KeyOf[r] = None \/ FindByKey(r) = {}
  /\ Proceed(r, "insert")
  /\ Publish(r, 0, 0)
  /\ UNCHANGED <<rows, reply, requestFaults>>

LookupMisses(r) ==
  /\ step[r] = "lookup"
  /\ KeyOf[r] = None \/ FindByKey(r) = {}
  /\ Proceed(r, "insert")
  /\ UNCHANGED <<brokerVars, rows, reply, requestFaults>>

CommitRow(r) ==
  /\ step[r] = "insert"
  /\ ~Conflict(r)
  /\ rows' = [rows EXCEPT ![r] = NewRow]
  /\ Proceed(r, "enqueue")
  /\ UNCHANGED <<brokerVars, reply, requestFaults>>

\* IntegrityError from the unique index: another request won the race; roll
\* back.
LoseRace(r) ==
  /\ step[r] = "insert"
  /\ Conflict(r)
  /\ Proceed(r, "recover")
  /\ UNCHANGED <<brokerVars, rows, reply, requestFaults>>

\* Variant that lets the IntegrityError out.
ReadWinnerRaises(r) ==
  /\ step[r] = "recover"
  /\ Finish(r, [code |-> 500])
  /\ UNCHANGED <<brokerVars, rows, requestFaults>>

\* Variant that falls through to the enqueue.
ReadWinnerEnqueues(r) ==
  /\ step[r] = "recover"
  /\ \E n \in FindByKey(r) :
       ReplyWith(r, n, rows[n].status) /\ Publish(n, 0, 0)
  /\ UNCHANGED <<rows, requestFaults>>

\* 202 with the winner's row, and no enqueue.
ReadWinner(r) ==
  /\ step[r] = "recover"
  /\ KeyOf[r] # None
  /\ \E n \in FindByKey(r) : ReplyWith(r, n, rows[n].status)
  /\ UNCHANGED <<brokerVars, rows, requestFaults>>

\* No key to look for a winner with, or no winner: the IntegrityError goes on
\* to the client as a 500.
Reraise(r) ==
  /\ step[r] = "recover"
  /\ KeyOf[r] = None \/ FindByKey(r) = {}
  /\ Finish(r, [code |-> 500])
  /\ UNCHANGED <<brokerVars, rows, requestFaults>>

\* The publish, then 202.  expire_on_commit is off, so the answer shows the
\* session's PENDING whatever the worker has done to the row since.
Enqueue(r) ==
  /\ step[r] = "enqueue"
  /\ Publish(r, 0, 0)
  /\ ReplyWith(r, r, NewRow.status)
  /\ UNCHANGED <<rows, requestFaults>>

-----------------------------------------------------------------------------
(* Faults *)

\* The broker refuses the publish, or takes the message and the connection
\* breaks before it says so: 503 either way, the row stays.
EnqueueFails(r) ==
  /\ step[r] = "enqueue"
  /\ RequestFault("publish")
  /\ Publish(r, 0, 0) \/ UNCHANGED brokerVars
  /\ Finish(r, [code |-> 503])
  /\ UNCHANGED rows

\* The commit raises something other than IntegrityError; the row may have
\* been committed all the same.
CommitFails(r) ==
  /\ step[r] = "insert"
  /\ RequestFault("commit")
  /\ \/ UNCHANGED rows
     \/ ~Conflict(r) /\ rows' = [rows EXCEPT ![r] = NewRow]
  /\ Finish(r, [code |-> 500])
  /\ UNCHANGED brokerVars

\* The row offends another constraint than the unique index, for one the
\* foreign key to a client that is gone: IntegrityError all the same, and
\* accept looks for a winner if there is a key.
CommitRefused(r) ==
  /\ step[r] = "insert"
  /\ RequestFault("constraint")
  /\ Proceed(r, "recover")
  /\ UNCHANGED <<brokerVars, rows, reply>>

\* The SELECT by idempotency key raises, for the lookup or for the winner: 500.
SelectFails(r) ==
  /\ step[r] \in {"lookup", "recover"}
  /\ KeyOf[r] # None
  /\ RequestFault("select")
  /\ Finish(r, [code |-> 500])
  /\ UNCHANGED <<brokerVars, rows>>

\* The API process dies: no answer, and an uncommitted row is gone.
RequestDies(r) ==
  /\ step[r] # "done"
  /\ RequestFault("died")
  /\ Proceed(r, "done")
  /\ UNCHANGED <<brokerVars, rows, reply>>

-----------------------------------------------------------------------------

RequestStep(r) ==
  \/ Replay(r) \/ LookupMisses(r)
  \/ CommitRow(r) \/ LoseRace(r) \/ ReadWinner(r) \/ Reraise(r)
  \/ Enqueue(r)

RequestFaultStep(r) ==
  \/ EnqueueFails(r) \/ CommitFails(r) \/ CommitRefused(r) \/ SelectFails(r)
  \/ RequestDies(r)

AllDone ==
  /\ \A r \in Request : step[r] = "done"
  /\ UNCHANGED vars

Next ==
  \/ \E r \in Request : RequestStep(r) \/ RequestFaultStep(r)
  \/ AllDone

Spec == Init /\ [][Next]_vars

\* The handler runs in a thread of its own and nothing in it waits for
\* another request once the database has answered.
FairSpec == Spec /\ \A r \in Request : WF_vars(RequestStep(r))

-----------------------------------------------------------------------------
(* Properties *)

\* Every variable holds values of the shape the code gives it.
TypeOK ==
  /\ BrokerTypeOK
  /\ rows \in [Notification -> Row \cup {None}]
  /\ step \in [Request -> Step]
  /\ reply \in [Request -> Accepted \cup Refused \cup {None}]
  /\ requestFaults \in Nat

IsAccepted(r) == reply[r] # None /\ reply[r].code = 202

\* Two requests that ask for the same notification.
SameRequest(r, s) ==
  r = s \/ (KeyOf[r] # None /\ KeyOf[r] = KeyOf[s] /\ Owner[r] = Owner[s])

\* A ticket is only ever published for a committed row, and by one request
\* alone: dispatch can never answer MISSING for an accepted notification, and
\* a replay or a lost race never enqueues again.
EnqueuedOnceAfterCommit ==
  \A n \in Notification :
    published[n] > 0 => published[n] = 1 /\ rows[n] # None

\* However requests race for a key, replay it and read each other's rows, no
\* request is refused for that, and a fault costs one request its 202: the
\* IntegrityError of a lost race never gets out of accept.
FaultsRefuseOneEach ==
  Cardinality({r \in Request : step[r] = "done" /\ ~IsAccepted(r)})
    <= requestFaults

\* Whoever asks with the key of an accepted notification is told that
\* notification, whatever raced and failed, and nobody else is.
OneNotificationPerKey ==
  \A r, s \in Request :
    (IsAccepted(r) /\ IsAccepted(s)) =>
      (reply[r].id = reply[s].id <=> SameRequest(r, s))

\* A 202 answers "persist + enqueue" (README): once the request that made the
\* row is over, a notification some client holds a 202 for has been enqueued.
AcceptedIsEnqueued ==
  \A r \in Request :
    (IsAccepted(r) /\ step[reply[r].id] = "done")
      => published[reply[r].id] > 0

\* Unless a fault happens every request ends up with a 202, and the
\* notification it names ends up enqueued exactly once, however the requests
\* raced.
EventuallyEnqueued ==
  [](requestFaults = 0) =>
    \A r \in Request : <>[](IsAccepted(r) /\ published[reply[r].id] = 1)

-----------------------------------------------------------------------------
(* The abstract specification this module implements *)

Created == {n \in Notification : rows[n] # None}

AnswerOf == [r \in Request |-> IF IsAccepted(r) THEN reply[r].id ELSE None]

Abstract ==
  INSTANCE Idempotency WITH
    NoKey    <- None,
    NoAnswer <- None,
    created  <- Created,
    answer   <- AnswerOf

\* Lookup, unique index and recovery together behave like one atomic step.
ImplementsIdempotency == Abstract!Spec
=============================================================================
