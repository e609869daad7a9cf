------------------------------- MODULE Engine -------------------------------
(***************************************************************************)
(* The whole engine: API requests (Accept) and Celery workers (Dispatch)   *)
(* over one notifications table and one broker, and the two reads a client *)
(* polls: GET /notifications/{id}/status (NotificationService.get_status)  *)
(* and GET /metrics (MetricsService.get_client_metrics).                   *)
(*                                                                         *)
(* Accept inserts rows and publishes first tickets; Dispatch only updates  *)
(* rows and publishes retries.  Neither calls the other.                   *)
(***************************************************************************)
EXTENDS Broker, Provider, FiniteSets

CONSTANTS
  Client, Owner, KeyOf, RequestFaults, MaxRequestFaults,   \* see Accept
  Worker, Outcomes, Faults, MaxFaults,                     \* see Dispatch
  Reader     \* the clients that poll

VARIABLES
  rows,                                                    \* shared
  step, reply, requestFaults,                              \* see Accept
  pc, job, session, dlq, logged,                           \* see Dispatch
  attempts, deliveries, faults,
  told,      \* per notification: the status its client was last told, or None
  counted    \* per client: the counts its last GET /metrics showed

requestState == <<step, reply, requestFaults>>
workerState == <<pc, job, session, dlq, logged, attempts, deliveries, faults>>
clientState == <<told, counted>>
vars == <<brokerVars, rows, requestState, workerState, clientState>>

API == INSTANCE Accept
Delivery == INSTANCE Dispatch

\* What Accept and Dispatch assume; only clients poll.
ASSUME EngineAssumption ==
  /\ Owner \in [Notification -> Client]
  /\ DOMAIN KeyOf = Notification
  /\ RequestFaults \subseteq API!RequestFaultKind /\ MaxRequestFaults \in Nat
  /\ None \notin API!Accepted \cup Status
  /\ Outcomes \in [Notification -> (SUBSET Outcome) \ {{}}]
  /\ Faults \subseteq Delivery!FaultKind /\ MaxFaults \in Nat
  /\ Reader \subseteq Client

\* The table and the broker start empty: a row or a ticket comes from a request.
Init ==
  /\ API!Init
  /\ pc = [w \in Worker |-> "idle"]
  /\ job = [w \in Worker |-> None]
  /\ session = [w \in Worker |-> None]
  /\ dlq = {} /\ logged = {}
  /\ attempts = [n \in Notification |-> 0]
  /\ deliveries = [n \in Notification |-> 0]
  /\ faults = 0
  /\ told = [n \in Notification |-> None]
  /\ counted = [c \in Client |-> [sent |-> 0, failed |-> 0]]

-----------------------------------------------------------------------------
(* Reads *)

\* get_by_id_for_client finds the row.
Visible(c, n) == rows[n] # None /\ Owner[n] = c

\* Variant that takes a row with an error message for a failed one.
GetStatusFromError(c, n) ==
  /\ Visible(c, n)
  /\ told' = [told EXCEPT ![n] = IF rows[n].error_message THEN "FAILED"
                                ELSE rows[n].status]
  /\ UNCHANGED <<brokerVars, rows, requestState, workerState, counted>>

\* The owner polls; 404 leaves it with what it knew.
GetStatus(c, n) ==
  /\ Visible(c, n)
  /\ told' = [told EXCEPT ![n] = rows[n].status]
  /\ UNCHANGED <<brokerVars, rows, requestState, workerState, counted>>

\* Variant that counts everything not sent as failed.
CountUnsent(c) ==
  LET Mine(s) == {n \in Notification : Visible(c, n) /\ rows[n].status \in s} IN
    [sent |-> Cardinality(Mine({"SENT"})),
     failed |-> Cardinality(Mine(Status \ {"SENT"}))]

\* Variant without the client in the WHERE clause.
CountAll(c) ==
  LET In(s) == {n \in Notification : rows[n] # None /\ rows[n].status = s} IN
    [sent |-> Cardinality(In("SENT")), failed |-> Cardinality(In("FAILED"))]

\* count_sent_and_failed_for_client: both counts in one SELECT.
CountSentAndFailed(c) ==
  LET Mine(s) == {n \in Notification : Visible(c, n) /\ rows[n].status = s} IN
    [sent |-> Cardinality(Mine("SENT")), failed |-> Cardinality(Mine("FAILED"))]

GetMetrics(c) ==
  /\ counted' = [counted EXCEPT ![c] = CountSentAndFailed(c)]
  /\ UNCHANGED <<brokerVars, rows, requestState, workerState, told>>

-----------------------------------------------------------------------------

APIStep ==
  /\ \E r \in API!Request : API!RequestStep(r) \/ API!RequestFaultStep(r)
  /\ UNCHANGED <<workerState, clientState>>

\* Everything Dispatch does except resting.
DeliveryStep ==
  /\ \/ \E w \in Worker, t \in ready : Delivery!Receive(w, t)
     \/ \E w \in Worker : Delivery!WorkerStep(w)
     \/ \E w \in Worker, n \in dlq : Delivery!RecordDeadLetter(w, n)
     \/ \E t \in unacked : Delivery!Restore(t)
     \/ Delivery!FaultStep
  /\ UNCHANGED <<requestState, clientState>>

Next ==
  \/ APIStep
  \/ DeliveryStep
  \/ \E c \in Reader, n \in Notification : GetStatus(c, n)
  \/ \E c \in Reader : GetMetrics(c)

Spec == Init /\ [][Next]_vars

\* Nobody has to poll; requests and workers go on as in their own modules.
FairSpec ==
  /\ Spec
  /\ \A r \in API!Request : WF_vars(APIStep /\ API!RequestStep(r))
  /\ Delivery!Fairness

-----------------------------------------------------------------------------
(* Properties *)

\* Every variable holds values of the shape the code gives it.
TypeOK ==
  /\ API!TypeOK
  /\ Delivery!TypeOK
  /\ told \in [Notification -> Status \cup {None}]
  /\ counted \in [Client -> [sent : Nat, failed : Nat]]

\* MISSING never happens: whatever races and fails, a ticket is published
\* only after its row is committed, and rows are never deleted.
NeverMissing == \A w \in Worker : pc[w] = "load" => rows[job[w].id] # None

\* However often a client repeats a key, however the repetitions race, and
\* whatever it was answered, the recipient gets the message at most once.
OneMessagePerKey ==
  \A r, s \in API!Request :
    (API!SameRequest(r, s) /\ deliveries[r] > 0 /\ deliveries[s] > 0)
      => r = s /\ deliveries[r] = 1

\* Whoever holds a 202 can poll the id in it: never 404 for its own client.
AcceptedIsVisible ==
  \A r \in API!Request : API!IsAccepted(r) => Visible(Owner[r], reply[r].id)

\* A client that was told SENT or FAILED, by a poll or by the 202 of a
\* replay, was told the truth and will never be told anything else.
AnswersAreFinal ==
  /\ \A n \in Notification :
       told[n] \in Terminal => rows[n].status = told[n]
  /\ \A r \in API!Request :
       (API!IsAccepted(r) /\ reply[r].status \in Terminal)
         => rows[reply[r].id].status = reply[r].status

\* Between two readings of GET /metrics no count goes down.
MetricsNeverShrink ==
  [][\A c \in Client :
       /\ counted'[c].sent >= counted[c].sent
       /\ counted'[c].failed >= counted[c].failed]_counted

\* What GET /metrics shows a client happened to its own notifications: no
\* more SENT than messages that arrived, and no more FAILED than
\* notifications that were tried and did not arrive.
MetricsAreTrue ==
  \A c \in Client :
    LET Mine == {n \in Notification : Owner[n] = c} IN
      /\ counted[c].sent <= Cardinality({n \in Mine : deliveries[n] > 0})
      /\ counted[c].failed <=
           Cardinality({n \in Mine : attempts[n] > 0 /\ deliveries[n] = 0})

\* A fault of a request or of a worker costs one notification at most its
\* promises, from the request that made it to the end: every other one whose
\* request is over is in nobody's hands twice, and in nobody's only when it is
\* settled.
EachFaultHarmsOne ==
  Cardinality({r \in API!Request : step[r] = "done" /\ ~Delivery!Unharmed(r)})
    <= faults + requestFaults

\* Unless a fault happens, every request's notification is delivered or
\* dead-lettered in the end, the loser's of a race as the winner's.
EveryRequestSettles ==
  [](requestFaults = 0 /\ faults = 0) =>
    \A r \in API!Request :
      <>(/\ API!IsAccepted(r)
         /\ \/ rows[reply[r].id].status = "SENT"
            \/ rows[reply[r].id].status = "FAILED" /\ reply[r].id \in logged)

-----------------------------------------------------------------------------
(* The abstract specification this module implements *)

Abstract ==
  INSTANCE Service WITH
    status    <- Delivery!StatusOf,
    burned    <- Delivery!BurnedOf,
    delivered <- deliveries,
    buried    <- dlq \cup logged,
    answer    <- API!AnswerOf

\* Without duplicated tickets, requests that race, repeat and fail and workers
\* that fail behave together as if each key were looked up or created in one
\* step and each notification then lived its life alone.
ImplementsService == Abstract!Spec
=============================================================================
