--------------------------- MODULE DispatchProofs ---------------------------
(***************************************************************************)
(* Theorems about Dispatch, for any number of notifications and workers,   *)
(* any retry schedule and any provider.                                    *)
(***************************************************************************)
EXTENDS Dispatch, TLAPS

-----------------------------------------------------------------------------
(* Any faults at all: types, and no send claimed that was not made.        *)

BusyHasTicket == \A w \in Worker : pc[w] # "idle" => job[w] \in Ticket

\* A task past its SELECT has a copy of a row that exists, and one that asks
\* for a retry has counted a failure.
SessionLoaded ==
  \A w \in Worker :
    /\ pc[w] \in {"begin", "send", "retry"} \cup Outcome =>
         rows[Id(w)] # None /\ session[w] \in Row
    /\ pc[w] = "retry" => session[w].retry_count > 0

OkWasDelivered == \A w \in Worker : pc[w] = "ok" => deliveries[Id(w)] > 0

SafeInv ==
  TypeOK /\ BusyHasTicket /\ SessionLoaded /\ OkWasDelivered /\ SentWasDelivered

\* The countdown of a counted failure is a slot of the schedule.
LEMMA CountdownType ==
  ASSUME NEW r \in Nat, r > 0
  PROVE  CountdownFor(r) \in Nat
  BY PolicyAssumption DEF CountdownFor

\* What the three kinds of UPDATE make of a row.
LEMMA BegunRow ==
  ASSUME NEW row \in Row
  PROVE  /\ [row EXCEPT !.status = "PROCESSING"] \in Row
         /\ [row EXCEPT !.status = "PROCESSING"].status = "PROCESSING"
         /\ [row EXCEPT !.status = "PROCESSING"].sent_at = row.sent_at
         /\ [row EXCEPT !.status = "PROCESSING"].retry_count = row.retry_count
  BY DEF Row, Status

LEMMA SentRowFacts ==
  ASSUME NEW row \in Row, NEW copy \in Row
  PROVE  /\ SentRow(row, copy) \in Row
         /\ SentRow(row, copy).status = "SENT"
         /\ SentRow(row, copy).retry_count = row.retry_count
<1>1. (row.error_message /\ ~copy.error_message) \in BOOLEAN
  OBVIOUS
<1>2. QED
  BY <1>1 DEF SentRow, Row, Status

LEMMA FailedRowFacts ==
  ASSUME NEW row \in Row, NEW copy \in Row, NEW status \in Status,
         NEW written
  PROVE  /\ FailedRow(row, copy, status, written) \in Row
         /\ FailedRow(row, copy, status, written).status = status
         /\ FailedRow(row, copy, status, written).sent_at = row.sent_at
         /\ FailedRow(row, copy, status, written).retry_count = copy.retry_count + 1
<1>1. (row.error_message \/ written) \in BOOLEAN
  OBVIOUS
<1>2. copy.retry_count + 1 \in Nat
  BY DEF Row
<1>3. QED
  BY <1>1, <1>2 DEF FailedRow, Burned, Row, Status

LEMMA RetriedCopy ==
  ASSUME NEW copy \in Row
  PROVE  LET new == [copy EXCEPT !.status = "PENDING",
                                 !.retry_count = Burned(copy)]
         IN  new \in Row /\ new.retry_count = copy.retry_count + 1 /\ new.retry_count > 0
<1>1. Burned(copy) \in Nat /\ Burned(copy) = copy.retry_count + 1 /\ Burned(copy) > 0
  BY DEF Burned, Row
<1>2. QED
  BY <1>1 DEF Row, Status

LEMMA SafeInit == Init => SafeInv
<1> SUFFICES ASSUME Init PROVE SafeInv
  OBVIOUS
<1> USE NoneAssumption DEF Init
<1>1. NewRow \in Row
  BY DEF NewRow, Row, Status
<1>2. BrokerTypeOK
  BY DEF BrokerTypeOK, Ticket
<1>3. TypeOK
  BY <1>1, <1>2 DEF TypeOK, PC
<1>4. SentWasDelivered
  BY DEF SentWasDelivered, NewRow
<1>5. BusyHasTicket /\ SessionLoaded /\ OkWasDelivered
  BY DEF BusyHasTicket, SessionLoaded, OkWasDelivered, Outcome
<1>6. QED
  BY <1>3, <1>4, <1>5 DEF SafeInv

LEMMA SafeStep == SafeInv /\ [Next]_vars => SafeInv'
<1> SUFFICES ASSUME SafeInv, [Next]_vars PROVE SafeInv'
  OBVIOUS
<1> USE NoneAssumption DEF SafeInv, TypeOK, BrokerTypeOK, BusyHasTicket,
      SessionLoaded, OkWasDelivered, SentWasDelivered, PC, Id, Outcome,
      brokerVars, workerVars, dlqVars, historyVars
<1>1. ASSUME NEW w \in Worker, NEW t \in ready, Receive(w, t) PROVE SafeInv'
  BY <1>1 DEF Receive, Deliver, Goto
<1>2. ASSUME NEW w \in Worker, LoadMissing(w) PROVE SafeInv'
  BY <1>2 DEF LoadMissing, Goto
<1>3. ASSUME NEW w \in Worker, LoadSettled(w) PROVE SafeInv'
  BY <1>3 DEF LoadSettled, Goto
<1>4. ASSUME NEW w \in Worker, LoadOpen(w) PROVE SafeInv'
  <2>1. Id(w) \in Notification /\ rows[Id(w)] \in Row
    BY <1>4 DEF LoadOpen, Ticket
  <2>2. PICK label \in {"begin", "send"} : pc' = [pc EXCEPT ![w] = label]
    BY <1>4 DEF LoadOpen, Goto
  <2>3. QED
    BY <1>4, <2>1, <2>2 DEF LoadOpen, Remember
<1>5. ASSUME NEW w \in Worker, BeginProcessing(w) PROVE SafeInv'
  <2>1. /\ Id(w) \in Notification
        /\ rows[Id(w)] \in Row
        /\ session[w] \in Row
    BY <1>5 DEF BeginProcessing, Ticket
  <2>2. PICK row \in Row, copy \in Row :
          /\ rows' = [rows EXCEPT ![Id(w)] = row]
          /\ session' = [session EXCEPT ![w] = copy]
          /\ row.status = "PROCESSING"
          /\ row.sent_at = rows[Id(w)].sent_at
    BY <1>5, <2>1, BegunRow DEF BeginProcessing, Remember, Update
  <2>3. QED
    BY <1>5, <2>1, <2>2 DEF BeginProcessing, Goto
<1>6. ASSUME NEW w \in Worker, Send(w) PROVE SafeInv'
  <2>1. Id(w) \in Notification /\ rows[Id(w)] # None
    BY <1>6 DEF Send, Ticket
  <2>2. PICK outcome \in Outcome :
          /\ pc' = [pc EXCEPT ![w] = outcome]
          /\ deliveries' = [deliveries EXCEPT ![Id(w)] =
                              IF outcome = "ok" THEN @ + 1 ELSE @]
    <3>1. Outcomes[Id(w)] \subseteq Outcome
      BY <2>1, DispatchAssumption
    <3>2. QED
      BY <1>6, <3>1 DEF Send, Goto
  <2>3. QED
    BY <1>6, <2>1, <2>2 DEF Send
<1>7. ASSUME NEW w \in Worker, CommitSent(w) PROVE SafeInv'
  <2>1. /\ Id(w) \in Notification
        /\ rows[Id(w)] \in Row
        /\ session[w] \in Row
        /\ deliveries[Id(w)] > 0
    BY <1>7 DEF CommitSent, Ticket
  <2>2. PICK row \in Row : rows' = [rows EXCEPT ![Id(w)] = row]
    BY <1>7, <2>1, SentRowFacts DEF CommitSent, Update
  <2>3. QED
    BY <1>7, <2>1, <2>2 DEF CommitSent, Goto, Close
<1>8. ASSUME NEW w \in Worker, CommitRetry(w) PROVE SafeInv'
  <2>1. /\ Id(w) \in Notification
        /\ rows[Id(w)] \in Row
        /\ session[w] \in Row
    BY <1>8 DEF CommitRetry, Ticket
  <2>2. PICK row \in Row :
          /\ rows' = [rows EXCEPT ![Id(w)] = row]
          /\ row.status = "PENDING"
          /\ row.sent_at = rows[Id(w)].sent_at
    <3>1. PICK written :
            rows' = [rows EXCEPT ![Id(w)] =
                       FailedRow(rows[Id(w)], session[w], "PENDING", written)]
      BY <1>8 DEF CommitRetry, FailedAttempt, Update
    <3> DEFINE row == FailedRow(rows[Id(w)], session[w], "PENDING", written)
    <3>2. "PENDING" \in Status
      BY DEF Status
    <3>3. row \in Row /\ row.status = "PENDING" /\ row.sent_at = rows[Id(w)].sent_at
      BY <2>1, <3>2, FailedRowFacts
    <3>4. QED
      BY <3>1, <3>3
  <2>3. PICK copy \in Row :
          /\ session' = [session EXCEPT ![w] = copy]
          /\ copy.retry_count > 0
    BY <1>8, <2>1, RetriedCopy DEF CommitRetry, Remember
  <2>4. QED
    BY <1>8, <2>1, <2>2, <2>3 DEF CommitRetry, Goto
<1>9. ASSUME NEW w \in Worker, CommitFailed(w) PROVE SafeInv'
  <2>1. /\ Id(w) \in Notification
        /\ rows[Id(w)] \in Row
        /\ session[w] \in Row
    BY <1>9 DEF CommitFailed, Ticket
  <2>2. PICK row \in Row :
          /\ rows' = [rows EXCEPT ![Id(w)] = row]
          /\ row.status = "FAILED"
          /\ row.sent_at = rows[Id(w)].sent_at
    <3>1. PICK written :
            rows' = [rows EXCEPT ![Id(w)] =
                       FailedRow(rows[Id(w)], session[w], "FAILED", written)]
      BY <1>9 DEF CommitFailed, FailedAttempt, Update
    <3> DEFINE row == FailedRow(rows[Id(w)], session[w], "FAILED", written)
    <3>2. "FAILED" \in Status
      BY DEF Status
    <3>3. row \in Row /\ row.status = "FAILED" /\ row.sent_at = rows[Id(w)].sent_at
      BY <2>1, <3>2, FailedRowFacts
    <3>4. QED
      BY <3>1, <3>3
  <2>3. QED
    BY <1>9, <2>1, <2>2 DEF CommitFailed, Goto, Close
<1>10. ASSUME NEW w \in Worker, Retry(w) PROVE SafeInv'
  BY <1>10, CountdownType DEF Retry, Goto, Publish, NextRetries, Ticket, Row
<1>11. ASSUME NEW w \in Worker, RetryRefused(w) PROVE SafeInv'
  BY <1>11 DEF RetryRefused, Goto
<1>12. ASSUME NEW w \in Worker, PublishDeadLetter(w) PROVE SafeInv'
  BY <1>12 DEF PublishDeadLetter, Goto, Ticket
<1>13. ASSUME NEW w \in Worker, Ack(w) PROVE SafeInv'
  BY <1>13 DEF Ack, Acknowledge, Release, Close
<1>14. ASSUME NEW w \in Worker, NEW n \in dlq, RecordDeadLetter(w, n) PROVE SafeInv'
  BY <1>14 DEF RecordDeadLetter
<1>15. ASSUME NEW t \in unacked, Restore(t) PROVE SafeInv'
  BY <1>15 DEF Restore, Requeue
<1>16. ASSUME NEW w \in Worker, Crash(w) PROVE SafeInv'
  BY <1>16 DEF Crash, Fault, Release, Close
<1>17. ASSUME NEW w \in Worker, TaskFails(w) PROVE SafeInv'
  BY <1>17 DEF TaskFails, Fault, Acknowledge, Release, Close
<1>18. ASSUME NEW w \in Worker, RetryPublishFails(w) PROVE SafeInv'
  BY <1>18 DEF RetryPublishFails, Fault, Goto
<1>19. ASSUME NEW w \in Worker, DeadLetterPublishFails(w) PROVE SafeInv'
  BY <1>19 DEF DeadLetterPublishFails, Fault, Goto
<1>20. ASSUME NEW t \in unacked, Redeliver(t) PROVE SafeInv'
  BY <1>20 DEF Redeliver, Fault, Requeue
<1>21. ASSUME UNCHANGED vars PROVE SafeInv'
  BY <1>21 DEF vars
<1>22. QED
  BY <1>1, <1>2, <1>3, <1>4, <1>5, <1>6, <1>7, <1>8, <1>9, <1>10, <1>11,
     <1>12, <1>13, <1>14, <1>15, <1>16, <1>17, <1>18, <1>19, <1>20, <1>21
  DEF Next, WorkerStep, FaultStep, Idle

LEMMA SafeInvariant == Spec => []SafeInv
  BY SafeInit, SafeStep, PTL DEF Spec

\* Types hold in every reachable state, whatever faults strike.
THEOREM TypeCorrect == Spec => []TypeOK
<1>1. SafeInv => TypeOK
  BY DEF SafeInv
<1>2. QED
  BY <1>1, SafeInvariant, PTL

\* No crash, redelivery, stale session copy or lost update of
\* DispatchService.dispatch ever makes a row say SENT without a send.
THEOREM SentClaimsAreTrue == Spec => []SentWasDelivered
<1>1. SafeInv => SentWasDelivered
  BY DEF SafeInv
<1>2. QED
  BY <1>1, SafeInvariant, PTL

-----------------------------------------------------------------------------
(* No duplicated tickets.                                                  *)

\* Tickets are not delivered twice: no worker dies as a whole and no ticket
\* is put back while its task runs.
NoDuplication == Faults \cap {"crash", "redeliver"} = {}

-----------------------------------------------------------------------------
(* The inductive invariant behind the guarantees without duplication.      *)
(*                                                                         *)
(* A notification has at most one carrier: a ready ticket, or a task that  *)
(* has not yet handed its result over.  What the carrier knows agrees with *)
(* the row, so the copy against which a transition is checked is the row.  *)

\* Every unacknowledged ticket belongs to a running task.
UnackedHeld ==
  \A t \in unacked : \E w \in Worker : pc[w] # "idle" /\ job[w] = t

OneCarrier ==
  /\ \A t, u \in ready : t.id = u.id => t = u
  /\ \A t \in ready, w \in Working : t.id # Id(w)
  /\ \A v, w \in Working : v # w => Id(v) # Id(w)

\* The row of n waits for the attempt numbered r + 1.
Waiting(n, r) ==
  /\ r < MaxAttempts
  /\ attempts[n] = r
  /\ deliveries[n] = 0
  /\ rows[n] # None => rows[n].status = "PENDING" /\ rows[n].retry_count = r

TicketFits(t) ==
  /\ Waiting(t.id, t.retries)
  /\ t.retries > 0 => t.countdown = CountdownFor(t.retries)

\* What worker w knows about its notification at each control point.
TaskFits(w) ==
  LET n == Id(w)
      r == job[w].retries
  IN  /\ r < MaxAttempts
      /\ pc[w] \in {"load", "begin"} => Waiting(n, r)
      /\ pc[w] # "load" => rows[n] # None
      /\ pc[w] \in {"begin", "send"} \cup Outcome =>
           session[w] = rows[n] /\ rows[n].retry_count = r
      /\ pc[w] \in {"send"} \cup Outcome => rows[n].status = "PROCESSING"
      /\ pc[w] = "send" => attempts[n] = r
      /\ pc[w] \in {"retry", "dead_letter"} \cup Outcome => attempts[n] = r + 1
      /\ deliveries[n] = IF pc[w] = "ok" THEN 1 ELSE 0
      /\ pc[w] = "retry" =>
           /\ rows[n].status = "PENDING"
           /\ rows[n].retry_count = r + 1
           /\ session[w] # None
           /\ session[w].retry_count = r + 1
           /\ r + 1 < MaxAttempts
      /\ pc[w] = "dead_letter" => rows[n].status = "FAILED"

Inv ==
  /\ SafeInv
  /\ UnackedHeld
  /\ OneCarrier
  /\ \A t \in ready : TicketFits(t)
  /\ \A w \in Working : TaskFits(w)
  /\ AtMostOneDelivery
  /\ SendsWithinBudget
  /\ RowsConsistent

LEMMA TicketFields ==
  ASSUME NEW t \in Ticket
  PROVE  t.id \in Notification /\ t.retries \in Nat /\ t.countdown \in Nat
  BY DEF Ticket

LEMMA NoDupInit == Init => Inv
<1> SUFFICES ASSUME Init PROVE Inv
  OBVIOUS
<1>1. SafeInv
  BY SafeInit
<1>2. UnackedHeld /\ OneCarrier
  BY DEF Init, UnackedHeld, OneCarrier, Working
<1>3. \A t \in ready : TicketFits(t)
  BY PolicyAssumption DEF Init, TicketFits, Waiting, NewRow
<1>4. \A w \in Working : TaskFits(w)
  BY DEF Init, Working
<1>5. AtMostOneDelivery /\ SendsWithinBudget /\ RowsConsistent
  BY PolicyAssumption
  DEF Init, AtMostOneDelivery, SendsWithinBudget, RowsConsistent, RowConsistent, NewRow
<1>6. QED
  BY <1>1, <1>2, <1>3, <1>4, <1>5 DEF Inv

\* A task that moves on keeps its ticket and touches only its own row, so it
\* disturbs no other carrier.
LEMMA TaskMoves ==
  ASSUME Inv, SafeInv',
         NEW w \in Working, NEW label, label # "idle",
         pc' = [pc EXCEPT ![w] = label],
         UNCHANGED <<ready, unacked, job>>,
         \A v \in Worker \ {w} : session'[v] = session[v],
         \A n \in Notification \ {Id(w)} :
           /\ rows'[n] = rows[n]
           /\ attempts'[n] = attempts[n]
           /\ deliveries'[n] = deliveries[n],
         label # "ack" => TaskFits(w)'
  PROVE  /\ UnackedHeld' /\ OneCarrier'
         /\ \A t \in ready' : TicketFits(t)'
         /\ \A v \in Working' : TaskFits(v)'
<1> USE DEF Inv, SafeInv, TypeOK, BrokerTypeOK
<1>1. w \in Worker /\ Working' \subseteq Working /\ (w \in Working' => label # "ack")
  BY DEF Working
<1>2. UnackedHeld'
  BY DEF UnackedHeld
<1>3. \A v \in Worker : Id(v)' = Id(v)
  BY DEF Id
<1>4. OneCarrier'
  BY <1>1 DEF OneCarrier, Id
<1>5. ASSUME NEW t \in ready PROVE TicketFits(t)'
  <2>1. t.id \in Notification /\ t.id # Id(w)
    BY TicketFields DEF OneCarrier
  <2>2. QED
    BY <2>1 DEF TicketFits, Waiting
<1>6. ASSUME NEW v \in Working', v # w PROVE TaskFits(v)'
  <2>1. v \in Working /\ v \in Worker /\ Id(v) # Id(w)
    BY <1>1, <1>6 DEF OneCarrier, Working
  <2>2. Id(v) \in Notification
    BY <2>1, TicketFields DEF Working, BusyHasTicket, Id
  <2>3. pc'[v] = pc[v] /\ session'[v] = session[v] /\ job'[v] = job[v]
    BY <1>6, <2>1
  <2>4. QED
    BY <2>1, <2>2, <2>3, <1>3 DEF TaskFits, Waiting
<1>7. QED
  BY <1>1, <1>2, <1>4, <1>5, <1>6

\* The columns stay consistent when the copy is the row.
LEMMA BegunConsistent ==
  ASSUME NEW row \in Row, RowConsistent(row), row.status = "PENDING"
  PROVE  RowConsistent([row EXCEPT !.status = "PROCESSING"])
  BY DEF Row, RowConsistent

LEMMA SentConsistent ==
  ASSUME NEW row \in Row, RowConsistent(row)
  PROVE  RowConsistent(SentRow(row, row))
<1>1. (row.error_message /\ ~row.error_message) = FALSE
  OBVIOUS
<1>2. SentRow(row, row) = [row EXCEPT !.status = "SENT", !.sent_at = TRUE,
                                      !.error_message = FALSE]
  BY <1>1 DEF SentRow, Row
<1>3. QED
  BY <1>2 DEF Row, RowConsistent

LEMMA FailedConsistent ==
  ASSUME NEW row \in Row, RowConsistent(row), row.status = "PROCESSING",
         row.retry_count < MaxAttempts,
         NEW status \in {"PENDING", "FAILED"},
         NEW written \in {TRUE, ~row.error_message}
  PROVE  RowConsistent(FailedRow(row, row, status, written))
<1>1. (row.error_message \/ written) = TRUE
  BY DEF Row
<1>2. FailedRow(row, row, status, written) =
        [row EXCEPT !.status = status, !.retry_count = row.retry_count + 1,
                    !.error_message = TRUE]
  BY <1>1 DEF FailedRow, Burned, Row
<1>3. QED
  BY <1>2, PolicyAssumption DEF Row, RowConsistent

\* One step of the system keeps the invariant, action by action.
LEMMA NoDupStep ==
  ASSUME NoDuplication, Inv, SafeInv', [Next]_vars
  PROVE  Inv'
<1> DEFINE Carriers == /\ UnackedHeld' /\ OneCarrier'
                       /\ \A t \in ready' : TicketFits(t)'
                       /\ \A v \in Working' : TaskFits(v)'
           Sums == (AtMostOneDelivery /\ SendsWithinBudget /\ RowsConsistent)'
<1> SUFFICES Carriers /\ Sums
  BY DEF Inv
<1> USE DEF Inv
<1>a. /\ \A w \in Worker : pc[w] # "idle" => job[w] \in Ticket
      /\ \A t \in ready \cup unacked : t \in Ticket
      /\ \A w \in Worker : session[w] \in Row \cup {None}
      /\ \A n \in Notification : rows[n] \in Row \cup {None}
  BY DEF SafeInv, TypeOK, BrokerTypeOK, BusyHasTicket
<1>b. /\ pc \in [Worker -> PC]
      /\ job \in [Worker -> Ticket \cup {None}]
      /\ session \in [Worker -> Row \cup {None}]
      /\ rows \in [Notification -> Row \cup {None}]
      /\ attempts \in [Notification -> Nat]
      /\ deliveries \in [Notification -> Nat]
      /\ published \in [Notification -> Nat]
  BY DEF SafeInv, TypeOK, BrokerTypeOK
<1>c. \A w \in Working :
        /\ w \in Worker
        /\ job[w] \in Ticket
        /\ Id(w) \in Notification
        /\ job[w].retries \in Nat
        /\ TaskFits(w)
  BY <1>a, TicketFields DEF Working, Id
<1>d. ASSUME UNCHANGED <<rows, attempts, deliveries>> PROVE Sums
  BY <1>d DEF AtMostOneDelivery, SendsWithinBudget, RowsConsistent
<1>1. ASSUME NEW w \in Worker, NEW t \in ready, Receive(w, t)
      PROVE  Carriers /\ Sums
  <2>1. /\ pc' = [pc EXCEPT ![w] = "load"]
        /\ job' = [job EXCEPT ![w] = t]
        /\ ready' = ready \ {t} /\ unacked' = unacked \cup {t}
        /\ UNCHANGED <<rows, session, attempts, deliveries>>
        /\ pc[w] = "idle"
    BY <1>1 DEF Receive, Deliver, Goto, historyVars
  <2>2. Working' = Working \cup {w} /\ w \notin Working
    BY <1>b, <2>1 DEF Working
  <2>3. /\ \A v \in Worker \ {w} : Id(v)' = Id(v) /\ pc'[v] = pc[v] /\ job'[v] = job[v]
        /\ Id(w)' = t.id /\ pc'[w] = "load" /\ job'[w] = t
    BY <1>b, <2>1 DEF Id
  <2>4. UnackedHeld'
    BY <1>b, <2>1 DEF UnackedHeld
  <2>5. OneCarrier'
    BY <2>1, <2>2, <2>3 DEF OneCarrier, Working
  <2>6. \A u \in ready' : TicketFits(u)'
    BY <2>1 DEF TicketFits, Waiting
  <2>7. TaskFits(w)'
    BY <1>1, <2>1, <2>3 DEF TaskFits, TicketFits, Waiting, Outcome
  <2>8. ASSUME NEW v \in Working PROVE TaskFits(v)'
    <3>1. v \in Worker /\ v # w
      BY <2>2 DEF Working
    <3>2. QED
      BY <2>1, <2>3, <3>1 DEF TaskFits, Waiting
  <2>9. QED
    BY <1>d, <2>1, <2>2, <2>4, <2>5, <2>6, <2>7, <2>8
<1>2. ASSUME NEW w \in Worker, LoadMissing(w) PROVE Carriers /\ Sums
  <2>1. w \in Working /\ pc' = [pc EXCEPT ![w] = "ack"]
    BY <1>2 DEF LoadMissing, Goto, Working
  <2>2. UNCHANGED <<ready, unacked, job, session, rows, attempts, deliveries>>
    BY <1>2 DEF LoadMissing, brokerVars, historyVars
  <2>3. Carriers
    BY <2>1, <2>2, TaskMoves
  <2>4. QED
    BY <1>d, <2>2, <2>3
<1>3. ASSUME NEW w \in Worker, LoadSettled(w) PROVE Carriers /\ Sums
  \* A waiting row is never settled: only a duplicate is skipped.
  <2>1. w \in Working /\ pc[w] = "load" /\ rows[Id(w)] # None
        /\ rows[Id(w)].status \in Terminal
    BY <1>3 DEF LoadSettled, Working, Skip, Settled
  <2>2. QED
    BY <1>c, <2>1 DEF TaskFits, Waiting, Terminal
<1>4. ASSUME NEW w \in Worker, LoadOpen(w) PROVE Carriers /\ Sums
  <2>1. w \in Working /\ pc[w] = "load" /\ rows[Id(w)] # None
    BY <1>4 DEF LoadOpen, Working
  <2>2. rows[Id(w)].status = "PENDING"
    BY <1>c, <2>1 DEF TaskFits, Waiting
  <2>3. /\ pc' = [pc EXCEPT ![w] = "begin"]
        /\ session' = [session EXCEPT ![w] = rows[Id(w)]]
        /\ UNCHANGED <<ready, unacked, job, rows, attempts, deliveries>>
    BY <1>4, <2>2 DEF LoadOpen, Goto, Remember, brokerVars, historyVars
  <2>4. TaskFits(w)'
    <3>1. Id(w)' = Id(w) /\ pc'[w] = "begin" /\ session'[w] = rows[Id(w)]
      BY <1>b, <2>3 DEF Id
    <3>2. QED
      BY <1>c, <2>1, <2>3, <3>1 DEF TaskFits, Waiting, Outcome
  <2>5. Carriers
    BY <1>b, <2>1, <2>3, <2>4, TaskMoves
  <2>6. QED
    BY <1>d, <2>3, <2>5
<1>5. ASSUME NEW w \in Worker, BeginProcessing(w) PROVE Carriers /\ Sums
  <2> DEFINE row == [rows[Id(w)] EXCEPT !.status = "PROCESSING"]
  <2>1. w \in Working /\ pc[w] = "begin"
    BY <1>5 DEF BeginProcessing, Working
  <2>2. /\ Id(w) \in Notification
        /\ rows[Id(w)] \in Row
        /\ rows[Id(w)].status = "PENDING"
        /\ session[w] = rows[Id(w)]
    BY <1>a, <1>c, <2>1 DEF TaskFits, Waiting, Outcome
  <2>3. /\ pc' = [pc EXCEPT ![w] = "send"]
        /\ rows' = [rows EXCEPT ![Id(w)] = row]
        /\ session' = [session EXCEPT ![w] = row]
        /\ UNCHANGED <<ready, unacked, job, attempts, deliveries>>
    BY <1>5, <2>2 DEF BeginProcessing, Goto, Update, Remember, brokerVars, historyVars
  <2>4. row \in Row /\ row.status = "PROCESSING" /\ row.retry_count = rows[Id(w)].retry_count
    BY <2>2, BegunRow
  <2>5. TaskFits(w)'
    <3>1. /\ Id(w)' = Id(w) /\ pc'[w] = "send"
          /\ session'[w] = row /\ rows'[Id(w)] = row
      BY <1>b, <1>c, <2>1, <2>3 DEF Id
    <3>2. /\ attempts[Id(w)] = job[w].retries /\ job[w].retries < MaxAttempts
          /\ deliveries[Id(w)] = 0
          /\ rows[Id(w)].retry_count = job[w].retries
      BY <1>c, <2>1, <2>2 DEF TaskFits, Waiting, Outcome
    <3>3. row # None
      BY <2>4, NoneAssumption
    <3>4. QED
      BY <2>3, <2>4, <3>1, <3>2, <3>3 DEF TaskFits, Outcome
  <2>6. Carriers
    BY <1>b, <2>1, <2>2, <2>3, <2>5, TaskMoves
  <2>7. Sums
    <3>1. RowConsistent(row)
      BY <2>2, BegunConsistent, NoneAssumption DEF RowsConsistent
    <3>2. RowsConsistent'
      BY <1>b, <2>3, <3>1 DEF RowsConsistent
    <3>3. QED
      BY <2>3, <3>2 DEF AtMostOneDelivery, SendsWithinBudget
  <2>8. QED
    BY <2>6, <2>7
<1>6. ASSUME NEW w \in Worker, Send(w) PROVE Carriers /\ Sums
  <2>1. w \in Working /\ pc[w] = "send"
    BY <1>6 DEF Send, Working
  <2>2. PICK outcome \in Outcome :
          /\ pc' = [pc EXCEPT ![w] = outcome]
          /\ deliveries' = [deliveries EXCEPT ![Id(w)] =
                              IF outcome = "ok" THEN @ + 1 ELSE @]
    <3>1. Outcomes[Id(w)] \subseteq Outcome
      BY <1>c, <2>1, DispatchAssumption
    <3>2. QED
      BY <1>6, <3>1 DEF Send, Goto
  <2>3. /\ attempts' = [attempts EXCEPT ![Id(w)] = @ + 1]
        /\ UNCHANGED <<ready, unacked, job, session, rows>>
    BY <1>6 DEF Send, brokerVars
  <2>4. /\ attempts[Id(w)] = job[w].retries /\ job[w].retries < MaxAttempts
        /\ deliveries[Id(w)] = 0
    BY <1>c, <2>1 DEF TaskFits
  <2>5. /\ Id(w)' = Id(w) /\ pc'[w] = outcome
        /\ attempts'[Id(w)] = job[w].retries + 1
        /\ deliveries'[Id(w)] = IF outcome = "ok" THEN 1 ELSE 0
    BY <1>b, <1>c, <2>1, <2>2, <2>3, <2>4 DEF Id
  <2>6. TaskFits(w)'
    BY <1>c, <2>1, <2>2, <2>3, <2>5 DEF TaskFits, Outcome
  <2>7. Carriers
    <3>1. outcome # "idle"
      BY DEF Outcome
    <3>2. QED
      BY <1>b, <2>1, <2>2, <2>3, <2>6, <3>1, TaskMoves
  <2>8. Sums
    <3>1. job[w].retries + 1 <= MaxAttempts
      BY <1>c, <2>1, <2>4, PolicyAssumption
    <3>2. QED
      BY <1>b, <2>2, <2>3, <2>5, <3>1
      DEF AtMostOneDelivery, SendsWithinBudget, RowsConsistent
  <2>9. QED
    BY <2>7, <2>8
<1>7. ASSUME NEW w \in Worker, CommitSent(w) PROVE Carriers /\ Sums
  <2> DEFINE row == SentRow(rows[Id(w)], rows[Id(w)])
  <2>1. w \in Working /\ pc[w] = "ok"
    BY <1>7 DEF CommitSent, Working
  <2>2. /\ Id(w) \in Notification
        /\ rows[Id(w)] \in Row
        /\ session[w] = rows[Id(w)]
    BY <1>a, <1>c, <2>1 DEF TaskFits, Outcome
  <2>3. /\ pc' = [pc EXCEPT ![w] = "ack"]
        /\ rows' = [rows EXCEPT ![Id(w)] = row]
        /\ session' = [session EXCEPT ![w] = None]
        /\ UNCHANGED <<ready, unacked, job, attempts, deliveries>>
    BY <1>7, <2>2 DEF CommitSent, Goto, Update, Close, brokerVars, historyVars
  <2>4. Carriers
    BY <1>b, <2>1, <2>2, <2>3, TaskMoves
  <2>5. Sums
    <3>1. RowConsistent(row)
      BY <2>2, SentConsistent, NoneAssumption DEF RowsConsistent
    <3>2. RowsConsistent'
      BY <1>b, <2>3, <3>1 DEF RowsConsistent
    <3>3. QED
      BY <2>3, <3>2 DEF AtMostOneDelivery, SendsWithinBudget
  <2>6. QED
    BY <2>4, <2>5
<1>8. ASSUME NEW w \in Worker, CommitRetry(w) PROVE Carriers /\ Sums
  <2>1. w \in Working /\ pc[w] \in {"transient", "permanent"}
    BY <1>8 DEF CommitRetry, Working
  <2>2. /\ Id(w) \in Notification
        /\ rows[Id(w)] \in Row
        /\ session[w] = rows[Id(w)]
        /\ rows[Id(w)].status = "PROCESSING"
        /\ rows[Id(w)].retry_count = job[w].retries
        /\ job[w].retries < MaxAttempts
        /\ attempts[Id(w)] = job[w].retries + 1
        /\ deliveries[Id(w)] = 0
    BY <1>a, <1>c, <2>1 DEF TaskFits, Outcome
  <2>3. job[w].retries + 1 < MaxAttempts
    BY <1>8, <2>2 DEF CommitRetry, ShouldRetry, Burned
  <2>4. PICK written \in {TRUE, ~rows[Id(w)].error_message} :
          rows' = [rows EXCEPT ![Id(w)] =
                     FailedRow(rows[Id(w)], rows[Id(w)], "PENDING", written)]
    BY <1>8, <2>2 DEF CommitRetry, FailedAttempt, Update
  <2> DEFINE row == FailedRow(rows[Id(w)], rows[Id(w)], "PENDING", written)
             copy == [rows[Id(w)] EXCEPT !.status = "PENDING",
                                         !.retry_count = Burned(rows[Id(w)])]
  <2>5. /\ pc' = [pc EXCEPT ![w] = "retry"]
        /\ session' = [session EXCEPT ![w] = copy]
        /\ UNCHANGED <<ready, unacked, job, attempts, deliveries>>
    BY <1>8, <2>2 DEF CommitRetry, Goto, Remember, brokerVars, historyVars
  <2>6. row \in Row /\ row.status = "PENDING" /\ row.retry_count = job[w].retries + 1
    <3>1. "PENDING" \in Status
      BY DEF Status
    <3>2. QED
      BY <2>2, <3>1, FailedRowFacts
  <2>7. copy \in Row /\ copy.retry_count = job[w].retries + 1
    BY <2>2, RetriedCopy
  <2>8. TaskFits(w)'
    <3>1. /\ Id(w)' = Id(w) /\ pc'[w] = "retry"
          /\ session'[w] = copy /\ rows'[Id(w)] = row
      BY <1>b, <1>c, <2>1, <2>4, <2>5 DEF Id
    <3>2. row # None /\ copy # None
      BY <2>6, <2>7, NoneAssumption
    <3>3. QED
      BY ZenonT(30), <2>2, <2>3, <2>5, <2>6, <2>7, <3>1, <3>2 DEF TaskFits, Outcome
  <2>9. Carriers
    BY <1>b, <2>1, <2>2, <2>4, <2>5, <2>8, TaskMoves
  <2>10. Sums
    <3>1. RowConsistent(row)
      BY <2>2, FailedConsistent, NoneAssumption DEF RowsConsistent
    <3>2. RowsConsistent'
      BY <1>b, <2>4, <3>1 DEF RowsConsistent
    <3>3. QED
      BY <2>5, <3>2 DEF AtMostOneDelivery, SendsWithinBudget
  <2>11. QED
    BY <2>9, <2>10
<1>9. ASSUME NEW w \in Worker, CommitFailed(w) PROVE Carriers /\ Sums
  <2>1. w \in Working /\ pc[w] \in {"transient", "permanent"}
    BY <1>9 DEF CommitFailed, Working
  <2>2. /\ Id(w) \in Notification
        /\ rows[Id(w)] \in Row
        /\ session[w] = rows[Id(w)]
        /\ rows[Id(w)].status = "PROCESSING"
        /\ rows[Id(w)].retry_count = job[w].retries
        /\ job[w].retries < MaxAttempts
        /\ attempts[Id(w)] = job[w].retries + 1
        /\ deliveries[Id(w)] = 0
    BY <1>a, <1>c, <2>1 DEF TaskFits, Outcome
  <2>3. PICK written \in {TRUE, ~rows[Id(w)].error_message} :
          rows' = [rows EXCEPT ![Id(w)] =
                     FailedRow(rows[Id(w)], rows[Id(w)], "FAILED", written)]
    BY <1>9, <2>2 DEF CommitFailed, FailedAttempt, Update
  <2> DEFINE row == FailedRow(rows[Id(w)], rows[Id(w)], "FAILED", written)
  <2>4. /\ pc' = [pc EXCEPT ![w] = "dead_letter"]
        /\ session' = [session EXCEPT ![w] = None]
        /\ UNCHANGED <<ready, unacked, job, attempts, deliveries>>
    BY <1>9, <2>2 DEF CommitFailed, Goto, Close, brokerVars, historyVars
  <2>5. row \in Row /\ row.status = "FAILED"
    <3>1. "FAILED" \in Status
      BY DEF Status
    <3>2. QED
      BY <2>2, <3>1, FailedRowFacts
  <2>6. TaskFits(w)'
    <3>1. Id(w)' = Id(w) /\ pc'[w] = "dead_letter" /\ rows'[Id(w)] = row
      BY <1>b, <1>c, <2>1, <2>3, <2>4 DEF Id
    <3>2. row # None
      BY <2>5, NoneAssumption
    <3>3. QED
      BY <2>2, <2>4, <2>5, <3>1, <3>2 DEF TaskFits, Outcome
  <2>7. Carriers
    BY <1>b, <2>1, <2>2, <2>3, <2>4, <2>6, TaskMoves
  <2>8. Sums
    <3>1. RowConsistent(row)
      BY <2>2, FailedConsistent, NoneAssumption DEF RowsConsistent
    <3>2. RowsConsistent'
      BY <1>b, <2>3, <3>1 DEF RowsConsistent
    <3>3. QED
      BY <2>4, <3>2 DEF AtMostOneDelivery, SendsWithinBudget
  <2>9. QED
    BY <2>7, <2>8
<1>10. ASSUME NEW w \in Worker, Retry(w) PROVE Carriers /\ Sums
  <2>1. w \in Working /\ w \in Worker /\ pc[w] = "retry"
    BY <1>10 DEF Retry, Working
  <2>2. PICK new :
          /\ ready' = ready \cup {new}
          /\ new.id = Id(w)
          /\ new.retries = job[w].retries + 1
          /\ new.countdown = CountdownFor(session[w].retry_count)
    <3> DEFINE t == [id |-> Id(w), seq |-> published[Id(w)] + 1,
                     retries |-> job[w].retries + 1,
                     countdown |-> CountdownFor(session[w].retry_count)]
    <3>1. ready' = ready \cup {t}
      BY <1>10 DEF Retry, Publish, NextRetries
    <3>2. /\ t.id = Id(w) /\ t.retries = job[w].retries + 1
          /\ t.countdown = CountdownFor(session[w].retry_count)
      OBVIOUS
    <3> HIDE DEF t
    <3>3. QED
      BY <3>1, <3>2
  <2>3. /\ pc' = [pc EXCEPT ![w] = "ack"]
        /\ UNCHANGED <<unacked, rows, job, session, attempts, deliveries>>
    BY <1>10 DEF Retry, Publish, Goto, historyVars
  <2>4. TicketFits(new)'
    <3>1. Waiting(Id(w), new.retries) /\ session[w].retry_count = new.retries
      BY <1>c, <2>1, <2>2 DEF TaskFits, Waiting
    <3>2. QED
      BY <2>2, <2>3, <3>1 DEF TicketFits, Waiting
  <2>5. Working' = Working \ {w}
    BY <1>b, <2>1, <2>3 DEF Working
  <2>6. \A v \in Worker : Id(v)' = Id(v)
    BY <2>3 DEF Id
  <2>7. UnackedHeld'
    BY <1>b, <2>1, <2>3 DEF UnackedHeld
  <2>8. OneCarrier'
    <3>1. \A t \in ready : t.id # Id(w)
      BY <2>1 DEF OneCarrier
    <3>2. \A v \in Working \ {w} : Id(v) # Id(w) /\ Id(v)' = Id(v)
      BY <2>1, <2>6 DEF OneCarrier, Working
    <3>3. QED
      BY <2>2, <2>5, <3>1, <3>2 DEF OneCarrier
  <2>9. \A t \in ready : TicketFits(t)'
    BY <2>3 DEF TicketFits, Waiting
  <2>10. ASSUME NEW v \in Working, v # w PROVE TaskFits(v)'
    <3>1. v \in Worker /\ pc'[v] = pc[v] /\ Id(v)' = Id(v)
      BY <1>b, <2>3, <2>6, <2>10 DEF Working
    <3>2. QED
      BY <2>3, <3>1 DEF TaskFits, Waiting
  <2>11. QED
    BY <1>d, <2>2, <2>3, <2>4, <2>5, <2>7, <2>8, <2>9, <2>10
<1>11. ASSUME NEW w \in Worker, RetryRefused(w) PROVE Carriers /\ Sums
  \* The row's budget ends the retries first.
  <2>1. w \in Working /\ pc[w] = "retry" /\ job[w].retries + 1 > MaxAttempts - 1
    BY <1>11 DEF RetryRefused, Working, NextRetries, MaxRetries
  <2>2. QED
    BY <1>c, <2>1, PolicyAssumption DEF TaskFits
<1>12. ASSUME NEW w \in Worker,
              PublishDeadLetter(w) \/ RetryPublishFails(w) \/ DeadLetterPublishFails(w)
       PROVE  Carriers /\ Sums
  <2>1. w \in Working /\ pc' = [pc EXCEPT ![w] = "ack"]
    BY <1>12 DEF PublishDeadLetter, RetryPublishFails, DeadLetterPublishFails,
                 Goto, Working
  <2>2. UNCHANGED <<ready, unacked, job, session, rows, attempts, deliveries>>
    BY <1>12 DEF PublishDeadLetter, RetryPublishFails, DeadLetterPublishFails,
                 brokerVars, historyVars
  <2>3. Carriers
    BY <2>1, <2>2, TaskMoves
  <2>4. QED
    BY <1>d, <2>2, <2>3
<1>13. ASSUME NEW w \in Worker, Ack(w) \/ TaskFails(w) PROVE Carriers /\ Sums
  <2>1. /\ pc[w] # "idle"
        /\ pc' = [pc EXCEPT ![w] = "idle"]
        /\ job' = [job EXCEPT ![w] = None]
        /\ session' = [session EXCEPT ![w] = None]
        /\ unacked' = unacked \ {job[w]}
        /\ UNCHANGED <<ready, rows, attempts, deliveries>>
    BY <1>13 DEF Ack, TaskFails, Acknowledge, Release, Close, historyVars
  <2>2. Working' = Working \ {w}
    BY <1>b, <2>1 DEF Working
  <2>3. \A v \in Worker \ {w} :
          pc'[v] = pc[v] /\ job'[v] = job[v] /\ session'[v] = session[v] /\ Id(v)' = Id(v)
    BY <1>b, <2>1 DEF Id
  <2>4. UnackedHeld'
    BY <2>1, <2>3 DEF UnackedHeld
  <2>5. OneCarrier'
    BY <2>1, <2>2, <2>3 DEF OneCarrier, Working
  <2>6. \A t \in ready' : TicketFits(t)'
    BY <2>1 DEF TicketFits, Waiting
  <2>7. ASSUME NEW v \in Working' PROVE TaskFits(v)'
    <3>1. v \in Working /\ v \in Worker \ {w}
      BY <2>2 DEF Working
    <3>2. QED
      BY <2>1, <2>3, <3>1 DEF TaskFits, Waiting
  <2>8. QED
    BY <1>d, <2>1, <2>4, <2>5, <2>6, <2>7
<1>14. ASSUME NEW w \in Worker, NEW n \in dlq, RecordDeadLetter(w, n)
       PROVE  Carriers /\ Sums
  <2>1. UNCHANGED <<ready, unacked, job, pc, session, rows, attempts, deliveries>>
    BY <1>14 DEF RecordDeadLetter, brokerVars, workerVars, historyVars
  <2>2. QED
    BY <1>d, <2>1
    DEF UnackedHeld, OneCarrier, Working, Id, TicketFits, TaskFits, Waiting
<1>15. ASSUME NEW t \in unacked, Restore(t) PROVE Carriers /\ Sums
  \* There is no dead worker whose ticket could be restored.
  BY <1>15 DEF Restore, UnackedHeld
<1>16. ASSUME (\E w \in Worker : Crash(w)) \/ (\E t \in unacked : Redeliver(t))
       PROVE  Carriers /\ Sums
  BY <1>16 DEF Crash, Redeliver, Fault, NoDuplication
<1>17. ASSUME UNCHANGED vars PROVE Carriers /\ Sums
  <2>1. UNCHANGED <<ready, unacked, job, pc, session, rows, attempts, deliveries>>
    BY <1>17 DEF vars, brokerVars, workerVars, historyVars
  <2>2. QED
    BY <1>d, <2>1
    DEF UnackedHeld, OneCarrier, Working, Id, TicketFits, TaskFits, Waiting
<1>18. QED
  BY <1>1, <1>2, <1>3, <1>4, <1>5, <1>6, <1>7, <1>8, <1>9, <1>10, <1>11,
     <1>12, <1>13, <1>14, <1>15, <1>16, <1>17
  DEF Next, WorkerStep, FaultStep, Idle

LEMMA NoDupInvariant ==
  ASSUME NoDuplication
  PROVE  Spec => []Inv
<1>1. Inv /\ SafeInv' /\ [Next]_vars => Inv'
  BY NoDupStep
<1>2. QED
  BY <1>1, NoDupInit, SafeInvariant, PTL DEF Spec

\* The recipient gets a notification at most once: whatever tasks and
\* publishes fail, dispatch never calls the provider again after a success.
THEOREM DeliveredAtMostOnce ==
  ASSUME NoDuplication
  PROVE  Spec => []AtMostOneDelivery
<1>1. Inv => AtMostOneDelivery
  BY DEF Inv
<1>2. QED
  BY <1>1, NoDupInvariant, PTL

\* max_attempts bounds the provider calls, although the row and the ticket
\* count them separately.
THEOREM BudgetIsKept ==
  ASSUME NoDuplication
  PROVE  Spec => []SendsWithinBudget
<1>1. Inv => SendsWithinBudget
  BY DEF Inv
<1>2. QED
  BY <1>1, NoDupInvariant, PTL

\* status, sent_at, error_message and retry_count are written in several
\* UPDATEs from session copies, and agree after each of them.
THEOREM ColumnsAgree ==
  ASSUME NoDuplication
  PROVE  Spec => []RowsConsistent
<1>1. Inv => RowsConsistent
  BY DEF Inv
<1>2. QED
  BY <1>1, NoDupInvariant, PTL

\* One ticket per notification and late acknowledgement are all the mutual
\* exclusion that the tasks have, and all they need.
THEOREM TasksExclude ==
  ASSUME NoDuplication
  PROVE  Spec => []NoConcurrentTasks
<1>1. Inv => NoConcurrentTasks
  BY DEF Inv, OneCarrier, NoConcurrentTasks
<1>2. QED
  BY <1>1, NoDupInvariant, PTL

\* The retries counted in the ticket and the attempts counted in the row
\* never drift apart: max_retries = max_attempts - 1 never cuts the retries
\* short, whatever MaxAttempts and the schedule are.
THEOREM TicketAndRowAgree ==
  ASSUME NoDuplication
  PROVE  Spec => []CountersAgree
<1>1. ASSUME Inv PROVE CountersAgree
  <2>1. \A t \in ready : t.id \in Notification /\ TicketFits(t)
    BY <1>1, TicketFields DEF Inv, SafeInv, TypeOK, BrokerTypeOK
  <2>2. ASSUME NEW w \in Worker, pc[w] = "retry"
        PROVE  NextRetries(job[w]) <= MaxRetries
    <3>1. job[w].retries \in Nat
      BY <1>1, <2>2, TicketFields DEF Inv, SafeInv, BusyHasTicket
    <3>2. job[w].retries + 1 < MaxAttempts
      BY <1>1, <2>2 DEF Inv, Working, TaskFits
    <3>3. QED
      BY <3>1, <3>2, PolicyAssumption DEF NextRetries, MaxRetries
  <2>3. ASSUME NEW t \in ready
        PROVE  /\ t.retries \in DOMAIN Countdowns =>
                    t.countdown = Countdowns[t.retries]
               /\ t.retries > Len(Countdowns) =>
                    t.countdown = Countdowns[Len(Countdowns)]
    <3>1. t.retries \in Nat
      BY <1>1, <2>3, TicketFields DEF Inv, SafeInv, TypeOK, BrokerTypeOK
    <3>2. /\ DOMAIN Countdowns = 1 .. Len(Countdowns)
          /\ Len(Countdowns) \in Nat
      BY PolicyAssumption
    <3>3. t.retries > 0 => t.countdown = CountdownFor(t.retries)
      BY <2>1, <2>3 DEF TicketFits
    <3>4. QED
      BY <3>1, <3>2, <3>3 DEF CountdownFor
  <2>4. QED
    BY <2>1, <2>2, <2>3 DEF CountersAgree, TicketFits, Waiting
<1>2. QED
  BY <1>1, NoDupInvariant, PTL

-----------------------------------------------------------------------------
(* Why a row is FAILED *)

\* A task past the provider call holds an answer the provider may give, and
\* a notification that is only ever refused for good is never retried.
AnswersFit ==
  /\ \A w \in Working : pc[w] \in Outcome => pc[w] \in Outcomes[Id(w)]
  /\ \A w \in Working : Outcomes[Id(w)] = {"permanent"} =>
       job[w].retries = 0 /\ pc[w] # "retry"
  /\ \A t \in ready : Outcomes[t.id] = {"permanent"} => t.retries = 0

ReasonInv == AnswersFit /\ FailedForAReason

LEMMA ReasonInit == Init => ReasonInv
  BY DEF Init, ReasonInv, AnswersFit, FailedForAReason, Working, NewRow

\* A step that neither calls the provider nor fails a row, and gives nobody a
\* new answer or ticket.
LEMMA ReasonKept ==
  ASSUME ReasonInv, UNCHANGED attempts,
         \A t \in ready' : t \in ready \/ Outcomes[t.id] # {"permanent"},
         \A w \in Working' :
           /\ w \in Working /\ job'[w] = job[w]
           /\ pc'[w] \in Outcome \cup {"retry"} => pc'[w] = pc[w],
         \A n \in Notification :
           (rows'[n] # None /\ rows'[n].status = "FAILED") => rows'[n] = rows[n]
  PROVE  ReasonInv'
<1>1. \A w \in Working' : Id(w)' = Id(w)
  BY DEF Id
<1>2. AnswersFit'
  BY <1>1 DEF ReasonInv, AnswersFit
<1>3. FailedForAReason'
  BY DEF ReasonInv, FailedForAReason
<1>4. QED
  BY <1>2, <1>3 DEF ReasonInv

LEMMA ReasonStep ==
  ASSUME NoDuplication, Inv, ReasonInv, [Next]_vars
  PROVE  ReasonInv'
<1>a. /\ pc \in [Worker -> PC] /\ job \in [Worker -> Ticket \cup {None}]
      /\ rows \in [Notification -> Row \cup {None}]
      /\ attempts \in [Notification -> Nat]
      /\ \A w \in Working : /\ w \in Worker /\ Id(w) \in Notification /\ TaskFits(w)
                            /\ job[w].retries \in Nat
  BY TicketFields
     DEF Inv, SafeInv, TypeOK, BusyHasTicket, Working, Id
<1>1. ASSUME NEW w \in Worker, NEW t \in ready, Receive(w, t) PROVE ReasonInv'
  <2>1. /\ pc' = [pc EXCEPT ![w] = "load"] /\ job' = [job EXCEPT ![w] = t]
        /\ ready' = ready \ {t} /\ UNCHANGED <<rows, attempts>>
    BY <1>1 DEF Receive, Deliver, Goto, historyVars
  <2>2. AnswersFit'
    <3>1. ASSUME NEW v \in Working', v # w
          PROVE  /\ v \in Working /\ Id(v)' = Id(v) /\ pc'[v] = pc[v]
                 /\ job'[v] = job[v]
      BY <1>a, <2>1, <3>1 DEF Working, Id
    <3>2. Id(w)' = t.id /\ job'[w] = t /\ pc'[w] = "load"
      BY <1>a, <2>1 DEF Id
    <3>3. QED
      BY <2>1, <3>1, <3>2 DEF ReasonInv, AnswersFit, Outcome
  <2>3. QED
    BY <2>1, <2>2 DEF ReasonInv, FailedForAReason
<1>2. ASSUME NEW w \in Working, NEW label, label \notin Outcome \cup {"retry"},
             pc' = [pc EXCEPT ![w] = label],
             UNCHANGED <<ready, job, attempts>>,
             \A n \in Notification :
               (rows'[n] # None /\ rows'[n].status = "FAILED") => rows'[n] = rows[n]
      PROVE  ReasonInv'
  <2>1. \A v \in Working' : /\ v \in Working /\ job'[v] = job[v]
                            /\ pc'[v] \in Outcome \cup {"retry"} => pc'[v] = pc[v]
    BY <1>a, <1>2 DEF Working
  <2>2. QED
    BY <1>2, <2>1, ReasonKept
<1>3. ASSUME NEW w \in Worker,
             \/ LoadMissing(w) \/ LoadSettled(w) \/ RetryRefused(w)
             \/ PublishDeadLetter(w) \/ RetryPublishFails(w)
             \/ DeadLetterPublishFails(w)
      PROVE  ReasonInv'
  <2>1. /\ w \in Working /\ pc' = [pc EXCEPT ![w] = "ack"]
        /\ UNCHANGED <<ready, job, attempts, rows>>
    BY <1>3 DEF LoadMissing, LoadSettled, RetryRefused, PublishDeadLetter,
                RetryPublishFails, DeadLetterPublishFails, Goto, Working,
                brokerVars, historyVars
  <2>2. "ack" \notin Outcome \cup {"retry"}
    BY DEF Outcome
  <2>3. QED
    BY <1>2, <2>1, <2>2
<1>4. ASSUME NEW w \in Worker, LoadOpen(w) PROVE ReasonInv'
  <2>1. PICK label \in {"begin", "send"} : pc' = [pc EXCEPT ![w] = label]
    BY <1>4 DEF LoadOpen, Goto
  <2>2. w \in Working /\ UNCHANGED <<ready, job, attempts, rows>>
    BY <1>4 DEF LoadOpen, Working, brokerVars, historyVars
  <2>3. label \notin Outcome \cup {"retry"}
    BY DEF Outcome
  <2>4. QED
    BY <1>2, <2>1, <2>2, <2>3
<1>5. ASSUME NEW w \in Worker, BeginProcessing(w) \/ CommitSent(w) PROVE ReasonInv'
  <2>1. w \in Working /\ UNCHANGED <<ready, job, attempts>>
    BY <1>5 DEF BeginProcessing, CommitSent, Working, brokerVars, historyVars
  <2>2. PICK label \in {"send", "ack"} : pc' = [pc EXCEPT ![w] = label]
    BY <1>5 DEF BeginProcessing, CommitSent, Goto
  <2>3. PICK row : rows' = [rows EXCEPT ![Id(w)] = row] /\ row.status # "FAILED"
    <3>1. Id(w) \in Notification /\ rows[Id(w)] \in Row /\ session[w] \in Row
      BY <1>5, <2>1 DEF BeginProcessing, CommitSent, Inv, SafeInv, TypeOK,
                        SessionLoaded, BusyHasTicket, Working, Id, Outcome, Ticket
    <3>2. QED
      BY <1>5, <3>1, BegunRow, SentRowFacts DEF BeginProcessing, CommitSent, Update
  <2>4. \A n \in Notification :
          (rows'[n] # None /\ rows'[n].status = "FAILED") => rows'[n] = rows[n]
    BY <1>a, <2>1, <2>3
  <2>5. label \notin Outcome \cup {"retry"}
    BY DEF Outcome
  <2>6. QED
    BY <1>2, <2>1, <2>2, <2>4, <2>5
<1>6. ASSUME NEW w \in Worker, Send(w) PROVE ReasonInv'
  <2>1. w \in Working /\ rows[Id(w)].status = "PROCESSING"
    BY <1>6 DEF Send, Working, Inv, TaskFits
  <2>2. PICK outcome \in Outcomes[Id(w)] : pc' = [pc EXCEPT ![w] = outcome]
    BY <1>6 DEF Send, Goto
  <2>3. /\ attempts' = [attempts EXCEPT ![Id(w)] = @ + 1]
        /\ UNCHANGED <<ready, job, rows>>
    BY <1>6 DEF Send, brokerVars
  <2>4. outcome \in Outcome
    BY <1>a, <2>1, DispatchAssumption
  <2>5. Working' = Working /\ \A v \in Working : Id(v)' = Id(v)
    BY <1>a, <1>6, <2>2, <2>3, <2>4 DEF Send, Working, Id, Outcome
  <2>6. AnswersFit'
    BY <1>a, <2>1, <2>2, <2>3, <2>4, <2>5 DEF ReasonInv, AnswersFit, Outcome
  <2>7. FailedForAReason'
    BY <1>a, <2>1, <2>3 DEF ReasonInv, FailedForAReason
  <2>8. QED
    BY <2>6, <2>7 DEF ReasonInv
<1>7. ASSUME NEW w \in Worker, CommitRetry(w) PROVE ReasonInv'
  <2>1. /\ w \in Working /\ UNCHANGED <<ready, job, attempts>>
        /\ pc[w] \in {"transient", "permanent"}
        /\ pc' = [pc EXCEPT ![w] = "retry"]
    BY <1>7 DEF CommitRetry, Working, Goto, brokerVars, historyVars
  <2>2. pc[w] = "transient" /\ Outcomes[Id(w)] # {"permanent"}
    BY <1>7, <2>1 DEF CommitRetry, ShouldRetry, Retryable, ReasonInv, AnswersFit,
                      Outcome
  <2>3. PICK row : rows' = [rows EXCEPT ![Id(w)] = row] /\ row.status # "FAILED"
    <3>1. Id(w) \in Notification /\ rows[Id(w)] \in Row /\ session[w] \in Row
      BY <1>7, <2>1 DEF Inv, SafeInv, TypeOK, SessionLoaded, BusyHasTicket,
                        Working, Id, Outcome, Ticket
    <3>2. PICK written :
            rows' = [rows EXCEPT ![Id(w)] =
                       FailedRow(rows[Id(w)], session[w], "PENDING", written)]
      BY <1>7 DEF CommitRetry, FailedAttempt, Update
    <3>3. "PENDING" \in Status
      BY DEF Status
    <3>4. FailedRow(rows[Id(w)], session[w], "PENDING", written).status = "PENDING"
      BY <3>1, <3>3, FailedRowFacts
    <3>5. QED
      BY <3>2, <3>4
  <2>4. Working' = Working /\ \A v \in Working : Id(v)' = Id(v)
    BY <1>a, <2>1 DEF Working, Id
  <2>5. AnswersFit'
    BY <1>a, <2>1, <2>2, <2>4 DEF ReasonInv, AnswersFit, Outcome
  <2>6. FailedForAReason'
    BY <1>a, <2>1, <2>3 DEF ReasonInv, FailedForAReason
  <2>7. QED
    BY <2>5, <2>6 DEF ReasonInv
<1>8. ASSUME NEW w \in Worker, CommitFailed(w) PROVE ReasonInv'
  <2>1. /\ w \in Working /\ UNCHANGED <<ready, job, attempts>>
        /\ pc[w] \in {"transient", "permanent"}
        /\ pc' = [pc EXCEPT ![w] = "dead_letter"]
    BY <1>8 DEF CommitFailed, Working, Goto, brokerVars, historyVars
  <2>2. PICK row : rows' = [rows EXCEPT ![Id(w)] = row]
    BY <1>8 DEF CommitFailed, FailedAttempt, Update
  \* Out of budget, or refused for good.
  <2>3. /\ pc[w] = "permanent" \/ attempts[Id(w)] = MaxAttempts
        /\ attempts[Id(w)] = job[w].retries + 1
        /\ pc[w] \in Outcomes[Id(w)]
        /\ Outcomes[Id(w)] = {"permanent"} => job[w].retries = 0
    <3>1. /\ session[w] = rows[Id(w)] /\ rows[Id(w)].retry_count = job[w].retries
          /\ attempts[Id(w)] = job[w].retries + 1 /\ job[w].retries < MaxAttempts
      BY <1>a, <2>1 DEF TaskFits, Outcome
    <3>2. pc[w] = "permanent" \/ ~(job[w].retries + 1 < MaxAttempts)
      BY <1>8, <2>1, <3>1 DEF CommitFailed, ShouldRetry, Burned, Retryable
    <3>3. /\ pc[w] \in Outcomes[Id(w)]
          /\ Outcomes[Id(w)] = {"permanent"} => job[w].retries = 0
      BY <2>1 DEF ReasonInv, AnswersFit, Outcome
    <3>4. QED
      BY <1>a, <2>1, <3>1, <3>2, <3>3, PolicyAssumption
  <2>4. \A v \in Working' : /\ v \in Working /\ Id(v)' = Id(v)
                            /\ pc'[v] \in Outcome \cup {"retry"} => pc'[v] = pc[v]
    BY <1>a, <2>1 DEF Working, Id, Outcome
  <2>5. AnswersFit'
    BY <2>1, <2>4 DEF ReasonInv, AnswersFit
  <2>6. ASSUME NEW n \in Notification, rows'[n] # None, rows'[n].status = "FAILED"
        PROVE  /\ "permanent" \notin Outcomes[n] => attempts'[n] = MaxAttempts
               /\ Outcomes[n] = {"permanent"} => attempts'[n] = 1
    <3>1. CASE n = Id(w)
      BY <1>a, <2>1, <2>3, <3>1
    <3>2. CASE n # Id(w)
      BY <1>a, <2>1, <2>2, <2>6, <3>2 DEF ReasonInv, FailedForAReason
    <3>3. QED
      BY <3>1, <3>2
  <2>7. FailedForAReason'
    BY <2>6 DEF FailedForAReason
  <2>8. QED
    BY <2>5, <2>7 DEF ReasonInv
<1>9. ASSUME NEW w \in Worker, Retry(w) PROVE ReasonInv'
  <2>1. /\ w \in Working /\ pc[w] = "retry" /\ pc' = [pc EXCEPT ![w] = "ack"]
        /\ UNCHANGED <<job, attempts, rows>>
    BY <1>9 DEF Retry, Working, Goto, historyVars
  <2>2. PICK new : ready' = ready \cup {new} /\ new.id = Id(w)
    <3> DEFINE t == [id |-> Id(w), seq |-> published[Id(w)] + 1,
                     retries |-> NextRetries(job[w]),
                     countdown |-> CountdownFor(session[w].retry_count)]
    <3>1. ready' = ready \cup {t} /\ t.id = Id(w)
      BY <1>9 DEF Retry, Publish
    <3> HIDE DEF t
    <3>2. QED
      BY <3>1
  <2>3. Outcomes[Id(w)] # {"permanent"}
    BY <2>1 DEF ReasonInv, AnswersFit
  <2>4. \A v \in Working' : /\ v \in Working /\ job'[v] = job[v]
                            /\ pc'[v] \in Outcome \cup {"retry"} => pc'[v] = pc[v]
    BY <1>a, <2>1 DEF Working, Outcome
  <2>5. \A t \in ready' : t \in ready \/ Outcomes[t.id] # {"permanent"}
    BY <2>2, <2>3
  <2>6. QED
    BY <2>1, <2>4, <2>5, ReasonKept
<1>10. ASSUME NEW w \in Worker, Ack(w) \/ TaskFails(w) PROVE ReasonInv'
  <2>1. /\ pc' = [pc EXCEPT ![w] = "idle"] /\ job' = [job EXCEPT ![w] = None]
        /\ UNCHANGED <<ready, attempts, rows>>
    BY <1>10 DEF Ack, TaskFails, Acknowledge, Release, historyVars
  <2>2. \A v \in Working' : /\ v \in Working /\ job'[v] = job[v]
                            /\ pc'[v] = pc[v]
    BY <1>a, <2>1 DEF Working
  <2>3. QED
    BY <2>1, <2>2, ReasonKept
<1>11. CASE UNCHANGED vars \/ \E w \in Worker, n \in dlq : RecordDeadLetter(w, n)
  <2>1. UNCHANGED <<ready, pc, job, attempts, rows>>
    BY <1>11 DEF vars, RecordDeadLetter, brokerVars, workerVars, historyVars
  <2>2. Working' = Working
    BY <2>1 DEF Working
  <2>3. QED
    BY <2>1, <2>2, ReasonKept
<1>12. ASSUME NEW t \in unacked, Restore(t) PROVE ReasonInv'
  BY <1>12 DEF Restore, Inv, UnackedHeld
<1>13. CASE (\E w \in Worker : Crash(w)) \/ (\E t \in unacked : Redeliver(t))
  BY <1>13 DEF Crash, Redeliver, Fault, NoDuplication
<1>14. QED
  BY <1>1, <1>3, <1>4, <1>5, <1>6, <1>7, <1>8, <1>9, <1>10, <1>11, <1>12, <1>13
     DEF Next, WorkerStep, FaultStep, Idle

\* A notification is given up only for the reason the retry policy allows:
\* should_retry, the row's retry_count and the ticket's retries together
\* never end the attempts early and never repeat a permanent refusal.
THEOREM GivenUpForAReason ==
  ASSUME NoDuplication
  PROVE  Spec => []FailedForAReason
<1>1. Inv /\ ReasonInv /\ [Next]_vars => ReasonInv'
  BY ReasonStep
<1>2. ReasonInv => FailedForAReason
  BY DEF ReasonInv
<1>3. QED
  BY <1>1, <1>2, ReasonInit, NoDupInvariant, PTL DEF Spec

-----------------------------------------------------------------------------
(* What a provider call and a commit find in the row *)

SendsUnsettled ==
  \A n \in Notification : attempts'[n] # attempts[n] => ~Settled(rows[n])

\* If every provider call finds its row PROCESSING, none is for a settled row.
LEMMA SendsWhileProcessing ==
  ASSUME TypeOK, [Next]_vars,
         \A w \in Worker : Send(w) => rows[Id(w)].status = "PROCESSING"
  PROVE  [SendsUnsettled]_attempts
<1> SUFFICES ASSUME attempts' # attempts PROVE SendsUnsettled
  OBVIOUS
<1>1. PICK w \in Worker : Send(w)
  BY DEF Next, WorkerStep, FaultStep, Idle, vars, historyVars, Receive, LoadMissing,
         LoadSettled, LoadOpen, BeginProcessing, CommitSent, CommitRetry,
         CommitFailed, Retry, RetryRefused, PublishDeadLetter, Ack,
         RecordDeadLetter, Restore, Crash, Redeliver, TaskFails,
         RetryPublishFails, DeadLetterPublishFails
<1>2. attempts' = [attempts EXCEPT ![Id(w)] = @ + 1]
  BY <1>1 DEF Send
<1>3. QED
  BY <1>1, <1>2 DEF Settled, Terminal, TypeOK, SendsUnsettled

\* Nothing comes between a task's status check and its provider call: a row
\* that says SENT or FAILED is never sent again.
THEOREM NoSendAfterTheEnd ==
  ASSUME NoDuplication
  PROVE  Spec => NoSendOnceSettled
<1>1. ASSUME Inv, [Next]_vars PROVE [SendsUnsettled]_attempts
  <2>1. \A w \in Worker : Send(w) => rows[Id(w)].status = "PROCESSING"
    BY <1>1 DEF Inv, Send, Working, TaskFits
  <2>2. QED
    BY <1>1, <2>1, SendsWhileProcessing DEF Inv, SafeInv
<1>2. QED
  BY <1>1, NoDupInvariant, PTL DEF Spec, NoSendOnceSettled, SendsUnsettled

\* What a task about to commit knows, and what it commits.
LEMMA CommitFacts ==
  ASSUME Inv, NEW w \in Worker,
         BeginProcessing(w) \/ CommitSent(w) \/ CommitRetry(w) \/ CommitFailed(w)
  PROVE  /\ w \in Working /\ TaskFits(w)
         /\ Id(w) \in Notification
         /\ job[w].retries \in Nat
         /\ session[w] = rows[Id(w)]
         /\ rows[Id(w)] \in Row
         /\ rows[Id(w)] # None
<1>1. w \in Working /\ pc[w] \in {"begin"} \cup Outcome
  BY DEF BeginProcessing, CommitSent, CommitRetry, CommitFailed, Working, Outcome
<1>2. TaskFits(w)
  BY <1>1 DEF Inv
<1>3. Id(w) \in Notification /\ job[w].retries \in Nat
  BY <1>1, TicketFields DEF Inv, SafeInv, BusyHasTicket, Working, Id
<1>4. session[w] = rows[Id(w)]
  BY <1>1, <1>2 DEF TaskFits
<1>5. rows[Id(w)] \in Row /\ rows[Id(w)] # None
  BY <1>1, <1>3 DEF Inv, SafeInv, TypeOK, SessionLoaded, Outcome
<1>6. QED
  BY <1>1, <1>2, <1>3, <1>4, <1>5

Follows ==
  \A n \in Notification :
    (rows[n] # None /\ rows'[n].status # rows[n].status)
      => CanTransition(rows[n].status, rows'[n].status)

Commits(w) ==
  BeginProcessing(w) \/ CommitSent(w) \/ CommitRetry(w) \/ CommitFailed(w)

LEMMA OnlyCommitsWrite ==
  ASSUME [Next]_vars, rows' # rows
  PROVE  \E w \in Worker : Commits(w)
  BY DEF Next, WorkerStep, FaultStep, Idle, vars, Receive, LoadMissing, LoadSettled,
         LoadOpen, Send, Retry, RetryRefused, PublishDeadLetter, Ack,
         RecordDeadLetter, Restore, Crash, Redeliver, TaskFails,
         RetryPublishFails, DeadLetterPublishFails, Commits

\* If every task that commits holds a true copy, its commit follows the table.
LEMMA TrueCopiesFollow ==
  ASSUME TypeOK, [Next]_vars,
         \A w \in Worker : Commits(w) =>
           Id(w) \in Notification /\ session[w] = rows[Id(w)] /\ rows[Id(w)] \in Row
  PROVE  [Follows]_rows
<1> SUFFICES ASSUME rows' # rows PROVE Follows
  OBVIOUS
<1>1. PICK w \in Worker : Commits(w)
  BY OnlyCommitsWrite
<1>2. Id(w) \in Notification /\ session[w] = rows[Id(w)] /\ rows[Id(w)] \in Row
  BY <1>1
<1>3. PICK row :
        /\ rows' = [rows EXCEPT ![Id(w)] = row]
        /\ CanTransition(rows[Id(w)].status, row.status)
  <2>1. CASE BeginProcessing(w)
    <3>1. [rows[Id(w)] EXCEPT !.status = "PROCESSING"].status = "PROCESSING"
      BY <1>2, BegunRow
    <3>2. QED
      BY <1>2, <2>1, <3>1 DEF BeginProcessing, Update
  <2>2. CASE CommitSent(w)
    <3>1. SentRow(rows[Id(w)], rows[Id(w)]).status = "SENT"
      BY <1>2, SentRowFacts
    <3>2. QED
      BY <1>2, <2>2, <3>1 DEF CommitSent, Update
  <2>3. CASE CommitRetry(w)
    <3>1. PICK written :
            rows' = [rows EXCEPT ![Id(w)] =
                       FailedRow(rows[Id(w)], rows[Id(w)], "PENDING", written)]
      BY <1>2, <2>3 DEF CommitRetry, FailedAttempt, Update
    <3>2. FailedRow(rows[Id(w)], rows[Id(w)], "PENDING", written).status = "PENDING"
      BY <1>2, FailedRowFacts DEF Status
    <3>3. QED
      BY <1>2, <2>3, <3>1, <3>2 DEF CommitRetry
  <2>4. CASE CommitFailed(w)
    <3>1. PICK written :
            rows' = [rows EXCEPT ![Id(w)] =
                       FailedRow(rows[Id(w)], rows[Id(w)], "FAILED", written)]
      BY <1>2, <2>4 DEF CommitFailed, FailedAttempt, Update
    <3>2. FailedRow(rows[Id(w)], rows[Id(w)], "FAILED", written).status = "FAILED"
      BY <1>2, FailedRowFacts DEF Status
    <3>3. QED
      BY <1>2, <2>4, <3>1, <3>2 DEF CommitFailed
  <2>5. QED
    BY <1>1, <2>1, <2>2, <2>3, <2>4 DEF Commits
<1>4. QED
  BY <1>2, <1>3 DEF TypeOK, Follows

\* Rows only change along the table of state_machine.py: without duplicated
\* tickets the copy that assert_transition looks at is the row.
THEOREM TableFollowed ==
  ASSUME NoDuplication
  PROVE  Spec => TransitionsFollowTable
<1>1. Inv /\ [Next]_vars => [Follows]_rows
  <2> SUFFICES ASSUME Inv, [Next]_vars PROVE [Follows]_rows
    OBVIOUS
  <2>1. TypeOK
    BY DEF Inv, SafeInv
  <2>2. \A w \in Worker : Commits(w) =>
          Id(w) \in Notification /\ session[w] = rows[Id(w)] /\ rows[Id(w)] \in Row
    BY CommitFacts DEF Commits
  <2>3. QED
    BY <2>1, <2>2, TrueCopiesFollow
<1>2. QED
  BY <1>1, NoDupInvariant, PTL DEF Spec, TransitionsFollowTable, Follows

-----------------------------------------------------------------------------
(* Nothing is lost *)

\* No fault that acknowledges a ticket whose work is not done.
AcksAreHonest == Faults \cap {"task_error", "retry_publish"} = {}

\* If every task that commits finds its row open, no step opens a row.
LEMMA OpenStays ==
  ASSUME TypeOK, [Next]_vars,
         \A w \in Worker : Commits(w) => Id(w) \in Notification /\ Open(Id(w)),
         NEW n \in Notification, Open(n)'
  PROVE  Open(n)
<1>1. CASE rows' = rows
  BY <1>1 DEF Open
<1>2. CASE rows' # rows
  <2>1. PICK w \in Worker : Commits(w)
    BY <1>2, OnlyCommitsWrite
  <2>2. PICK row : rows' = [rows EXCEPT ![Id(w)] = row]
    BY <2>1 DEF Commits, BeginProcessing, CommitSent, CommitRetry, CommitFailed,
                FailedAttempt, Update
  <2>3. QED
    BY <2>1, <2>2 DEF Open, TypeOK
<1>3. QED
  BY <1>1, <1>2

\* A ticket, or a task that has not handed its result over.
Carried(n) ==
  \/ \E t \in ready : t.id = n
  \/ \E w \in Working : Id(w) = n

OpenCarried == \A n \in Notification : Open(n) => Carried(n)

LEMMA CarriedInit == Init => OpenCarried
<1> SUFFICES ASSUME Init, NEW n \in Notification PROVE Carried(n)
  BY DEF OpenCarried
<1> DEFINE t == [id |-> n, seq |-> 1, retries |-> 0, countdown |-> 0]
<1>1. t \in ready /\ t.id = n
  BY DEF Init
<1>2. QED
  BY <1>1 DEF Carried

\* A task may stop carrying its notification when it leaves the row settled or
\* has published the next ticket.
LEMMA CarriedOn ==
  ASSUME OpenCarried, NEW w \in Worker,
         \A n \in Notification : Open(n)' => Open(n),
         ready \subseteq ready',
         \A v \in Working \ {w} : v \in Working' /\ Id(v)' = Id(v),
         \/ w \notin Working
         \/ w \in Working' /\ Id(w)' = Id(w)
         \/ ~Open(Id(w))'
         \/ \E t \in ready' : t.id = Id(w),
         Id(w)' = Id(w)
  PROVE  OpenCarried'
<1> SUFFICES ASSUME NEW n \in Notification, Open(n)' PROVE Carried(n)'
  BY DEF OpenCarried
<1>1. Carried(n)
  BY DEF OpenCarried
<1>2. CASE \E t \in ready : t.id = n
  BY <1>2 DEF Carried
<1>3. CASE \E v \in Working \ {w} : Id(v) = n
  BY <1>3 DEF Carried
<1>4. CASE w \in Working /\ Id(w) = n
  BY <1>4 DEF Carried
<1>5. QED
  BY <1>1, <1>2, <1>3, <1>4 DEF Carried

LEMMA CarriedStep ==
  ASSUME NoDuplication, AcksAreHonest, Inv, OpenCarried, [Next]_vars
  PROVE  OpenCarried'
<1>a. /\ pc \in [Worker -> PC] /\ job \in [Worker -> Ticket \cup {None}]
      /\ rows \in [Notification -> Row \cup {None}]
      /\ \A w \in Working : TaskFits(w) /\ Id(w) \in Notification
  BY TicketFields DEF Inv, SafeInv, TypeOK, BusyHasTicket, Working, Id
<1>b. \A n \in Notification : Open(n)' => Open(n)
  <2>1. ASSUME NEW w \in Worker, Commits(w)
        PROVE  Id(w) \in Notification /\ Open(Id(w))
    <3>1. /\ TaskFits(w) /\ Id(w) \in Notification /\ rows[Id(w)] # None
          /\ pc[w] \in {"begin"} \cup Outcome
      BY <2>1, CommitFacts
      DEF Commits, BeginProcessing, CommitSent, CommitRetry, CommitFailed, Outcome
    <3>2. QED
      BY <3>1 DEF TaskFits, Waiting, Open, Settled, Terminal, Outcome
  <2>2. QED
    BY <2>1, OpenStays DEF Inv, SafeInv
<1>1. ASSUME NEW w \in Worker, NEW t \in ready, Receive(w, t) PROVE OpenCarried'
  <2>1. /\ w \notin Working /\ w \in Working' /\ Id(w)' = t.id
        /\ ready' = ready \ {t}
        /\ \A v \in Working : v \in Working' /\ Id(v)' = Id(v)
    BY <1>1, <1>a DEF Receive, Deliver, Goto, Working, Id
  <2>2. QED
    BY <1>b, <2>1 DEF OpenCarried, Carried
<1>2. ASSUME NEW w \in Worker,
             \/ LoadOpen(w) \/ BeginProcessing(w) \/ Send(w) \/ CommitRetry(w)
             \/ CommitFailed(w)
      PROVE  OpenCarried'
  <2>1. /\ ready' = ready /\ Id(w)' = Id(w)
        /\ \A v \in Worker \ {w} : pc'[v] = pc[v] /\ Id(v)' = Id(v)
    BY <1>a, <1>2
    DEF LoadOpen, BeginProcessing, Send, CommitRetry, CommitFailed, Goto, brokerVars, Id
  <2>2. pc'[w] \notin {"idle", "ack"}
    <3>1. CASE Send(w)
      <4>1. pc'[w] \in Outcomes[Id(w)] /\ Id(w) \in Notification
        BY <1>a, <3>1 DEF Send, Goto, Working
      <4>2. QED
        BY <4>1, DispatchAssumption DEF Outcome
    <3>2. CASE ~Send(w)
      BY <1>a, <1>2, <3>2
      DEF LoadOpen, BeginProcessing, CommitRetry, CommitFailed, Goto
    <3>3. QED
      BY <3>1, <3>2
  <2>3. \A v \in Working : v \in Working' /\ Id(v)' = Id(v)
    BY <2>1, <2>2 DEF Working
  <2>4. QED
    BY <1>b, <2>1, <2>3, CarriedOn
<1>3. ASSUME NEW w \in Worker,
             \/ LoadMissing(w) \/ LoadSettled(w) \/ CommitSent(w)
             \/ PublishDeadLetter(w) \/ DeadLetterPublishFails(w)
      PROVE  OpenCarried'
  <2>1. /\ ready' = ready /\ Id(w)' = Id(w)
        /\ \A v \in Worker \ {w} : pc'[v] = pc[v] /\ Id(v)' = Id(v)
    BY <1>a, <1>3
    DEF LoadMissing, LoadSettled, CommitSent, PublishDeadLetter,
        DeadLetterPublishFails, Goto, brokerVars, Id
  <2>2. ~Open(Id(w))'
    <3>1. CASE LoadMissing(w) \/ LoadSettled(w)
      BY <2>1, <3>1 DEF LoadMissing, LoadSettled, Open, Skip
    <3>2. CASE CommitSent(w)
      <4>1. /\ session[w] = rows[Id(w)] /\ rows[Id(w)] \in Row /\ Id(w) \in Notification
        BY <3>2, CommitFacts
      <4>2. rows'[Id(w)].status = "SENT"
        BY <1>a, <3>2, <4>1, SentRowFacts DEF CommitSent, Update
      <4>3. QED
        BY <2>1, <4>2 DEF Open, Settled, Terminal
    <3>3. CASE PublishDeadLetter(w) \/ DeadLetterPublishFails(w)
      <4>1. rows[Id(w)].status = "FAILED" /\ rows' = rows
        BY <1>a, <3>3 DEF PublishDeadLetter, DeadLetterPublishFails, TaskFits, Working
      <4>2. QED
        BY <2>1, <4>1 DEF Open, Settled, Terminal
    <3>4. QED
      BY <1>3, <3>1, <3>2, <3>3
  <2>3. QED
    BY <1>b, <2>1, <2>2, CarriedOn DEF Working
<1>4. ASSUME NEW w \in Worker, Retry(w) PROVE OpenCarried'
  <2> DEFINE new == [id |-> Id(w), seq |-> published[Id(w)] + 1,
                     retries |-> NextRetries(job[w]),
                     countdown |-> CountdownFor(session[w].retry_count)]
  <2>1. ready' = ready \cup {new} /\ new.id = Id(w)
    BY <1>4 DEF Retry, Publish
  <2> HIDE DEF new
  <2>2. /\ Id(w)' = Id(w)
        /\ \A v \in Worker \ {w} : pc'[v] = pc[v] /\ Id(v)' = Id(v)
    BY <1>4 DEF Retry, Goto, Id
  <2>3. QED
    BY <1>b, <2>1, <2>2, CarriedOn DEF Working
<1>5. ASSUME NEW w \in Worker, RetryRefused(w) PROVE FALSE
  <2>1. w \in Working /\ job[w].retries \in Nat
    BY <1>5, TicketFields DEF RetryRefused, Working, Inv, SafeInv, BusyHasTicket
  <2>2. job[w].retries + 1 < MaxAttempts
    BY <1>a, <1>5, <2>1 DEF RetryRefused, TaskFits
  <2>3. QED
    BY <1>5, <2>1, <2>2, PolicyAssumption DEF RetryRefused, NextRetries, MaxRetries
<1>6. ASSUME NEW w \in Worker, Ack(w) PROVE OpenCarried'
  <2>1. /\ ready' = ready /\ w \notin Working
        /\ \A v \in Working : v \in Working' /\ Id(v)' = Id(v)
    BY <1>6 DEF Ack, Acknowledge, Release, Working, Id
  <2>2. QED
    BY <1>b, <2>1 DEF OpenCarried, Carried
<1>7. ASSUME NEW w \in Worker, NEW n \in dlq, RecordDeadLetter(w, n) PROVE OpenCarried'
  BY <1>b, <1>7
  DEF RecordDeadLetter, brokerVars, workerVars, OpenCarried, Carried, Working, Id
<1>8. ASSUME NEW t \in unacked, Restore(t) PROVE FALSE
  BY <1>8 DEF Restore, Inv, UnackedHeld
\* The faults that duplicate or drop a ticket are excluded.
<1>9. ASSUME NEW w \in Worker, Crash(w) \/ TaskFails(w) \/ RetryPublishFails(w)
      PROVE  FALSE
  BY <1>9 DEF Crash, TaskFails, RetryPublishFails, Fault, NoDuplication, AcksAreHonest
<1>10. ASSUME NEW t \in unacked, Redeliver(t) PROVE FALSE
  BY <1>10 DEF Redeliver, Fault, NoDuplication
<1>11. ASSUME UNCHANGED vars PROVE OpenCarried'
  BY <1>11 DEF vars, brokerVars, workerVars, OpenCarried, Carried, Open, Working, Id
<1>12. QED
  BY <1>1, <1>2, <1>3, <1>4, <1>5, <1>6, <1>7, <1>8, <1>9, <1>10, <1>11
  DEF Next, WorkerStep, FaultStep, Idle

\* With any number of workers no open row is left without a ticket or a task,
\* as long as no ticket is duplicated and none is acknowledged before its work
\* is done.
THEOREM NothingLostWithoutDuplicates ==
  ASSUME NoDuplication, AcksAreHonest
  PROVE  Spec => []NothingLost
<1>1. Inv /\ OpenCarried /\ [Next]_vars => OpenCarried'
  BY CarriedStep
<1>2. OpenCarried => NothingLost
  BY DEF OpenCarried, Carried, NothingLost, InFlight
<1>3. QED
  BY <1>1, <1>2, CarriedInit, NoDupInvariant, PTL DEF Spec

-----------------------------------------------------------------------------
(* Every failure is buried *)

\* Nothing comes between a FAILED commit and the message on notifications.dlq.
BurialIsSafe == Faults \cap {"crash", "task_error", "dlq_publish"} = {}

BuriedOrBeing ==
  \A n \in Notification :
    (rows[n] # None /\ rows[n].status = "FAILED")
      => \/ n \in dlq \cup logged
         \/ \E w \in Worker : pc[w] = "dead_letter" /\ Id(w) = n

\* A step that fails no row and forgets no burial.
LEMMA BuriedKept ==
  ASSUME BuriedOrBeing,
         \A n \in Notification :
           (rows'[n] # None /\ rows'[n].status = "FAILED")
             => rows[n] # None /\ rows[n].status = "FAILED",
         dlq \cup logged \subseteq dlq' \cup logged',
         \A w \in Worker : pc[w] = "dead_letter" =>
           Id(w) \in dlq' \/ (pc'[w] = "dead_letter" /\ Id(w)' = Id(w))
  PROVE  BuriedOrBeing'
  BY DEF BuriedOrBeing

LEMMA BuriedStep ==
  ASSUME BurialIsSafe, SafeInv, BuriedOrBeing, [Next]_vars
  PROVE  BuriedOrBeing'
<1>a. /\ pc \in [Worker -> PC] /\ job \in [Worker -> Ticket \cup {None}]
      /\ rows \in [Notification -> Row \cup {None}]
  BY DEF SafeInv, TypeOK
<1> USE DEF brokerVars, workerVars, dlqVars, Outcome
<1>1. ASSUME NEW w \in Worker, pc[w] # "dead_letter",
             UNCHANGED <<rows, dlqVars>>,
             \A v \in Worker \ {w} : pc'[v] = pc[v] /\ job'[v] = job[v]
      PROVE  BuriedOrBeing'
  BY <1>1, BuriedKept DEF Id
<1>2. ASSUME NEW w \in Worker, NEW t \in ready, Receive(w, t) PROVE BuriedOrBeing'
  BY <1>a, <1>1, <1>2 DEF Receive, Goto
<1>3. ASSUME NEW w \in Worker,
             \/ LoadMissing(w) \/ LoadSettled(w) \/ LoadOpen(w) \/ Send(w)
             \/ Retry(w) \/ RetryRefused(w) \/ RetryPublishFails(w)
      PROVE  BuriedOrBeing'
  BY <1>a, <1>1, <1>3
  DEF LoadMissing, LoadSettled, LoadOpen, Send, Retry, RetryRefused,
      RetryPublishFails, Goto
<1>4. ASSUME NEW w \in Worker, Ack(w) PROVE BuriedOrBeing'
  BY <1>a, <1>1, <1>4 DEF Ack, Release
\* The other commits write another status.
<1>5. ASSUME NEW w \in Worker, BeginProcessing(w) \/ CommitSent(w) \/ CommitRetry(w)
      PROVE  BuriedOrBeing'
  <2>1. PICK row : rows' = [rows EXCEPT ![Id(w)] = row] /\ row.status # "FAILED"
    <3>1. /\ Id(w) \in Notification /\ rows[Id(w)] \in Row /\ session[w] \in Row
      BY <1>5, TicketFields
      DEF BeginProcessing, CommitSent, CommitRetry, SafeInv, TypeOK, BusyHasTicket,
          SessionLoaded, Id
    <3>2. CASE BeginProcessing(w)
      BY <3>1, <3>2, BegunRow DEF BeginProcessing, Update
    <3>3. CASE CommitSent(w)
      BY <3>1, <3>3, SentRowFacts DEF CommitSent, Update
    <3>4. CASE CommitRetry(w)
      <4>1. PICK written :
              rows' = [rows EXCEPT ![Id(w)] =
                         FailedRow(rows[Id(w)], session[w], "PENDING", written)]
        BY <3>4 DEF CommitRetry, FailedAttempt, Update
      <4>2. FailedRow(rows[Id(w)], session[w], "PENDING", written).status = "PENDING"
        BY <3>1, FailedRowFacts DEF Status
      <4>3. QED
        BY <4>1, <4>2
    <3>5. QED
      BY <1>5, <3>2, <3>3, <3>4
  <2>2. \A n \in Notification :
          (rows'[n] # None /\ rows'[n].status = "FAILED")
            => rows[n] # None /\ rows[n].status = "FAILED"
    BY <1>a, <2>1
  <2>3. \A v \in Worker : pc[v] = "dead_letter" => pc'[v] = "dead_letter" /\ Id(v)' = Id(v)
    BY <1>a, <1>5 DEF BeginProcessing, CommitSent, CommitRetry, Goto, Id
  <2>4. UNCHANGED <<dlq, logged>>
    BY <1>5 DEF BeginProcessing, CommitSent, CommitRetry
  <2>5. QED
    BY <2>2, <2>3, <2>4, BuriedKept
<1>6. ASSUME NEW w \in Worker, CommitFailed(w) PROVE BuriedOrBeing'
  <2>1. /\ \A n \in Notification \ {Id(w)} : rows'[n] = rows[n]
        /\ pc'[w] = "dead_letter" /\ pc[w] # "dead_letter"
        /\ \A v \in Worker : Id(v)' = Id(v)
        /\ \A v \in Worker \ {w} : pc'[v] = pc[v]
        /\ UNCHANGED <<dlq, logged>>
    BY <1>a, <1>6 DEF CommitFailed, FailedAttempt, Update, Goto, Id
  <2>2. QED
    BY <2>1 DEF BuriedOrBeing
<1>7. ASSUME NEW w \in Worker, PublishDeadLetter(w) PROVE BuriedOrBeing'
  BY <1>a, <1>7, BuriedKept DEF PublishDeadLetter, Goto, Id
<1>8. ASSUME NEW w \in Worker, NEW n \in dlq, RecordDeadLetter(w, n)
      PROVE  BuriedOrBeing'
  BY <1>8, BuriedKept DEF RecordDeadLetter, Id
<1>9. ASSUME NEW t \in unacked, Restore(t) \/ Redeliver(t) PROVE BuriedOrBeing'
  BY <1>9, BuriedKept DEF Restore, Redeliver, Id
<1>10. ASSUME NEW w \in Worker, Crash(w) \/ TaskFails(w) \/ DeadLetterPublishFails(w)
       PROVE  FALSE
  BY <1>10 DEF Crash, TaskFails, DeadLetterPublishFails, Fault, BurialIsSafe
<1>11. ASSUME UNCHANGED vars PROVE BuriedOrBeing'
  BY <1>11, BuriedKept DEF vars, Id
<1>12. QED
  BY <1>2, <1>3, <1>4, <1>5, <1>6, <1>7, <1>8, <1>9, <1>10, <1>11
  DEF Next, WorkerStep, FaultStep, Idle

\* A row at rest in FAILED has been dead-lettered, with any number of workers
\* and even if tickets are redelivered, as long as no task dies before its
\* publish_dead_letter and that publish goes through.
THEOREM FailedIsBuried ==
  ASSUME BurialIsSafe
  PROVE  Spec => []FailedIsDeadLettered
<1>1. SafeInv /\ BuriedOrBeing /\ [Next]_vars => BuriedOrBeing'
  BY BuriedStep
<1>2. BuriedOrBeing => FailedIsDeadLettered
  BY DEF BuriedOrBeing, FailedIsDeadLettered, InFlight, Working
<1>3. Init => BuriedOrBeing
  BY DEF Init, BuriedOrBeing, NewRow
<1>4. QED
  BY <1>1, <1>2, <1>3, SafeInvariant, PTL DEF Spec

-----------------------------------------------------------------------------
(* Refinement of Lifecycle.                                                *)

\* A commit that writes row for notification n, seen from Lifecycle.
LEMMA CommitSeen ==
  ASSUME NEW n \in Notification, NEW row \in Row,
         rows \in [Notification -> Row \cup {None}],
         rows[n] # None,
         rows' = [rows EXCEPT ![n] = row]
  PROVE  /\ StatusOf[n] = rows[n].status
         /\ BurnedOf[n] = rows[n].retry_count
         /\ StatusOf' = [StatusOf EXCEPT ![n] = row.status]
         /\ BurnedOf' = [BurnedOf EXCEPT ![n] = row.retry_count]
  BY NoneAssumption DEF StatusOf, BurnedOf

LEMMA AbstractInit == Init => Abstract!Init
<1> SUFFICES ASSUME Init PROVE Abstract!Init
  OBVIOUS
<1>1. \A n \in Notification : rows[n] = None \/ rows[n] = NewRow
  BY DEF Init
<1>2. NewRow.status = "PENDING" /\ NewRow.retry_count = 0
  BY DEF NewRow
<1>3. QED
  BY <1>1, <1>2 DEF Init, Abstract!Init, StatusOf, BurnedOf

LEMMA AbstractStep ==
  ASSUME Inv, [Next]_vars
  PROVE  [Abstract!Next]_(Abstract!vars)
<1> DEFINE Stutter == UNCHANGED <<rows, deliveries>> /\ dlq' \cup logged' = dlq \cup logged
<1>0. ASSUME Stutter PROVE UNCHANGED Abstract!vars
  BY <1>0 DEF Abstract!vars, StatusOf, BurnedOf
<1> SUFFICES Stutter \/ Abstract!Next
  BY <1>0
<1>a. /\ rows \in [Notification -> Row \cup {None}]
      /\ deliveries \in [Notification -> Nat]
  BY DEF Inv, SafeInv, TypeOK
<1>1. ASSUME NEW w \in Worker, BeginProcessing(w) PROVE Abstract!Begin(Id(w))
  <2> DEFINE row == [rows[Id(w)] EXCEPT !.status = "PROCESSING"]
  <2>1. rows' = [rows EXCEPT ![Id(w)] = row] /\ UNCHANGED <<deliveries, dlq, logged>>
    BY <1>1 DEF BeginProcessing, Update, historyVars, dlqVars
  <2>2. /\ Id(w) \in Notification /\ rows[Id(w)] \in Row /\ rows[Id(w)] # None
        /\ rows[Id(w)].status = "PENDING"
    BY <1>1, CommitFacts DEF BeginProcessing, TaskFits, Waiting
  <2>3. row \in Row /\ row.status = "PROCESSING" /\ row.retry_count = rows[Id(w)].retry_count
    BY <2>2, BegunRow
  <2>4. /\ StatusOf[Id(w)] = "PENDING"
        /\ StatusOf' = [StatusOf EXCEPT ![Id(w)] = "PROCESSING"]
        /\ BurnedOf' = BurnedOf
    <3>1. /\ StatusOf[Id(w)] = rows[Id(w)].status
          /\ BurnedOf[Id(w)] = rows[Id(w)].retry_count
          /\ StatusOf' = [StatusOf EXCEPT ![Id(w)] = row.status]
          /\ BurnedOf' = [BurnedOf EXCEPT ![Id(w)] = row.retry_count]
      BY <1>a, <2>1, <2>2, <2>3, CommitSeen
    <3>2. QED
      BY <2>2, <2>3, <3>1 DEF BurnedOf
  <2>5. QED
    BY <2>1, <2>4 DEF Abstract!Begin, Abstract!Move, StatusOf, BurnedOf
<1>2. ASSUME NEW w \in Worker, Send(w) PROVE Stutter \/ Abstract!Deliver(Id(w))
  <2>1. w \in Working /\ pc[w] = "send"
    BY <1>2 DEF Send, Working
  <2>2. /\ TaskFits(w)
        /\ Id(w) \in Notification
        /\ rows[Id(w)] # None
    BY <2>1, TicketFields DEF Inv, SafeInv, BusyHasTicket, SessionLoaded, Working, Id
  <2>3. rows[Id(w)].status = "PROCESSING" /\ deliveries[Id(w)] = 0
    BY <2>1, <2>2 DEF TaskFits
  <2>4. PICK outcome :
          deliveries' = [deliveries EXCEPT ![Id(w)] =
                           IF outcome = "ok" THEN @ + 1 ELSE @]
    BY <1>2 DEF Send
  <2>5. UNCHANGED <<rows, dlq, logged>>
    BY <1>2 DEF Send, dlqVars
  <2>6. CASE outcome = "ok"
    <3>1. deliveries' = [deliveries EXCEPT ![Id(w)] = 1]
      BY <1>a, <2>2, <2>3, <2>4, <2>6
    <3>2. QED
      BY <2>2, <2>3, <2>5, <3>1 DEF Abstract!Deliver, StatusOf, BurnedOf
  <2>7. CASE outcome # "ok"
    BY <1>a, <2>4, <2>5, <2>7
  <2>8. QED
    BY <2>6, <2>7
<1>3. ASSUME NEW w \in Worker, CommitSent(w) PROVE Abstract!Confirm(Id(w))
  <2> DEFINE row == SentRow(rows[Id(w)], rows[Id(w)])
  <2>1. /\ Id(w) \in Notification /\ rows[Id(w)] \in Row /\ rows[Id(w)] # None
        /\ session[w] = rows[Id(w)]
        /\ rows[Id(w)].status = "PROCESSING"
        /\ deliveries[Id(w)] = 1
    BY <1>3, CommitFacts DEF CommitSent, TaskFits, Outcome
  <2>2. rows' = [rows EXCEPT ![Id(w)] = row] /\ UNCHANGED <<deliveries, dlq, logged>>
    BY <1>3, <2>1 DEF CommitSent, Update, historyVars, dlqVars
  <2>3. row \in Row /\ row.status = "SENT" /\ row.retry_count = rows[Id(w)].retry_count
    BY <2>1, SentRowFacts
  <2>4. /\ StatusOf[Id(w)] = "PROCESSING"
        /\ StatusOf' = [StatusOf EXCEPT ![Id(w)] = "SENT"]
        /\ BurnedOf' = BurnedOf
    <3>1. /\ StatusOf[Id(w)] = rows[Id(w)].status
          /\ BurnedOf[Id(w)] = rows[Id(w)].retry_count
          /\ StatusOf' = [StatusOf EXCEPT ![Id(w)] = row.status]
          /\ BurnedOf' = [BurnedOf EXCEPT ![Id(w)] = row.retry_count]
      BY <1>a, <2>1, <2>2, <2>3, CommitSeen
    <3>2. QED
      BY <2>1, <2>3, <3>1 DEF BurnedOf
  <2>5. QED
    BY <2>1, <2>2, <2>4 DEF Abstract!Confirm, Abstract!Move
<1>4. ASSUME NEW w \in Worker, CommitRetry(w) PROVE Abstract!Defer(Id(w))
  <2>1. /\ Id(w) \in Notification /\ rows[Id(w)] \in Row /\ rows[Id(w)] # None
        /\ session[w] = rows[Id(w)]
        /\ rows[Id(w)].status = "PROCESSING"
        /\ rows[Id(w)].retry_count < MaxAttempts
        /\ rows[Id(w)].retry_count \in Nat
        /\ deliveries[Id(w)] = 0
    BY <1>4, CommitFacts DEF CommitRetry, TaskFits, Outcome
  <2>2. PICK written :
          rows' = [rows EXCEPT ![Id(w)] =
                     FailedRow(rows[Id(w)], rows[Id(w)], "PENDING", written)]
    BY <1>4, <2>1 DEF CommitRetry, FailedAttempt, Update
  <2> DEFINE row == FailedRow(rows[Id(w)], rows[Id(w)], "PENDING", written)
  <2>3. UNCHANGED <<deliveries, dlq, logged>>
    BY <1>4 DEF CommitRetry, historyVars, dlqVars
  <2>4. /\ row \in Row /\ row.status = "PENDING"
        /\ row.retry_count = rows[Id(w)].retry_count + 1
    <3>1. "PENDING" \in Status
      BY DEF Status
    <3>2. QED
      BY <2>1, <3>1, FailedRowFacts
  <2>5. /\ StatusOf[Id(w)] = "PROCESSING"
        /\ BurnedOf[Id(w)] = rows[Id(w)].retry_count
        /\ StatusOf' = [StatusOf EXCEPT ![Id(w)] = "PENDING"]
        /\ BurnedOf' = [BurnedOf EXCEPT ![Id(w)] = rows[Id(w)].retry_count + 1]
    <3>1. /\ StatusOf[Id(w)] = rows[Id(w)].status
          /\ BurnedOf[Id(w)] = rows[Id(w)].retry_count
          /\ StatusOf' = [StatusOf EXCEPT ![Id(w)] = row.status]
          /\ BurnedOf' = [BurnedOf EXCEPT ![Id(w)] = row.retry_count]
      <4> HIDE DEF row
      <4>1. rows' = [rows EXCEPT ![Id(w)] = row]
        BY <2>2 DEF row
      <4>2. QED
        BY <1>a, <2>1, <2>4, <4>1, CommitSeen
    <3>2. QED
      BY <2>1, <2>4, <3>1
  <2>6. rows[Id(w)].retry_count + 1 < MaxAttempts
    BY <1>4, <2>1 DEF CommitRetry, ShouldRetry, Burned
  <2>7. BurnedOf'[Id(w)] = rows[Id(w)].retry_count + 1
    BY <2>1, <2>5 DEF BurnedOf
  <2>8. QED
    BY <2>1, <2>3, <2>5, <2>6, <2>7 DEF Abstract!Defer, Abstract!Burn, Abstract!Move
<1>5. ASSUME NEW w \in Worker, CommitFailed(w) PROVE Abstract!Fail(Id(w))
  <2>1. /\ Id(w) \in Notification /\ rows[Id(w)] \in Row /\ rows[Id(w)] # None
        /\ session[w] = rows[Id(w)]
        /\ rows[Id(w)].status = "PROCESSING"
        /\ rows[Id(w)].retry_count < MaxAttempts
        /\ rows[Id(w)].retry_count \in Nat
        /\ deliveries[Id(w)] = 0
    BY <1>5, CommitFacts DEF CommitFailed, TaskFits, Outcome
  <2>2. PICK written :
          rows' = [rows EXCEPT ![Id(w)] =
                     FailedRow(rows[Id(w)], rows[Id(w)], "FAILED", written)]
    BY <1>5, <2>1 DEF CommitFailed, FailedAttempt, Update
  <2> DEFINE row == FailedRow(rows[Id(w)], rows[Id(w)], "FAILED", written)
  <2>3. UNCHANGED <<deliveries, dlq, logged>>
    BY <1>5 DEF CommitFailed, historyVars, dlqVars
  <2>4. /\ row \in Row /\ row.status = "FAILED"
        /\ row.retry_count = rows[Id(w)].retry_count + 1
    <3>1. "FAILED" \in Status
      BY DEF Status
    <3>2. QED
      BY <2>1, <3>1, FailedRowFacts
  <2>5. /\ StatusOf[Id(w)] = "PROCESSING"
        /\ BurnedOf[Id(w)] = rows[Id(w)].retry_count
        /\ StatusOf' = [StatusOf EXCEPT ![Id(w)] = "FAILED"]
        /\ BurnedOf' = [BurnedOf EXCEPT ![Id(w)] = rows[Id(w)].retry_count + 1]
    <3>1. /\ StatusOf[Id(w)] = rows[Id(w)].status
          /\ BurnedOf[Id(w)] = rows[Id(w)].retry_count
          /\ StatusOf' = [StatusOf EXCEPT ![Id(w)] = row.status]
          /\ BurnedOf' = [BurnedOf EXCEPT ![Id(w)] = row.retry_count]
      <4> HIDE DEF row
      <4>1. rows' = [rows EXCEPT ![Id(w)] = row]
        BY <2>2 DEF row
      <4>2. QED
        BY <1>a, <2>1, <2>4, <4>1, CommitSeen
    <3>2. QED
      BY <2>1, <2>4, <3>1
  <2>6. QED
    BY <2>1, <2>3, <2>5 DEF Abstract!Fail, Abstract!Burn, Abstract!Move
<1>6. ASSUME NEW w \in Worker, PublishDeadLetter(w) PROVE Stutter \/ Abstract!Bury(Id(w))
  <2>1. w \in Working /\ pc[w] = "dead_letter"
    BY <1>6 DEF PublishDeadLetter, Working
  <2>2. /\ TaskFits(w)
        /\ Id(w) \in Notification
    BY <2>1, TicketFields DEF Inv, SafeInv, BusyHasTicket, Working, Id
  <2>3. rows[Id(w)] # None /\ rows[Id(w)].status = "FAILED"
    BY <2>1, <2>2 DEF TaskFits
  <2>4. dlq' = dlq \cup {Id(w)} /\ UNCHANGED <<rows, deliveries, logged>>
    BY <1>6 DEF PublishDeadLetter, historyVars
  <2>5. QED
    BY <2>2, <2>3, <2>4 DEF Abstract!Bury, StatusOf, BurnedOf
<1>7. ASSUME NEW w \in Worker, NEW n \in dlq, RecordDeadLetter(w, n) PROVE Stutter
  BY <1>7 DEF RecordDeadLetter, historyVars
<1>8. \/ UNCHANGED <<rows, deliveries, dlq, logged>>
      \/ \E w \in Worker :
           \/ BeginProcessing(w) \/ Send(w) \/ PublishDeadLetter(w)
           \/ CommitSent(w) \/ CommitRetry(w) \/ CommitFailed(w)
           \/ \E n \in dlq : RecordDeadLetter(w, n)
  BY DEF Next, WorkerStep, FaultStep, Idle, vars, historyVars, dlqVars, Receive,
         LoadMissing, LoadSettled, LoadOpen, Retry, RetryRefused, Ack, Restore,
         Crash, Redeliver, TaskFails, RetryPublishFails, DeadLetterPublishFails
<1>9. \A w \in Worker :
        ( \/ BeginProcessing(w) \/ Send(w) \/ PublishDeadLetter(w)
          \/ CommitSent(w) \/ CommitRetry(w) \/ CommitFailed(w) )
          => Stutter \/ Abstract!Progress(Id(w))
  BY <1>1, <1>2, <1>3, <1>4, <1>5, <1>6 DEF Abstract!Progress
<1>10. \A w \in Worker : (Send(w) \/ PublishDeadLetter(w) \/ BeginProcessing(w)
          \/ CommitSent(w) \/ CommitRetry(w) \/ CommitFailed(w)) => Id(w) \in Notification
  BY TicketFields
  DEF Send, PublishDeadLetter, BeginProcessing, CommitSent, CommitRetry,
      CommitFailed, Inv, SafeInv, BusyHasTicket, Id
<1>11. QED
  BY <1>7, <1>8, <1>9, <1>10 DEF Abstract!Next

\* Workers, tickets, sessions and two stores together do nothing that
\* Lifecycle does not allow, as long as no ticket is delivered twice.
THEOREM Refinement ==
  ASSUME NoDuplication
  PROVE  Spec => ImplementsLifecycle
<1>1. Inv /\ [Next]_vars => [Abstract!Next]_(Abstract!vars)
  BY AbstractStep
<1>2. QED
  BY <1>1, AbstractInit, NoDupInvariant, PTL
  DEF Spec, ImplementsLifecycle, Abstract!Spec
=============================================================================
