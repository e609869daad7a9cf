--------------------------- MODULE OneWorkerProofs --------------------------
(***************************************************************************)
(* What a single task slot is worth (a celery worker with --concurrency=1  *)
(* or --pool=solo, not its default prefork pool): theorems about Dispatch  *)
(* with one Worker, when tickets may be delivered twice.                   *)
(*                                                                         *)
(* Tasks then run one after the other, so a task's copy is its row however *)
(* many tickets the notification has.  Two workers lose this: see the runs *)
(* table_after_crash and stuck_after_crash.                                *)
(***************************************************************************)
EXTENDS DispatchProofs

OneWorker == \A v, w \in Worker : v = w

-----------------------------------------------------------------------------
(* The copy is the row *)

\* Celery's counter never runs ahead of the row's.
Behind(t) == rows[t.id] # None => t.retries <= rows[t.id].retry_count

CopyFits(w) ==
  LET n == Id(w) IN
    /\ pc[w] # "idle" => Behind(job[w])
    /\ pc[w] \in {"begin", "send"} \cup Outcome => session[w] = rows[n]
    /\ pc[w] \in {"begin"} => rows[n].status = "PENDING"
    /\ pc[w] \in {"send"} \cup Outcome => rows[n].status = "PROCESSING"
    /\ pc[w] = "retry" =>
         /\ rows[n].status = "PENDING"
         /\ session[w].retry_count = rows[n].retry_count
         /\ job[w].retries < rows[n].retry_count
         /\ rows[n].retry_count < MaxAttempts
    /\ pc[w] = "dead_letter" => rows[n].status = "FAILED"

CopyInv ==
  /\ SafeInv
  /\ \A t \in ready \cup unacked : Behind(t)
  /\ \A w \in Worker : CopyFits(w)

LEMMA CopyInit == Init => CopyInv
<1> SUFFICES ASSUME Init PROVE CopyInv
  OBVIOUS
<1>1. \A t \in ready \cup unacked : Behind(t)
  BY DEF Init, Behind, NewRow
<1>2. \A w \in Worker : CopyFits(w)
  BY DEF Init, CopyFits, Outcome
<1>3. QED
  BY <1>1, <1>2, SafeInit DEF CopyInv

\* A step of the one worker that stays with its ticket and never lets the
\* row's counter go back.
LEMMA CopyMoves ==
  ASSUME OneWorker, CopyInv, SafeInv', NEW w \in Worker,
         pc[w] # "idle",
         UNCHANGED <<ready, unacked, job>>,
         \A n \in Notification \ {Id(w)} : rows'[n] = rows[n],
         rows'[Id(w)] # None =>
           /\ rows[Id(w)] # None
           /\ rows'[Id(w)].retry_count >= rows[Id(w)].retry_count,
         Behind(job[w])' => CopyFits(w)'
  PROVE  CopyInv'
<1>a. /\ rows \in [Notification -> Row \cup {None}]
      /\ rows' \in [Notification -> Row \cup {None}]
      /\ \A t \in ready \cup unacked : t \in Ticket
      /\ job[w] \in Ticket
      /\ \A n \in Notification : rows'[n] # None => rows'[n].retry_count \in Nat
      /\ \A n \in Notification : rows[n] # None => rows[n].retry_count \in Nat
  BY DEF CopyInv, SafeInv, TypeOK, BrokerTypeOK, BusyHasTicket, Row
<1>1. \A t \in Ticket : Behind(t) => Behind(t)'
  <2> SUFFICES ASSUME NEW t \in Ticket, Behind(t), rows'[t.id] # None
               PROVE  t.retries <= rows'[t.id].retry_count
    BY DEF Behind
  <2>1. t.id \in Notification /\ t.retries \in Nat
    BY TicketFields
  <2>2. CASE t.id = Id(w)
    BY <1>a, <2>1, <2>2 DEF Behind
  <2>3. CASE t.id # Id(w)
    BY <2>1, <2>3 DEF Behind
  <2>4. QED
    BY <2>2, <2>3
<1>2. \A t \in ready' \cup unacked' : Behind(t)'
  BY <1>a, <1>1 DEF CopyInv
<1>3. Behind(job[w])'
  <2>1. Behind(job[w])
    BY DEF CopyInv, CopyFits
  <2>2. job' = job
    OBVIOUS
  <2>3. QED
    BY <1>a, <1>1, <2>1, <2>2 DEF Behind
<1>4. \A v \in Worker : CopyFits(v)'
  BY <1>3 DEF OneWorker
<1>5. QED
  BY <1>2, <1>4 DEF CopyInv

\* What the one worker knows when it is about to commit.
LEMMA CopyFacts ==
  ASSUME CopyInv, NEW w \in Worker,
         BeginProcessing(w) \/ CommitSent(w) \/ CommitRetry(w) \/ CommitFailed(w)
  PROVE  /\ pc[w] # "idle" /\ CopyFits(w)
         /\ Id(w) \in Notification /\ job[w] \in Ticket /\ job[w].retries \in Nat
         /\ session[w] = rows[Id(w)]
         /\ rows[Id(w)] \in Row /\ rows[Id(w)] # None
         /\ job[w].retries <= rows[Id(w)].retry_count
<1>1. pc[w] \in {"begin"} \cup Outcome /\ pc[w] # "idle"
  BY DEF BeginProcessing, CommitSent, CommitRetry, CommitFailed, Outcome
<1>2. CopyFits(w)
  BY DEF CopyInv
<1>3. job[w] \in Ticket /\ Id(w) \in Notification /\ job[w].retries \in Nat
  BY <1>1, TicketFields DEF CopyInv, SafeInv, BusyHasTicket, Id
<1>4. session[w] = rows[Id(w)] /\ rows[Id(w)] # None
  BY <1>1, <1>2 DEF CopyFits, CopyInv, SafeInv, SessionLoaded
<1>5. rows[Id(w)] \in Row
  BY <1>3, <1>4 DEF CopyInv, SafeInv, TypeOK
<1>6. job[w].retries <= rows[Id(w)].retry_count
  BY <1>1, <1>2, <1>4 DEF CopyFits, Behind, Id
<1>7. QED
  BY <1>1, <1>2, <1>3, <1>4, <1>5, <1>6

LEMMA CopyStep ==
  ASSUME OneWorker, CopyInv, SafeInv', [Next]_vars
  PROVE  CopyInv'
<1>a. /\ pc \in [Worker -> PC]
      /\ job \in [Worker -> Ticket \cup {None}]
      /\ session \in [Worker -> Row \cup {None}]
      /\ rows \in [Notification -> Row \cup {None}]
      /\ \A t \in ready \cup unacked : t \in Ticket
  BY DEF CopyInv, SafeInv, TypeOK, BrokerTypeOK
<1>b. \A w \in Worker :
        /\ CopyFits(w)
        /\ pc[w] # "idle" => job[w] \in Ticket /\ Id(w) \in Notification
  BY TicketFields DEF CopyInv, SafeInv, BusyHasTicket, Id
<1>c. \A n \in Notification : rows[n] # None => rows[n].retry_count \in Nat
  BY <1>a DEF Row
\* Steps between tasks: tickets move, no row changes.
<1>1. ASSUME NEW w \in Worker, UNCHANGED rows,
             ready' \cup unacked' \subseteq ready \cup unacked,
             \/ pc' = [pc EXCEPT ![w] = "idle"]
             \/ UNCHANGED <<pc, job, session>>
             \/ /\ pc' = [pc EXCEPT ![w] = "load"]
                /\ job'[w] \in ready \cup unacked
      PROVE  CopyInv'
  <2>1. \A t \in ready' \cup unacked' : Behind(t)'
    BY <1>1 DEF CopyInv, Behind
  <2>2. CopyFits(w)'
    BY <1>1, <1>a, <1>b DEF CopyInv, CopyFits, Behind, Id, Outcome
  <2>3. \A v \in Worker : CopyFits(v)'
    BY <2>2 DEF OneWorker
  <2>4. QED
    BY <2>1, <2>3 DEF CopyInv
<1>2. ASSUME NEW w \in Worker, NEW t \in ready, Receive(w, t) PROVE CopyInv'
  BY <1>1, <1>2, <1>a DEF Receive, Deliver, Goto
<1>3. ASSUME NEW w \in Worker, Ack(w) \/ Crash(w) \/ TaskFails(w) PROVE CopyInv'
  BY <1>1, <1>3 DEF Ack, Crash, TaskFails, Acknowledge, Release, brokerVars
<1>4. ASSUME NEW w \in Worker, NEW n \in dlq, RecordDeadLetter(w, n) PROVE CopyInv'
  BY <1>1, <1>4 DEF RecordDeadLetter, workerVars, brokerVars
<1>5. ASSUME NEW t \in unacked, Restore(t) \/ Redeliver(t) PROVE CopyInv'
  <2>1. /\ UNCHANGED <<rows, pc, job, session>>
        /\ ready' \cup unacked' \subseteq ready \cup unacked
    BY <1>5 DEF Restore, Redeliver, Requeue, workerVars
  <2>2. \A u \in ready' \cup unacked' : Behind(u)'
    BY <2>1 DEF CopyInv, Behind
  <2>3. \A w \in Worker : CopyFits(w)'
    BY <2>1, <1>b DEF CopyFits, Behind, Id
  <2>4. QED
    BY <2>2, <2>3 DEF CopyInv
\* Steps within a task that write nothing.
<1>6. ASSUME NEW w \in Worker, pc[w] # "idle",
             UNCHANGED <<ready, unacked, job, rows>>,
             CopyFits(w)'
      PROVE  CopyInv'
  BY <1>6, <1>b, <1>c, CopyMoves
<1>7. ASSUME NEW w \in Worker,
             \/ LoadMissing(w) \/ LoadSettled(w) \/ RetryRefused(w)
             \/ PublishDeadLetter(w) \/ RetryPublishFails(w)
             \/ DeadLetterPublishFails(w)
      PROVE  CopyInv'
  <2>1. /\ pc[w] # "idle" /\ pc' = [pc EXCEPT ![w] = "ack"]
        /\ UNCHANGED <<ready, unacked, job, rows>>
    BY <1>7
    DEF LoadMissing, LoadSettled, RetryRefused, PublishDeadLetter,
        RetryPublishFails, DeadLetterPublishFails, Goto, brokerVars
  <2>2. CopyFits(w)'
    BY <1>a, <1>b, <2>1 DEF CopyFits, Behind, Outcome
  <2>3. QED
    BY <1>6, <2>1, <2>2
<1>8. ASSUME NEW w \in Worker, LoadOpen(w) PROVE CopyInv'
  <2>1. /\ pc[w] # "idle" /\ pc[w] = "load"
        /\ UNCHANGED <<ready, unacked, job, rows>>
        /\ rows[Id(w)] # None /\ ~Settled(rows[Id(w)])
        /\ session' = [session EXCEPT ![w] = rows[Id(w)]]
        /\ pc' = [pc EXCEPT ![w] = IF rows[Id(w)].status = "PENDING"
                                   THEN "begin" ELSE "send"]
    BY <1>8 DEF LoadOpen, Goto, Remember, brokerVars, Skip
  <2>2. rows[Id(w)].status \in {"PENDING", "PROCESSING"}
    BY <1>a, <1>b, <2>1 DEF Settled, Terminal, Row, Status
  <2>3. CopyFits(w)'
    BY <1>a, <1>b, <2>1, <2>2 DEF CopyFits, Behind, Outcome, Id
  <2>4. QED
    BY <1>6, <2>1, <2>3
<1>9. ASSUME NEW w \in Worker, Send(w) PROVE CopyInv'
  <2>1. PICK outcome \in Outcomes[Id(w)] : pc' = [pc EXCEPT ![w] = outcome]
    BY <1>9 DEF Send, Goto
  <2>2. pc[w] = "send" /\ UNCHANGED <<ready, unacked, job, rows, session>>
    BY <1>9 DEF Send, brokerVars
  <2>3. outcome \in Outcome
    BY <1>b, <2>1, <2>2, DispatchAssumption
  <2>4. CopyFits(w)'
    BY <1>a, <1>b, <2>1, <2>2, <2>3 DEF CopyFits, Behind, Outcome, Id
  <2>5. QED
    BY <1>6, <2>2, <2>4
<1>10. ASSUME NEW w \in Worker, Retry(w) PROVE CopyInv'
  <2>1. PICK t :
          /\ ready' = ready \cup {t}
          /\ t.id = Id(w) /\ t.retries = job[w].retries + 1
    <3> DEFINE new == [id |-> Id(w), seq |-> published[Id(w)] + 1,
                       retries |-> NextRetries(job[w]),
                       countdown |-> CountdownFor(session[w].retry_count)]
    <3>1. ready' = ready \cup {new} /\ new.id = Id(w) /\ new.retries = job[w].retries + 1
      BY <1>10 DEF Retry, Publish, NextRetries
    <3>2. QED
      BY <3>1
  <2>2. /\ pc[w] = "retry" /\ pc' = [pc EXCEPT ![w] = "ack"]
        /\ UNCHANGED <<unacked, job, rows>>
    BY <1>10 DEF Retry, Publish, Goto
  <2>3. job[w].retries \in Nat /\ Id(w) \in Notification
    BY <1>b, <2>2, TicketFields
  <2>4. rows[Id(w)].retry_count \in Nat /\ job[w].retries < rows[Id(w)].retry_count
    BY <1>b, <1>c, <2>2, <2>3 DEF CopyFits, CopyInv, SafeInv, SessionLoaded
  <2>5. \A u \in ready' \cup unacked' : Behind(u)'
    BY <2>1, <2>2, <2>3, <2>4 DEF CopyInv, Behind
  <2>6. CopyFits(w)'
    BY <1>a, <1>b, <2>2 DEF CopyFits, Behind, Outcome
  <2>7. QED
    BY <2>5, <2>6 DEF CopyInv, OneWorker
\* Commits.
<1>11. ASSUME NEW w \in Worker, BeginProcessing(w) PROVE CopyInv'
  <2> DEFINE row == [rows[Id(w)] EXCEPT !.status = "PROCESSING"]
  <2>1. /\ pc[w] # "idle" /\ Id(w) \in Notification
        /\ session[w] = rows[Id(w)] /\ rows[Id(w)] \in Row /\ rows[Id(w)] # None
        /\ CopyFits(w)
    BY <1>11, CopyFacts
  <2>2. /\ UNCHANGED <<ready, unacked, job>>
        /\ rows' = [rows EXCEPT ![Id(w)] = row]
        /\ session' = [session EXCEPT ![w] = row]
        /\ pc' = [pc EXCEPT ![w] = "send"]
    BY <1>11, <2>1 DEF BeginProcessing, Update, Remember, Goto, brokerVars
  <2>3. row.status = "PROCESSING" /\ row.retry_count = rows[Id(w)].retry_count
    BY <2>1, BegunRow
  <2> HIDE DEF row
  <2>4. rows'[Id(w)] = row /\ Id(w)' = Id(w)
    BY <1>a, <2>1, <2>2 DEF Id
  <2>5. Behind(job[w])' => CopyFits(w)'
    BY <1>a, <2>2, <2>3, <2>4 DEF CopyFits, Outcome
  <2>6. QED
    BY <1>a, <1>c, <2>1, <2>2, <2>3, <2>4, <2>5, CopyMoves
<1>12. ASSUME NEW w \in Worker, CommitSent(w) PROVE CopyInv'
  <2> DEFINE row == SentRow(rows[Id(w)], session[w])
  <2>1. /\ pc[w] # "idle" /\ Id(w) \in Notification
        /\ session[w] = rows[Id(w)] /\ rows[Id(w)] \in Row /\ rows[Id(w)] # None
    BY <1>12, CopyFacts
  <2>2. /\ UNCHANGED <<ready, unacked, job>>
        /\ rows' = [rows EXCEPT ![Id(w)] = row]
        /\ pc' = [pc EXCEPT ![w] = "ack"]
    BY <1>12 DEF CommitSent, Update, Goto, brokerVars
  <2>3. row.retry_count = rows[Id(w)].retry_count
    BY <2>1, SentRowFacts
  <2> HIDE DEF row
  <2>4. rows'[Id(w)] = row
    BY <1>a, <2>1, <2>2
  <2>5. Behind(job[w])' => CopyFits(w)'
    BY <1>a, <2>2 DEF CopyFits, Outcome
  <2>6. QED
    BY <1>a, <1>c, <2>1, <2>2, <2>3, <2>4, <2>5, CopyMoves
<1>13. ASSUME NEW w \in Worker, CommitRetry(w) PROVE CopyInv'
  <2>1. /\ pc[w] # "idle" /\ Id(w) \in Notification
        /\ session[w] = rows[Id(w)] /\ rows[Id(w)] \in Row /\ rows[Id(w)] # None
        /\ job[w].retries \in Nat /\ job[w].retries <= rows[Id(w)].retry_count
    BY <1>13, CopyFacts
  <2>2. PICK written :
          rows' = [rows EXCEPT ![Id(w)] =
                     FailedRow(rows[Id(w)], rows[Id(w)], "PENDING", written)]
    BY <1>13, <2>1 DEF CommitRetry, FailedAttempt, Update
  <2> DEFINE row == FailedRow(rows[Id(w)], rows[Id(w)], "PENDING", written)
             copy == [session[w] EXCEPT !.status = "PENDING",
                                        !.retry_count = Burned(session[w])]
  <2>3. /\ UNCHANGED <<ready, unacked, job>>
        /\ session' = [session EXCEPT ![w] = copy]
        /\ pc' = [pc EXCEPT ![w] = "retry"]
        /\ rows[Id(w)].retry_count + 1 < MaxAttempts
    BY <1>13, <2>1
    DEF CommitRetry, Remember, Goto, brokerVars, ShouldRetry, Burned
  <2>4. row.status = "PENDING" /\ row.retry_count = rows[Id(w)].retry_count + 1
    <3>1. "PENDING" \in Status
      BY DEF Status
    <3>2. QED
      BY <2>1, <3>1, FailedRowFacts
  <2>5. copy.retry_count = rows[Id(w)].retry_count + 1
    BY <2>1, RetriedCopy
  <2>6. rows' = [rows EXCEPT ![Id(w)] = row]
    BY <2>2
  <2> HIDE DEF row, copy
  <2>7. rows'[Id(w)] = row /\ Id(w)' = Id(w) /\ session'[w] = copy
    BY <1>a, <2>1, <2>3, <2>6 DEF Id
  <2>8. rows[Id(w)].retry_count \in Nat
    BY <1>c, <2>1
  <2>9. Behind(job[w])' => CopyFits(w)'
    BY <1>a, <2>1, <2>3, <2>4, <2>5, <2>7, <2>8 DEF CopyFits, Outcome
  <2>10. QED
    BY <1>a, <2>1, <2>3, <2>4, <2>6, <2>7, <2>8, <2>9, CopyMoves
<1>14. ASSUME NEW w \in Worker, CommitFailed(w) PROVE CopyInv'
  <2>1. /\ pc[w] # "idle" /\ Id(w) \in Notification
        /\ session[w] = rows[Id(w)] /\ rows[Id(w)] \in Row /\ rows[Id(w)] # None
    BY <1>14, CopyFacts
  <2>2. PICK written :
          rows' = [rows EXCEPT ![Id(w)] =
                     FailedRow(rows[Id(w)], rows[Id(w)], "FAILED", written)]
    BY <1>14, <2>1 DEF CommitFailed, FailedAttempt, Update
  <2> DEFINE row == FailedRow(rows[Id(w)], rows[Id(w)], "FAILED", written)
  <2>3. /\ UNCHANGED <<ready, unacked, job>>
        /\ pc' = [pc EXCEPT ![w] = "dead_letter"]
    BY <1>14 DEF CommitFailed, Goto, brokerVars
  <2>4. row.status = "FAILED" /\ row.retry_count = rows[Id(w)].retry_count + 1
    <3>1. "FAILED" \in Status
      BY DEF Status
    <3>2. QED
      BY <2>1, <3>1, FailedRowFacts
  <2>5. rows' = [rows EXCEPT ![Id(w)] = row]
    BY <2>2
  <2> HIDE DEF row
  <2>6. rows'[Id(w)] = row /\ Id(w)' = Id(w) /\ rows[Id(w)].retry_count \in Nat
    BY <1>a, <1>c, <2>1, <2>3, <2>5 DEF Id
  <2>7. Behind(job[w])' => CopyFits(w)'
    BY <1>a, <2>3, <2>4, <2>6 DEF CopyFits, Outcome
  <2>8. QED
    BY <1>a, <2>1, <2>3, <2>4, <2>5, <2>6, <2>7, CopyMoves
<1>15. ASSUME UNCHANGED vars PROVE CopyInv'
  BY <1>15 DEF vars, brokerVars, workerVars, CopyInv, CopyFits, Behind, Id
<1>16. QED
  BY <1>2, <1>3, <1>4, <1>5, <1>7, <1>8, <1>9, <1>10, <1>11, <1>12, <1>13,
     <1>14, <1>15
  DEF Next, WorkerStep, FaultStep, Idle

LEMMA CopyInvariant ==
  ASSUME OneWorker
  PROVE  Spec => []CopyInv
<1>1. CopyInv /\ SafeInv' /\ [Next]_vars => CopyInv'
  BY CopyStep
<1>2. QED
  BY <1>1, CopyInit, SafeInvariant, PTL DEF Spec

\* With one task slot rows only change along the table of
\* state_machine.py, however often it dies or a ticket is delivered again.
THEOREM TableFollowedByOne ==
  ASSUME OneWorker
  PROVE  Spec => TransitionsFollowTable
<1>1. CopyInv /\ [Next]_vars => [Follows]_rows
  <2> SUFFICES ASSUME CopyInv, [Next]_vars PROVE [Follows]_rows
    OBVIOUS
  <2>1. TypeOK
    BY DEF CopyInv, SafeInv
  <2>2. \A w \in Worker : Commits(w) =>
          Id(w) \in Notification /\ session[w] = rows[Id(w)] /\ rows[Id(w)] \in Row
    BY CopyFacts DEF Commits
  <2>3. QED
    BY <2>1, <2>2, TrueCopiesFollow
<1>2. QED
  BY <1>1, CopyInvariant, PTL DEF Spec, TransitionsFollowTable, Follows

\* With one task slot no row that says SENT or FAILED is sent again: a
\* ticket that comes back late is dropped at the status check.
THEOREM NoSendAfterTheEndByOne ==
  ASSUME OneWorker
  PROVE  Spec => NoSendOnceSettled
<1>1. ASSUME CopyInv, [Next]_vars PROVE [SendsUnsettled]_attempts
  <2>1. \A w \in Worker : Send(w) => rows[Id(w)].status = "PROCESSING"
    BY <1>1 DEF CopyInv, CopyFits, Send
  <2>2. QED
    BY <1>1, <2>1, SendsWhileProcessing DEF CopyInv, SafeInv
<1>2. QED
  BY <1>1, CopyInvariant, PTL DEF Spec, NoSendOnceSettled, SendsUnsettled

-----------------------------------------------------------------------------
(* The columns agree, and the row's counter is the measure of the sends *)

\* A row that is not given up has an attempt left.
HasBudget(row) == row.status # "FAILED" => row.retry_count < MaxAttempts

ColumnsInv ==
  \A n \in Notification : rows[n] # None => RowConsistent(rows[n]) /\ HasBudget(rows[n])

LEMMA ColumnsInit == Init => ColumnsInv
  BY PolicyAssumption DEF Init, ColumnsInv, RowConsistent, HasBudget, NewRow

\* What a commit makes of a row when the copy is the row.
LEMMA TrueCommit ==
  ASSUME CopyInv, NEW w \in Worker, Commits(w),
         RowConsistent(rows[Id(w)]), HasBudget(rows[Id(w)])
  PROVE  \E row \in Row :
           /\ rows' = [rows EXCEPT ![Id(w)] = row]
           /\ RowConsistent(row) /\ HasBudget(row)
           /\ row.retry_count = rows[Id(w)].retry_count
                + (IF CommitRetry(w) \/ CommitFailed(w) THEN 1 ELSE 0)
           /\ CommitSent(w) => row.status = "SENT"
           /\ ~CommitSent(w) => row.status # "SENT"
<1> DEFINE old == rows[Id(w)]
<1>1. /\ Id(w) \in Notification /\ session[w] = old /\ old \in Row
      /\ CopyFits(w) /\ old.retry_count \in Nat
  BY CopyFacts DEF Commits, Row
<1>2. CASE BeginProcessing(w)
  <2> DEFINE row == [old EXCEPT !.status = "PROCESSING"]
  <2>1. old.status = "PENDING" /\ pc[w] = "begin"
    BY <1>1, <1>2 DEF CopyFits, BeginProcessing
  <2>2. /\ row \in Row /\ row.status = "PROCESSING" /\ row.retry_count = old.retry_count
        /\ RowConsistent(row)
    BY <1>1, <2>1, BegunRow, BegunConsistent
  <2>3. rows' = [rows EXCEPT ![Id(w)] = row]
    BY <1>2 DEF BeginProcessing, Update
  <2>4. ~CommitRetry(w) /\ ~CommitFailed(w) /\ ~CommitSent(w)
    BY <2>1 DEF CommitRetry, CommitFailed, CommitSent
  <2>5. HasBudget(row)
    BY <2>1, <2>2 DEF HasBudget
  <2> HIDE DEF row
  <2>6. row.retry_count = old.retry_count
                            + (IF CommitRetry(w) \/ CommitFailed(w) THEN 1 ELSE 0)
    BY <1>1, <2>2, <2>4
  <2>7. QED
    BY <2>2, <2>3, <2>4, <2>5, <2>6
<1>3. CASE CommitSent(w)
  <2> DEFINE row == SentRow(old, old)
  <2>1. old.status = "PROCESSING" /\ pc[w] = "ok"
    BY <1>1, <1>3 DEF CopyFits, CommitSent, Outcome
  <2>2. /\ row \in Row /\ row.status = "SENT" /\ row.retry_count = old.retry_count
        /\ RowConsistent(row)
    BY <1>1, SentRowFacts, SentConsistent
  <2>3. rows' = [rows EXCEPT ![Id(w)] = row]
    BY <1>1, <1>3 DEF CommitSent, Update
  <2>4. ~CommitRetry(w) /\ ~CommitFailed(w)
    BY <2>1 DEF CommitRetry, CommitFailed
  <2>5. HasBudget(row)
    BY <2>1, <2>2 DEF HasBudget
  <2> HIDE DEF row
  <2>6. row.retry_count = old.retry_count
                            + (IF CommitRetry(w) \/ CommitFailed(w) THEN 1 ELSE 0)
    BY <1>1, <2>2, <2>4
  <2>7. QED
    BY <1>3, <2>2, <2>3, <2>4, <2>5, <2>6
<1>4. CASE CommitRetry(w) \/ CommitFailed(w)
  <2>1. old.status = "PROCESSING" /\ pc[w] \in {"transient", "permanent"}
    BY <1>1, <1>4 DEF CopyFits, CommitRetry, CommitFailed, Outcome
  <2>2. PICK status \in {"PENDING", "FAILED"}, written \in {TRUE, ~old.error_message} :
          /\ rows' = [rows EXCEPT ![Id(w)] = FailedRow(old, old, status, written)]
          /\ status # "FAILED" => old.retry_count + 1 < MaxAttempts
    BY <1>1, <1>4
    DEF CommitRetry, CommitFailed, FailedAttempt, Update, ShouldRetry, Burned
  <2> DEFINE row == FailedRow(old, old, status, written)
  <2>3. /\ row \in Row /\ row.status = status /\ row.retry_count = old.retry_count + 1
        /\ RowConsistent(row)
    <3>1. old.retry_count < MaxAttempts
      BY <2>1 DEF HasBudget
    <3>2. status \in Status
      BY DEF Status
    <3>3. RowConsistent(row)
      BY <1>1, <2>1, <3>1, FailedConsistent
    <3>4. QED
      BY <1>1, <3>2, <3>3, FailedRowFacts
  <2>4. rows' = [rows EXCEPT ![Id(w)] = row]
    BY <2>2
  <2>5. HasBudget(row)
    BY <2>2, <2>3 DEF HasBudget
  <2> HIDE DEF row
  <2>6. ~CommitSent(w)
    BY <2>1 DEF CommitSent
  <2>7. QED
    BY <1>4, <2>3, <2>4, <2>5, <2>6
<1>5. QED
  BY <1>2, <1>3, <1>4 DEF Commits

LEMMA ColumnsStep ==
  ASSUME CopyInv, ColumnsInv, [Next]_vars
  PROVE  ColumnsInv'
<1>1. CASE rows' = rows
  BY <1>1 DEF ColumnsInv
<1>2. CASE rows' # rows
  <2>1. PICK w \in Worker : Commits(w)
    BY <1>2, OnlyCommitsWrite
  <2>2. Id(w) \in Notification /\ rows[Id(w)] # None
    BY <2>1, CopyFacts DEF Commits
  <2>3. PICK row : /\ rows' = [rows EXCEPT ![Id(w)] = row]
                   /\ RowConsistent(row) /\ HasBudget(row)
    BY <2>1, <2>2, TrueCommit DEF ColumnsInv
  <2>4. rows \in [Notification -> Row \cup {None}]
    BY DEF CopyInv, SafeInv, TypeOK
  <2>5. QED
    BY <2>2, <2>3, <2>4 DEF ColumnsInv
<1>3. QED
  BY <1>1, <1>2

LEMMA ColumnsInvariant ==
  ASSUME OneWorker
  PROVE  Spec => []ColumnsInv
<1>1. CopyInv /\ ColumnsInv /\ [Next]_vars => ColumnsInv'
  BY ColumnsStep
<1>2. QED
  BY <1>1, ColumnsInit, CopyInvariant, PTL DEF Spec

\* With one task slot the columns of a row tell the same story under any
\* faults: a session's stale copy of retry_count or error_message is what two
\* workers make of a crash, never one.
THEOREM ColumnsAgreeByOne ==
  ASSUME OneWorker
  PROVE  Spec => []RowsConsistent
<1>1. ColumnsInv => RowsConsistent
  BY DEF ColumnsInv, RowsConsistent
<1>2. QED
  BY <1>1, ColumnsInvariant, PTL

-----------------------------------------------------------------------------
(* What a fault costs *)

\* The faults that can end a task between its provider call and its commit.
Kills == {"crash", "task_error"}

Killed == IF Faults \cap Kills = {} THEN 0 ELSE faults

Counted(n) == IF rows[n] = None THEN 0 ELSE rows[n].retry_count

Delivered(n) ==
  \/ rows[n] # None /\ rows[n].status = "SENT"
  \/ \E w \in Worker : pc[w] = "ok" /\ Id(w) = n

\* A provider call that the row does not count as a failure.
Uncounted(n) == Delivered(n) \/ \E w \in Worker : pc[w] \in Outcome /\ Id(w) = n

One(b) == IF b THEN 1 ELSE 0

CostInv ==
  \A n \in Notification :
    /\ attempts[n] <= Counted(n) + One(Uncounted(n)) + Killed
    /\ deliveries[n] <= One(Delivered(n)) + Killed

\* Where tasks may die one worker calls the provider beyond the budget, and
\* delivers beyond the first success, at most once per fault.
EachKillCostsOneSend ==
  \A n \in Notification :
    /\ attempts[n] <= MaxAttempts + Killed
    /\ deliveries[n] <= 1 + Killed

LEMMA CostInit == Init => CostInv
<1> SUFFICES ASSUME Init, NEW n \in Notification
             PROVE  /\ attempts[n] <= Counted(n) + One(Uncounted(n)) + Killed
                    /\ deliveries[n] <= One(Delivered(n)) + Killed
  BY DEF CostInv
<1>1. attempts[n] = 0 /\ deliveries[n] = 0 /\ Killed = 0 /\ Counted(n) = 0
  BY DEF Init, Killed, Counted, NewRow
<1>2. One(Uncounted(n)) \in {0, 1} /\ One(Delivered(n)) \in {0, 1}
  BY DEF One
<1>3. QED
  BY <1>1, <1>2

\* A step that calls no provider, writes no row and loses no answer.
LEMMA CostKept ==
  ASSUME CopyInv, CostInv,
         UNCHANGED <<rows, attempts, deliveries>>,
         faults' \in {faults, faults + 1},
         \A w \in Worker : pc[w] \in Outcome => pc'[w] = pc[w] /\ job'[w] = job[w]
  PROVE  CostInv'
<1> SUFFICES ASSUME NEW n \in Notification
             PROVE  /\ attempts[n] <= Counted(n)' + One(Uncounted(n)') + Killed'
                    /\ deliveries[n] <= One(Delivered(n)') + Killed'
  BY DEF CostInv, One
<1>1. /\ attempts[n] \in Nat /\ deliveries[n] \in Nat /\ faults \in Nat
      /\ Counted(n) \in Nat
  BY DEF CopyInv, SafeInv, TypeOK, Row, Counted
<1>2. Counted(n)' = Counted(n)
  BY DEF Counted
<1>3. Killed \in Nat /\ Killed' \in Nat /\ Killed <= Killed'
  BY <1>1 DEF Killed
<1>4. \A w \in Worker : pc[w] \in Outcome /\ Id(w) = n =>
        pc'[w] = pc[w] /\ Id(w)' = n
  BY DEF Id
<1>5. (Uncounted(n) => Uncounted(n)') /\ (Delivered(n) => Delivered(n)')
  BY <1>4 DEF Uncounted, Delivered, Outcome
<1>6. QED
  BY <1>1, <1>2, <1>3, <1>5 DEF CostInv, One

\* A task that dies between its provider call and its commit is paid for by
\* the fault.
LEMMA CostKilled ==
  ASSUME OneWorker, CopyInv, CostInv, NEW w \in Worker, Crash(w) \/ TaskFails(w)
  PROVE  CostInv'
<1> SUFFICES ASSUME NEW n \in Notification
             PROVE  /\ attempts[n] <= Counted(n)' + One(Uncounted(n)') + Killed'
                    /\ deliveries[n] <= One(Delivered(n)') + Killed'
  BY DEF CostInv, One, Crash, TaskFails, historyVars
<1>1. /\ attempts[n] \in Nat /\ deliveries[n] \in Nat /\ faults \in Nat
      /\ Counted(n) \in Nat
  BY DEF CopyInv, SafeInv, TypeOK, Row, Counted
<1>2. Counted(n)' = Counted(n)
  BY DEF Counted, Crash, TaskFails
<1>3. Killed = faults /\ Killed' = faults + 1
  BY <1>1 DEF Killed, Kills, Crash, TaskFails, Fault
<1>4. QED
  BY <1>1, <1>2, <1>3 DEF CostInv, One

\* A provider call finds no answer pending and no delivery recorded.
LEMMA CostSend ==
  ASSUME OneWorker, CopyInv, CostInv, NEW w \in Worker, Send(w)
  PROVE  CostInv'
<1>1. /\ pc[w] = "send" /\ Id(w) \in Notification /\ rows[Id(w)] # None
      /\ rows[Id(w)].status = "PROCESSING"
  BY TicketFields
  DEF Send, CopyInv, CopyFits, SafeInv, SessionLoaded, BusyHasTicket, Id
<1>2. PICK outcome \in Outcome :
        /\ pc' = [pc EXCEPT ![w] = outcome]
        /\ deliveries' = [deliveries EXCEPT ![Id(w)] =
                            IF outcome = "ok" THEN @ + 1 ELSE @]
  BY <1>1, DispatchAssumption DEF Send, Goto
<1>3. /\ UNCHANGED <<rows, job, faults>>
      /\ attempts' = [attempts EXCEPT ![Id(w)] = @ + 1]
  BY DEF Send
<1>4. /\ pc \in [Worker -> PC]
      /\ attempts \in [Notification -> Nat] /\ deliveries \in [Notification -> Nat]
      /\ faults \in Nat
  BY DEF CopyInv, SafeInv, TypeOK
<1>5. ASSUME NEW n \in Notification
      PROVE  /\ attempts'[n] <= Counted(n)' + One(Uncounted(n)') + Killed'
             /\ deliveries'[n] <= One(Delivered(n)') + Killed'
  <2>1. Counted(n)' = Counted(n) /\ Counted(n) \in Nat
    BY DEF Counted, CopyInv, SafeInv, TypeOK, Row, Send
  <2>2. Killed' = Killed /\ Killed \in Nat
    BY <1>3, <1>4 DEF Killed
  <2>3. /\ attempts[n] <= Counted(n) + One(Uncounted(n)) + Killed
        /\ deliveries[n] <= One(Delivered(n)) + Killed
        /\ attempts[n] \in Nat /\ deliveries[n] \in Nat
    BY <1>4 DEF CostInv
  <2>4. CASE n # Id(w)
    <3>1. attempts'[n] = attempts[n] /\ deliveries'[n] = deliveries[n]
      BY <1>1, <1>2, <1>3, <1>4, <2>4
    <3>2. ~\E v \in Worker : pc[v] \in Outcome
      BY <1>1 DEF OneWorker, Outcome
    <3>3. /\ Delivered(n) => Delivered(n)'
          /\ Uncounted(n) => Uncounted(n)'
      BY <1>3, <3>2 DEF Delivered, Uncounted, Outcome
    <3>4. QED
      BY <2>1, <2>2, <2>3, <3>1, <3>3 DEF One
  <2>5. CASE n = Id(w)
    <3>1. ~Delivered(n) /\ ~Uncounted(n)
      BY <1>1, <2>5 DEF Delivered, Uncounted, OneWorker, Outcome
    <3>2. pc'[w] = outcome /\ Id(w)' = n
      BY <1>2, <1>3, <1>4, <2>5 DEF Id
    <3>3. Uncounted(n)' /\ (outcome = "ok" => Delivered(n)')
      BY <3>2 DEF Delivered, Uncounted
    <3>4. /\ attempts'[n] = attempts[n] + 1
          /\ deliveries'[n] = IF outcome = "ok" THEN deliveries[n] + 1 ELSE deliveries[n]
      BY <1>2, <1>3, <1>4, <2>5
    <3>5. One(Uncounted(n)) = 0 /\ One(Delivered(n)) = 0 /\ One(Uncounted(n)') = 1
      BY <3>1, <3>3 DEF One
    <3>6. attempts'[n] <= Counted(n)' + One(Uncounted(n)') + Killed'
      BY <2>1, <2>2, <2>3, <3>4, <3>5
    <3>7. deliveries'[n] <= One(Delivered(n)') + Killed'
      BY <2>2, <2>3, <3>3, <3>4, <3>5 DEF One
    <3>8. QED
      BY <3>6, <3>7
  <2>6. QED
    BY <2>4, <2>5
<1>6. QED
  BY <1>5 DEF CostInv, One

\* A commit counts the answer it is about.
LEMMA CostCommit ==
  ASSUME OneWorker, CopyInv, ColumnsInv, CostInv, NEW w \in Worker, Commits(w)
  PROVE  CostInv'
<1> DEFINE fails == CommitRetry(w) \/ CommitFailed(w)
<1>1. /\ Id(w) \in Notification /\ rows[Id(w)] \in Row /\ rows[Id(w)] # None
      /\ CopyFits(w)
  BY CopyFacts DEF Commits
<1>2. PICK row \in Row :
        /\ rows' = [rows EXCEPT ![Id(w)] = row]
        /\ row.retry_count = rows[Id(w)].retry_count + (IF fails THEN 1 ELSE 0)
        /\ CommitSent(w) => row.status = "SENT"
  BY <1>1, TrueCommit DEF ColumnsInv
<1>3. /\ UNCHANGED <<job, attempts, deliveries, faults>>
      /\ \E label \in PC : pc' = [pc EXCEPT ![w] = label]
      /\ BeginProcessing(w) => pc[w] = "begin"
      /\ CommitSent(w) => pc[w] = "ok"
      /\ fails => pc[w] \in {"transient", "permanent"}
  BY DEF Commits, BeginProcessing, CommitSent, CommitRetry, CommitFailed, Goto, PC,
         historyVars
<1>4. /\ pc \in [Worker -> PC] /\ rows \in [Notification -> Row \cup {None}]
      /\ attempts \in [Notification -> Nat] /\ deliveries \in [Notification -> Nat]
      /\ faults \in Nat
  BY DEF CopyInv, SafeInv, TypeOK
<1>5. rows[Id(w)].status # "SENT"
  BY <1>1, <1>3 DEF CopyFits, Commits, Outcome
<1>6. ASSUME NEW n \in Notification
      PROVE  /\ attempts'[n] <= Counted(n)' + One(Uncounted(n)') + Killed'
             /\ deliveries'[n] <= One(Delivered(n)') + Killed'
  <2>1. Counted(n) \in Nat /\ Killed' = Killed /\ Killed \in Nat
    BY <1>3, <1>4 DEF Counted, Killed, Row
  <2>2. /\ attempts[n] <= Counted(n) + One(Uncounted(n)) + Killed
        /\ deliveries[n] <= One(Delivered(n)) + Killed
        /\ attempts'[n] = attempts[n] /\ deliveries'[n] = deliveries[n]
        /\ attempts[n] \in Nat /\ deliveries[n] \in Nat
    BY <1>3, <1>4 DEF CostInv
  <2>3. CASE n # Id(w)
    <3>1. rows'[n] = rows[n] /\ Counted(n)' = Counted(n)
      BY <1>2, <1>4, <2>3 DEF Counted
    <3>2. /\ Delivered(n) => Delivered(n)'
          /\ Uncounted(n) => Uncounted(n)'
      BY <2>3, <3>1 DEF Delivered, Uncounted, OneWorker
    <3>3. QED
      BY <2>1, <2>2, <3>1, <3>2 DEF One
  <2>4. CASE n = Id(w)
    <3>1. /\ rows'[n] = row /\ rows'[n] # None
          /\ Counted(n)' = Counted(n) + (IF fails THEN 1 ELSE 0)
      BY <1>1, <1>2, <1>4, <2>4, NoneAssumption DEF Counted
    <3>2. CASE BeginProcessing(w)
      <4>1. ~Delivered(n) /\ ~Uncounted(n)
        BY <1>3, <1>5, <2>4, <3>2 DEF Delivered, Uncounted, OneWorker, Outcome
      <4>2. ~fails
        BY <1>3, <3>2
      <4>3. QED
        BY <2>1, <2>2, <3>1, <4>1, <4>2 DEF One
    <3>3. CASE CommitSent(w)
      <4>1. Delivered(n)' /\ Uncounted(n)'
        BY <1>2, <3>1, <3>3 DEF Delivered, Uncounted
      <4>2. ~fails
        BY <1>3, <3>3
      <4>3. QED
        BY <2>1, <2>2, <3>1, <4>1, <4>2 DEF One
    <3>4. CASE fails
      <4>1. ~Delivered(n)
        BY <1>3, <1>5, <2>4, <3>4 DEF Delivered, OneWorker
      <4>2. Counted(n)' = Counted(n) + 1
        BY <3>1, <3>4
      <4>3. QED
        BY <2>1, <2>2, <4>1, <4>2 DEF One
    <3>5. QED
      BY <3>2, <3>3, <3>4 DEF Commits
  <2>5. QED
    BY <2>3, <2>4
<1>7. QED
  BY <1>6 DEF CostInv, One

LEMMA CostStep ==
  ASSUME OneWorker, CopyInv, ColumnsInv, CostInv, [Next]_vars
  PROVE  CostInv'
<1>1. ASSUME UNCHANGED <<rows, attempts, deliveries, pc, job>>,
             faults' \in {faults, faults + 1}
      PROVE  CostInv'
  BY <1>1, CostKept
<1>2. ASSUME NEW w \in Worker, pc[w] \notin Outcome,
             UNCHANGED <<rows, attempts, deliveries>>,
             faults' \in {faults, faults + 1}
      PROVE  CostInv'
  BY <1>2, CostKept DEF OneWorker
<1>3. ASSUME NEW w \in Worker, NEW t \in ready, Receive(w, t) PROVE CostInv'
  BY <1>2, <1>3 DEF Receive, historyVars, Outcome
<1>4. ASSUME NEW w \in Worker,
             \/ LoadMissing(w) \/ LoadSettled(w) \/ LoadOpen(w) \/ Retry(w)
             \/ RetryRefused(w) \/ PublishDeadLetter(w) \/ Ack(w)
      PROVE  CostInv'
  BY <1>2, <1>4
  DEF LoadMissing, LoadSettled, LoadOpen, Retry, RetryRefused, PublishDeadLetter,
      Ack, historyVars, Outcome
<1>5. ASSUME NEW w \in Worker, RetryPublishFails(w) \/ DeadLetterPublishFails(w)
      PROVE  CostInv'
  BY <1>2, <1>5
  DEF RetryPublishFails, DeadLetterPublishFails, Fault, historyVars, Outcome
<1>6. ASSUME NEW w \in Worker, NEW n \in dlq, RecordDeadLetter(w, n) PROVE CostInv'
  BY <1>1, <1>6 DEF RecordDeadLetter, workerVars, historyVars
<1>7. ASSUME NEW t \in unacked, Restore(t) \/ Redeliver(t) PROVE CostInv'
  BY <1>1, <1>7 DEF Restore, Redeliver, Fault, workerVars, historyVars
<1>8. ASSUME UNCHANGED vars PROVE CostInv'
  BY <1>1, <1>8 DEF vars, workerVars, historyVars
<1>9. QED
  BY <1>3, <1>4, <1>5, <1>6, <1>7, <1>8, CostKilled, CostSend, CostCommit
  DEF Next, WorkerStep, FaultStep, Idle, Commits

LEMMA CostInvariant ==
  ASSUME OneWorker
  PROVE  Spec => [](CopyInv /\ ColumnsInv /\ CostInv)
<1>1. CopyInv /\ ColumnsInv /\ CostInv /\ [Next]_vars => CostInv'
  BY CostStep
<1>2. QED
  BY <1>1, CostInit, CopyInvariant, ColumnsInvariant, PTL DEF Spec

LEMMA CostBound ==
  ASSUME CopyInv, ColumnsInv, CostInv
  PROVE  EachKillCostsOneSend
<1> SUFFICES ASSUME NEW n \in Notification
             PROVE  attempts[n] <= MaxAttempts + Killed /\ deliveries[n] <= 1 + Killed
  BY DEF EachKillCostsOneSend
<1>1. /\ attempts[n] \in Nat /\ deliveries[n] \in Nat /\ faults \in Nat
      /\ Counted(n) \in Nat /\ Killed \in Nat /\ MaxAttempts \in Nat
  BY PolicyAssumption DEF CopyInv, SafeInv, TypeOK, Row, Counted, Killed
<1>2. Counted(n) + One(Uncounted(n)) <= MaxAttempts
  <2>1. CASE rows[n] = None
    <3>1. ~Uncounted(n)
      BY <2>1 DEF Uncounted, Delivered, Outcome, CopyInv, SafeInv, SessionLoaded
    <3>2. QED
      BY <1>1, <2>1, <3>1 DEF Counted, One
  <2>2. CASE rows[n] # None /\ rows[n].status = "FAILED"
    <3>1. ~Uncounted(n)
      BY <2>2 DEF Uncounted, Delivered, Outcome, CopyInv, CopyFits
    <3>2. QED
      BY <1>1, <2>2, <3>1 DEF Counted, One, ColumnsInv, RowConsistent
  <2>3. CASE rows[n] # None /\ rows[n].status # "FAILED"
    BY <1>1, <2>3 DEF Counted, One, ColumnsInv, HasBudget
  <2>4. QED
    BY <2>1, <2>2, <2>3
<1>3. QED
  BY <1>1, <1>2 DEF CostInv, One

\* With one task slot a fault costs at most one provider call beyond
\* max_attempts and one message beyond the first, that of a task which died
\* between provider.send and its commit; where tasks do not die, nothing.
THEOREM KillsCostOneSendEach ==
  ASSUME OneWorker
  PROVE  Spec => []EachKillCostsOneSend
<1>1. CopyInv /\ ColumnsInv /\ CostInv => EachKillCostsOneSend
  BY CostBound
<1>2. QED
  BY <1>1, CostInvariant, PTL

\* A visibility timeout shorter than a task is harmless with one worker
\* process: the recipient still gets one message.
THEOREM DeliveredAtMostOnceByOne ==
  ASSUME OneWorker, Faults \cap Kills = {}
  PROVE  Spec => []AtMostOneDelivery
<1>1. 1 + Killed = 1
  BY DEF Killed
<1>2. EachKillCostsOneSend => AtMostOneDelivery
  BY <1>1 DEF EachKillCostsOneSend, AtMostOneDelivery
<1>3. QED
  BY <1>2, KillsCostOneSendEach, PTL

\* ... and max_attempts still bounds the sends.
THEOREM BudgetIsKeptByOne ==
  ASSUME OneWorker, Faults \cap Kills = {}
  PROVE  Spec => []SendsWithinBudget
<1>1. Killed = 0 /\ MaxAttempts + 0 = MaxAttempts
  BY PolicyAssumption DEF Killed
<1>2. EachKillCostsOneSend => SendsWithinBudget
  BY <1>1 DEF EachKillCostsOneSend, SendsWithinBudget
<1>3. QED
  BY <1>2, KillsCostOneSendEach, PTL

-----------------------------------------------------------------------------
(* Every open row keeps a ticket *)

\* A publish makes a ticket no earlier one equals.
Numbered ==
  /\ \A t \in ready \cup unacked : t.seq <= published[t.id]
  /\ \A w \in Worker : pc[w] # "idle" => job[w].seq <= published[Id(w)]

\* A ticket of n that no worker is about to acknowledge.
Keeps(t, n) ==
  /\ t \in ready \cup unacked
  /\ t.id = n
  /\ \A w \in Worker : pc[w] = "ack" => job[w] # t

KeptInv ==
  /\ CopyInv
  /\ Numbered
  /\ \A n \in Notification : Open(n) => \E t : Keeps(t, n)

LEMMA KeptInit == Init => KeptInv
<1> SUFFICES ASSUME Init PROVE KeptInv
  OBVIOUS
<1>1. Numbered
  BY DEF Init, Numbered
<1>2. ASSUME NEW n \in Notification PROVE \E t : Keeps(t, n)
  <2> DEFINE t == [id |-> n, seq |-> 1, retries |-> 0, countdown |-> 0]
  <2>1. Keeps(t, n)
    BY DEF Init, Keeps
  <2>2. QED
    BY <2>1
<1>3. QED
  BY <1>1, <1>2, CopyInit DEF KeptInv

LEMMA OneOpenStays ==
  ASSUME CopyInv, [Next]_vars, NEW n \in Notification, Open(n)'
  PROVE  Open(n)
<1>1. \A w \in Worker : Commits(w) => Id(w) \in Notification /\ Open(Id(w))
  <2> SUFFICES ASSUME NEW w \in Worker, Commits(w)
               PROVE  Id(w) \in Notification /\ Open(Id(w))
    OBVIOUS
  <2>1. /\ Id(w) \in Notification /\ rows[Id(w)] # None /\ CopyFits(w)
        /\ pc[w] \in {"begin"} \cup Outcome
    BY CopyFacts
    DEF Commits, BeginProcessing, CommitSent, CommitRetry, CommitFailed, Outcome
  <2>2. QED
    BY <2>1 DEF Open, CopyFits, Settled, Terminal, Outcome
<1>2. QED
  BY <1>1, OpenStays DEF CopyInv, SafeInv

LEMMA NumberedStep ==
  ASSUME CopyInv, Numbered, [Next]_vars
  PROVE  Numbered'
<1>a. /\ pc \in [Worker -> PC]
      /\ job \in [Worker -> Ticket \cup {None}]
      /\ published \in [Notification -> Nat]
      /\ \A t \in ready \cup unacked : t \in Ticket
      /\ \A w \in Worker : pc[w] # "idle" => job[w] \in Ticket
  BY DEF CopyInv, SafeInv, TypeOK, BrokerTypeOK, BusyHasTicket
<1>1. CASE \E w \in Worker : Retry(w)
  <2>1. PICK w \in Worker : Retry(w)
    BY <1>1
  <2>2. PICK t :
          /\ ready' = ready \cup {t}
          /\ t.id = Id(w) /\ t.seq = published[Id(w)] + 1
    <3> DEFINE new == [id |-> Id(w), seq |-> published[Id(w)] + 1,
                       retries |-> NextRetries(job[w]),
                       countdown |-> CountdownFor(session[w].retry_count)]
    <3>1. ready' = ready \cup {new} /\ new.id = Id(w) /\ new.seq = published[Id(w)] + 1
      BY <2>1 DEF Retry, Publish
    <3>2. QED
      BY <3>1
  <2>3. /\ published' = [published EXCEPT ![Id(w)] = @ + 1]
        /\ pc[w] = "retry" /\ pc' = [pc EXCEPT ![w] = "ack"]
        /\ UNCHANGED <<unacked, job>>
    BY <2>1 DEF Retry, Publish, Goto
  <2>4. \A n \in Notification : published'[n] \in Nat /\ published[n] <= published'[n]
    BY <1>a, <2>3
  <2>5. Id(w) \in Notification /\ published'[Id(w)] = published[Id(w)] + 1
    BY <1>a, <2>3 DEF Id, Ticket
  <2>6. ASSUME NEW u \in ready' \cup unacked' PROVE u.seq <= published'[u.id]
    <3>1. CASE u = t
      BY <1>a, <2>2, <2>5, <3>1
    <3>2. CASE u # t
      <4>1. u \in ready \cup unacked /\ u \in Ticket
        BY <1>a, <2>2, <2>3, <2>6, <3>2
      <4>2. u.seq <= published[u.id] /\ u.seq \in Nat /\ u.id \in Notification
        BY <4>1 DEF Numbered, Ticket
      <4>3. QED
        BY <1>a, <2>4, <4>2
    <3>3. QED
      BY <3>1, <3>2
  <2>7. ASSUME NEW v \in Worker, pc'[v] # "idle" PROVE job'[v].seq <= published'[Id(v)']
    <3>1. pc[v] # "idle" /\ job'[v] = job[v] /\ Id(v)' = Id(v)
      BY <1>a, <2>3, <2>7 DEF Id
    <3>2. job[v].seq <= published[Id(v)] /\ job[v].seq \in Nat /\ Id(v) \in Notification
      BY <1>a, <3>1 DEF Numbered, Id, Ticket
    <3>3. QED
      BY <1>a, <2>4, <3>1, <3>2
  <2>8. QED
    BY <2>6, <2>7 DEF Numbered
<1>2. CASE ~\E w \in Worker : Retry(w)
  <2>1. /\ published' = published
        /\ ready' \cup unacked' \subseteq ready \cup unacked
        /\ \A w \in Worker : pc'[w] # "idle" =>
             \/ job'[w] \in ready
             \/ job'[w] = job[w] /\ pc[w] # "idle"
    BY <1>a, <1>2
    DEF Next, WorkerStep, FaultStep, Idle, vars, brokerVars, workerVars, Receive,
        Deliver, Goto, Release, LoadMissing, LoadSettled, LoadOpen, BeginProcessing,
        Send, CommitSent, CommitRetry, CommitFailed, RetryRefused,
        PublishDeadLetter, Ack, Acknowledge, RecordDeadLetter, Restore, Requeue,
        Crash, Redeliver, TaskFails, RetryPublishFails, DeadLetterPublishFails
  <2>2. QED
    BY <2>1 DEF Numbered, Id
<1>3. QED
  BY <1>1, <1>2

\* A step of the worker that drops no ticket, and that comes to acknowledge
\* one only if it leaves the row settled, or has published another.
LEMMA KeptMoves ==
  ASSUME OneWorker, KeptInv, CopyInv', [Next]_vars, NEW w \in Worker,
         job' = job \/ pc'[w] # "ack",
         ready \cup unacked \subseteq ready' \cup unacked',
         pc'[w] = "ack" => pc[w] = "ack" \/ ~Open(Id(w))'
           \/ \E t : Keeps(t, Id(w))'
  PROVE  \A n \in Notification : Open(n)' => \E t : Keeps(t, n)'
<1> SUFFICES ASSUME NEW n \in Notification, Open(n)'
             PROVE  \E t : Keeps(t, n)'
  OBVIOUS
<1>1. PICK t : Keeps(t, n)
  BY OneOpenStays DEF KeptInv
<1>2. CASE pc'[w] # "ack" \/ pc[w] = "ack"
  <2>1. Keeps(t, n)'
    BY <1>1, <1>2 DEF Keeps, OneWorker
  <2>2. QED
    BY <2>1
<1>3. CASE pc'[w] = "ack" /\ n # Id(w)
  <2>1. Keeps(t, n)'
    BY <1>1, <1>3 DEF Keeps, OneWorker, Id
  <2>2. QED
    BY <2>1
<1>4. CASE pc'[w] = "ack" /\ pc[w] # "ack" /\ n = Id(w)
  <2>1. Id(w)' = n
    BY <1>4 DEF Id
  <2>2. QED
    BY <1>4, <2>1
<1>5. QED
  BY <1>2, <1>3, <1>4

LEMMA KeptStep ==
  ASSUME OneWorker, AcksAreHonest, KeptInv, CopyInv', [Next]_vars
  PROVE  KeptInv'
<1> DEFINE Kept == \A n \in Notification : Open(n)' => \E t : Keeps(t, n)'
<1> SUFFICES Kept
  BY NumberedStep DEF KeptInv
<1>a. /\ pc \in [Worker -> PC]
      /\ job \in [Worker -> Ticket \cup {None}]
      /\ rows \in [Notification -> Row \cup {None}]
      /\ published \in [Notification -> Nat]
      /\ \A w \in Worker :
           /\ CopyFits(w)
           /\ pc[w] # "idle" => job[w] \in Ticket /\ Id(w) \in Notification
  BY TicketFields
  DEF KeptInv, CopyInv, SafeInv, TypeOK, BrokerTypeOK, BusyHasTicket, Id
\* Steps that drop no ticket and do not come to acknowledge one.
<1>1. ASSUME NEW w \in Worker,
             \/ LoadOpen(w) \/ BeginProcessing(w) \/ Send(w) \/ CommitRetry(w)
             \/ CommitFailed(w) \/ Crash(w)
      PROVE  Kept
  <2>1. UNCHANGED <<ready, unacked>>
    BY <1>1 DEF LoadOpen, BeginProcessing, Send, CommitRetry, CommitFailed, Crash,
                brokerVars
  <2>2. pc'[w] # "ack"
    <3>1. CASE Send(w)
      <4>1. pc'[w] \in Outcomes[Id(w)] /\ Id(w) \in Notification
        BY <1>a, <3>1 DEF Send, Goto
      <4>2. QED
        BY <4>1, DispatchAssumption DEF Outcome
    <3>2. CASE ~Send(w)
      BY <1>a, <1>1, <3>2
      DEF LoadOpen, BeginProcessing, CommitRetry, CommitFailed, Crash, Goto, Release
    <3>3. QED
      BY <3>1, <3>2
  <2>3. QED
    BY <2>1, <2>2, KeptMoves
<1>2. ASSUME NEW w \in Worker, NEW t \in ready, Receive(w, t) PROVE Kept
  <2>1. pc'[w] # "ack" /\ ready \cup unacked \subseteq ready' \cup unacked'
    BY <1>a, <1>2 DEF Receive, Deliver, Goto
  <2>2. QED
    BY <2>1, KeptMoves
<1>3. ASSUME NEW w \in Worker, NEW n \in dlq, RecordDeadLetter(w, n) PROVE Kept
  <2>1. UNCHANGED <<ready, unacked, pc, job>> /\ pc[w] = "idle"
    BY <1>3 DEF RecordDeadLetter, workerVars, brokerVars
  <2>2. QED
    BY <2>1, KeptMoves
<1>4. ASSUME NEW t \in unacked, Restore(t) \/ Redeliver(t) PROVE Kept
  <2>1. /\ UNCHANGED <<rows, pc, job>>
        /\ ready' \cup unacked' = ready \cup unacked
    BY <1>4 DEF Restore, Redeliver, Requeue, workerVars
  <2>2. QED
    BY <2>1 DEF KeptInv, Keeps, Open
\* Tasks that have nothing left to do for their row.
<1>5. ASSUME NEW w \in Worker,
             \/ LoadMissing(w) \/ LoadSettled(w) \/ PublishDeadLetter(w)
             \/ DeadLetterPublishFails(w)
      PROVE  Kept
  <2>1. UNCHANGED <<ready, unacked, job, rows>> /\ Id(w)' = Id(w)
    BY <1>5
    DEF LoadMissing, LoadSettled, PublishDeadLetter, DeadLetterPublishFails,
        brokerVars, Id
  <2>2. ~Open(Id(w))
    BY <1>a, <1>5
    DEF LoadMissing, LoadSettled, PublishDeadLetter, DeadLetterPublishFails,
        Open, Skip, Settled, Terminal, CopyFits
  <2>3. ~Open(Id(w))'
    BY <2>1, <2>2 DEF Open
  <2>4. QED
    BY <2>1, <2>3, KeptMoves
<1>6. ASSUME NEW w \in Worker, CommitSent(w) PROVE Kept
  <2>1. /\ session[w] = rows[Id(w)] /\ rows[Id(w)] \in Row
        /\ Id(w) \in Notification
    BY <1>6, CopyFacts DEF KeptInv
  <2>2. /\ UNCHANGED <<ready, unacked, job>> /\ Id(w)' = Id(w)
        /\ rows' = [rows EXCEPT ![Id(w)] = SentRow(rows[Id(w)], rows[Id(w)])]
    BY <1>6, <2>1 DEF CommitSent, Update, brokerVars, Id
  <2>3. rows'[Id(w)].status = "SENT"
    BY <1>a, <2>1, <2>2, SentRowFacts
  <2>4. ~Open(Id(w))'
    BY <2>2, <2>3 DEF Open, Settled, Terminal
  <2>5. QED
    BY <2>2, <2>4, KeptMoves
\* The next ticket takes over.
<1>7. ASSUME NEW w \in Worker, Retry(w) PROVE Kept
  <2> DEFINE new == [id |-> Id(w), seq |-> published[Id(w)] + 1,
                     retries |-> NextRetries(job[w]),
                     countdown |-> CountdownFor(session[w].retry_count)]
  <2>1. /\ ready' = ready \cup {new}
        /\ pc[w] # "idle"
        /\ UNCHANGED <<unacked, job>>
    BY <1>7 DEF Retry, Publish
  <2>2. new # job[w]
    <3>1. job[w].seq <= published[Id(w)] /\ job[w].seq \in Nat
          /\ published[Id(w)] \in Nat
      BY <1>a, <2>1 DEF KeptInv, Numbered, Ticket
    <3>2. new.seq = published[Id(w)] + 1
      OBVIOUS
    <3>3. new.seq # job[w].seq
      BY <3>1, <3>2
    <3>4. QED
      BY <3>3
  <2>3. new.id = Id(w)
    OBVIOUS
  <2> HIDE DEF new
  <2>4. \E t : Keeps(t, Id(w))'
    <3>1. PICK t : t = new
      OBVIOUS
    <3>2. Keeps(t, Id(w))'
      BY <2>1, <2>2, <2>3, <3>1 DEF Keeps, OneWorker, Id
    <3>3. QED
      BY <3>2
  <2>5. QED
    BY <2>1, <2>4, KeptMoves
<1>8. ASSUME NEW w \in Worker, RetryRefused(w) PROVE FALSE
  <2>1. pc[w] = "retry" /\ job[w].retries + 1 > MaxAttempts - 1
    BY <1>8 DEF RetryRefused, NextRetries, MaxRetries
  <2>2. /\ job[w].retries < rows[Id(w)].retry_count
        /\ rows[Id(w)].retry_count < MaxAttempts
        /\ job[w].retries \in Nat
        /\ rows[Id(w)].retry_count \in Nat
    <3>1. rows[Id(w)] # None
      BY <2>1 DEF KeptInv, CopyInv, SafeInv, SessionLoaded
    <3>2. QED
      BY <1>a, <2>1, <3>1 DEF CopyFits, Row, Ticket
  <2>3. QED
    BY <2>1, <2>2, PolicyAssumption
\* The acknowledged ticket is not the one that keeps the row.
<1>9. ASSUME NEW w \in Worker, Ack(w) PROVE Kept
  <2>1. /\ pc[w] = "ack" /\ pc' = [pc EXCEPT ![w] = "idle"]
        /\ ready' = ready /\ unacked' = unacked \ {job[w]}
        /\ UNCHANGED rows
    BY <1>9 DEF Ack, Acknowledge, Release
  <2>2. ASSUME NEW n \in Notification, Open(n)' PROVE \E t : Keeps(t, n)'
    <3>1. PICK t : Keeps(t, n)
      BY <2>2, OneOpenStays DEF KeptInv
    <3>2. Keeps(t, n)'
      BY <1>a, <2>1, <3>1 DEF Keeps, OneWorker
    <3>3. QED
      BY <3>2
  <2>3. QED
    BY <2>2
\* The faults that acknowledge too much are excluded.
<1>10. ASSUME NEW w \in Worker, TaskFails(w) \/ RetryPublishFails(w) PROVE FALSE
  BY <1>10 DEF TaskFails, RetryPublishFails, Fault, AcksAreHonest
<1>11. ASSUME UNCHANGED vars PROVE Kept
  BY <1>11 DEF vars, brokerVars, workerVars, KeptInv, Keeps, Open
<1>12. QED
  BY <1>1, <1>2, <1>3, <1>4, <1>5, <1>6, <1>7, <1>8, <1>9, <1>10, <1>11
  DEF Next, WorkerStep, FaultStep, Idle

\* With one task slot no open row is ever left without a ticket or a
\* task, however often it dies or a ticket is delivered again: what keeps it
\* are late acknowledgement (task_acks_late) and the retry published before
\* the acknowledgement.
THEOREM NothingLostByOne ==
  ASSUME OneWorker, AcksAreHonest
  PROVE  Spec => []NothingLost
<1>1. KeptInv /\ CopyInv' /\ [Next]_vars => KeptInv'
  BY KeptStep
<1>2. KeptInv => NothingLost
  BY DEF KeptInv, Keeps, NothingLost, InFlight
<1>3. QED
  BY <1>1, <1>2, KeptInit, CopyInvariant, PTL DEF Spec
=============================================================================
