-------------------------- MODULE ContainmentProofs --------------------------
(***************************************************************************)
(* Damage is contained: with any number of workers and under any faults, a *)
(* fault breaks the promises of dispatch for at most one notification.     *)
(*                                                                         *)
(* DispatchProofs keeps its invariant by excluding the faults that break   *)
(* it.  Here nothing is excluded.  The invariant is taken apart by         *)
(* notification: a step keeps the part of every notification except the    *)
(* one whose task it kills, whose publish it drops or whose ticket it      *)
(* duplicates.                                                             *)
(***************************************************************************)
EXTENDS OneWorkerProofs, ChainProofs

-----------------------------------------------------------------------------
(* The invariant of one notification *)

UnackedHeldOf(n) ==
  \A t \in unacked : t.id = n => \E w \in Worker : pc[w] # "idle" /\ job[w] = t

OneCarrierOf(n) ==
  /\ \A t, u \in ready : (t.id = n /\ u.id = n) => t = u
  /\ \A t \in ready, w \in Working : ~(t.id = n /\ Id(w) = n)
  /\ \A v, w \in Working : (Id(v) = n /\ Id(w) = n) => v = w

CarriersFit(n) ==
  /\ \A t \in ready : t.id = n => TicketFits(t)
  /\ \A w \in Working : Id(w) = n => TaskFits(w)

AnswersFitOf(n) ==
  /\ \A w \in Working : (Id(w) = n /\ pc[w] \in Outcome) => pc[w] \in Outcomes[n]
  /\ Outcomes[n] = {"permanent"} =>
       /\ \A w \in Working : Id(w) = n => job[w].retries = 0 /\ pc[w] # "retry"
       /\ \A t \in ready : t.id = n => t.retries = 0

IsFailed(n) == rows[n] # None /\ rows[n].status = "FAILED"

FailedFits(n) ==
  IsFailed(n) =>
    /\ "permanent" \notin Outcomes[n] => attempts[n] = MaxAttempts
    /\ Outcomes[n] = {"permanent"} => attempts[n] = 1
    /\ \/ n \in dlq \cup logged
       \/ \E w \in Worker : pc[w] = "dead_letter" /\ Id(w) = n

\* No fault has struck n: one carrier, which knows what the row says.
Sound(n) ==
  /\ UnackedHeldOf(n)
  /\ OneCarrierOf(n)
  /\ CarriersFit(n)
  /\ AnswersFitOf(n)
  /\ deliveries[n] <= 1
  /\ attempts[n] <= MaxAttempts
  /\ rows[n] # None => RowConsistent(rows[n])
  /\ FailedFits(n)

\* Somebody will come back to n as long as it is open.
Followed(n) == Open(n) => Carried(n)

Hurt == {n \in Notification : ~(Sound(n) /\ Followed(n))}

\* The only thing the notifications share is the count of what may be hurt.
DamageInv ==
  /\ SafeInv
  /\ IsFiniteSet(Hurt)
  /\ Cardinality(Hurt) <= faults

-----------------------------------------------------------------------------
(* Steps that do not concern n *)

\* What there is to see of n: its tickets, its tasks, its row, its history.
TicketsAs(n) ==
  /\ \A t : t.id = n => (t \in ready' <=> t \in ready)
  /\ \A t : t.id = n => (t \in unacked' <=> t \in unacked)

DataAs(n) ==
  /\ rows'[n] = rows[n]
  /\ attempts'[n] = attempts[n]
  /\ deliveries'[n] = deliveries[n]
  /\ n \in dlq \cup logged => n \in dlq' \cup logged'

TasksAs(n) ==
  \A w \in Worker :
    /\ (pc[w] # "idle" /\ Id(w) = n) <=> (pc'[w] # "idle" /\ Id(w)' = n)
    /\ pc[w] # "idle" /\ Id(w) = n =>
         pc'[w] = pc[w] /\ job'[w] = job[w] /\ session'[w] = session[w]

\* Nothing that can be seen of n changes.
LEMMA SoundElsewhere ==
  ASSUME SafeInv, NEW n \in Notification, Sound(n),
         TicketsAs(n), DataAs(n), TasksAs(n)
  PROVE  Sound(n)' /\ (Followed(n) => Followed(n)')
<1> USE DEF Sound
<1>1. \A w \in Worker : w \in Working' /\ Id(w)' = n =>
        /\ w \in Working /\ Id(w) = n
        /\ pc'[w] = pc[w] /\ job'[w] = job[w] /\ session'[w] = session[w]
  BY DEF Working, TasksAs
<1>2. \A w \in Working' : w \in Worker
  BY DEF Working
<1>3. UnackedHeldOf(n)'
  <2> SUFFICES ASSUME NEW t \in unacked', t.id = n
               PROVE  \E w \in Worker : pc'[w] # "idle" /\ job'[w] = t
    BY DEF UnackedHeldOf
  <2>1. PICK w \in Worker : pc[w] # "idle" /\ job[w] = t
    BY DEF UnackedHeldOf, TicketsAs
  <2>2. QED
    BY <2>1 DEF TasksAs, Id
<1>4. OneCarrierOf(n)'
  BY <1>1, <1>2 DEF OneCarrierOf, TicketsAs
<1>5. CarriersFit(n)'
  <2>1. ASSUME NEW t \in ready', t.id = n PROVE TicketFits(t)'
    <3>1. t \in ready /\ TicketFits(t)
      BY <2>1 DEF TicketsAs, CarriersFit
    <3>2. QED
      BY <2>1, <3>1 DEF TicketFits, Waiting, DataAs
  <2>2. ASSUME NEW w \in Working', Id(w)' = n PROVE TaskFits(w)'
    <3>1. /\ w \in Working /\ Id(w) = n /\ TaskFits(w)
          /\ pc'[w] = pc[w] /\ job'[w] = job[w] /\ session'[w] = session[w]
      BY <1>1, <1>2, <2>2 DEF CarriersFit
    <3>2. QED
      BY <2>2, <3>1 DEF TaskFits, Waiting, DataAs
  <2>3. QED
    BY <2>1, <2>2 DEF CarriersFit
<1>6. AnswersFitOf(n)'
  BY <1>1, <1>2 DEF AnswersFitOf, TicketsAs
<1>7. FailedFits(n)'
  <2>1. ASSUME NEW w \in Worker, pc[w] = "dead_letter", Id(w) = n
        PROVE  pc'[w] = "dead_letter" /\ Id(w)' = n
    BY <2>1 DEF TasksAs
  <2>2. QED
    BY <2>1 DEF FailedFits, IsFailed, DataAs
<1>8. ASSUME Followed(n) PROVE Followed(n)'
  <2> SUFFICES ASSUME Open(n)' PROVE Carried(n)'
    BY DEF Followed
  <2>1. Carried(n)
    BY <1>8 DEF Followed, Open, DataAs
  <2>2. CASE \E t \in ready : t.id = n
    BY <2>2 DEF TicketsAs, Carried
  <2>3. CASE \E w \in Working : Id(w) = n
    BY <2>3 DEF TasksAs, Carried, Working
  <2>4. QED
    BY <2>1, <2>2, <2>3 DEF Carried
<1>9. QED
  BY <1>3, <1>4, <1>5, <1>6, <1>7, <1>8 DEF DataAs

LEMMA SafeTypes ==
  ASSUME SafeInv
  PROVE  /\ pc \in [Worker -> PC] /\ job \in [Worker -> Ticket \cup {None}]
         /\ session \in [Worker -> Row \cup {None}]
         /\ rows \in [Notification -> Row \cup {None}]
         /\ attempts \in [Notification -> Nat]
         /\ deliveries \in [Notification -> Nat]
         /\ published \in [Notification -> Nat]
         /\ \A t \in ready \cup unacked : t \in Ticket
         /\ \A w \in Worker : pc[w] # "idle" =>
              job[w] \in Ticket /\ Id(w) \in Notification /\ job[w].retries \in Nat
  BY TicketFields DEF SafeInv, TypeOK, BrokerTypeOK, BusyHasTicket, Id

\* A worker moves on in the task of another notification.
LEMMA OtherTask ==
  ASSUME SafeInv, NEW n \in Notification, Sound(n), NEW w \in Worker,
         pc[w] # "idle" => Id(w) # n,
         pc'[w] # "idle" => Id(w)' # n,
         \A v \in Worker \ {w} :
           pc'[v] = pc[v] /\ job'[v] = job[v] /\ session'[v] = session[v],
         TicketsAs(n), DataAs(n)
  PROVE  Sound(n)' /\ (Followed(n) => Followed(n)')
<1>1. TasksAs(n)
  BY DEF TasksAs, Id
<1>2. QED
  BY <1>1, SoundElsewhere

\* The new ticket a publish makes carries the id it is published for.
LEMMA PublishedTicket ==
  ASSUME NEW n, NEW r, NEW c, Publish(n, r, c)
  PROVE  \E t : /\ ready' = ready \cup {t}
                /\ t.id = n /\ t.retries = r /\ t.countdown = c
<1> DEFINE t == [id |-> n, seq |-> published[n] + 1, retries |-> r, countdown |-> c]
<1>1. ready' = ready \cup {t}
  BY DEF Publish
<1>2. t.id = n /\ t.retries = r /\ t.countdown = c
  OBVIOUS
<1> HIDE DEF t
<1>3. QED
  BY <1>1, <1>2

\* What the task of w does, it does to its own notification: n does not see
\* it, be it a step of the task or a fault that strikes it.
LEMMA TaskElsewhere ==
  ASSUME SafeInv, NEW n \in Notification, Sound(n),
         NEW w \in Worker, pc[w] # "idle", Id(w) # n,
         \/ WorkerStep(w)
         \/ Crash(w) \/ TaskFails(w) \/ RetryPublishFails(w) \/ DeadLetterPublishFails(w)
  PROVE  Sound(n)' /\ (Followed(n) => Followed(n)')
<1>a. /\ pc \in [Worker -> PC] /\ job \in [Worker -> Ticket \cup {None}]
      /\ session \in [Worker -> Row \cup {None}]
      /\ rows \in [Notification -> Row \cup {None}]
      /\ attempts \in [Notification -> Nat]
      /\ deliveries \in [Notification -> Nat]
  BY SafeTypes
<1> USE DEF brokerVars, workerVars, dlqVars, historyVars
<1>1. ASSUME UNCHANGED <<ready, unacked, job, dlq, logged, attempts, deliveries>>,
             \E label : pc' = [pc EXCEPT ![w] = label],
             \E copy : session' = [session EXCEPT ![w] = copy],
             \E row : rows' = [rows EXCEPT ![Id(w)] = row]
      PROVE  Sound(n)' /\ (Followed(n) => Followed(n)')
  <2>1. TicketsAs(n) /\ DataAs(n)
    BY <1>a, <1>1 DEF TicketsAs, DataAs
  <2>2. \A v \in Worker \ {w} :
          pc'[v] = pc[v] /\ job'[v] = job[v] /\ session'[v] = session[v]
    BY <1>a, <1>1
  <2>3. Id(w)' # n
    BY <1>1 DEF Id
  <2>4. QED
    BY <2>1, <2>2, <2>3, OtherTask
<1>2. ASSUME UNCHANGED <<ready, unacked, job, session, rows>>,
             \E label : pc' = [pc EXCEPT ![w] = label],
             \E a : attempts' = [attempts EXCEPT ![Id(w)] = a],
             \E d : deliveries' = [deliveries EXCEPT ![Id(w)] = d],
             dlq \cup logged \subseteq dlq' \cup logged'
      PROVE  Sound(n)' /\ (Followed(n) => Followed(n)')
  <2>1. TicketsAs(n) /\ DataAs(n)
    BY <1>a, <1>2 DEF TicketsAs, DataAs
  <2>2. \A v \in Worker \ {w} :
          pc'[v] = pc[v] /\ job'[v] = job[v] /\ session'[v] = session[v]
    BY <1>a, <1>2
  <2>3. Id(w)' # n
    BY <1>2 DEF Id
  <2>4. QED
    BY <2>1, <2>2, <2>3, OtherTask
<1>3. CASE \/ LoadMissing(w) \/ LoadSettled(w) \/ RetryRefused(w)
           \/ PublishDeadLetter(w) \/ RetryPublishFails(w) \/ DeadLetterPublishFails(w)
  <2>1. /\ UNCHANGED <<ready, unacked, job, session, rows, attempts, deliveries>>
        /\ \E label : pc' = [pc EXCEPT ![w] = label]
        /\ dlq \cup logged \subseteq dlq' \cup logged'
    BY <1>3 DEF LoadMissing, LoadSettled, RetryRefused, PublishDeadLetter,
                RetryPublishFails, DeadLetterPublishFails, Goto
  <2>2. /\ \E a : attempts' = [attempts EXCEPT ![Id(w)] = a]
        /\ \E d : deliveries' = [deliveries EXCEPT ![Id(w)] = d]
    <3>1. /\ attempts' = [attempts EXCEPT ![Id(w)] = attempts[Id(w)]]
          /\ deliveries' = [deliveries EXCEPT ![Id(w)] = deliveries[Id(w)]]
      BY <1>a, <2>1
    <3>2. QED
      BY <3>1
  <2>3. QED
    BY <1>2, <2>1, <2>2
<1>4. CASE LoadOpen(w)
  <2>1. /\ UNCHANGED <<ready, unacked, job, dlq, logged, rows, attempts, deliveries>>
        /\ \E label : pc' = [pc EXCEPT ![w] = label]
        /\ \E copy : session' = [session EXCEPT ![w] = copy]
    BY <1>4 DEF LoadOpen, Goto, Remember
  <2>2. rows' = [rows EXCEPT ![Id(w)] = rows[Id(w)]]
    BY <1>a, <2>1
  <2>3. QED
    BY <1>1, <2>1, <2>2
<1>5. CASE BeginProcessing(w) \/ CommitSent(w) \/ CommitRetry(w) \/ CommitFailed(w)
  <2>1. /\ UNCHANGED <<ready, unacked, job, dlq, logged, attempts, deliveries>>
        /\ \E label : pc' = [pc EXCEPT ![w] = label]
        /\ \E copy : session' = [session EXCEPT ![w] = copy]
        /\ \E row : rows' = [rows EXCEPT ![Id(w)] = row]
    BY <1>5 DEF BeginProcessing, CommitSent, CommitRetry, CommitFailed,
                FailedAttempt, Update, Goto, Remember, Close
  <2>2. QED
    BY <1>1, <2>1
<1>6. CASE Send(w)
  <2>1. PICK outcome :
          /\ pc' = [pc EXCEPT ![w] = outcome]
          /\ deliveries' = [deliveries EXCEPT ![Id(w)] =
                              IF outcome = "ok" THEN @ + 1 ELSE @]
    BY <1>6 DEF Send, Goto
  <2>2. /\ UNCHANGED <<ready, unacked, job, session, rows, dlq, logged>>
        /\ attempts' = [attempts EXCEPT ![Id(w)] = @ + 1]
    BY <1>6 DEF Send
  <2>3. QED
    BY <1>2, <2>1, <2>2
<1>7. CASE Retry(w)
  <2>1. PICK new : ready' = ready \cup {new} /\ new.id = Id(w)
    BY <1>7, PublishedTicket DEF Retry
  <2>2. /\ UNCHANGED <<unacked, job, session, rows, dlq, logged, attempts, deliveries>>
        /\ pc' = [pc EXCEPT ![w] = "ack"]
    BY <1>7 DEF Retry, Publish, Goto
  <2>3. TicketsAs(n) /\ DataAs(n)
    BY <2>1, <2>2 DEF TicketsAs, DataAs
  <2>4. Id(w)' # n
    BY <2>2 DEF Id
  <2>5. QED
    BY <1>a, <2>2, <2>3, <2>4, OtherTask
<1>8. CASE Ack(w) \/ Crash(w) \/ TaskFails(w)
  <2>1. /\ UNCHANGED <<ready, rows, dlq, logged, attempts, deliveries>>
        /\ unacked' = unacked \ {job[w]} \/ unacked' = unacked
        /\ pc' = [pc EXCEPT ![w] = "idle"]
        /\ job' = [job EXCEPT ![w] = None]
        /\ session' = [session EXCEPT ![w] = None]
    BY <1>8 DEF Ack, Crash, TaskFails, Acknowledge, Release, Close
  <2>2. TicketsAs(n) /\ DataAs(n)
    BY <2>1 DEF TicketsAs, DataAs, Id
  <2>3. QED
    BY <1>a, <2>1, <2>2, OtherTask
<1>9. QED
  BY <1>3, <1>4, <1>5, <1>6, <1>7, <1>8 DEF WorkerStep

\* The broker gives out, restores or duplicates a ticket of another
\* notification, or the dead-letter task logs one.
LEMMA BrokerElsewhere ==
  ASSUME SafeInv, NEW n \in Notification, Sound(n),
         \/ \E w \in Worker, t \in ready : t.id # n /\ Receive(w, t)
         \/ \E w \in Worker, m \in dlq : RecordDeadLetter(w, m)
         \/ \E t \in unacked : t.id # n /\ (Restore(t) \/ Redeliver(t))
  PROVE  Sound(n)' /\ (Followed(n) => Followed(n)')
<1>a. /\ pc \in [Worker -> PC] /\ job \in [Worker -> Ticket \cup {None}]
  BY SafeTypes
<1> USE DEF brokerVars, workerVars, dlqVars, historyVars
<1>1. ASSUME NEW w \in Worker, NEW t \in ready, t.id # n, Receive(w, t)
      PROVE  Sound(n)' /\ (Followed(n) => Followed(n)')
  <2>1. /\ pc' = [pc EXCEPT ![w] = "load"] /\ job' = [job EXCEPT ![w] = t]
        /\ ready' = ready \ {t} /\ unacked' = unacked \cup {t}
        /\ UNCHANGED <<rows, session, dlq, logged, attempts, deliveries>>
        /\ pc[w] = "idle"
    BY <1>1 DEF Receive, Deliver, Goto
  <2>2. TicketsAs(n) /\ DataAs(n)
    BY <1>1, <2>1 DEF TicketsAs, DataAs
  <2>3. Id(w)' # n
    BY <1>a, <1>1, <2>1 DEF Id
  <2>4. QED
    BY <1>a, <2>1, <2>2, <2>3, OtherTask
<1>2. ASSUME UNCHANGED <<pc, job, session, rows, attempts, deliveries>>,
             TicketsAs(n), dlq \cup logged \subseteq dlq' \cup logged'
      PROVE  Sound(n)' /\ (Followed(n) => Followed(n)')
  <2>1. DataAs(n) /\ TasksAs(n)
    BY <1>2 DEF DataAs, TasksAs, Id
  <2>2. QED
    BY <1>2, <2>1, SoundElsewhere
<1>3. ASSUME NEW w \in Worker, NEW m \in dlq, RecordDeadLetter(w, m)
      PROVE  Sound(n)' /\ (Followed(n) => Followed(n)')
  BY <1>2, <1>3 DEF RecordDeadLetter, TicketsAs
<1>4. ASSUME NEW t \in unacked, t.id # n, Restore(t) \/ Redeliver(t)
      PROVE  Sound(n)' /\ (Followed(n) => Followed(n)')
  BY <1>2, <1>4 DEF Restore, Redeliver, Requeue, TicketsAs
<1>5. QED
  BY <1>1, <1>3, <1>4

-----------------------------------------------------------------------------
(* Steps of n's own task *)

\* The task is n's only carrier, so what it changes only has to fit itself.
LEMMA OwnTaskMoves ==
  ASSUME SafeInv, NEW n \in Notification, Sound(n),
         NEW w \in Working, Id(w) = n,
         NEW label, label # "idle",
         pc' = [pc EXCEPT ![w] = label],
         UNCHANGED <<ready, unacked, job>>,
         label # "ack" => TaskFits(w)',
         label \in Outcome => label \in Outcomes[n],
         label = "retry" => Outcomes[n] # {"permanent"}
  PROVE  UnackedHeldOf(n)' /\ OneCarrierOf(n)' /\ CarriersFit(n)' /\ AnswersFitOf(n)'
<1> USE DEF Sound
<1>1. /\ pc \in [Worker -> PC] /\ w \in Worker
      /\ \A v \in Worker : Id(v)' = Id(v)
  BY SafeTypes DEF Working, Id
<1>2. /\ \A v \in Working' : v \in Working /\ v \in Worker
      /\ \A v \in Working' : Id(v)' = n => v = w
      /\ w \in Working' => label # "ack"
      /\ \A t \in ready : t.id # n
  BY <1>1 DEF Working, OneCarrierOf
<1>3. UnackedHeldOf(n)'
  BY <1>1 DEF UnackedHeldOf
<1>4. OneCarrierOf(n)'
  BY <1>1, <1>2 DEF OneCarrierOf
<1>5. CarriersFit(n)'
  BY <1>1, <1>2 DEF CarriersFit
<1>6. AnswersFitOf(n)'
  <2>1. pc'[w] = label /\ job'[w] = job[w]
    BY <1>1
  <2>2. Outcomes[n] = {"permanent"} => job[w].retries = 0
    BY DEF AnswersFitOf
  <2>3. QED
    BY <1>2, <2>1, <2>2 DEF AnswersFitOf
<1>7. QED
  BY <1>3, <1>4, <1>5, <1>6

LEMMA OwnTaskStep ==
  ASSUME SafeInv, NEW n \in Notification, Sound(n),
         NEW w \in Working, Id(w) = n, WorkerStep(w)
  PROVE  Sound(n)' /\ Followed(n)'
<1> USE DEF brokerVars, dlqVars, historyVars
<1> DEFINE r == job[w].retries
           Carriers == /\ UnackedHeldOf(n)' /\ OneCarrierOf(n)'
                       /\ CarriersFit(n)' /\ AnswersFitOf(n)'
           Sums == /\ deliveries'[n] <= 1 /\ attempts'[n] <= MaxAttempts
                   /\ rows'[n] # None => RowConsistent(rows'[n])
<1>a. /\ pc \in [Worker -> PC] /\ job \in [Worker -> Ticket \cup {None}]
      /\ session \in [Worker -> Row \cup {None}]
      /\ rows \in [Notification -> Row \cup {None}]
      /\ attempts \in [Notification -> Nat]
      /\ deliveries \in [Notification -> Nat]
      /\ w \in Worker /\ pc[w] # "idle" /\ pc[w] # "ack"
      /\ r \in Nat
  BY SafeTypes DEF Working
<1>b. TaskFits(w) /\ r < MaxAttempts /\ MaxAttempts \in Nat
  BY PolicyAssumption DEF Sound, CarriersFit, TaskFits
<1>c. ASSUME UNCHANGED <<rows, attempts, deliveries>> PROVE Sums
  BY <1>c DEF Sound
<1>d. ASSUME Carriers, Sums, FailedFits(n)' PROVE Sound(n)'
  BY <1>d DEF Sound
\* A task that is not over carries n.
<1>e. ASSUME pc'[w] \notin {"idle", "ack"}, job' = job PROVE Followed(n)'
  BY <1>e DEF Followed, Carried, Working, Id
<1>f. ASSUME ~IsFailed(n)' PROVE FailedFits(n)'
  BY <1>f DEF FailedFits
<1>1. ASSUME LoadMissing(w) PROVE Sound(n)' /\ Followed(n)'
  <2>1. /\ pc' = [pc EXCEPT ![w] = "ack"] /\ rows[n] = None
        /\ UNCHANGED <<ready, unacked, job, session, rows, dlq, logged, attempts, deliveries>>
    BY <1>1 DEF LoadMissing, Goto
  <2>2. Carriers
    BY <2>1, OwnTaskMoves DEF Outcome
  <2>3. FailedFits(n)' /\ Followed(n)'
    BY <1>f, <2>1 DEF IsFailed, Followed, Open
  <2>4. QED
    BY <1>c, <1>d, <2>1, <2>2, <2>3
<1>2. ASSUME LoadSettled(w) PROVE Sound(n)' /\ Followed(n)'
  \* A waiting row is never settled: only a duplicate is skipped.
  BY <1>2, <1>b DEF LoadSettled, Skip, Settled, Terminal, TaskFits, Waiting
<1>3. ASSUME LoadOpen(w) PROVE Sound(n)' /\ Followed(n)'
  <2>1. pc[w] = "load" /\ rows[n] # None
    BY <1>3 DEF LoadOpen
  <2>2. Waiting(n, r) /\ rows[n].status = "PENDING"
    BY <1>b, <2>1 DEF TaskFits, Waiting
  <2>3. /\ pc' = [pc EXCEPT ![w] = "begin"]
        /\ session' = [session EXCEPT ![w] = rows[n]]
        /\ UNCHANGED <<ready, unacked, job, rows, dlq, logged, attempts, deliveries>>
    BY <1>3, <2>2 DEF LoadOpen, Goto, Remember
  <2>4. TaskFits(w)'
    <3>1. Id(w)' = n /\ pc'[w] = "begin" /\ session'[w] = rows[n]
      BY <1>a, <2>3 DEF Id
    <3>2. QED
      BY <1>b, <2>1, <2>2, <2>3, <3>1 DEF TaskFits, Waiting, Outcome
  <2>5. Carriers
    BY <2>3, <2>4, OwnTaskMoves DEF Outcome
  <2>6. FailedFits(n)' /\ Followed(n)'
    BY <1>a, <1>e, <1>f, <2>2, <2>3 DEF IsFailed
  <2>7. QED
    BY <1>c, <1>d, <2>3, <2>5, <2>6
<1>4. ASSUME BeginProcessing(w) PROVE Sound(n)' /\ Followed(n)'
  <2> DEFINE row == [rows[n] EXCEPT !.status = "PROCESSING"]
  <2>1. /\ pc[w] = "begin" /\ rows[n] \in Row /\ rows[n].status = "PENDING"
        /\ session[w] = rows[n] /\ rows[n].retry_count = r
        /\ attempts[n] = r /\ deliveries[n] = 0
    BY <1>4, <1>a, <1>b DEF BeginProcessing, TaskFits, Waiting
  <2>2. /\ pc' = [pc EXCEPT ![w] = "send"]
        /\ rows' = [rows EXCEPT ![n] = row]
        /\ session' = [session EXCEPT ![w] = row]
        /\ UNCHANGED <<ready, unacked, job, dlq, logged, attempts, deliveries>>
    BY <1>4, <2>1 DEF BeginProcessing, Goto, Update, Remember
  <2>3. row \in Row /\ row.status = "PROCESSING" /\ row.retry_count = r /\ row # None
    BY <2>1, BegunRow, NoneAssumption
  <2>4. /\ Id(w)' = n /\ pc'[w] = "send"
        /\ session'[w] = row /\ rows'[n] = row
    BY <1>a, <2>2 DEF Id
  <2> HIDE DEF row
  <2>5. TaskFits(w)'
    BY <1>b, <2>1, <2>2, <2>3, <2>4 DEF TaskFits, Outcome
  <2>6. Carriers
    BY <2>2, <2>5, OwnTaskMoves DEF Outcome
  <2>7. FailedFits(n)' /\ Followed(n)'
    BY <1>e, <1>f, <2>2, <2>3, <2>4 DEF IsFailed
  <2>8. Sums
    <3>1. RowConsistent(row)
      BY <2>1, BegunConsistent, NoneAssumption DEF Sound, row
    <3>2. QED
      BY <2>2, <2>4, <3>1 DEF Sound
  <2>9. QED
    BY <1>d, <2>6, <2>7, <2>8
<1>5. ASSUME Send(w) PROVE Sound(n)' /\ Followed(n)'
  <2>1. PICK outcome \in Outcomes[n] :
          /\ pc' = [pc EXCEPT ![w] = outcome]
          /\ deliveries' = [deliveries EXCEPT ![n] = IF outcome = "ok" THEN @ + 1 ELSE @]
    BY <1>5 DEF Send, Goto
  <2>2. /\ attempts' = [attempts EXCEPT ![n] = @ + 1]
        /\ UNCHANGED <<ready, unacked, job, session, rows, dlq, logged>>
    BY <1>5 DEF Send
  <2>3. outcome \in Outcome /\ outcome \notin {"idle", "ack", "retry"}
    BY DispatchAssumption DEF Outcome
  <2>4. /\ pc[w] = "send" /\ attempts[n] = r /\ deliveries[n] = 0
        /\ rows[n].status = "PROCESSING"
    BY <1>5, <1>b DEF Send, TaskFits
  <2>5. /\ Id(w)' = n /\ pc'[w] = outcome /\ attempts'[n] = r + 1
        /\ deliveries'[n] = IF outcome = "ok" THEN 1 ELSE 0
    BY <1>a, <2>1, <2>2, <2>4 DEF Id
  <2>6. TaskFits(w)'
    BY <1>b, <2>2, <2>3, <2>4, <2>5 DEF TaskFits, Outcome
  <2>7. Carriers
    BY <2>1, <2>2, <2>3, <2>6, OwnTaskMoves
  <2>8. FailedFits(n)' /\ Followed(n)'
    BY <1>e, <1>f, <2>2, <2>3, <2>4, <2>5 DEF IsFailed
  <2>9. Sums
    <3>1. r + 1 <= MaxAttempts
      BY <1>a, <1>b
    <3>2. QED
      BY <2>2, <2>5, <3>1 DEF Sound
  <2>10. QED
    BY <1>d, <2>7, <2>8, <2>9
<1>6. ASSUME CommitSent(w) PROVE Sound(n)' /\ Followed(n)'
  <2> DEFINE row == SentRow(rows[n], rows[n])
  <2>1. pc[w] = "ok" /\ rows[n] \in Row /\ session[w] = rows[n]
    BY <1>6, <1>a, <1>b DEF CommitSent, TaskFits, Outcome
  <2>2. /\ pc' = [pc EXCEPT ![w] = "ack"]
        /\ rows' = [rows EXCEPT ![n] = row]
        /\ UNCHANGED <<ready, unacked, job, dlq, logged, attempts, deliveries>>
    BY <1>6, <2>1 DEF CommitSent, Goto, Update
  <2>3. row.status = "SENT" /\ rows'[n] = row
    BY <1>a, <2>1, <2>2, SentRowFacts
  <2>4. Carriers
    BY <2>2, OwnTaskMoves DEF Outcome
  <2>5. FailedFits(n)' /\ Followed(n)'
    BY <1>f, <2>3 DEF IsFailed, Followed, Open, Settled, Terminal
  <2>6. Sums
    <3>1. RowConsistent(row)
      BY <2>1, SentConsistent, NoneAssumption DEF Sound
    <3>2. QED
      BY <2>2, <2>3, <3>1 DEF Sound
  <2>7. QED
    BY <1>d, <2>4, <2>5, <2>6
<1>7. ASSUME CommitRetry(w) PROVE Sound(n)' /\ Followed(n)'
  <2>1. /\ pc[w] \in {"transient", "permanent"} /\ pc[w] \in Outcome
        /\ rows[n] \in Row /\ session[w] = rows[n]
        /\ rows[n].status = "PROCESSING" /\ rows[n].retry_count = r
        /\ attempts[n] = r + 1 /\ deliveries[n] = 0
    BY <1>7, <1>a, <1>b DEF CommitRetry, TaskFits, Outcome
  <2>2. r + 1 < MaxAttempts /\ pc[w] = "transient"
    BY <1>7, <2>1 DEF CommitRetry, ShouldRetry, Burned, Retryable
  <2>3. Outcomes[n] # {"permanent"}
    BY <2>1, <2>2 DEF Sound, AnswersFitOf
  <2>4. PICK written \in {TRUE, ~rows[n].error_message} :
          rows' = [rows EXCEPT ![n] = FailedRow(rows[n], rows[n], "PENDING", written)]
    BY <1>7, <2>1 DEF CommitRetry, FailedAttempt, Update
  <2> DEFINE row == FailedRow(rows[n], rows[n], "PENDING", written)
             copy == [rows[n] EXCEPT !.status = "PENDING",
                                     !.retry_count = Burned(rows[n])]
  <2>5. /\ pc' = [pc EXCEPT ![w] = "retry"]
        /\ session' = [session EXCEPT ![w] = copy]
        /\ UNCHANGED <<ready, unacked, job, dlq, logged, attempts, deliveries>>
    BY <1>7, <2>1 DEF CommitRetry, Goto, Remember
  <2>6. row \in Row /\ row.status = "PENDING" /\ row.retry_count = r + 1
    <3>1. "PENDING" \in Status
      BY DEF Status
    <3>2. QED
      BY <2>1, <3>1, FailedRowFacts
  <2>7. copy \in Row /\ copy.retry_count = r + 1
    BY <2>1, RetriedCopy
  <2>8. /\ Id(w)' = n /\ pc'[w] = "retry"
        /\ session'[w] = copy /\ rows'[n] = row
    BY <1>a, <2>4, <2>5 DEF Id
  <2>9. RowConsistent(row)
    BY <1>b, <2>1, FailedConsistent, NoneAssumption DEF Sound
  <2> HIDE DEF row, copy
  <2>10. TaskFits(w)'
    <3>1. row # None /\ copy # None
      BY <2>6, <2>7, NoneAssumption
    <3>2. attempts'[n] = r + 1 /\ deliveries'[n] = 0 /\ job'[w] = job[w]
      BY <2>1, <2>5
    <3>3. QED
      BY ZenonT(30), <1>b, <2>2, <2>6, <2>7, <2>8, <3>1, <3>2 DEF TaskFits, Outcome
  <2>11. Carriers
    BY <2>3, <2>5, <2>10, OwnTaskMoves DEF Outcome
  <2>12. FailedFits(n)' /\ Followed(n)'
    BY <1>e, <1>f, <2>5, <2>6, <2>8 DEF IsFailed
  <2>13. Sums
    BY <2>5, <2>8, <2>9 DEF Sound
  <2>14. QED
    BY <1>d, <2>11, <2>12, <2>13
<1>8. ASSUME CommitFailed(w) PROVE Sound(n)' /\ Followed(n)'
  <2>1. /\ pc[w] \in {"transient", "permanent"} /\ pc[w] \in Outcome
        /\ rows[n] \in Row /\ session[w] = rows[n]
        /\ rows[n].status = "PROCESSING" /\ rows[n].retry_count = r
        /\ attempts[n] = r + 1 /\ deliveries[n] = 0
    BY <1>8, <1>a, <1>b DEF CommitFailed, TaskFits, Outcome
  \* Out of budget, or refused for good.
  <2>2. /\ "permanent" \notin Outcomes[n] => attempts[n] = MaxAttempts
        /\ Outcomes[n] = {"permanent"} => attempts[n] = 1
    <3>1. pc[w] = "permanent" \/ ~(r + 1 < MaxAttempts)
      BY <1>8, <2>1 DEF CommitFailed, ShouldRetry, Burned, Retryable
    <3>2. /\ pc[w] \in Outcomes[n]
          /\ Outcomes[n] = {"permanent"} => r = 0
      BY <2>1 DEF Sound, AnswersFitOf
    <3>3. QED
      BY <1>a, <1>b, <2>1, <3>1, <3>2
  <2>3. PICK written \in {TRUE, ~rows[n].error_message} :
          rows' = [rows EXCEPT ![n] = FailedRow(rows[n], rows[n], "FAILED", written)]
    BY <1>8, <2>1 DEF CommitFailed, FailedAttempt, Update
  <2> DEFINE row == FailedRow(rows[n], rows[n], "FAILED", written)
  <2>4. /\ pc' = [pc EXCEPT ![w] = "dead_letter"]
        /\ UNCHANGED <<ready, unacked, job, dlq, logged, attempts, deliveries>>
    BY <1>8 DEF CommitFailed, Goto
  <2>5. row \in Row /\ row.status = "FAILED" /\ row # None
    <3>1. "FAILED" \in Status
      BY DEF Status
    <3>2. QED
      BY <2>1, <3>1, FailedRowFacts, NoneAssumption
  <2>6. Id(w)' = n /\ pc'[w] = "dead_letter" /\ rows'[n] = row
    BY <1>a, <2>3, <2>4 DEF Id
  <2>7. RowConsistent(row)
    BY <1>b, <2>1, FailedConsistent, NoneAssumption DEF Sound
  <2> HIDE DEF row
  <2>8. TaskFits(w)'
    BY <1>b, <2>1, <2>4, <2>5, <2>6 DEF TaskFits, Outcome
  <2>9. Carriers
    BY <2>4, <2>8, OwnTaskMoves DEF Outcome
  <2>10. FailedFits(n)' /\ Followed(n)'
    <3>1. Followed(n)'
      BY <1>e, <2>4, <2>6
    <3>2. FailedFits(n)'
      BY <1>a, <2>2, <2>4, <2>6 DEF FailedFits
    <3>3. QED
      BY <3>1, <3>2
  <2>11. Sums
    BY <2>4, <2>6, <2>7 DEF Sound
  <2>12. QED
    BY <1>d, <2>9, <2>10, <2>11
<1>9. ASSUME Retry(w) PROVE Sound(n)' /\ Followed(n)'
  <2>1. PICK new :
          /\ ready' = ready \cup {new}
          /\ new.id = n /\ new.retries = r + 1
          /\ new.countdown = CountdownFor(session[w].retry_count)
    BY <1>9, PublishedTicket DEF Retry, NextRetries
  <2>2. /\ pc[w] = "retry" /\ pc' = [pc EXCEPT ![w] = "ack"]
        /\ UNCHANGED <<unacked, job, session, rows, dlq, logged, attempts, deliveries>>
    BY <1>9 DEF Retry, Publish, Goto
  <2>3. Waiting(n, r + 1) /\ session[w].retry_count = r + 1 /\ rows[n].status = "PENDING"
    BY <1>b, <2>2 DEF TaskFits, Waiting
  <2>4. TicketFits(new)'
    BY <2>1, <2>2, <2>3 DEF TicketFits, Waiting
  <2>5. /\ \A v \in Worker : Id(v)' = Id(v)
        /\ \A v \in Working' : v \in Worker /\ v \in Working /\ v # w
    BY <1>a, <2>2 DEF Id, Working
  <2>6. /\ \A t \in ready : t.id # n
        /\ \A v \in Working' : Id(v)' # n
    BY <2>5 DEF Sound, OneCarrierOf
  <2>7. UnackedHeldOf(n)'
    BY <1>a, <2>2 DEF Sound, UnackedHeldOf
  <2>8. OneCarrierOf(n)' /\ CarriersFit(n)'
    BY <2>1, <2>4, <2>6 DEF OneCarrierOf, CarriersFit
  <2>9. AnswersFitOf(n)'
    <3>1. Outcomes[n] # {"permanent"}
      BY <2>2 DEF Sound, AnswersFitOf
    <3>2. QED
      BY <2>6, <3>1 DEF AnswersFitOf
  <2>10. FailedFits(n)' /\ Followed(n)'
    BY <1>f, <2>1, <2>2, <2>3 DEF IsFailed, Followed, Carried
  <2>11. QED
    BY <1>c, <1>d, <2>2, <2>7, <2>8, <2>9, <2>10
<1>10. ASSUME RetryRefused(w) PROVE Sound(n)' /\ Followed(n)'
  \* The row's budget ends the retries first.
  <2>1. r + 1 < MaxAttempts /\ r + 1 > MaxAttempts - 1
    BY <1>10, <1>b DEF RetryRefused, NextRetries, MaxRetries, TaskFits
  <2>2. QED
    BY <1>a, <1>b, <2>1
<1>11. ASSUME PublishDeadLetter(w) PROVE Sound(n)' /\ Followed(n)'
  <2>1. /\ pc' = [pc EXCEPT ![w] = "ack"] /\ dlq' = dlq \cup {n}
        /\ UNCHANGED <<ready, unacked, job, session, rows, attempts, deliveries>>
    BY <1>11 DEF PublishDeadLetter, Goto
  <2>2. Carriers
    BY <2>1, OwnTaskMoves DEF Outcome
  <2>3. Followed(n)'
    <3>1. rows[n].status = "FAILED"
      BY <1>11, <1>b DEF PublishDeadLetter, TaskFits
    <3>2. QED
      BY <2>1, <3>1 DEF Followed, Open, Settled, Terminal
  <2>4. FailedFits(n)'
    BY <2>1 DEF Sound, FailedFits, IsFailed
  <2>5. QED
    BY <1>c, <1>d, <2>1, <2>2, <2>3, <2>4
<1>12. ~Ack(w)
  BY <1>a DEF Ack
<1>13. QED
  BY <1>1, <1>2, <1>3, <1>4, <1>5, <1>6, <1>7, <1>8, <1>9, <1>10, <1>11, <1>12
  DEF WorkerStep

LEMMA OwnReceive ==
  ASSUME SafeInv, NEW n \in Notification, Sound(n),
         NEW w \in Worker, NEW t \in ready, t.id = n, Receive(w, t)
  PROVE  Sound(n)' /\ Followed(n)'
<1>1. /\ pc' = [pc EXCEPT ![w] = "load"] /\ job' = [job EXCEPT ![w] = t]
      /\ ready' = ready \ {t} /\ unacked' = unacked \cup {t}
      /\ UNCHANGED <<rows, session, dlq, logged, attempts, deliveries>>
      /\ pc[w] = "idle"
  BY DEF Receive, Deliver, Goto, dlqVars, historyVars
<1>2. pc \in [Worker -> PC] /\ job \in [Worker -> Ticket \cup {None}]
  BY SafeTypes
<1>3. /\ Id(w)' = n /\ pc'[w] = "load" /\ job'[w] = t
      /\ \A v \in Worker \ {w} :
           pc'[v] = pc[v] /\ job'[v] = job[v] /\ Id(v)' = Id(v)
  BY <1>1, <1>2 DEF Id
\* The ticket was n's only carrier.
<1>4. /\ \A u \in ready' : u.id # n
      /\ \A v \in Working' : v \in Worker /\ (Id(v)' = n => v = w)
      /\ w \in Working'
  <2>1. \A v \in Working' : v \in Worker /\ (v # w => v \in Working)
    BY <1>3 DEF Working
  <2>2. QED
    BY <1>1, <1>3, <2>1 DEF Sound, OneCarrierOf, Working
<1>5. UnackedHeldOf(n)'
  BY <1>1, <1>2 DEF Sound, UnackedHeldOf
<1>6. TaskFits(w)'
  <2>1. TicketFits(t)
    BY DEF Sound, CarriersFit
  <2>2. QED
    BY <1>1, <1>3, <2>1 DEF TaskFits, TicketFits, Waiting, Outcome
<1>7. OneCarrierOf(n)' /\ CarriersFit(n)'
  BY <1>4, <1>6 DEF OneCarrierOf, CarriersFit
<1>8. AnswersFitOf(n)'
  <2>1. Outcomes[n] = {"permanent"} => t.retries = 0
    BY DEF Sound, AnswersFitOf
  <2>2. QED
    BY <1>3, <1>4, <2>1 DEF AnswersFitOf, Outcome
<1>9. FailedFits(n)'
  <2>1. \A v \in Worker : pc[v] = "dead_letter" /\ Id(v) = n =>
          pc'[v] = "dead_letter" /\ Id(v)' = n
    BY <1>1, <1>3
  <2>2. QED
    BY <1>1, <2>1 DEF Sound, FailedFits, IsFailed
<1>10. Followed(n)'
  BY <1>3, <1>4 DEF Followed, Carried
<1>11. QED
  BY <1>1, <1>5, <1>7, <1>8, <1>9, <1>10 DEF Sound

LEMMA OwnAck ==
  ASSUME SafeInv, NEW n \in Notification, Sound(n),
         NEW w \in Worker, Id(w) = n, Ack(w)
  PROVE  Sound(n)' /\ (Followed(n) => Followed(n)')
<1>1. /\ pc[w] = "ack" /\ pc' = [pc EXCEPT ![w] = "idle"]
      /\ job' = [job EXCEPT ![w] = None] /\ unacked' = unacked \ {job[w]}
      /\ UNCHANGED <<ready, rows, dlq, logged, attempts, deliveries>>
      /\ \E copy : session' = [session EXCEPT ![w] = copy]
  BY DEF Ack, Acknowledge, Release, Close, dlqVars, historyVars
<1>2. /\ pc \in [Worker -> PC] /\ job \in [Worker -> Ticket \cup {None}]
      /\ session \in [Worker -> Row \cup {None}]
  BY SafeTypes
<1>3. /\ pc'[w] = "idle"
      /\ \A v \in Worker \ {w} :
           /\ pc'[v] = pc[v] /\ job'[v] = job[v] /\ session'[v] = session[v]
           /\ Id(v)' = Id(v)
  BY <1>1, <1>2 DEF Id
<1>4. /\ Working' = Working
      /\ \A v \in Working : v \in Worker \ {w}
  BY <1>1, <1>3 DEF Working
<1>5. UnackedHeldOf(n)'
  BY <1>1, <1>3 DEF Sound, UnackedHeldOf
<1>6. OneCarrierOf(n)' /\ AnswersFitOf(n)'
  BY <1>1, <1>3, <1>4 DEF Sound, OneCarrierOf, AnswersFitOf
<1>7. CarriersFit(n)'
  <2>1. \A t \in ready : t.id = n => TicketFits(t)'
    BY <1>1 DEF Sound, CarriersFit, TicketFits, Waiting
  <2>2. ASSUME NEW v \in Working, Id(v) = n PROVE TaskFits(v)'
    BY <1>1, <1>3, <1>4, <2>2 DEF Sound, CarriersFit, TaskFits, Waiting
  <2>3. QED
    BY <1>1, <1>3, <1>4, <2>1, <2>2 DEF CarriersFit
<1>8. FailedFits(n)'
  <2>1. \A v \in Worker : pc[v] = "dead_letter" => pc'[v] = "dead_letter" /\ Id(v)' = Id(v)
    BY <1>1, <1>3
  <2>2. QED
    BY <1>1, <2>1 DEF Sound, FailedFits, IsFailed
<1>9. Followed(n) => Followed(n)'
  BY <1>1, <1>3, <1>4 DEF Followed, Carried, Open
<1>10. QED
  BY <1>1, <1>5, <1>6, <1>7, <1>8, <1>9 DEF Sound

-----------------------------------------------------------------------------
(* One step of the system *)

\* Who a fault strikes.
Strikes(m) ==
  \/ \E w \in Worker :
       /\ pc[w] # "idle" /\ Id(w) = m
       /\ Crash(w) \/ TaskFails(w) \/ RetryPublishFails(w) \/ DeadLetterPublishFails(w)
  \/ \E t \in unacked : t.id = m /\ Redeliver(t)

\* A step that is no fault strikes nobody: a task's own steps keep its
\* notification sound, and Restore finds no ticket of a sound one.
LEMMA FaultlessStep ==
  ASSUME SafeInv, NEW n \in Notification, Sound(n), [Next]_vars, ~FaultStep
  PROVE  Sound(n)' /\ (Followed(n) => Followed(n)')
<1>1. ASSUME NEW w \in Worker, NEW t \in ready, Receive(w, t)
      PROVE  Sound(n)' /\ (Followed(n) => Followed(n)')
  BY <1>1, OwnReceive, BrokerElsewhere
<1>2. ASSUME NEW w \in Worker, WorkerStep(w)
      PROVE  Sound(n)' /\ (Followed(n) => Followed(n)')
  <2>1. pc[w] # "idle"
    BY <1>2 DEF WorkerStep, LoadMissing, LoadSettled, LoadOpen, BeginProcessing, Send,
                CommitSent, CommitRetry, CommitFailed, Retry, RetryRefused,
                PublishDeadLetter, Ack
  <2>2. CASE Id(w) # n
    BY <1>2, <2>1, <2>2, TaskElsewhere
  <2>3. CASE Id(w) = n /\ pc[w] # "ack"
    BY <1>2, <2>1, <2>3, OwnTaskStep DEF Working
  <2>4. CASE Id(w) = n /\ pc[w] = "ack"
    <3>1. Ack(w)
      BY <1>2, <2>4
      DEF WorkerStep, LoadMissing, LoadSettled, LoadOpen, BeginProcessing, Send,
          CommitSent, CommitRetry, CommitFailed, Retry, RetryRefused,
          PublishDeadLetter
    <3>2. QED
      BY <2>4, <3>1, OwnAck
  <2>5. QED
    BY <2>2, <2>3, <2>4
<1>3. ASSUME NEW w \in Worker, NEW m \in dlq, RecordDeadLetter(w, m)
      PROVE  Sound(n)' /\ (Followed(n) => Followed(n)')
  BY <1>3, BrokerElsewhere
<1>4. ASSUME NEW t \in unacked, Restore(t)
      PROVE  Sound(n)' /\ (Followed(n) => Followed(n)')
  <2>1. t.id # n
    BY <1>4 DEF Restore, Sound, UnackedHeldOf
  <2>2. QED
    BY <1>4, <2>1, BrokerElsewhere
<1>5. ASSUME UNCHANGED vars PROVE Sound(n)' /\ (Followed(n) => Followed(n)')
  <2>1. TicketsAs(n) /\ DataAs(n) /\ TasksAs(n)
    BY <1>5 DEF vars, brokerVars, workerVars, dlqVars, historyVars, TicketsAs, DataAs,
                TasksAs, Id
  <2>2. QED
    BY <2>1, SoundElsewhere
<1>6. QED
  BY <1>1, <1>2, <1>3, <1>4, <1>5 DEF Next, Idle

\* A fault strikes one notification, and is counted.
LEMMA FaultStrikesOne ==
  ASSUME SafeInv, FaultStep
  PROVE  /\ faults' = faults + 1
         /\ \E m \in Notification : Strikes(m)
<1>1. CASE \E w \in Worker :
             Crash(w) \/ TaskFails(w) \/ RetryPublishFails(w) \/ DeadLetterPublishFails(w)
  <2>1. PICK w \in Worker :
          Crash(w) \/ TaskFails(w) \/ RetryPublishFails(w) \/ DeadLetterPublishFails(w)
    BY <1>1
  <2>2. pc[w] # "idle" /\ faults' = faults + 1
    BY <2>1 DEF Crash, TaskFails, RetryPublishFails, DeadLetterPublishFails, Fault
  <2>3. Id(w) \in Notification
    BY <2>2, SafeTypes
  <2>4. QED
    BY <2>1, <2>2, <2>3 DEF Strikes
<1>2. CASE \E t \in unacked : Redeliver(t)
  <2>1. PICK t \in unacked : Redeliver(t)
    BY <1>2
  <2>2. t.id \in Notification
    BY SafeTypes, TicketFields
  <2>3. QED
    BY <2>1, <2>2 DEF Redeliver, Fault, Strikes
<1>3. QED
  BY <1>1, <1>2 DEF FaultStep

\* The others do not see it.
LEMMA StrikeElsewhere ==
  ASSUME SafeInv, NEW m \in Notification, Strikes(m),
         NEW n \in Notification, n # m, Sound(n)
  PROVE  Sound(n)' /\ (Followed(n) => Followed(n)')
<1>1. CASE \E w \in Worker :
             /\ pc[w] # "idle" /\ Id(w) = m
             /\ Crash(w) \/ TaskFails(w) \/ RetryPublishFails(w) \/ DeadLetterPublishFails(w)
  BY <1>1, TaskElsewhere
<1>2. CASE \E t \in unacked : t.id = m /\ Redeliver(t)
  BY <1>2, BrokerElsewhere
<1>3. QED
  BY <1>1, <1>2 DEF Strikes

\* One more member at most.
LEMMA OneMoreHurt ==
  ASSUME NEW S, IsFiniteSet(S), NEW T, NEW m, T \subseteq S \cup {m}
  PROVE  IsFiniteSet(T) /\ Cardinality(T) <= Cardinality(S) + 1
<1>1. /\ IsFiniteSet(S \cup {m})
      /\ Cardinality(S \cup {m}) \in {Cardinality(S), Cardinality(S) + 1}
  BY FS_AddElement
<1>2. IsFiniteSet(T) /\ Cardinality(T) <= Cardinality(S \cup {m})
  BY <1>1, FS_Subset
<1>3. Cardinality(S) \in Nat /\ Cardinality(T) \in Nat
  BY <1>2, FS_CardinalityType
<1>4. QED
  BY <1>1, <1>2, <1>3

LEMMA OnlyFaultsCount ==
  ASSUME [Next]_vars, ~FaultStep
  PROVE  faults' = faults
  BY DEF Next, Idle, vars, Receive, WorkerStep, LoadMissing, LoadSettled,
         LoadOpen, BeginProcessing, Send, CommitSent, CommitRetry, CommitFailed,
         Retry, RetryRefused, PublishDeadLetter, Ack, RecordDeadLetter, Restore

LEMMA DamageStep ==
  ASSUME DamageInv, SafeInv', [Next]_vars
  PROVE  DamageInv'
<1> USE DEF DamageInv
<1>1. faults \in Nat
  BY DEF SafeInv, TypeOK
<1>2. CASE FaultStep
  <2>1. PICK m \in Notification : Strikes(m)
    BY <1>2, FaultStrikesOne
  <2>2. Hurt' \subseteq Hurt \cup {m}
    BY <2>1, StrikeElsewhere DEF Hurt
  <2>3. IsFiniteSet(Hurt') /\ Cardinality(Hurt') <= Cardinality(Hurt) + 1
    BY <2>2, OneMoreHurt
  <2>4. Cardinality(Hurt) \in Nat /\ Cardinality(Hurt') \in Nat
    BY <2>3, FS_CardinalityType
  <2>5. faults' = faults + 1
    BY <1>2, FaultStrikesOne
  <2>6. QED
    BY <1>1, <2>3, <2>4, <2>5
<1>3. CASE ~FaultStep
  <2>1. Hurt' \subseteq Hurt
    BY <1>3, FaultlessStep DEF Hurt
  <2>2. IsFiniteSet(Hurt') /\ Cardinality(Hurt') <= Cardinality(Hurt)
    BY <2>1, FS_Subset
  <2>3. Cardinality(Hurt) \in Nat /\ Cardinality(Hurt') \in Nat
    BY <2>2, FS_CardinalityType
  <2>4. faults' = faults
    BY <1>3, OnlyFaultsCount
  <2>5. QED
    BY <1>1, <2>2, <2>3, <2>4
<1>4. QED
  BY <1>2, <1>3

LEMMA DamageInit == Init => DamageInv
<1> SUFFICES ASSUME Init PROVE DamageInv
  OBVIOUS
<1>1. SafeInv
  BY SafeInit
<1>2. ASSUME NEW n \in Notification PROVE Sound(n) /\ Followed(n)
  <2>1. Inv /\ OpenCarried
    BY NoDupInit, CarriedInit
  <2>2. /\ UnackedHeldOf(n) /\ OneCarrierOf(n) /\ CarriersFit(n)
        /\ deliveries[n] <= 1 /\ attempts[n] <= MaxAttempts
        /\ rows[n] # None => RowConsistent(rows[n])
    BY <2>1 DEF Inv, UnackedHeld, UnackedHeldOf, OneCarrier, OneCarrierOf, CarriersFit,
                AtMostOneDelivery, SendsWithinBudget, RowsConsistent
  <2>3. AnswersFitOf(n) /\ FailedFits(n)
    BY DEF Init, AnswersFitOf, Working, FailedFits, IsFailed, NewRow
  <2>4. QED
    BY <2>1, <2>2, <2>3 DEF Sound, Followed, OpenCarried
<1>3. Hurt = {} /\ IsFiniteSet({}) /\ Cardinality({}) = 0
  BY <1>2, FS_EmptySet DEF Hurt
<1>4. QED
  BY <1>1, <1>3 DEF Init, DamageInv

LEMMA DamageInvariant == Spec => []DamageInv
  BY DamageInit, DamageStep, SafeInvariant, PTL DEF Spec

\* What is sound and followed keeps its promises.
LEMMA SoundIsUnharmed ==
  ASSUME SafeInv, NEW n \in Notification, Sound(n), Followed(n)
  PROVE  Unharmed(n)
<1>1. Open(n) => InFlight(n)
  BY DEF Followed, Carried, InFlight
<1>2. ASSUME NEW w \in Worker, pc[w] = "dead_letter", Id(w) = n PROVE InFlight(n)
  BY <1>2 DEF InFlight, Working
<1>3. QED
  BY <1>1, <1>2 DEF Sound, FailedFits, IsFailed, Unharmed

\* However many workers run deliver_notification and whatever strikes them,
\* f faults break the promises of dispatch (one delivery, the attempt budget,
\* consistent columns, no open row lost, no FAILED row unburied or without a
\* reason) for at most f notifications: every other one is as well served as
\* in a system without faults.
THEOREM FaultsDamageOneEach == Spec => []DamageContained
<1>1. ASSUME DamageInv PROVE DamageContained
  <2> DEFINE Harmed == {n \in Notification : ~Unharmed(n)}
  <2>1. Harmed \subseteq Hurt
    BY <1>1, SoundIsUnharmed DEF Hurt, DamageInv
  <2>2. IsFiniteSet(Harmed) /\ Cardinality(Harmed) <= Cardinality(Hurt)
    BY <1>1, <2>1, FS_Subset DEF DamageInv
  <2>3. Cardinality(Hurt) \in Nat /\ Cardinality(Harmed) \in Nat /\ faults \in Nat
    BY <1>1, <2>2, FS_CardinalityType DEF DamageInv, SafeInv, TypeOK
  <2> HIDE DEF Harmed
  <2>4. Cardinality(Harmed) <= faults
    BY <1>1, <2>2, <2>3 DEF DamageInv
  <2>5. QED
    BY <2>4 DEF DamageContained, Harmed
<1>2. QED
  BY <1>1, DamageInvariant, PTL

-----------------------------------------------------------------------------
(* One notification, from the first ticket to the end *)

\* What a step may do to the row and the history of n.
KeepsRules(n) ==
  /\ (rows[n] # None /\ rows'[n].status # rows[n].status)
       => CanTransition(rows[n].status, rows'[n].status)
  /\ attempts'[n] # attempts[n] => ~Settled(rows[n])

\* A task of a sound notification commits from a copy that is its row, and
\* calls the provider for a row that is PROCESSING.
LEMMA SoundKeepsRules ==
  ASSUME SafeInv, NEW n \in Notification, Sound(n), [Next]_vars
  PROVE  KeepsRules(n)
<1>a. /\ rows \in [Notification -> Row \cup {None}]
      /\ attempts \in [Notification -> Nat]
      /\ \A w \in Worker : pc[w] # "idle" => Id(w) \in Notification
  BY SafeTypes
<1> USE DEF brokerVars, workerVars, dlqVars, historyVars
<1>1. ASSUME rows'[n] = rows[n], attempts'[n] = attempts[n] PROVE KeepsRules(n)
  BY <1>1 DEF KeepsRules
<1>2. CASE \E w \in Worker : Send(w)
  <2>1. PICK w \in Worker : Send(w)
    BY <1>2
  <2>2. /\ pc[w] = "send" /\ attempts' = [attempts EXCEPT ![Id(w)] = @ + 1]
        /\ rows' = rows
    BY <2>1 DEF Send
  <2>3. CASE Id(w) = n
    <3>1. rows[n].status = "PROCESSING"
      BY <2>2, <2>3 DEF Sound, CarriersFit, TaskFits, Working
    <3>2. QED
      BY <2>2, <3>1 DEF KeepsRules, Settled, Terminal
  <2>4. QED
    BY <1>1, <1>a, <2>2, <2>3
<1>3. CASE \E w \in Worker : Commits(w)
  <2>1. PICK w \in Worker : Commits(w)
    BY <1>3
  <2>2. /\ pc[w] \in {"begin"} \cup Outcome
        /\ UNCHANGED attempts
        /\ \E row : rows' = [rows EXCEPT ![Id(w)] = row]
    BY <2>1 DEF Commits, BeginProcessing, CommitSent, CommitRetry, CommitFailed,
                FailedAttempt, Update, Outcome
  <2>3. CASE Id(w) = n
    <3>1. /\ session[w] = rows[n] /\ rows[n] \in Row /\ session[w] \in Row
      <4>1. w \in Working
        BY <2>2 DEF Working, Outcome
      <4>2. rows[n] # None /\ session[w] = rows[n]
        BY <2>2, <2>3, <4>1 DEF Sound, CarriersFit, TaskFits, Outcome
      <4>3. QED
        BY <1>a, <4>2
    <3>2. \E status : /\ CanTransition(session[w].status, status)
                      /\ rows'[n].status = status
      <4>1. CASE BeginProcessing(w)
        BY <1>a, <2>3, <3>1, <4>1, BegunRow DEF BeginProcessing, Update
      <4>2. CASE CommitSent(w)
        BY <1>a, <2>3, <3>1, <4>2, SentRowFacts DEF CommitSent, Update
      <4>3. ASSUME NEW status \in Status, FailedAttempt(w, status)
            PROVE  rows'[n].status = status
        BY <1>a, <2>3, <3>1, <4>3, FailedRowFacts DEF FailedAttempt, Update
      <4>4. CASE CommitRetry(w) \/ CommitFailed(w)
        BY <4>3, <4>4 DEF CommitRetry, CommitFailed, Status
      <4>5. QED
        BY <2>1, <4>1, <4>2, <4>4 DEF Commits
    <3>3. QED
      BY <2>2, <3>1, <3>2 DEF KeepsRules
  <2>4. QED
    BY <1>1, <1>a, <2>2, <2>3
<1>4. ASSUME ~\E w \in Worker : Send(w), ~\E w \in Worker : Commits(w)
      PROVE  KeepsRules(n)
  <2>1. UNCHANGED <<rows, attempts>>
    BY <1>4
    DEF Next, WorkerStep, FaultStep, Idle, vars, Commits, Receive, LoadMissing,
        LoadSettled, LoadOpen, Retry, RetryRefused, PublishDeadLetter, Ack,
        RecordDeadLetter, Restore, Crash, Redeliver, TaskFails,
        RetryPublishFails, DeadLetterPublishFails
  <2>2. QED
    BY <1>1, <2>1
<1>5. QED
  BY <1>2, <1>3, <1>4

LEMMA UnstruckStep ==
  ASSUME SafeInv, NEW n \in Notification, Sound(n), [Next]_vars,
         [~Strikes(n)]_vars
  PROVE  Sound(n)' /\ (Followed(n) => Followed(n)')
<1>1. CASE FaultStep
  <2>1. PICK m \in Notification : Strikes(m)
    BY <1>1, FaultStrikesOne
  <2>2. faults' = faults + 1 /\ faults \in Nat
    BY <1>1, FaultStrikesOne DEF SafeInv, TypeOK
  <2>3. ~Strikes(n)
    BY <2>2 DEF vars
  <2>4. QED
    BY <2>1, <2>3, StrikeElsewhere
<1>2. QED
  BY <1>1, FaultlessStep

\* A notification that no fault strikes (its own task is not killed, its own
\* publishes go through, its own ticket is not duplicated) keeps every promise
\* and follows the table of state_machine.py, whatever crashes, failures and
\* redeliveries the other notifications go through.
THEOREM UnstruckIsUnharmed ==
  ASSUME NEW n \in Notification
  PROVE  Spec /\ [][~Strikes(n)]_vars => []Unharmed(n) /\ [][KeepsRules(n)]_vars
<1> DEFINE I == SafeInv /\ Sound(n) /\ Followed(n)
<1>1. Init => I
  <2>1. ASSUME Init PROVE n \notin Hurt
    <3>1. DamageInv /\ faults = 0
      BY <2>1, DamageInit DEF Init
    <3>2. Cardinality(Hurt) = 0
      <4>1. Cardinality(Hurt) \in Nat
        BY <3>1, FS_CardinalityType DEF DamageInv
      <4>2. QED
        BY <3>1, <4>1 DEF DamageInv
    <3>3. QED
      BY <3>1, <3>2, FS_EmptySet DEF DamageInv
  <2>2. QED
    BY <2>1, SafeInit DEF Hurt
<1>2. I /\ SafeInv' /\ [Next]_vars /\ [~Strikes(n)]_vars => I'
  BY UnstruckStep
<1>3. I => Unharmed(n)
  BY SoundIsUnharmed
<1>4. I /\ [Next]_vars => [KeepsRules(n)]_vars
  BY SoundKeepsRules
<1> HIDE DEF I
<1>5. QED
  BY <1>1, <1>2, <1>3, <1>4, SafeInvariant, PTL DEF Spec
=============================================================================
