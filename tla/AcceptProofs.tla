---------------------------- MODULE AcceptProofs ----------------------------
(***************************************************************************)
(* Theorems about Accept, for any number of concurrent requests, clients   *)
(* and keys and any faults.                                                *)
(***************************************************************************)
EXTENDS Accept, FiniteSetTheorems, TLAPS

\* No two rows answer to the same client and key.
UniqueRows ==
  \A m, n \in Notification :
    (rows[m] # None /\ rows[n] # None /\ SameRequest(m, n)) => m = n

\* What a request's step says about its own row, ticket and answer.
StepFits(r) ==
  /\ step[r] \in {"lookup", "insert", "recover"} => rows[r] = None
  /\ step[r] = "enqueue" => rows[r] # None
  /\ step[r] # "done" => published[r] = 0 /\ reply[r] = None

\* An answer names a row that is there and is what the request asked for.
AnswerFits(r) ==
  IsAccepted(r) =>
    /\ reply[r].id \in Notification
    /\ rows[reply[r].id] # None
    /\ SameRequest(r, reply[r].id)

Inv ==
  /\ TypeOK
  /\ UniqueRows
  /\ EnqueuedOnceAfterCommit
  /\ \A r \in Request : StepFits(r) /\ AnswerFits(r)

LEMMA NewRowType == NewRow \in Row /\ NewRow # None /\ NewRow.status = "PENDING"
<1>1. NewRow \in Row
  BY DEF NewRow, Row, Status
<1>2. NewRow.status = "PENDING"
  BY DEF NewRow
<1>3. QED
  BY <1>1, <1>2, NoneAssumption

LEMMA InitInv == Init => Inv
  BY DEF Init, Inv, TypeOK, BrokerTypeOK, Step, UniqueRows, EnqueuedOnceAfterCommit,
         StepFits, AnswerFits, IsAccepted, Request

LEMMA StepInv == Inv /\ [Next]_vars => Inv'
<1> SUFFICES ASSUME Inv, [Next]_vars PROVE Inv'
  OBVIOUS
<1> USE DEF Inv, TypeOK, BrokerTypeOK, Request
<1>1. ASSUME NEW r \in Request, Replay(r) \/ ReadWinner(r) PROVE Inv'
  <2>1. PICK n \in FindByKey(r) :
          /\ step' = [step EXCEPT ![r] = "done"]
          /\ reply' = [reply EXCEPT ![r] =
                         [code |-> 202, id |-> n, status |-> rows[n].status]]
    BY <1>1 DEF Replay, ReadWinner, ReplyWith, Finish, Proceed
  <2>2. UNCHANGED <<ready, unacked, published, rows, requestFaults>>
    BY <1>1 DEF Replay, ReadWinner, brokerVars
  <2>3. n \in Notification /\ rows[n] # None /\ SameRequest(r, n)
    BY <1>1, <2>1 DEF FindByKey, SameRequest, Replay, ReadWinner
  <2>4. rows[n].status \in Status
    BY <2>3 DEF Row
  <2>5. TypeOK'
    BY <2>1, <2>2, <2>3, <2>4 DEF Step, Accepted
  <2>6. UniqueRows' /\ EnqueuedOnceAfterCommit'
    BY <2>2 DEF UniqueRows, EnqueuedOnceAfterCommit
  <2>7. \A s \in Request : StepFits(s)'
    BY <2>1, <2>2 DEF StepFits, Step
  <2>8. \A s \in Request : AnswerFits(s)'
    BY <2>1, <2>2, <2>3 DEF AnswerFits, IsAccepted
  <2>9. QED
    BY <2>5, <2>6, <2>7, <2>8
<1>2. ASSUME NEW r \in Request, LookupMisses(r) \/ LoseRace(r) \/ CommitRefused(r)
      PROVE  Inv'
  <2>1. PICK label \in {"insert", "recover"} : step' = [step EXCEPT ![r] = label]
    BY <1>2 DEF LookupMisses, LoseRace, CommitRefused, Proceed
  <2>2. /\ UNCHANGED <<ready, unacked, published, rows, reply>>
        /\ requestFaults' \in Nat
        /\ step[r] \in {"lookup", "insert"}
    BY <1>2 DEF LookupMisses, LoseRace, CommitRefused, RequestFault, brokerVars
  <2>3. TypeOK'
    BY <2>1, <2>2 DEF Step
  <2>4. UniqueRows' /\ EnqueuedOnceAfterCommit'
    BY <2>2 DEF UniqueRows, EnqueuedOnceAfterCommit
  <2>5. \A s \in Request : StepFits(s)'
    BY <2>1, <2>2 DEF StepFits, Step
  <2>6. \A s \in Request : AnswerFits(s)'
    BY <2>2 DEF AnswerFits, IsAccepted
  <2>7. QED
    BY <2>3, <2>4, <2>5, <2>6
<1>3. ASSUME NEW r \in Request, NEW label \in {"enqueue", "done"}, NEW answer,
             step[r] = "insert", ~Conflict(r),
             rows' = [rows EXCEPT ![r] = NewRow],
             step' = [step EXCEPT ![r] = label],
             reply' = [reply EXCEPT ![r] = answer],
             answer \in {None, [code |-> 500]},
             label = "enqueue" => answer = None,
             UNCHANGED brokerVars, requestFaults' \in Nat
      PROVE  Inv'
  \* The commit of a row, seen or not seen by the request.
  <2>1. UNCHANGED <<ready, unacked, published>>
    BY <1>3 DEF brokerVars
  <2>2. TypeOK'
    BY <1>3, <2>1, NewRowType DEF Step, Refused
  <2>3. UniqueRows'
    <3>1. \A n \in Notification : rows[n] # None => n = r \/ ~SameRequest(r, n)
      BY <1>3 DEF Conflict, SameRequest
    <3>2. \A m, n \in Notification : SameRequest(m, n) <=> SameRequest(n, m)
      BY DEF SameRequest
    <3>3. QED
      BY <1>3, <3>1, <3>2 DEF UniqueRows
  <2>4. EnqueuedOnceAfterCommit'
    BY <1>3, <2>1, NewRowType DEF EnqueuedOnceAfterCommit
  <2>5. \A s \in Request : AnswerFits(s)'
    BY <1>3, NewRowType DEF AnswerFits, IsAccepted
  <2>6. \A s \in Request : StepFits(s)'
    BY <1>3, <2>1, NewRowType DEF StepFits, Step
  <2>7. QED
    BY <2>2, <2>3, <2>4, <2>5, <2>6
<1>4. ASSUME NEW r \in Request, CommitRow(r) PROVE Inv'
  <2>1. reply' = [reply EXCEPT ![r] = None]
    BY <1>4 DEF CommitRow, StepFits
  <2>2. QED
    BY <1>3, <1>4, <2>1 DEF CommitRow, Proceed
<1>5. ASSUME NEW r \in Request, NEW answer, step[r] # "done",
             answer \in Refused \cup {None},
             step' = [step EXCEPT ![r] = "done"],
             reply' = [reply EXCEPT ![r] = answer],
             UNCHANGED <<rows, brokerVars>>, requestFaults' \in Nat
      PROVE  Inv'
  \* A request that ends and leaves nothing behind.
  <2>1. UNCHANGED <<ready, unacked, published>>
    BY <1>5 DEF brokerVars
  <2>2. TypeOK'
    BY <1>5, <2>1 DEF Step
  <2>3. UniqueRows' /\ EnqueuedOnceAfterCommit'
    BY <1>5, <2>1 DEF UniqueRows, EnqueuedOnceAfterCommit
  <2>4. \A s \in Request : StepFits(s)'
    BY <1>5, <2>1 DEF StepFits, Step
  <2>5. answer # None => answer.code # 202
    BY <1>5 DEF Refused
  <2>6. \A s \in Request : AnswerFits(s)'
    BY <1>5, <2>5 DEF AnswerFits, IsAccepted
  <2>7. QED
    BY <2>2, <2>3, <2>4, <2>6
<1>6. ASSUME NEW r \in Request, CommitFails(r) PROVE Inv'
  <2>1. /\ step[r] = "insert" /\ requestFaults' \in Nat
        /\ step' = [step EXCEPT ![r] = "done"]
        /\ reply' = [reply EXCEPT ![r] = [code |-> 500]]
        /\ UNCHANGED brokerVars
    BY <1>6 DEF CommitFails, Finish, Proceed, RequestFault
  <2>2. CASE UNCHANGED rows
    <3>1. [code |-> 500] \in Refused \cup {None}
      BY DEF Refused
    <3>2. step[r] # "done" /\ UNCHANGED <<rows, brokerVars>>
      BY <2>1, <2>2
    <3>3. QED
      BY ZenonT(30), <1>5, <2>1, <3>1, <3>2
  <2>3. CASE ~Conflict(r) /\ rows' = [rows EXCEPT ![r] = NewRow]
    BY ZenonT(30), <1>3, <2>1, <2>3
  <2>4. QED
    BY <1>6, <2>2, <2>3 DEF CommitFails
<1>7. ASSUME NEW r \in Request, NEW answer, step[r] = "enqueue",
             answer \in Refused \cup {[code |-> 202, id |-> r, status |-> "PENDING"]},
             Publish(r, 0, 0),
             step' = [step EXCEPT ![r] = "done"],
             reply' = [reply EXCEPT ![r] = answer],
             UNCHANGED rows, requestFaults' \in Nat
      PROVE  Inv'
  \* The publish, confirmed or not.
  <2>1. rows[r] # None /\ published[r] = 0
    BY <1>7 DEF StepFits
  <2>2. TypeOK'
    BY <1>7 DEF Publish, Ticket, Step, Accepted, Status
  <2>3. UniqueRows'
    BY <1>7 DEF UniqueRows
  <2>4. EnqueuedOnceAfterCommit'
    BY <1>7, <2>1 DEF EnqueuedOnceAfterCommit, Publish
  <2>5. \A s \in Request : StepFits(s)'
    BY <1>7 DEF StepFits, Step, Publish
  <2>6. \A s \in Request : AnswerFits(s)'
    BY <1>7, <2>1 DEF AnswerFits, IsAccepted, Refused, SameRequest
  <2>7. QED
    BY <2>2, <2>3, <2>4, <2>5, <2>6
<1>8. ASSUME NEW r \in Request, Enqueue(r) PROVE Inv'
  BY <1>7, <1>8, NewRowType DEF Enqueue, ReplyWith, Finish, Proceed
<1>9. ASSUME NEW r \in Request, EnqueueFails(r) PROVE Inv'
  <2>1. /\ step[r] = "enqueue" /\ requestFaults' \in Nat
        /\ step' = [step EXCEPT ![r] = "done"]
        /\ reply' = [reply EXCEPT ![r] = [code |-> 503]]
        /\ UNCHANGED rows
        /\ [code |-> 503] \in Refused
    BY <1>9 DEF EnqueueFails, Finish, Proceed, RequestFault, Refused
  <2>2. CASE Publish(r, 0, 0)
    BY ZenonT(30), <1>7, <2>1, <2>2
  <2>3. CASE UNCHANGED brokerVars
    BY ZenonT(30), <1>5, <2>1, <2>3
  <2>4. QED
    BY <1>9, <2>2, <2>3 DEF EnqueueFails
<1>10. ASSUME NEW r \in Request, RequestDies(r) PROVE Inv'
  <2>1. reply' = [reply EXCEPT ![r] = None]
    BY <1>10 DEF RequestDies, StepFits
  <2>2. QED
    <3>1. /\ step[r] # "done"
          /\ step' = [step EXCEPT ![r] = "done"]
          /\ UNCHANGED <<rows, brokerVars>>
          /\ requestFaults' \in Nat
      BY <1>10 DEF RequestDies, Proceed, RequestFault
    <3>2. QED
      BY <1>5, <2>1, <3>1
<1>11. ASSUME NEW r \in Request, SelectFails(r) \/ Reraise(r) PROVE Inv'
  <2>1. /\ step[r] # "done" /\ requestFaults' \in Nat
        /\ step' = [step EXCEPT ![r] = "done"]
        /\ reply' = [reply EXCEPT ![r] = [code |-> 500]]
        /\ UNCHANGED <<rows, brokerVars>>
        /\ [code |-> 500] \in Refused \cup {None}
    BY <1>11 DEF SelectFails, Reraise, Finish, Proceed, RequestFault, Refused
  <2>2. QED
    BY ZenonT(30), <1>5, <2>1
<1>12. ASSUME UNCHANGED vars PROVE Inv'
  <2>1. UNCHANGED <<ready, unacked, published, rows, step, reply, requestFaults>>
    BY <1>12 DEF vars, brokerVars, requestVars
  <2>2. QED
    BY <2>1 DEF UniqueRows, EnqueuedOnceAfterCommit, StepFits, AnswerFits,
                IsAccepted
<1>13. QED
  BY <1>1, <1>2, <1>4, <1>6, <1>8, <1>9, <1>10, <1>11, <1>12
  DEF Next, RequestStep, RequestFaultStep, AllDone

LEMMA Invariance == Spec => []Inv
  BY InitInv, StepInv, PTL DEF Spec

\* Every variable of the accepting side keeps its type, whatever requests race
\* and fail.
THEOREM TypeCorrect == Spec => []TypeOK
<1>1. Inv => TypeOK
  BY DEF Inv
<1>2. QED
  BY <1>1, Invariance, PTL

\* Whatever requests race and whatever fails, an id is enqueued at most once,
\* and only when its row is committed; replays and lost races enqueue nothing.
THEOREM EnqueueIsSafe == Spec => []EnqueuedOnceAfterCommit
<1>1. Inv => EnqueuedOnceAfterCommit
  BY DEF Inv
<1>2. QED
  BY <1>1, Invariance, PTL

\* One client's key names one notification in every 202, for any number of
\* clients, keys, requests and faults.
THEOREM KeysAreIdempotent == Spec => []OneNotificationPerKey
<1>1. ASSUME Inv PROVE OneNotificationPerKey
  <2> SUFFICES ASSUME NEW r \in Request, NEW s \in Request,
                      IsAccepted(r), IsAccepted(s)
               PROVE  reply[r].id = reply[s].id <=> SameRequest(r, s)
    BY DEF OneNotificationPerKey
  <2>1. /\ reply[r].id \in Notification /\ rows[reply[r].id] # None
        /\ SameRequest(r, reply[r].id)
        /\ reply[s].id \in Notification /\ rows[reply[s].id] # None
        /\ SameRequest(s, reply[s].id)
    BY <1>1 DEF Inv, AnswerFits
  <2>2. reply[r].id = reply[s].id => SameRequest(r, s)
    BY <2>1 DEF SameRequest
  <2>3. SameRequest(r, s) => SameRequest(reply[r].id, reply[s].id)
    BY <2>1 DEF SameRequest
  <2>4. QED
    BY <1>1, <2>1, <2>2, <2>3 DEF Inv, UniqueRows
<1>2. QED
  BY <1>1, Invariance, PTL

-----------------------------------------------------------------------------
(* Refinement *)

LEMMA AbstractInit == Init => Abstract!Init
<1> SUFFICES ASSUME Init PROVE Abstract!Init
  OBVIOUS
<1>1. Created = {}
  BY DEF Init, Created
<1>2. AnswerOf = [r \in Request |-> None]
  BY DEF Init, AnswerOf, IsAccepted, Request
<1>3. QED
  BY <1>1, <1>2 DEF Abstract!Init

LEMMA AbstractStep == Inv /\ [Next]_vars => [Abstract!Next]_(Abstract!vars)
<1> SUFFICES ASSUME Inv, [Next]_vars PROVE [Abstract!Next]_(Abstract!vars)
  OBVIOUS
<1> USE DEF Inv, TypeOK, Request
\* A 202 is the abstract answer.
<1>1. ASSUME NEW r \in Request, step[r] # "done", UNCHANGED rows,
             NEW n \in Notification, NEW status \in Status, rows[n] # None,
             SameRequest(r, n),
             reply' = [reply EXCEPT ![r] =
                         [code |-> 202, id |-> n, status |-> status]]
      PROVE  Abstract!Next
  <2>1. Created' = Created /\ n \in Created
    BY <1>1 DEF Created
  <2>2. AnswerOf[r] = None
    BY <1>1 DEF AnswerOf, IsAccepted, StepFits
  <2>3. AnswerOf' = [AnswerOf EXCEPT ![r] = n]
    <3>1. [code |-> 202, id |-> n, status |-> status] # None
      BY <1>1, AcceptAssumption DEF Accepted
    <3>2. QED
      BY <1>1, <3>1 DEF AnswerOf, IsAccepted
  <2>4. Abstract!Same(r, n)
    BY <1>1 DEF SameRequest, Abstract!Same
  <2>5. Abstract!Answer(r)
    BY <2>1, <2>2, <2>3, <2>4 DEF Abstract!Answer
  <2>6. QED
    BY <2>5 DEF Abstract!Next
\* An answer other than 202 is not seen.
<1>2. ASSUME NEW r \in Request, step[r] # "done", NEW answer \in Refused,
             reply' = [reply EXCEPT ![r] = answer]
      PROVE  AnswerOf' = AnswerOf
  <2>1. answer.code # 202
    BY <1>2 DEF Refused
  <2>2. QED
    BY <1>2, <2>1 DEF AnswerOf, IsAccepted, StepFits
\* A commit is the abstract creation.
<1>3. ASSUME NEW r \in Request, step[r] = "insert", ~Conflict(r),
             rows' = [rows EXCEPT ![r] = NewRow], AnswerOf' = AnswerOf
      PROVE  Abstract!Next
  <2>1. Created' = Created \cup {r}
    BY <1>3, NewRowType DEF Created
  <2>2. \A n \in Created : ~Abstract!Same(r, n)
    BY <1>3 DEF Created, Abstract!Same, Conflict, StepFits
  <2>3. Abstract!Create(r)
    BY <1>3, <2>1, <2>2 DEF Abstract!Create
  <2>4. QED
    BY <2>3 DEF Abstract!Next
<1>4. ASSUME UNCHANGED rows, AnswerOf' = AnswerOf
      PROVE  UNCHANGED Abstract!vars
  BY <1>4 DEF Created, Abstract!vars
<1>5. ASSUME UNCHANGED reply PROVE AnswerOf' = AnswerOf
  BY <1>5 DEF AnswerOf, IsAccepted
<1>6. ASSUME NEW r \in Request, Replay(r) \/ ReadWinner(r) PROVE Abstract!Next
  <2>1. PICK n \in FindByKey(r) :
          reply' = [reply EXCEPT ![r] =
                      [code |-> 202, id |-> n, status |-> rows[n].status]]
    BY <1>6 DEF Replay, ReadWinner, ReplyWith, Finish
  <2>2. UNCHANGED rows /\ step[r] # "done"
    BY <1>6 DEF Replay, ReadWinner
  <2>3. n \in Notification /\ rows[n] # None /\ SameRequest(r, n)
    BY <1>6, <2>1 DEF FindByKey, SameRequest, Replay, ReadWinner
  <2>4. rows[n].status \in Status
    BY <2>3 DEF Row
  <2>5. QED
    BY <1>1, <2>1, <2>2, <2>3, <2>4
<1>7. ASSUME NEW r \in Request, LookupMisses(r) \/ LoseRace(r) \/ CommitRefused(r)
      PROVE  UNCHANGED Abstract!vars
  BY <1>4, <1>5, <1>7 DEF LookupMisses, LoseRace, CommitRefused
<1>8. ASSUME NEW r \in Request, CommitRow(r) PROVE Abstract!Next
  BY <1>3, <1>5, <1>8 DEF CommitRow
<1>9. ASSUME NEW r \in Request, Enqueue(r) PROVE Abstract!Next
  <2>1. step[r] # "done" /\ UNCHANGED rows
    BY <1>9 DEF Enqueue
  <2>2. rows[r] # None /\ SameRequest(r, r)
    BY <1>9 DEF Enqueue, StepFits, SameRequest
  <2>3. reply' = [reply EXCEPT ![r] =
                    [code |-> 202, id |-> r, status |-> NewRow.status]]
    BY <1>9 DEF Enqueue, ReplyWith, Finish
  <2>4. NewRow.status \in Status
    BY NewRowType DEF Status
  <2>5. QED
    BY <1>1, <2>1, <2>2, <2>3, <2>4
<1>10. ASSUME NEW r \in Request, EnqueueFails(r) PROVE UNCHANGED Abstract!vars
  <2>1. step[r] # "done" /\ UNCHANGED rows
        /\ reply' = [reply EXCEPT ![r] = [code |-> 503]]
    BY <1>10 DEF EnqueueFails, Finish
  <2>2. [code |-> 503] \in Refused
    BY DEF Refused
  <2>3. AnswerOf' = AnswerOf
    BY ZenonT(30), <1>2, <2>1, <2>2
  <2>4. QED
    BY <1>4, <2>1, <2>3
<1>11. ASSUME NEW r \in Request, CommitFails(r) PROVE [Abstract!Next]_(Abstract!vars)
  <2>1. step[r] = "insert" /\ reply' = [reply EXCEPT ![r] = [code |-> 500]]
    BY <1>11 DEF CommitFails, Finish
  <2>2. [code |-> 500] \in Refused
    BY DEF Refused
  <2>3. AnswerOf' = AnswerOf
    BY ZenonT(30), <1>2, <2>1, <2>2
  <2>4. CASE UNCHANGED rows
    BY <1>4, <2>3, <2>4
  <2>5. CASE ~Conflict(r) /\ rows' = [rows EXCEPT ![r] = NewRow]
    BY <1>3, <2>1, <2>3, <2>5
  <2>6. QED
    BY <1>11, <2>4, <2>5 DEF CommitFails
<1>12. ASSUME NEW r \in Request, RequestDies(r) PROVE UNCHANGED Abstract!vars
  BY <1>4, <1>5, <1>12 DEF RequestDies
<1>13. ASSUME NEW r \in Request, SelectFails(r) \/ Reraise(r)
      PROVE  UNCHANGED Abstract!vars
  <2>1. step[r] # "done" /\ UNCHANGED rows
        /\ reply' = [reply EXCEPT ![r] = [code |-> 500]]
    BY <1>13 DEF SelectFails, Reraise, Finish
  <2>2. [code |-> 500] \in Refused
    BY DEF Refused
  <2>3. AnswerOf' = AnswerOf
    BY ZenonT(30), <1>2, <2>1, <2>2
  <2>4. QED
    BY <1>4, <2>1, <2>3
<1>14. ASSUME UNCHANGED vars PROVE UNCHANGED Abstract!vars
  BY <1>4, <1>5, <1>14 DEF vars, requestVars
<1>15. QED
  BY <1>6, <1>7, <1>8, <1>9, <1>10, <1>11, <1>12, <1>13, <1>14
  DEF Next, RequestStep, RequestFaultStep, AllDone

\* The lookup, the unique index and the recovery of NotificationService.accept
\* together behave like one atomic look-up-or-create, whatever requests race
\* and whatever fails.
THEOREM Refinement == Spec => ImplementsIdempotency
<1>1. Init => Abstract!Init
  BY AbstractInit
<1>2. Inv /\ [Next]_vars => [Abstract!Next]_(Abstract!vars)
  BY AbstractStep
<1>3. QED
  BY <1>1, <1>2, Invariance, PTL DEF Spec, ImplementsIdempotency, Abstract!Spec
-----------------------------------------------------------------------------
(* What a fault costs *)

\* Rows that are left to nobody: committed, not enqueued, their request over.
Stranded ==
  {n \in Notification : rows[n] # None /\ published[n] = 0 /\ step[n] = "done"}

FaultsStrand == IsFiniteSet(Stranded) /\ Cardinality(Stranded) <= requestFaults

LEMMA StrandedGrows ==
  ASSUME Inv, [Next]_vars
  PROVE  \/ Stranded' \subseteq Stranded /\ requestFaults' = requestFaults
         \/ /\ \E r \in Notification : Stranded' \subseteq Stranded \cup {r}
            /\ requestFaults' = requestFaults + 1
<1>a. /\ rows \in [Notification -> Row \cup {None}]
      /\ published \in [Notification -> Nat]
      /\ step \in [Notification -> Step]
      /\ \A r \in Notification : StepFits(r)
  BY DEF Inv, TypeOK, BrokerTypeOK, Request
<1>1. ASSUME NEW r \in Notification,
             Replay(r) \/ LookupMisses(r) \/ LoseRace(r) \/ ReadWinner(r) \/ Reraise(r)
      PROVE  Stranded' \subseteq Stranded /\ requestFaults' = requestFaults
  <2>1. /\ rows[r] = None
        /\ UNCHANGED <<rows, published, requestFaults>>
        /\ \A n \in Notification \ {r} : step'[n] = step[n]
    BY <1>1, <1>a
    DEF Replay, LookupMisses, LoseRace, ReadWinner, Reraise, ReplyWith, Finish,
        Proceed, brokerVars, StepFits
  <2>2. QED
    BY <2>1 DEF Stranded
<1>2. ASSUME NEW r \in Notification, CommitRow(r)
      PROVE  Stranded' \subseteq Stranded /\ requestFaults' = requestFaults
  BY <1>2, <1>a DEF CommitRow, Proceed, brokerVars, Stranded
<1>3. ASSUME NEW r \in Notification, Enqueue(r)
      PROVE  Stranded' \subseteq Stranded /\ requestFaults' = requestFaults
  <2>1. /\ rows' = rows /\ requestFaults' = requestFaults
        /\ published' = [published EXCEPT ![r] = @ + 1]
        /\ \A n \in Notification \ {r} : step'[n] = step[n]
    BY <1>3, <1>a DEF Enqueue, Publish, ReplyWith, Finish, Proceed
  <2>2. published'[r] # 0 /\ \A n \in Notification \ {r} : published'[n] = published[n]
    BY <1>a, <2>1
  <2>3. QED
    BY <2>1, <2>2 DEF Stranded
<1>4. ASSUME NEW r \in Notification, RequestFaultStep(r)
      PROVE  Stranded' \subseteq Stranded \cup {r} /\ requestFaults' = requestFaults + 1
  <2>1. \A n \in Notification \ {r} :
          rows'[n] = rows[n] /\ published'[n] = published[n] /\ step'[n] = step[n]
    BY <1>4, <1>a
    DEF RequestFaultStep, EnqueueFails, CommitFails, CommitRefused, SelectFails,
        RequestDies, Publish, Finish, Proceed, brokerVars
  <2>2. requestFaults' = requestFaults + 1
    BY <1>4 DEF RequestFaultStep, EnqueueFails, CommitFails, CommitRefused,
                SelectFails, RequestDies, RequestFault
  <2>3. QED
    BY <2>1, <2>2 DEF Stranded
<1>5. CASE UNCHANGED vars
  BY <1>5 DEF vars, brokerVars, requestVars, Stranded
<1>6. QED
  BY <1>1, <1>2, <1>3, <1>4, <1>5 DEF Next, AllDone, RequestStep, Request

\* A finite set that grows by one element at most.
LEMMA GrowByOne ==
  ASSUME NEW S, NEW T, NEW r, IsFiniteSet(S), T \subseteq S \cup {r}
  PROVE  /\ IsFiniteSet(T)
         /\ Cardinality(S) \in Nat /\ Cardinality(T) \in Nat
         /\ Cardinality(T) <= Cardinality(S) + 1
         /\ T \subseteq S => Cardinality(T) <= Cardinality(S)
<1>1. /\ IsFiniteSet(S \cup {r}) /\ Cardinality(S) \in Nat
      /\ Cardinality(S \cup {r}) \in Nat
      /\ Cardinality(S \cup {r}) <= Cardinality(S) + 1
  <2>1. Cardinality(S) \in Nat
    BY FS_CardinalityType
  <2>2. QED
    BY <2>1, FS_AddElement, FS_CardinalityType
<1>2. /\ IsFiniteSet(T) /\ Cardinality(T) \in Nat
      /\ Cardinality(T) <= Cardinality(S \cup {r})
  BY <1>1, FS_Subset, FS_CardinalityType
<1>3. T \subseteq S => Cardinality(T) <= Cardinality(S)
  BY FS_Subset
<1>4. QED
  BY <1>1, <1>2, <1>3

LEMMA StrandStep == Inv /\ FaultsStrand /\ [Next]_vars => FaultsStrand'
<1> SUFFICES ASSUME Inv, FaultsStrand, [Next]_vars PROVE FaultsStrand'
  OBVIOUS
<1>1. requestFaults \in Nat
  BY DEF Inv, TypeOK
<1>2. PICK r : /\ Stranded' \subseteq Stranded \cup {r}
               /\ \/ Stranded' \subseteq Stranded /\ requestFaults' = requestFaults
                  \/ requestFaults' = requestFaults + 1
  BY StrandedGrows
<1>3. IsFiniteSet(Stranded) /\ Cardinality(Stranded) <= requestFaults
  BY DEF FaultsStrand
<1>4. /\ IsFiniteSet(Stranded') /\ Cardinality(Stranded) \in Nat
      /\ Cardinality(Stranded') \in Nat
      /\ Cardinality(Stranded') <= Cardinality(Stranded) + 1
      /\ Stranded' \subseteq Stranded => Cardinality(Stranded') <= Cardinality(Stranded)
  BY <1>2, <1>3, GrowByOne
<1>5. QED
  BY <1>1, <1>2, <1>3, <1>4 DEF FaultsStrand

\* A publish that fails, a commit that raises and a process that dies strand
\* one row each, and nothing else does: races and replays leave none behind.
THEOREM EachFaultStrandsOne == Spec => []FaultsStrand
<1>1. Init => FaultsStrand
  <2>1. Init => Stranded = {} /\ requestFaults = 0
    BY DEF Init, Stranded
  <2>2. QED
    BY <2>1, FS_EmptySet DEF FaultsStrand
<1>2. QED
  BY <1>1, StrandStep, Invariance, PTL DEF Spec

\* Until a fault happens a 202, a replay's as well, is for a notification that
\* is enqueued: README's "persist + enqueue" needs no luck, only no fault.
THEOREM EnqueuedUnlessFault ==
  Spec => [](requestFaults = 0 => AcceptedIsEnqueued)
<1>1. ASSUME Inv, FaultsStrand, requestFaults = 0 PROVE AcceptedIsEnqueued
  <2>1. Stranded = {}
    <3>1. IsFiniteSet(Stranded) /\ Cardinality(Stranded) \in Nat
          /\ Cardinality(Stranded) <= 0
      BY <1>1, FS_CardinalityType DEF FaultsStrand
    <3>2. QED
      BY <3>1, FS_EmptySet
  <2>2. \A r \in Notification :
          IsAccepted(r) => reply[r].id \in Notification /\ rows[reply[r].id] # None
    BY <1>1 DEF Inv, AnswerFits, Request
  <2>3. \A n \in Notification : published[n] \in Nat
    BY <1>1 DEF Inv, TypeOK, BrokerTypeOK
  <2>4. QED
    BY <2>1, <2>2, <2>3 DEF Stranded, AcceptedIsEnqueued, Request
<1>2. QED
  BY <1>1, EachFaultStrandsOne, Invariance, PTL

\* Requests that are refused, or can only be: over without a 202, or left with
\* an IntegrityError and no winner to answer with.
Doomed ==
  {r \in Request :
     \/ step[r] = "done" /\ ~IsAccepted(r)
     \/ step[r] = "recover" /\ (KeyOf[r] = None \/ FindByKey(r) = {})}

FaultsDoom == IsFiniteSet(Doomed) /\ Cardinality(Doomed) <= requestFaults

LEMMA DoomedGrows ==
  ASSUME Inv, [Next]_vars
  PROVE  \/ Doomed' \subseteq Doomed /\ requestFaults' = requestFaults
         \/ /\ \E r \in Request : Doomed' \subseteq Doomed \cup {r}
            /\ requestFaults' = requestFaults + 1
<1>a. /\ reply \in [Request -> Accepted \cup Refused \cup {None}]
      /\ step \in [Request -> Step]
      /\ rows \in [Request -> Row \cup {None}]
  BY DEF Inv, TypeOK, Request
\* Rows are never taken away, so a winner stays one.
<1>b. \A r \in Request : FindByKey(r) \subseteq FindByKey(r)'
  <2>1. UNCHANGED rows \/ \E r \in Request : rows' = [rows EXCEPT ![r] = NewRow]
    BY DEF Next, AllDone, vars, RequestStep, RequestFaultStep, Replay, LookupMisses,
           CommitRow, LoseRace, ReadWinner, Reraise, Enqueue, EnqueueFails, CommitFails,
           CommitRefused, SelectFails, RequestDies
  <2>2. QED
    BY <1>a, <2>1, NewRowType DEF FindByKey, Request
\* Only the request that acts can become one of them.
<1>c. ASSUME NEW r \in Request, NEW label, NEW answer,
             step' = [step EXCEPT ![r] = label],
             reply' = [reply EXCEPT ![r] = answer]
      PROVE  Doomed' \subseteq Doomed \cup {r}
  <2>1. \A s \in Request \ {r} : step'[s] = step[s] /\ reply'[s] = reply[s]
    BY <1>a, <1>c
  <2>2. \A s \in Request \ {r} : s \in Doomed' => s \in Doomed
    BY <1>b, <2>1 DEF Doomed, IsAccepted
  <2>3. QED
    BY <2>2 DEF Doomed
<1>1. ASSUME NEW r \in Request, LookupMisses(r) \/ CommitRow(r)
      PROVE  Doomed' \subseteq Doomed /\ requestFaults' = requestFaults
  <2>1. PICK label \in {"insert", "enqueue"} : step' = [step EXCEPT ![r] = label]
    BY <1>1 DEF LookupMisses, CommitRow, Proceed
  <2>2. reply' = [reply EXCEPT ![r] = reply[r]] /\ requestFaults' = requestFaults
    BY <1>1, <1>a DEF LookupMisses, CommitRow
  <2>3. r \notin Doomed'
    BY <1>a, <2>1 DEF Doomed
  <2>4. QED
    BY <1>c, <2>1, <2>2, <2>3
\* Whoever loses a race has a winner to read.
<1>2. ASSUME NEW r \in Request, LoseRace(r)
      PROVE  Doomed' \subseteq Doomed /\ requestFaults' = requestFaults
  <2>1. /\ step' = [step EXCEPT ![r] = "recover"]
        /\ reply' = [reply EXCEPT ![r] = reply[r]]
        /\ requestFaults' = requestFaults
    BY <1>2, <1>a DEF LoseRace, Proceed
  <2>2. KeyOf[r] # None /\ FindByKey(r) # {}
    BY <1>2 DEF LoseRace, Conflict, FindByKey
  <2>3. r \notin Doomed'
    BY <1>a, <1>b, <2>1, <2>2 DEF Doomed
  <2>4. QED
    BY <1>c, <2>1, <2>3
<1>3. ASSUME NEW r \in Request, Replay(r) \/ ReadWinner(r) \/ Enqueue(r)
      PROVE  Doomed' \subseteq Doomed /\ requestFaults' = requestFaults
  <2>1. PICK n, status :
          /\ step' = [step EXCEPT ![r] = "done"]
          /\ reply' = [reply EXCEPT ![r] =
                         [code |-> 202, id |-> n, status |-> status]]
          /\ n \in Notification /\ status \in Status
    <3>1. CASE Replay(r) \/ ReadWinner(r)
      BY <1>a, <3>1
      DEF Replay, ReadWinner, ReplyWith, Finish, Proceed, FindByKey, Request, Row
    <3>2. CASE Enqueue(r)
      BY <3>2, NewRowType DEF Enqueue, ReplyWith, Finish, Proceed, Request, Status
    <3>3. QED
      BY <1>3, <3>1, <3>2
  <2>2. requestFaults' = requestFaults
    BY <1>3 DEF Replay, ReadWinner, Enqueue
  <2>3. /\ [code |-> 202, id |-> n, status |-> status] # None
        /\ [code |-> 202, id |-> n, status |-> status].code = 202
    BY <2>1, AcceptAssumption DEF Accepted
  <2>4. step'[r] = "done" /\ reply'[r] = [code |-> 202, id |-> n, status |-> status]
    BY <1>a, <2>1
  <2>5. r \notin Doomed'
    BY <2>3, <2>4 DEF Doomed, IsAccepted
  <2>6. QED
    BY <1>c, <2>1, <2>2, <2>5
\* The re-raise refuses a request that was already lost.
<1>4. ASSUME NEW r \in Request, Reraise(r)
      PROVE  Doomed' \subseteq Doomed /\ requestFaults' = requestFaults
  <2>1. r \in Doomed
    BY <1>4 DEF Reraise, Doomed
  <2>2. QED
    BY <1>4, <1>c, <2>1 DEF Reraise, Finish, Proceed
<1>5. ASSUME NEW r \in Request, RequestFaultStep(r)
      PROVE  Doomed' \subseteq Doomed \cup {r} /\ requestFaults' = requestFaults + 1
  <2>1. \E label, answer : /\ step' = [step EXCEPT ![r] = label]
                           /\ reply' = [reply EXCEPT ![r] = answer]
    <3>1. reply = [reply EXCEPT ![r] = reply[r]]
      BY <1>a
    <3>2. QED
      BY <1>5, <3>1
      DEF RequestFaultStep, EnqueueFails, CommitFails, CommitRefused, SelectFails,
          RequestDies, Finish, Proceed
  <2>2. requestFaults' = requestFaults + 1
    BY <1>5 DEF RequestFaultStep, EnqueueFails, CommitFails, CommitRefused,
                SelectFails, RequestDies, RequestFault
  <2>3. QED
    BY <1>c, <2>1, <2>2
<1>6. CASE UNCHANGED vars
  BY <1>6 DEF vars, requestVars, Doomed, IsAccepted, FindByKey
<1>7. QED
  BY <1>1, <1>2, <1>3, <1>4, <1>5, <1>6 DEF Next, AllDone, RequestStep

LEMMA DoomStep == Inv /\ FaultsDoom /\ [Next]_vars => FaultsDoom'
<1> SUFFICES ASSUME Inv, FaultsDoom, [Next]_vars PROVE FaultsDoom'
  OBVIOUS
<1>1. requestFaults \in Nat
  BY DEF Inv, TypeOK
<1>2. PICK r : /\ Doomed' \subseteq Doomed \cup {r}
               /\ \/ Doomed' \subseteq Doomed /\ requestFaults' = requestFaults
                  \/ requestFaults' = requestFaults + 1
  BY DoomedGrows
<1>3. IsFiniteSet(Doomed) /\ Cardinality(Doomed) <= requestFaults
  BY DEF FaultsDoom
<1>4. /\ IsFiniteSet(Doomed') /\ Cardinality(Doomed) \in Nat
      /\ Cardinality(Doomed') \in Nat
      /\ Cardinality(Doomed') <= Cardinality(Doomed) + 1
      /\ Doomed' \subseteq Doomed => Cardinality(Doomed') <= Cardinality(Doomed)
  BY <1>2, <1>3, GrowByOne
<1>5. QED
  BY <1>1, <1>2, <1>3, <1>4 DEF FaultsDoom

\* Races and replays refuse nobody: each request without a 202 is the price of
\* one fault.  The IntegrityError of a lost race never reaches the client,
\* because the winner it was lost to can be read; the re-raise branches of
\* NotificationService.accept are left to errors of another cause.
THEOREM RacesRefuseNobody == Spec => []FaultsRefuseOneEach
<1>1. Init => FaultsDoom
  <2>1. Init => Doomed = {} /\ requestFaults = 0
    BY DEF Init, Doomed
  <2>2. QED
    BY <2>1, FS_EmptySet DEF FaultsDoom
<1>2. Inv /\ FaultsDoom => FaultsRefuseOneEach
  <2> SUFFICES ASSUME Inv, FaultsDoom PROVE FaultsRefuseOneEach
    OBVIOUS
  <2> DEFINE Lost == {r \in Request : step[r] = "done" /\ ~IsAccepted(r)}
  <2>1. Lost \subseteq Doomed
    BY DEF Doomed
  <2>2. requestFaults \in Nat /\ IsFiniteSet(Doomed)
        /\ Cardinality(Doomed) <= requestFaults
    BY DEF Inv, TypeOK, FaultsDoom
  <2>3. /\ Cardinality(Lost) <= Cardinality(Doomed)
        /\ Cardinality(Lost) \in Nat /\ Cardinality(Doomed) \in Nat
    BY <2>1, <2>2, FS_Subset, FS_CardinalityType
  <2>4. Cardinality(Lost) <= requestFaults
    BY <2>2, <2>3
  <2>5. QED
    BY <2>4 DEF FaultsRefuseOneEach
<1>3. QED
  BY <1>1, <1>2, DoomStep, Invariance, PTL DEF Spec
=============================================================================
