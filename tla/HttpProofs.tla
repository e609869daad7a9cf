----------------------------- MODULE HttpProofs -----------------------------
(***************************************************************************)
(* Theorems about Http, for any requests, clients, keys, addresses, bodies *)
(* and any number of threads, connections and tokens.                      *)
(*                                                                         *)
(* A step of Http is a step of one request: Own says what holds of each    *)
(* request on its own, OneMoves that a step leaves the others alone.  What *)
(* accept does inside is taken from AcceptProofs, instantiated as Http     *)
(* instantiates Accept.                                                    *)
(***************************************************************************)
EXTENDS Http, FiniteSetTheorems, TLAPS

Accepting ==
  INSTANCE AcceptProofs WITH
    Client           <- Client \cup {None},
    RequestFaults    <- {"select", "constraint", "commit", "publish"},
    MaxRequestFaults <- 2 * Cardinality(Send)

Own(r) ==
  /\ r \in threads <=> at[r] \in {"authenticating", "handling"}
  /\ r \in conns <=> InTransaction(r)
  /\ at[r] \notin {"routed", "done"} => r \in Authenticated
  /\ at[r] = "received" => r \in Send
  /\ at[r] \notin {"closing", "done"} => code[r] = None

OwnSend(r) ==
  /\ at[r] \in {"received", "routed", "authenticating", "queued"}
       => step[r] = "lookup"
  /\ at[r] \in {"routed", "authenticating", "queued", "handling"}
       => charged[r] = BucketOf(r)
  /\ charged[r] \in {None, BucketOf(r)}
  /\ rows[r] # None \/ code[r] = 202 => charged[r] = BucketOf(r)
  /\ code[r] \in {401, 422, 429} => rows[r] = None /\ published[r] = 0
  /\ code[r] = 202 => rows[r] = None \/ published[r] > 0
  /\ code[r] \in (Codes \ {200, 404}) \cup {None}

HttpType ==
  /\ at \in [Request -> Place]
  /\ threads \in SUBSET Request /\ IsFiniteSet(threads)
  /\ Cardinality(threads) <= Threads
  /\ conns \in SUBSET Request /\ IsFiniteSet(conns)
  /\ Cardinality(conns) <= PoolSize
  /\ charged \in [Send -> Bucket \cup {None}]
  /\ failures \in Nat
  /\ code \in [Request -> Codes \cup {None}]

WithinBudget ==
  /\ \A b \in Bucket : Spent(b) <= Budget
  /\ \A r \in Send : code[r] = 429 => Spent(BucketOf(r)) >= Budget

Inv ==
  /\ Accepting!Inv
  /\ HttpType
  /\ \A r \in Request : Own(r)
  /\ \A r \in Send : OwnSend(r)
  /\ WithinBudget

\* What a step of request r leaves alone.
OneMoves(r) ==
  /\ \A s \in Request \ {r} :
       /\ at'[s] = at[s] /\ code'[s] = code[s]
       /\ s \in threads' <=> s \in threads
       /\ s \in conns' <=> s \in conns
  /\ \A s \in Send \ {r} :
       /\ step'[s] = step[s] /\ rows'[s] = rows[s]
       /\ published'[s] = published[s] /\ charged'[s] = charged[s]

-----------------------------------------------------------------------------
(* The instance of AcceptProofs *)

LEMMA OwnerType == Owner \in [Send -> Client \cup {None}]
  BY DEF Owner, CurrentClient, GetByHashedApiKey

\* What Accept and the modules it extends assume of their constants.
LEMMA AcceptAssumptions ==
  /\ MaxAttempts \in Nat \ {0}
  /\ Countdowns \in Seq(Nat \ {0})
  /\ Len(Countdowns) >= 1
  /\ None \notin Accepting!Row
  /\ Owner \in [Accepting!Request -> Client \cup {None}]
  /\ DOMAIN KeyOf = Accepting!Request
  /\ {"select", "constraint", "commit", "publish"} \subseteq Accepting!RequestFaultKind
  /\ 2 * Cardinality(Send) \in Nat
  /\ None \notin Accepting!Accepted
<1>1. None \notin Accepting!Row
  BY NoneAssumption DEF Row, Accepting!Row, Status, Accepting!Status
<1>2. 2 * Cardinality(Send) \in Nat
  <2>1. Cardinality(Send) \in Nat
    BY HttpAssumption, FS_CardinalityType
  <2>. QED
    BY <2>1
<1>3. None \notin Accepting!Accepted
  BY NoneIsApart
     DEF Accepting!Accepted, Service!Accepted, Accepting!Status, Service!Status
<1>. QED
  BY <1>1, <1>2, <1>3, PolicyAssumption, HttpAssumption, OwnerType
     DEF Accepting!Request, Accepting!RequestFaultKind, Send

LEMMA SameInit == Service!Init <=> Accepting!Init
  BY DEF Service!Init, Accepting!Init, Service!Request, Accepting!Request

LEMMA SameVars ==
  Service!vars = Accepting!vars /\ Service!vars' = Accepting!vars'
  BY DEF Service!vars, Accepting!vars, Service!brokerVars, Accepting!brokerVars,
         Service!requestVars, Accepting!requestVars

LEMMA SameNext == Service!Next <=> Accepting!Next
  BY DEF Service!Next, Accepting!Next, Service!AllDone, Accepting!AllDone,
         Service!vars, Accepting!vars, Service!brokerVars, Accepting!brokerVars,
         Service!requestVars, Accepting!requestVars,
         Service!Request, Accepting!Request,
         Service!RequestStep, Accepting!RequestStep,
         Service!RequestFaultStep, Accepting!RequestFaultStep,
         Service!Replay, Accepting!Replay,
         Service!LookupMisses, Accepting!LookupMisses,
         Service!CommitRow, Accepting!CommitRow,
         Service!LoseRace, Accepting!LoseRace,
         Service!ReadWinner, Accepting!ReadWinner,
         Service!Reraise, Accepting!Reraise,
         Service!Enqueue, Accepting!Enqueue,
         Service!EnqueueFails, Accepting!EnqueueFails,
         Service!CommitFails, Accepting!CommitFails,
         Service!CommitRefused, Accepting!CommitRefused,
         Service!SelectFails, Accepting!SelectFails,
         Service!RequestDies, Accepting!RequestDies,
         Service!RequestFault, Accepting!RequestFault,
         Service!FindByKey, Accepting!FindByKey,
         Service!Conflict, Accepting!Conflict,
         Service!Proceed, Accepting!Proceed, Service!Finish, Accepting!Finish,
         Service!ReplyWith, Accepting!ReplyWith,
         Service!Publish, Accepting!Publish, Service!NewRow, Accepting!NewRow

LEMMA SameType == Service!TypeOK <=> Accepting!TypeOK
  BY DEF Service!TypeOK, Accepting!TypeOK, Service!BrokerTypeOK,
         Accepting!BrokerTypeOK, Service!Ticket, Accepting!Ticket,
         Service!Row, Accepting!Row, Service!Status, Accepting!Status,
         Service!Request, Accepting!Request, Service!Step, Accepting!Step,
         Service!Accepted, Accepting!Accepted, Service!Refused, Accepting!Refused

-----------------------------------------------------------------------------
(* Every step of Http is one of Accept, or none: Accept's invariant holds. *)

LEMMA StepOfAccept ==
  [Next]_vars => [Service!Next]_(Service!vars)
<1> SUFFICES ASSUME [Next]_vars PROVE [Service!Next]_(Service!vars)
  OBVIOUS
<1> USE DEF Service!vars, acceptVars, Service!brokerVars, brokerVars,
            Service!requestVars
<1>1. CASE UNCHANGED vars \/ AllDone
  BY <1>1 DEF vars, AllDone
<1>2. ASSUME NEW r \in Request, Serve(r) \/ PoolTimesOut(r)
      PROVE [Service!Next]_(Service!vars)
  <2>1. CASE Admit(r) \/ Deny(r) \/ LimiterFails(r) \/ Close(r) \/ AnswerProbe(r)
    BY <2>1 DEF Admit, Deny, LimiterFails, Close, AnswerProbe
  <2>2. CASE Dependencies(r)
    BY <2>2 DEF Dependencies, RefuseMalformed, BeginAuthentication, MissingKey,
                Authenticate, RejectKey, AuthenticationFails, BeginHandling,
                StartThread
  <2>3. CASE RefuseInvalid(r) \/ AnswerRead(r) \/ AnswerStatus(r) \/ ReadFails(r)
    BY <2>3 DEF RefuseInvalid, AnswerRead, AnswerStatus, ReadFails
  <2>4. CASE \/ LookUp(r) \/ AnswerReplay(r) \/ KeyLookUpFails(r)
             \/ EndTransaction(r) \/ CommitBreaks(r) \/ CommitRefused(r)
             \/ AnswerWithWinner(r) \/ AnswerReraised(r)
             \/ AnswerAccepted(r) \/ AnswerUnavailable(r)
    <3>1. r \in Service!Request
      BY <2>4 DEF LookUp, AnswerReplay, KeyLookUpFails, EndTransaction, CommitBreaks,
                  CommitRefused, Handling, AnswerWithWinner, AnswerReraised,
                  AnswerAccepted, AnswerUnavailable, Service!Request, Send
    <3>2. Service!RequestStep(r) \/ Service!RequestFaultStep(r)
      BY <2>4 DEF LookUp, AnswerReplay, KeyLookUpFails, EndTransaction, CommitBreaks,
                  CommitRefused, AnswerWithWinner, AnswerReraised, AnswerAccepted,
                  AnswerUnavailable, Service!RequestStep, Service!RequestFaultStep
    <3>. QED
      BY <3>1, <3>2 DEF Service!Next
  <2>5. CASE PoolTimesOut(r)
    <3>1. CASE at[r] = "handling"
      <4>1. Service!SelectFails(r) /\ r \in Service!Request
        BY <2>5, <3>1 DEF PoolTimesOut, WaitsForConnection, Handling,
                          Service!Request, Send
      <4>. QED
        BY <4>1 DEF Service!Next, Service!RequestFaultStep
    <3>2. CASE at[r] # "handling"
      BY <2>5, <3>2 DEF PoolTimesOut
    <3>. QED
      BY <3>1, <3>2
  <2>. QED
    BY <1>2, <2>1, <2>2, <2>3, <2>4, <2>5 DEF Serve, Handler
<1>. QED
  BY <1>1, <1>2 DEF Next

-----------------------------------------------------------------------------
(* Steps of accept as Http sees them *)

\* A step of accept moves one request between control points, inserts at
\* most its row and publishes at most its id, when past the lookup.
AcceptMoves(r) ==
  /\ step[r] # "done"
  /\ \A s \in Send \ {r} :
       step'[s] = step[s] /\ rows'[s] = rows[s] /\ published'[s] = published[s]

LEMMA ServiceMoves ==
  ASSUME Accepting!Inv, NEW r \in Send,
         Service!RequestStep(r) \/ Service!RequestFaultStep(r)
  PROVE  AcceptMoves(r)
<1> USE DEF Accepting!Inv, Accepting!TypeOK, Accepting!BrokerTypeOK,
            Accepting!Request, Send, AcceptMoves
<1>1. CASE Service!Replay(r) \/ Service!LookupMisses(r) \/ Service!LoseRace(r)
             \/ Service!ReadWinner(r) \/ Service!Reraise(r)
  BY <1>1 DEF Service!Replay, Service!LookupMisses, Service!LoseRace,
              Service!ReadWinner, Service!Reraise, Service!ReplyWith,
              Service!Finish, Service!Proceed, Service!brokerVars
<1>2. CASE Service!CommitRow(r) \/ Service!CommitFails(r)
             \/ Service!CommitRefused(r) \/ Service!SelectFails(r)
  BY <1>2 DEF Service!CommitRow, Service!CommitFails, Service!CommitRefused,
              Service!SelectFails, Service!Finish, Service!Proceed,
              Service!brokerVars
<1>3. CASE Service!Enqueue(r) \/ Service!EnqueueFails(r) \/ Service!RequestDies(r)
  BY <1>3 DEF Service!Enqueue, Service!EnqueueFails, Service!RequestDies,
              Service!ReplyWith, Service!Finish, Service!Proceed,
              Service!Publish, Service!brokerVars
<1>. QED
  BY <1>1, <1>2, <1>3 DEF Service!RequestStep, Service!RequestFaultStep

LEMMA StepMoves ==
  ASSUME Inv, NEW r \in Request, Serve(r) \/ PoolTimesOut(r)
  PROVE  OneMoves(r)
<1> USE DEF Inv, HttpType, OneMoves, acceptVars, brokerVars, serverVars, counters,
            Request, Authenticated
<1>1. CASE Admit(r) \/ Deny(r) \/ LimiterFails(r)
  BY <1>1 DEF Admit, Deny, LimiterFails, Finish, Move
<1>2. CASE Dependencies(r)
  BY <1>2 DEF Dependencies, RefuseMalformed, BeginAuthentication, MissingKey,
              Authenticate, RejectKey, AuthenticationFails, BeginHandling,
              StartThread, Unauthorized, Finish, Move
<1>3. CASE RefuseInvalid(r) \/ AnswerRead(r) \/ AnswerStatus(r) \/ ReadFails(r)
  BY <1>3 DEF RefuseInvalid, AnswerRead, AnswerStatus, ReadFails, NotFound, Finish,
              Move
<1>4. CASE Close(r) \/ AnswerProbe(r)
  BY <1>4 DEF Close, AnswerProbe, Finish, Move
<1>5. ASSUME NEW status, NEW held, held \in {conns, conns \cup {r}},
             Finish(r, status, held), UNCHANGED charged, r \in Send,
             Service!RequestStep(r) \/ Service!RequestFaultStep(r)
      PROVE OneMoves(r)
  BY <1>5, ServiceMoves DEF AcceptMoves, Finish, Move
<1>6. CASE \/ AnswerReplay(r) \/ KeyLookUpFails(r) \/ CommitBreaks(r)
           \/ AnswerWithWinner(r) \/ AnswerReraised(r)
           \/ AnswerAccepted(r) \/ AnswerUnavailable(r)
  BY <1>5, <1>6 DEF AnswerReplay, KeyLookUpFails, CommitBreaks, AnswerWithWinner,
              AnswerReraised, AnswerAccepted, AnswerUnavailable, Unavailable,
              Handling, Service!RequestStep, Service!RequestFaultStep
<1>7. CASE LookUp(r) \/ EndTransaction(r) \/ CommitRefused(r)
  <2>1. r \in Send /\ (Service!RequestStep(r) \/ Service!RequestFaultStep(r))
    BY <1>7 DEF LookUp, EndTransaction, CommitRefused, Handling,
                Service!RequestStep, Service!RequestFaultStep
  <2>2. AcceptMoves(r)
    BY <2>1, ServiceMoves
  <2>. QED
    BY <1>7, <2>2 DEF LookUp, EndTransaction, CommitRefused, AcceptMoves
<1>8. CASE PoolTimesOut(r)
  <2>1. CASE at[r] = "handling"
    BY <1>5, <1>8, <2>1 DEF PoolTimesOut, WaitsForConnection, Handling,
                            Service!RequestFaultStep
  <2>2. CASE at[r] # "handling"
    BY <1>8, <2>2 DEF PoolTimesOut, Finish, Move
  <2>. QED
    BY <2>1, <2>2
<1>. QED
  BY <1>1, <1>2, <1>3, <1>4, <1>6, <1>7, <1>8 DEF Serve, Handler

CodeMoves(r) ==
  \/ UNCHANGED code
  \/ \E c \in Codes : /\ code' = [code EXCEPT ![r] = c]
                      /\ (c = 429 /\ r \in Send) => Spent(BucketOf(r)) >= Budget

\* What a step of request r does to the threads, the pool and the buckets.
Shape(r) ==
  /\ \E p \in Place : at' = [at EXCEPT ![r] = p]
  /\ \/ threads' \in {threads, threads \ {r}}
     \/ ThreadFree /\ threads' = threads \cup {r}
  /\ \/ conns' \in {conns, conns \ {r}}
     \/ ~PoolExhausted /\ conns' = conns \cup {r}
  /\ CodeMoves(r)
  /\ \/ UNCHANGED charged
     \/ /\ r \in Send /\ Spent(BucketOf(r)) < Budget
        /\ charged' = [charged EXCEPT ![r] = BucketOf(r)]
  /\ failures' \in {failures, failures + 1}

LEMMA FinishShape ==
  ASSUME Inv, NEW r \in Request, NEW status \in Codes, NEW held,
         \/ held = conns
         \/ held = conns \cup {r} /\ ~PoolExhausted,
         Finish(r, status, held)
  PROVE  /\ \E p \in Place : at' = [at EXCEPT ![r] = p]
         /\ threads' = threads \ {r}
         /\ \/ conns' = conns
            \/ ~PoolExhausted /\ conns' = conns \cup {r}
         /\ code' = [code EXCEPT ![r] = status]
  BY DEF Finish, Move, Place

LEMMA StepShape ==
  ASSUME Inv, NEW r \in Request, Serve(r) \/ PoolTimesOut(r)
  PROVE  Shape(r)
<1> USE DEF Inv, HttpType, Shape, CodeMoves, serverVars, counters, Fails, Request, Authenticated, Codes
<1>1. CASE Admit(r)
  <2>1. r \in Send
    BY <1>1 DEF Admit, Own
  <2>. QED
    BY <1>1, <2>1 DEF Admit, Move, Place
<1>2. CASE Deny(r)
  BY <1>2, FinishShape DEF Deny
<1>3. CASE LimiterFails(r)
  <2>1. r \in Send
    BY <1>3 DEF LimiterFails, Own
  <2>. QED
    BY <1>3, <2>1, FinishShape DEF LimiterFails
<1>4. CASE Dependencies(r)
  <2>1. CASE BeginAuthentication(r) \/ BeginHandling(r)
    BY <2>1 DEF BeginAuthentication, BeginHandling, StartThread, Move, Place
  <2>2. CASE Authenticate(r)
    BY <2>2 DEF Authenticate, Move, Place
  <2>3. CASE RefuseMalformed(r) \/ MissingKey(r) \/ RejectKey(r)
    BY <2>3, FinishShape DEF RefuseMalformed, MissingKey, RejectKey, Unauthorized
  <2>4. CASE AuthenticationFails(r)
    BY <2>4, FinishShape DEF AuthenticationFails
  <2>. QED
    BY <1>4, <2>1, <2>2, <2>3, <2>4 DEF Dependencies
<1>5. CASE \/ RefuseInvalid(r) \/ AnswerRead(r) \/ AnswerStatus(r) \/ ReadFails(r)
           \/ AnswerProbe(r)
  BY <1>5, FinishShape
     DEF RefuseInvalid, AnswerRead, AnswerStatus, ReadFails, NotFound, AnswerProbe
<1>6. CASE Close(r)
  BY <1>6 DEF Close, Move, Place
<1>7. CASE LookUp(r) \/ EndTransaction(r) \/ CommitRefused(r)
  <2>1. at' = [at EXCEPT ![r] = at[r]] /\ at[r] \in Place
    BY <1>7 DEF LookUp, EndTransaction, CommitRefused
  <2>2. failures' \in {failures, failures + 1}
    BY <1>7 DEF LookUp, EndTransaction, CommitRefused
  <2>. QED
    BY ZenonT(30), <1>7, <2>1, <2>2 DEF LookUp, EndTransaction, CommitRefused
<1>8. CASE \/ AnswerReplay(r) \/ CommitBreaks(r) \/ AnswerWithWinner(r)
           \/ AnswerAccepted(r) \/ AnswerUnavailable(r) \/ PoolTimesOut(r)
  BY <1>8, FinishShape DEF AnswerReplay, CommitBreaks, AnswerWithWinner,
       AnswerAccepted, AnswerUnavailable, Unavailable, PoolTimesOut
<1>9. CASE KeyLookUpFails(r)
  <2>1. r \in conns \/ ~PoolExhausted
    <3>1. step[r] \in {"lookup", "recover"} /\ at[r] = "handling" /\ r \in Send
      BY <1>9 DEF KeyLookUpFails, Service!SelectFails, Handling
    <3>. QED
      BY <1>9, <3>1 DEF KeyLookUpFails, Own, InTransaction
  <2>2. PICK held \in {conns, conns \cup {r}} : Finish(r, 500, held)
    BY <1>9 DEF KeyLookUpFails
  <2>3. \/ held = conns
        \/ held = conns \cup {r} /\ ~PoolExhausted
    <3>1. CASE r \in conns
      <4>1. conns \cup {r} = conns
        BY <3>1
      <4>. QED
        BY <2>2, <4>1
    <3>2. CASE ~PoolExhausted
      BY <2>2, <3>2
    <3>. QED
      BY <2>1, <3>1, <3>2
  <2>4. UNCHANGED charged /\ failures' = failures + 1
    BY <1>9 DEF KeyLookUpFails
  <2>. QED
    BY <2>2, <2>3, <2>4, FinishShape
<1>10. CASE AnswerReraised(r)
  BY <1>10, FinishShape DEF AnswerReraised
<1>. QED
  BY <1>1, <1>2, <1>3, <1>4, <1>5, <1>6, <1>7, <1>8, <1>9, <1>10 DEF Serve, Handler

LEMMA BucketType == \A r \in Send : BucketOf(r) \in Bucket
  BY HttpAssumption DEF BucketOf, Bucket, Authenticated

-----------------------------------------------------------------------------
(* The invariant *)

\* A set with room for one more keeps within its bound.
LEMMA WithinBound ==
  ASSUME NEW S, IsFiniteSet(S), NEW n \in Nat, Cardinality(S) <= n, NEW x
  PROVE  /\ IsFiniteSet(S \ {x}) /\ Cardinality(S \ {x}) <= n
         /\ IsFiniteSet(S \cup {x})
         /\ Cardinality(S) < n => Cardinality(S \cup {x}) <= n
<1>1. Cardinality(S) \in Nat
  BY FS_CardinalityType
<1>2. IsFiniteSet(S \ {x}) /\ Cardinality(S \ {x}) <= Cardinality(S)
      /\ Cardinality(S \ {x}) \in Nat
  BY FS_Subset, FS_CardinalityType
<1>3. /\ IsFiniteSet(S \cup {x})
      /\ Cardinality(S \cup {x}) =
           IF x \in S THEN Cardinality(S) ELSE Cardinality(S) + 1
  BY FS_AddElement
<1>. QED
  BY <1>1, <1>2, <1>3

LEMMA StepType ==
  ASSUME Inv, NEW r \in Request, Serve(r) \/ PoolTimesOut(r)
  PROVE  HttpType'
<1>0. HttpType
  BY DEF Inv
<1>1. Shape(r)
  BY StepShape
<1>2. at' \in [Request -> Place]
  <2>1. PICK p \in Place : at' = [at EXCEPT ![r] = p]
    BY <1>1 DEF Shape
  <2>. QED
    BY <1>0, <2>1 DEF HttpType
<1>6. code' \in [Request -> Codes \cup {None}]
  <2>1. CASE UNCHANGED code
    BY <1>0, <2>1 DEF HttpType
  <2>2. CASE code' # code
    <3>1. PICK c \in Codes : code' = [code EXCEPT ![r] = c]
      <4>1. CodeMoves(r)
        BY <1>1 DEF Shape
      <4>. QED
        BY <2>2, <4>1 DEF CodeMoves
    <3>. QED
      BY <1>0, <3>1 DEF HttpType
  <2>. QED
    BY <2>1, <2>2
<1>3. charged' \in [Send -> Bucket \cup {None}]
  BY <1>0, <1>1, BucketType DEF Shape, HttpType
<1>4. /\ threads' \in SUBSET Request /\ IsFiniteSet(threads')
      /\ Cardinality(threads') <= Threads
  <2>1. /\ threads \in SUBSET Request /\ IsFiniteSet(threads)
        /\ Cardinality(threads) <= Threads /\ Threads \in Nat
    BY <1>0, HttpAssumption DEF HttpType
  <2>2. \/ threads' = threads \/ threads' = threads \ {r}
        \/ Cardinality(threads) < Threads /\ threads' = threads \cup {r}
    BY <1>1 DEF Shape, ThreadFree
  <2>. QED
    BY ZenonT(30), <2>1, <2>2, WithinBound
<1>5. conns \in SUBSET Request /\ IsFiniteSet(conns) /\ PoolSize \in Nat
      /\ Cardinality(conns) <= PoolSize /\ Cardinality(conns) \in Nat
  BY <1>0, HttpAssumption, FS_CardinalityType DEF HttpType
<1>7. /\ conns' \in SUBSET Request /\ IsFiniteSet(conns')
      /\ Cardinality(conns') <= PoolSize
  <2>1. \/ conns' = conns \/ conns' = conns \ {r}
        \/ Cardinality(conns) < PoolSize /\ conns' = conns \cup {r}
    BY <1>1, <1>5, HttpAssumption DEF Shape, PoolExhausted
  <2>2. /\ IsFiniteSet(conns \ {r}) /\ Cardinality(conns \ {r}) <= PoolSize
        /\ IsFiniteSet(conns \cup {r})
        /\ Cardinality(conns) < PoolSize => Cardinality(conns \cup {r}) <= PoolSize
    BY <1>5, WithinBound
  <2>. QED
    BY <1>5, <2>1, <2>2
<1>8. failures' \in Nat
  BY <1>0, <1>1 DEF Shape, HttpType
<1>. QED
  BY <1>2, <1>3, <1>4, <1>6, <1>7, <1>8 DEF HttpType

LEMMA StepBudget ==
  ASSUME Inv, NEW r \in Request, Serve(r) \/ PoolTimesOut(r)
  PROVE  WithinBudget'
<1> USE DEF Inv, HttpType
<1>1. Shape(r)
  BY StepShape
<1>2. \A b : LET T == {s \in Send : charged[s] = b}
              U == {s \in Send : charged'[s] = b}
          IN IsFiniteSet(T) /\ IsFiniteSet(U) /\ Spent(b) \in Nat /\ Spent(b)' \in Nat
  BY HttpAssumption, FS_Subset, FS_CardinalityType DEF Spent
<1>3. ASSUME NEW b \in Bucket PROVE Spent(b)' <= Budget /\ Spent(b)' >= Spent(b)
  <2> DEFINE T == {s \in Send : charged[s] = b}
             U == {s \in Send : charged'[s] = b}
  <2>1. Spent(b) <= Budget /\ Spent(b) \in Nat /\ IsFiniteSet(T)
    BY <1>2 DEF WithinBudget
  <2>2. CASE UNCHANGED charged
    BY <2>1, <2>2 DEF Spent
  <2>3. CASE /\ r \in Send /\ Spent(BucketOf(r)) < Budget
             /\ charged' = [charged EXCEPT ![r] = BucketOf(r)]
    <3>1. charged[r] \in {None, BucketOf(r)}
      BY <2>3 DEF OwnSend
    <3>2. U = IF b = BucketOf(r) THEN T \cup {r} ELSE T
      BY <2>3, <3>1, NoneIsApart
    <3>3. CASE b = BucketOf(r)
      <4>1. Cardinality(T) < Budget /\ Cardinality(T) \in Nat /\ Budget \in Nat
        BY <2>1, <2>3, <3>3, HttpAssumption DEF Spent
      <4>2. IsFiniteSet(T \cup {r}) /\ Cardinality(T \cup {r}) <= Budget
        <5>1. IsFiniteSet(T) /\ Cardinality(T) <= Budget /\ Budget \in Nat
          BY <2>1, <4>1
        <5>2. Cardinality(T) < Budget
          BY <4>1
        <5>. HIDE DEF T
        <5>. QED
          BY <5>1, <5>2, WithinBound
      <4>3. Cardinality(T) <= Cardinality(T \cup {r})
        BY <4>2, FS_Subset
      <4>. QED
        BY <3>2, <3>3, <4>2, <4>3 DEF Spent
    <3>4. CASE b # BucketOf(r)
      BY <2>1, <3>2, <3>4 DEF Spent
    <3>. QED
      BY <3>3, <3>4
  <2>. QED
    BY <1>1, <2>2, <2>3 DEF Shape
<1>4. ASSUME NEW s \in Send, code'[s] = 429 PROVE Spent(BucketOf(s))' >= Budget
  <2>1. Spent(BucketOf(s)) >= Budget
    <3>1. CASE code[s] = 429
      BY <3>1 DEF WithinBudget
    <3>2. CASE code[s] # 429
      <4>0. CodeMoves(r) /\ code' # code
        BY <1>1, <1>4, <3>2 DEF Shape
      <4>1. PICK c \in Codes : /\ code' = [code EXCEPT ![r] = c]
                               /\ (c = 429 /\ r \in Send) => Spent(BucketOf(r)) >= Budget
        BY <4>0 DEF CodeMoves
      <4>2. s \in Request /\ code \in [Request -> Codes \cup {None}]
        BY DEF Request, Authenticated
      <4>3. s = r /\ c = 429
        BY <1>4, <3>2, <4>1, <4>2
      <4>. QED
        BY <4>1, <4>3
    <3>. QED
      BY <3>1, <3>2
  <2>2. BucketOf(s) \in Bucket
    BY BucketType
  <2>3. /\ Spent(BucketOf(s))' \in Nat /\ Spent(BucketOf(s)) \in Nat
        /\ Spent(BucketOf(s))' >= Spent(BucketOf(s))
    BY <1>2, <1>3, <2>2
  <2>. QED
    BY <2>1, <2>3, HttpAssumption
<1>. QED
  BY <1>3, <1>4 DEF WithinBudget, BucketOf

\* A request that has answered holds no thread, and a connection exactly as
\* long as it is closing.
LEMMA FinishOwn ==
  ASSUME Inv, NEW r \in Request, NEW status, NEW held, Finish(r, status, held),
         \/ held = conns
         \/ held = conns \cup {r} /\ r \in Authenticated
  PROVE  /\ Own(r)'
         /\ at'[r] \in {"closing", "done"} /\ code'[r] \in {status, code[r]}
<1>1. /\ at' = [at EXCEPT ![r] = IF r \in held THEN "closing" ELSE "done"]
      /\ threads' = threads \ {r} /\ conns' = held
      /\ code' = [code EXCEPT ![r] = status]
  BY DEF Finish, Move
<1>2. at'[r] = (IF r \in held THEN "closing" ELSE "done") /\ code'[r] = status
  BY <1>1 DEF Inv, HttpType
<1>3. r \in conns => r \in Authenticated
  BY DEF Inv, Own, InTransaction
<1>. QED
  BY <1>1, <1>2, <1>3 DEF Own, InTransaction

\* Before the handler nothing has been stored or published.
LEMMA Untouched ==
  ASSUME Inv, NEW r \in Send, step[r] = "lookup"
  PROVE  rows[r] = None /\ published[r] = 0
  BY DEF Inv, Accepting!Inv, Accepting!StepFits, Accepting!Request, Send

LEMMA StepOwn ==
  ASSUME Inv, NEW r \in Request, Serve(r) \/ PoolTimesOut(r)
  PROVE  Own(r)'
<1>0. Own(r) /\ HttpType
  BY DEF Inv
<1> USE DEF serverVars
<1>1. CASE Admit(r)
  BY <1>0, <1>1 DEF Admit, Own, HttpType, InTransaction, Move, Authenticated
<1>2. CASE Deny(r) \/ LimiterFails(r) \/ AnswerProbe(r)
  BY <1>2, FinishOwn DEF Deny, LimiterFails, AnswerProbe
<1>3. CASE BeginAuthentication(r) \/ BeginHandling(r)
  <2>1. CASE BeginAuthentication(r)
    BY <1>0, <2>1 DEF BeginAuthentication, StartThread, Move, Own, HttpType,
                      InTransaction
  <2>2. CASE BeginHandling(r)
    <3>1. step'[r] = step[r] /\ (r \in Send => step[r] = "lookup")
      BY <2>2 DEF BeginHandling, StartThread, acceptVars, Inv, OwnSend
    <3>. QED
      BY <1>0, <2>2, <3>1 DEF BeginHandling, StartThread, Move, Own, HttpType,
                              InTransaction
  <2>. QED
    BY <1>3, <2>1, <2>2
<1>4. CASE Authenticate(r)
  BY <1>0, <1>4 DEF Authenticate, Move, Own, HttpType, InTransaction
<1>5. CASE RefuseMalformed(r) \/ MissingKey(r)
  BY <1>5, FinishOwn DEF RefuseMalformed, MissingKey, Unauthorized
<1>6. CASE RejectKey(r)
  BY <1>0, <1>6, FinishOwn DEF RejectKey, Unauthorized, Own
<1>7. CASE RefuseInvalid(r) \/ AnswerRead(r) \/ AnswerStatus(r) \/ ReadFails(r)
  BY <1>7, FinishOwn DEF RefuseInvalid, AnswerRead, AnswerStatus, ReadFails, NotFound
<1>8. CASE LookUp(r)
  <2>1. step[r] = "lookup" /\ step'[r] = "insert" /\ r \in Send
    BY <1>8 DEF LookUp, Handling, Service!LookupMisses, Service!Proceed, Inv,
                Accepting!Inv, Accepting!TypeOK, Accepting!Request, Send
  <2>. QED
    BY <1>0, <1>8, <2>1 DEF LookUp, Own, InTransaction
<1>9. CASE EndTransaction(r) \/ CommitRefused(r)
  <2>1. step'[r] \in {"enqueue", "recover"} /\ r \in Send /\ at[r] = "handling"
    BY <1>9 DEF EndTransaction, CommitRefused, Handling, Service!CommitRow,
                Service!LoseRace, Service!CommitRefused, Service!Proceed, Inv,
                Accepting!Inv, Accepting!TypeOK, Accepting!Request, Send
  <2>2. UNCHANGED <<at, threads, code>> /\ conns' = conns \ {r}
    BY <1>9 DEF EndTransaction, CommitRefused
  <2>. QED
    BY <1>0, <2>1, <2>2 DEF Own, InTransaction
<1>10. CASE AnswerReplay(r) \/ CommitBreaks(r) \/ AnswerAccepted(r)
            \/ AnswerUnavailable(r) \/ PoolTimesOut(r)
  BY <1>10, FinishOwn DEF AnswerReplay, CommitBreaks, AnswerAccepted,
       AnswerUnavailable, Unavailable, PoolTimesOut
<1>11. CASE AnswerWithWinner(r)
  BY <1>11, FinishOwn DEF AnswerWithWinner, Handling, Authenticated
<1>13. CASE AuthenticationFails(r)
  BY <1>0, <1>13, FinishOwn DEF AuthenticationFails, Own
<1>14. CASE KeyLookUpFails(r) \/ AnswerReraised(r)
  BY <1>14, FinishOwn DEF KeyLookUpFails, AnswerReraised, Handling, Authenticated
<1>12. CASE Close(r)
  BY <1>0, <1>12 DEF Close, Move, Own, HttpType, InTransaction
<1>. QED
  BY <1>1, <1>2, <1>3, <1>4, <1>5, <1>6, <1>7, <1>8, <1>9, <1>10, <1>11, <1>12,
     <1>13, <1>14
     DEF Serve, Dependencies, Handler

LEMMA StepOwnSend ==
  ASSUME Inv, NEW r \in Send, Serve(r) \/ PoolTimesOut(r)
  PROVE  OwnSend(r)'
<1>0. /\ Own(r) /\ OwnSend(r) /\ HttpType /\ r \in Request
      /\ r \notin Read /\ r \notin Probe
  BY HttpAssumption DEF Inv, Request, Authenticated
<1>1. step[r] = "lookup" => rows[r] = None /\ published[r] = 0
  BY Untouched
<1> USE DEF acceptVars, brokerVars, serverVars, counters
<1>a. None \notin Codes /\ Codes = {200, 202, 401, 404, 422, 429, 500, 503}
  BY NoneIsApart DEF Codes
<1>2. ASSUME NEW status, NEW held, Finish(r, status, held)
      PROVE  at'[r] \in {"closing", "done"} /\ code'[r] = status
  BY <1>0, <1>2 DEF Finish, Move, HttpType
<1>3. CASE Admit(r)
  BY <1>0, <1>1, <1>a, <1>3 DEF Admit, Move, OwnSend, HttpType
<1>4. CASE Deny(r)
  BY <1>0, <1>1, <1>a, <1>2, <1>4 DEF Deny, OwnSend
<1>5. CASE LimiterFails(r)
  <2>1. charged'[r] \in {charged[r], BucketOf(r)}
    BY <1>0, <1>5 DEF LimiterFails, HttpType
  <2>. QED
    BY <1>0, <1>1, <1>a, <1>2, <1>5, <2>1 DEF LimiterFails, OwnSend
<1>6. CASE BeginAuthentication(r) \/ BeginHandling(r) \/ Authenticate(r)
  <2>1. /\ at[r] \in {"routed", "authenticating", "queued"}
        /\ UNCHANGED <<acceptVars, charged, code>>
        /\ at'[r] \in {"authenticating", "queued", "handling"}
    BY <1>0, <1>6 DEF BeginAuthentication, BeginHandling, StartThread, Authenticate,
                      Move, HttpType
  <2>. QED
    BY <1>0, <1>1, <2>1 DEF OwnSend
<1>7. CASE \/ RefuseMalformed(r) \/ MissingKey(r) \/ RejectKey(r)
           \/ AuthenticationFails(r)
  <2>1. /\ at[r] \in {"routed", "authenticating"}
        /\ UNCHANGED <<acceptVars, charged>>
        /\ at'[r] \in {"closing", "done"} /\ code'[r] \in {401, 422, 500}
    BY <1>2, <1>7
    DEF RefuseMalformed, MissingKey, RejectKey, AuthenticationFails, Unauthorized
  <2>. QED
    BY <1>0, <1>1, <1>a, <2>1 DEF OwnSend
<1>8. CASE RefuseInvalid(r)
  BY <1>0, <1>1, <1>a, <1>2, <1>8 DEF RefuseInvalid, OwnSend
<1>9. CASE LookUp(r) \/ EndTransaction(r) \/ CommitRefused(r)
  <2>1. /\ at[r] = "handling" /\ code[r] = None
        /\ UNCHANGED <<at, charged, code>>
    BY <1>0, <1>9 DEF LookUp, EndTransaction, CommitRefused, Handling, Own
  <2>. QED
    BY <1>0, <1>a, <2>1 DEF OwnSend
<1>10. ASSUME at[r] \in {"authenticating", "handling"}, UNCHANGED charged,
              at'[r] \in {"closing", "done"}, code'[r] \in {202, 500, 503},
              code'[r] = 202 => rows'[r] = None \/ published'[r] > 0
       PROVE  OwnSend(r)'
  BY <1>0, <1>a, <1>10 DEF OwnSend
<1>13. CASE \/ KeyLookUpFails(r) \/ CommitBreaks(r) \/ AnswerReraised(r)
            \/ AnswerUnavailable(r) \/ PoolTimesOut(r)
  <2>1. /\ at[r] \in {"authenticating", "handling"} /\ UNCHANGED charged
        /\ at'[r] \in {"closing", "done"} /\ code'[r] \in {500, 503}
    BY <1>2, <1>13 DEF KeyLookUpFails, CommitBreaks, AnswerReraised,
         AnswerUnavailable, Unavailable, PoolTimesOut, WaitsForConnection, Handling
  <2>. QED
    BY <1>10, <2>1
\* The row in a replay's answer is another request's.
<1>14. CASE AnswerReplay(r) \/ AnswerWithWinner(r)
  <2>1. /\ at[r] = "handling" /\ UNCHANGED <<charged, rows>>
        /\ at'[r] \in {"closing", "done"} /\ code'[r] = 202
        /\ step[r] \in {"lookup", "recover"}
    BY <1>2, <1>14 DEF AnswerReplay, AnswerWithWinner, Handling, Service!Replay,
                       Service!ReadWinner
  <2>2. rows[r] = None
    BY <2>1 DEF Inv, Accepting!Inv, Accepting!StepFits, Accepting!Request, Send
  <2>. QED
    BY <1>10, <2>1, <2>2
<1>15. CASE AnswerAccepted(r)
  <2>1. /\ at[r] = "handling" /\ UNCHANGED charged
        /\ at'[r] \in {"closing", "done"} /\ code'[r] = 202
    BY <1>2, <1>15 DEF AnswerAccepted, Handling
  <2>2. published \in [Send -> Nat]
    BY DEF Inv, Accepting!Inv, Accepting!TypeOK, Accepting!BrokerTypeOK, Send
  <2>3. published'[r] = published[r] + 1
    BY <1>15, <2>2 DEF AnswerAccepted, Service!Enqueue, Service!Publish
  <2>. QED
    BY <1>10, <2>1, <2>2, <2>3
<1>11. CASE Close(r)
  BY <1>0, <1>11 DEF Close, Move, OwnSend, HttpType
<1>12. CASE AnswerRead(r) \/ AnswerStatus(r) \/ ReadFails(r) \/ AnswerProbe(r)
  BY <1>0, <1>12 DEF AnswerRead, AnswerStatus, ReadFails, AnswerProbe
<1>. QED
  BY <1>3, <1>4, <1>5, <1>6, <1>7, <1>8, <1>9, <1>11, <1>12, <1>13, <1>14, <1>15
     DEF Serve, Dependencies, Handler

LEMMA InitInv == Init => Inv
<1> SUFFICES ASSUME Init PROVE Inv
  OBVIOUS
<1>1. Accepting!Inv
  <2>1. Accepting!Init
    BY SameInit DEF Init
  <2>. QED
    BY <2>1, AcceptAssumptions, Accepting!InitInv
<1>2. \A b \in Bucket : {s \in Send : charged[s] = b} = {}
  BY NoneIsApart DEF Init
<1>3. \A b \in Bucket : Spent(b) = 0
  BY <1>2, FS_EmptySet DEF Spent
<1>4. HttpType
  BY FS_EmptySet, HttpAssumption DEF HttpType, Init, Place
<1>5. \A r \in Request : Own(r)
  BY DEF Init, Own, InTransaction, Authenticated
<1>6. \A r \in Send : OwnSend(r)
  <2>1. None \notin {202, 401, 422, 429}
    BY NoneIsApart DEF Codes
  <2>2. \A r \in Send : at[r] = "received" /\ charged[r] = None /\ code[r] = None
    BY DEF Init, Request, Authenticated
  <2>3. \A r \in Send : rows[r] = None /\ step[r] = "lookup"
    BY DEF Init, Service!Init, Service!Request, Send
  <2>4. \A r \in Send : code[r] \in (Codes \ {200, 404}) \cup {None}
    BY <2>2
  <2>5. \A r \in Send : code[r] \notin {202, 401, 422, 429}
    BY <2>1, <2>2
  <2>. QED
    BY <2>2, <2>3, <2>4, <2>5 DEF OwnSend
<1>7. WithinBudget
  <2>1. \A r \in Send : code[r] # 429
    BY NoneIsApart DEF Init, Codes, Request, Authenticated
  <2>. QED
    BY <1>3, <2>1, HttpAssumption DEF WithinBudget
<1>. QED
  BY <1>1, <1>4, <1>5, <1>6, <1>7 DEF Inv

LEMMA StepInv == Inv /\ [Next]_vars => Inv'
<1> SUFFICES ASSUME Inv, [Next]_vars PROVE Inv'
  OBVIOUS
<1>1. Accepting!Inv'
  <2>1. Accepting!Inv /\ [Accepting!Next]_(Accepting!vars)
    BY StepOfAccept, SameNext, SameVars DEF Inv
  <2>. QED
    BY <2>1, AcceptAssumptions, Accepting!StepInv
<1>2. CASE UNCHANGED vars \/ AllDone
  <2>1. UNCHANGED vars
    BY <1>2 DEF AllDone
  <2>. QED
    BY <1>1, <2>1
       DEF vars, acceptVars, brokerVars, serverVars, counters, Inv, HttpType, Own,
           OwnSend, InTransaction, WithinBudget, Spent
<1>3. ASSUME NEW r \in Request, Serve(r) \/ PoolTimesOut(r) PROVE Inv'
  <2>1. HttpType' /\ WithinBudget' /\ Own(r)'
    BY <1>3, StepType, StepBudget, StepOwn
  <2>2. OneMoves(r)
    BY <1>3, StepMoves
  <2>3. ASSUME NEW s \in Request, s # r PROVE Own(s)'
    <3>1. Own(s)
      BY DEF Inv
    <3>2. s \in Send => step'[s] = step[s]
      BY <2>2, <2>3 DEF OneMoves
    <3>3. InTransaction(s)' <=> InTransaction(s)
      BY <2>2, <2>3, <3>2 DEF OneMoves, InTransaction
    <3>. QED
      BY <2>2, <2>3, <3>1, <3>3 DEF OneMoves, Own
  <2>4. ASSUME NEW s \in Send PROVE OwnSend(s)'
    <3>1. CASE s = r
      BY <1>3, <3>1, StepOwnSend
    <3>2. CASE s # r
      BY <2>2, <3>2 DEF OneMoves, Inv, OwnSend, Request, Authenticated
    <3>. QED
      BY <3>1, <3>2
  <2>5. \A s \in Request : Own(s)'
    BY <2>1, <2>3
  <2>. QED
    BY <1>1, <2>1, <2>4, <2>5 DEF Inv
<1>. QED
  BY <1>2, <1>3 DEF Next

LEMMA Invariance == Spec => []Inv
  BY InitInv, StepInv, PTL DEF Spec

-----------------------------------------------------------------------------
(* Theorems *)

\* Every variable of the API process keeps its type, and neither the worker
\* threads nor the connection pool are ever overcommitted.
THEOREM TypeCorrect == Spec => []TypeOK
<1>1. Inv => TypeOK
  <2> SUFFICES ASSUME Inv PROVE TypeOK
    OBVIOUS
  <2>1. Service!TypeOK
    BY SameType DEF Inv, Accepting!Inv
  <2>2. threads \subseteq Authenticated /\ conns \subseteq Authenticated
    <3>1. \A r \in Request : Own(r)
      BY DEF Inv
    <3>2. threads \subseteq Request /\ conns \subseteq Request
      BY DEF Inv, HttpType
    <3>. QED
      BY <3>1, <3>2 DEF Own, InTransaction
  <2>. QED
    BY <2>1, <2>2 DEF Inv, HttpType, TypeOK
<1>. QED
  BY <1>1, Invariance, PTL

\* On no path, failing or not, does an answered request keep a thread or a
\* connection, and no request holds a connection while it talks to the
\* broker (get_db's finally, accept's commit and rollback).
THEOREM ConnectionsAccountedFor == Spec => []NothingLeaks
<1>1. Inv => NothingLeaks
  BY DEF Inv, HttpType, Own, NothingLeaks
<1>. QED
  BY <1>1, Invariance, PTL

\* However many addresses a client sends from, it gets no more accepted than
\* its own bucket gives out, and is denied only when that bucket is spent.
THEOREM RateIsFair == Spec => []RateIsPerClient
<1>1. Inv => RateIsPerClient
  <2> SUFFICES ASSUME Inv PROVE RateIsPerClient
    OBVIOUS
  <2>1. ASSUME NEW c \in Client PROVE Cardinality(Granted(c)) <= Budget
    <3> DEFINE b == <<"key", Accounts[c].api_key>>
               T == {s \in Send : charged[s] = b}
    <3>1. b \in Bucket /\ Accounts[c].api_key \in ApiKey
      BY HttpAssumption DEF Bucket, Account
    <3>2. ASSUME NEW r \in Send, Owner[r] = c PROVE BucketOf(r) = b
      <4>1. CurrentClient(r) # {}
        BY <3>2, HttpAssumption DEF Owner
      <4>2. Owner[r] \in CurrentClient(r)
        BY <4>1 DEF Owner
      <4>3. ApiKeyOf[r] = Accounts[c].api_key
        BY <3>2, <4>2 DEF CurrentClient, GetByHashedApiKey
      <4>. QED
        BY <3>1, <4>3, HttpAssumption DEF BucketOf
    <3>3. Granted(c) \subseteq T
      BY <3>2 DEF Granted, Inv, OwnSend
    <3>4. IsFiniteSet(T)
      BY HttpAssumption, FS_Subset
    <3>5. Cardinality(T) <= Budget
      BY <3>1 DEF Inv, WithinBudget, Spent
    <3>. HIDE DEF T
    <3>6. /\ Cardinality(Granted(c)) <= Cardinality(T)
          /\ Cardinality(Granted(c)) \in Nat /\ Cardinality(T) \in Nat
      BY <3>3, <3>4, FS_Subset, FS_CardinalityType
    <3>. QED
      BY <3>5, <3>6, HttpAssumption
  <2>. QED
    BY <2>1 DEF Inv, WithinBudget, RateIsPerClient
<1>. QED
  BY <1>1, Invariance, PTL

\* What the limiter, the dependencies or validation refuse has not touched
\* the notifications table or the queue.
THEOREM NoTrace == Spec => []RefusedWithoutTrace
<1>1. Inv => RefusedWithoutTrace
  BY DEF Inv, OwnSend, RefusedWithoutTrace
<1>. QED
  BY <1>1, Invariance, PTL

\* Nobody is told 202 whose own row was never enqueued, whatever store fails at
\* whatever step: a notification that is stored and lost to the queue has
\* answered 500 or 503 to the request that made it.
THEOREM FailureIsReported == Spec => []StrandedIsReported
<1>1. Inv => StrandedIsReported
  <2> SUFFICES ASSUME Inv, NEW r \in Send, code[r] # None, rows[r] # None,
                      published[r] = 0
               PROVE  code[r] \in {500, 503}
    BY DEF StrandedIsReported
  <2>1. OwnSend(r)
    BY DEF Inv
  <2>2. code[r] \notin {202, 401, 422, 429}
    BY <2>1 DEF OwnSend
  <2>. QED
    BY <2>1, <2>2 DEF OwnSend, Codes
<1>. QED
  BY <1>1, Invariance, PTL

-----------------------------------------------------------------------------
(* Halts.  Beyond Inv, a handler always has a next step: what it was sent  *)
(* parses, and accept is not over while it runs.                           *)

HasNextStep(r) ==
  /\ at[r] \in {"authenticating", "queued", "handling"} => Bodies[r] # {"malformed"}
  /\ (at[r] = "handling" /\ r \in Send) => step[r] # "done"

LiveInv == \A r \in Request : HasNextStep(r)

LEMMA StepLive ==
  ASSUME Inv, LiveInv, NEW r \in Request, Serve(r) \/ PoolTimesOut(r)
  PROVE  HasNextStep(r)'
<1>0. Own(r) /\ HttpType /\ HasNextStep(r)
  BY DEF Inv, LiveInv
<1> USE DEF HasNextStep
<1>1. ASSUME NEW status, NEW held, Finish(r, status, held)
      PROVE  HasNextStep(r)'
  <2>1. at'[r] \in {"closing", "done"}
    BY <1>0, <1>1 DEF Finish, Move, HttpType
  <2>. QED
    BY <2>1
<1>2. CASE Admit(r) \/ Close(r)
  BY <1>0, <1>2 DEF Admit, Close, Move, HttpType
<1>3. CASE BeginAuthentication(r)
  BY <1>0, <1>3 DEF BeginAuthentication, StartThread, Move, HttpType
<1>4. CASE Authenticate(r)
  BY <1>0, <1>4 DEF Authenticate, Move, HttpType
<1>5. CASE BeginHandling(r)
  <2>1. /\ at[r] = "queued" /\ at'[r] = "handling"
        /\ r \in Send => step[r] = "lookup" /\ step'[r] = step[r]
    BY <1>0, <1>5
       DEF BeginHandling, StartThread, Move, HttpType, acceptVars, Inv, OwnSend
  <2>. QED
    BY <1>0, <2>1
<1>6. CASE LookUp(r) \/ EndTransaction(r) \/ CommitRefused(r)
  <2>1. /\ at[r] = "handling" /\ at' = at
        /\ step'[r] \in {"insert", "enqueue", "recover"}
    BY <1>6 DEF LookUp, EndTransaction, CommitRefused, Handling,
                Service!LookupMisses, Service!CommitRow, Service!LoseRace,
                Service!CommitRefused, Service!Proceed, Inv,
                Accepting!Inv, Accepting!TypeOK, Accepting!Request, Send
  <2>. QED
    BY <1>0, <2>1
<1>7. CASE \/ Deny(r) \/ LimiterFails(r) \/ AnswerProbe(r) \/ RefuseMalformed(r)
           \/ MissingKey(r) \/ RejectKey(r) \/ AuthenticationFails(r)
  BY <1>1, <1>7 DEF Deny, LimiterFails, AnswerProbe, RefuseMalformed, MissingKey,
                    RejectKey, AuthenticationFails, Unauthorized
<1>8. CASE \/ RefuseInvalid(r) \/ AnswerRead(r) \/ AnswerStatus(r) \/ ReadFails(r)
           \/ AnswerReplay(r) \/ KeyLookUpFails(r) \/ CommitBreaks(r)
           \/ AnswerAccepted(r) \/ AnswerUnavailable(r)
           \/ AnswerWithWinner(r) \/ AnswerReraised(r) \/ PoolTimesOut(r)
  BY <1>1, <1>8 DEF RefuseInvalid, AnswerRead, AnswerStatus, ReadFails, NotFound,
       AnswerReplay, KeyLookUpFails, CommitBreaks, AnswerAccepted,
       AnswerUnavailable, Unavailable, AnswerWithWinner, AnswerReraised, PoolTimesOut
<1>. QED
  BY <1>2, <1>3, <1>4, <1>5, <1>6, <1>7, <1>8 DEF Serve, Dependencies, Handler

LEMMA LiveInvariance == Spec => []LiveInv
<1>1. Init => LiveInv
  BY DEF Init, LiveInv, HasNextStep
<1>2. Inv /\ LiveInv /\ [Next]_vars => LiveInv'
  <2> SUFFICES ASSUME Inv, LiveInv, [Next]_vars, NEW s \in Request
               PROVE  HasNextStep(s)'
    BY DEF LiveInv
  <2>1. CASE UNCHANGED vars \/ AllDone
    BY <2>1 DEF vars, AllDone, acceptVars, LiveInv, HasNextStep
  <2>2. ASSUME NEW r \in Request, Serve(r) \/ PoolTimesOut(r)
        PROVE  HasNextStep(s)'
    <3>1. CASE s = r
      BY <2>2, <3>1, StepLive
    <3>2. CASE s # r
      <4>1. at'[s] = at[s] /\ (s \in Send => step'[s] = step[s])
        BY <2>2, <3>2, StepMoves DEF OneMoves
      <4>. QED
        BY <4>1 DEF LiveInv, HasNextStep
    <3>. QED
      BY <3>1, <3>2
  <2>. QED
    BY <2>1, <2>2 DEF Next
<1>. QED
  BY <1>1, <1>2, Invariance, PTL DEF Spec

\* A handler with a thread waits for nothing but a connection, and only to look
\* for the row that beat it; every handler has a branch for what it was sent.
LEMMA HandlersProceed ==
  ASSUME Inv, LiveInv, NEW r \in Request, at[r] = "handling",
         ~(WaitsForConnection(r) /\ PoolExhausted)
  PROVE  HandlerCanProceed(r)
<1>1. r \in Authenticated /\ Bodies[r] # {"malformed"} /\ Bodies[r] # {}
      /\ Bodies[r] \subseteq BodyKind
  BY HttpAssumption DEF Inv, Own, LiveInv, HasNextStep
<1>2. "valid" \in Bodies[r] \/ "invalid" \in Bodies[r]
  BY <1>1 DEF BodyKind
<1>3. CASE r \in Read
  <2>1. r \notin Send /\ Asked[r] # {} /\ Asked[r] \subseteq Notification \cup {None}
    BY <1>3, HttpAssumption
  <2>. QED
    BY <1>2, <1>3, <2>1 DEF HandlerCanProceed
<1>4. CASE r \in Send
  <2>1. step[r] \in {"lookup", "insert", "recover", "enqueue"}
    BY <1>4 DEF Inv, LiveInv, HasNextStep, Accepting!Inv, Accepting!TypeOK,
                Accepting!Step, Accepting!Request, Send
  <2>2. CASE step[r] = "recover"
    BY <1>4, <2>2 DEF WaitsForConnection, Handling, HandlerCanProceed
  <2>3. CASE step[r] # "recover"
    BY <1>2, <1>4, <2>1, <2>3 DEF HandlerCanProceed
  <2>. QED
    BY <2>2, <2>3
<1>. QED
  BY <1>1, <1>3, <1>4 DEF Authenticated

\* Until the pool times out, the process comes to a halt in one way only: all
\* threads wait for a connection, and all connections are held by requests
\* that authenticated and wait for a thread (get_current_client and the
\* handler are run in a thread each, the session spans both).
THEOREM OnlyGridlockHalts == Spec => []HaltsOnlyInGridlock
<1>1. ASSUME Inv, LiveInv, HeldUp PROVE Gridlock
  <2>1. \A r \in Request : Own(r) /\ ~CanProceed(r)
    BY <1>1 DEF Inv, HeldUp
  <2>2. /\ threads \subseteq Request /\ Cardinality(threads) \in Nat
        /\ Cardinality(threads) <= Threads /\ Threads \in Nat \ {0}
        /\ conns \subseteq Request /\ Cardinality(conns) \in Nat
        /\ Cardinality(conns) <= PoolSize /\ PoolSize \in Nat \ {0}
    BY <1>1, HttpAssumption, FS_CardinalityType DEF Inv, HttpType
  <2>3. ASSUME NEW r \in threads
        PROVE  WaitsForConnection(r) /\ PoolExhausted
    <3>1. r \in Request /\ at[r] \in {"authenticating", "handling"} /\ ~CanProceed(r)
      BY <2>1, <2>2 DEF Own
    <3>2. CASE at[r] = "authenticating"
      BY <3>1, <3>2 DEF CanProceed, WaitsForConnection
    <3>3. CASE at[r] = "handling"
      BY <1>1, <3>1, <3>3, HandlersProceed DEF CanProceed
    <3>. QED
      BY <3>1, <3>2, <3>3
  <2>4. ASSUME NEW r \in conns
        PROVE  at[r] = "queued" /\ ~ThreadFree
    <3>1. r \in Request /\ InTransaction(r) /\ ~CanProceed(r) /\ Own(r)
      BY <2>1, <2>2 DEF Own
    <3>2. at[r] # "handling"
      <4>1. SUFFICES ASSUME at[r] = "handling" PROVE FALSE
        OBVIOUS
      <4>2. WaitsForConnection(r)
        BY <2>3, <3>1, <4>1 DEF Own
      <4>. QED
        BY <3>1, <4>1, <4>2 DEF WaitsForConnection, Handling, InTransaction
    <3>. QED
      BY <3>1, <3>2 DEF InTransaction, CanProceed
  <2>5. PoolExhausted => ~ThreadFree
    <3>1. SUFFICES ASSUME PoolExhausted PROVE ~ThreadFree
      OBVIOUS
    <3>2. conns # {}
      BY <2>2, <3>1, FS_EmptySet DEF PoolExhausted
    <3>. QED
      BY <2>4, <3>2
  <2>6. ~ThreadFree
    <3>1. SUFFICES ASSUME ThreadFree PROVE FALSE
      OBVIOUS
    <3>2. PICK r \in Request : at[r] # "done"
      BY <1>1 DEF HeldUp
    <3>3. at[r] \in Place
      BY <1>1, <3>2 DEF Inv, HttpType
    <3>4. CASE at[r] \in {"authenticating", "handling"}
      <4>1. r \in threads
        BY <2>1, <3>2, <3>4 DEF Own
      <4>. QED
        BY <2>3, <2>5, <3>1, <4>1
    <3>5. CASE at[r] = "routed"
      <4>1. r \in Probe \/ Bodies[r] # {"malformed"} \/ (r \in Send /\ "malformed" \in Bodies[r])
        BY HttpAssumption DEF Request, Authenticated
      <4>. QED
        BY <2>1, <3>1, <3>2, <3>5, <4>1 DEF CanProceed
    <3>6. CASE at[r] \in {"received", "queued", "closing"}
      BY <2>1, <3>1, <3>2, <3>6 DEF CanProceed
    <3>. QED
      BY <3>2, <3>3, <3>4, <3>5, <3>6 DEF Place
  <2>7. Cardinality(threads) = Threads
    BY <2>2, <2>6 DEF ThreadFree
  <2>8. Cardinality(conns) = PoolSize
    <3>1. threads # {}
      BY <2>2, <2>7, FS_EmptySet
    <3>2. PoolExhausted
      BY <2>3, <3>1
    <3>. QED
      BY <2>2, <3>2 DEF PoolExhausted
  <2>. QED
    BY <2>3, <2>4, <2>7, <2>8 DEF Gridlock
<1>2. Inv /\ LiveInv => HaltsOnlyInGridlock
  BY <1>1 DEF HaltsOnlyInGridlock
<1>. QED
  BY <1>2, Invariance, LiveInvariance, PTL
=============================================================================
