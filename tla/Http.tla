-------------------------------- MODULE Http --------------------------------
(***************************************************************************)
(* One API process from the first middleware to the closed session: the    *)
(* rate limiter (app/api/middleware/rate_limit.py), the dependencies       *)
(* (app/api/deps.py), validation, the routers and the status codes, around *)
(* the steps of Accept.                                                    *)
(*                                                                         *)
(* Handlers and dependencies are synchronous, so the event loop runs each  *)
(* of them in one of a bounded number of threads, and gives the thread back*)
(* between the dependencies and the handler.  A session takes a connection *)
(* of a bounded pool with its first SELECT, which is the one that          *)
(* authenticates, and keeps it until it commits, rolls back or is closed.  *)
(*                                                                         *)
(*   received        POST /send before the limiter                         *)
(*   routed          past the middleware, waiting for a thread             *)
(*   authenticating  get_current_client, in a thread                       *)
(*   queued          authenticated, waiting for a thread                   *)
(*   handling        the handler, in a thread                              *)
(*   closing         answered, session.close() to come                     *)
(*   done            answered, nothing held                                *)
(***************************************************************************)
EXTENDS Broker, FiniteSets

CONSTANTS
  Client,
  KeyOf,            \* the idempotency key in each POST /send, None without one
  Read,             \* GET /me, /metrics and /{id}/status requests
  Probe,            \* GET /health requests
  ApiKey,           \* values of X-API-Key
  ApiKeyOf,         \* the header of each send and read, None without one
  Address,
  AddressOf,        \* where each send comes from
  Accounts,         \* the clients table: hashed_api_key and is_active
  Asked,            \* the ids a read may ask for, None for /me and /metrics
  Bodies,           \* the bodies each request may turn out to have
  Budget,           \* tokens a bucket gives out while these requests run
  MaxFailures,      \* bound on failures of limiter, SELECT, commit, publish
  Threads,          \* AnyIO's limiter of worker threads
  PoolSize          \* connections of the engine, overflow included

\* A send request stands for the UUID it would insert, as in Accept.
Send == Notification
Authenticated == Send \cup Read
Request == Authenticated \cup Probe

\* A row of the clients table; SHA-256 is one to one.
Account == [api_key : ApiKey, is_active : BOOLEAN]

BodyKind == {"valid", "invalid", "malformed"}

ASSUME HttpAssumption ==
  /\ Send \cap Read = {} /\ Probe \cap Authenticated = {}
  /\ DOMAIN KeyOf = Send
  /\ ApiKeyOf \in [Authenticated -> ApiKey \cup {None}]
  /\ AddressOf \in [Send -> Address]
  /\ Accounts \in [Client -> Account]
  /\ \A c, d \in Client : Accounts[c].api_key = Accounts[d].api_key => c = d
  /\ Asked \in [Read -> (SUBSET (Notification \cup {None})) \ {{}}]
  /\ Bodies \in [Authenticated -> (SUBSET BodyKind) \ {{}}]
  /\ \A r \in Read : "malformed" \notin Bodies[r]
  /\ IsFiniteSet(Send)
  /\ MaxFailures \in Nat /\ Budget \in Nat
  /\ Threads \in Nat \ {0} /\ PoolSize \in Nat \ {0}
  /\ None \notin ApiKey \cup Client

VARIABLES
  rows, step, reply, requestFaults,   \* see Accept
  at,        \* per request: where it is
  threads,   \* requests that occupy a thread
  conns,     \* requests whose session holds a connection
  charged,   \* per send: the bucket it took a token from, or None
  failures,  \* number of failures so far; a pool that times out is none
  code       \* per request: its status code, or None

acceptVars == <<brokerVars, rows, step, reply, requestFaults>>
serverVars == <<threads, conns>>
counters == <<charged, failures>>
vars == <<acceptVars, at, serverVars, counters, code>>

Place == {"received", "routed", "authenticating", "queued", "handling",
          "closing", "done"}

-----------------------------------------------------------------------------
(* Helpers *)

GetByHashedApiKey(key) == {c \in Client : Accounts[c].api_key = key}

\* get_current_client: the active client with this key, if there is one.
CurrentClient(r) ==
  {c \in GetByHashedApiKey(ApiKeyOf[r]) : Accounts[c].is_active}

\* The client_id accept is called with, for requests that get so far.
Owner ==
  [r \in Send |-> IF CurrentClient(r) = {} THEN None
                  ELSE CHOOSE c \in CurrentClient(r) : TRUE]

\* A request has at most two faults, a refused row and then a SELECT that
\* raises, so their bound excludes none.
Service ==
  INSTANCE Accept WITH
    Client           <- Client \cup {None},
    RequestFaults    <- {"select", "constraint", "commit", "publish"},
    MaxRequestFaults <- 2 * Cardinality(Send)

Bucket == ({"key"} \X ApiKey) \cup ({"ip"} \X Address)

Codes == {200, 202, 401, 404, 422, 429, 500, 503}

ASSUME NoneIsApart == None \notin Bucket \cup Codes \cup Service!Accepted

\* Variant that always limits by address.
BucketByAddress(r) == <<"ip", AddressOf[r]>>

\* _bucket_key: the presented key, known or not; the address without one.
BucketOf(r) ==
  IF ApiKeyOf[r] # None THEN <<"key", ApiKeyOf[r]>> ELSE <<"ip", AddressOf[r]>>

Spent(b) == Cardinality({s \in Send : charged[s] = b})

ThreadFree == Cardinality(threads) < Threads

PoolExhausted == Cardinality(conns) >= PoolSize

Fails == failures < MaxFailures /\ failures' = failures + 1

Move(r, place) == at' = [at EXCEPT ![r] = place]

\* The answer leaves the handler or a dependency: the thread goes back, and
\* the session, when it holds a connection, still has to be closed.
Finish(r, status, held) ==
  /\ code' = [code EXCEPT ![r] = status]
  /\ threads' = threads \ {r}
  /\ conns' = held
  /\ Move(r, IF r \in held THEN "closing" ELSE "done")

\* handle_unauthorized: the same answer for every reason.
Unauthorized(r, held) == Finish(r, 401, held)

\* handle_notification_not_found
NotFound(r) == Finish(r, 404, conns)

\* handle_queue_unavailable
Unavailable(r) == Finish(r, 503, conns)

\* Only POST /send stops at the limiter.
Init ==
  /\ Service!Init
  /\ at = [r \in Request |-> IF r \in Send THEN "received" ELSE "routed"]
  /\ threads = {} /\ conns = {}
  /\ charged = [r \in Send |-> None]
  /\ failures = 0
  /\ code = [r \in Request |-> None]

-----------------------------------------------------------------------------
(* The rate limiter: POST /send only, before anything else.  consume is     *)
(* synchronous, so no other request's middleware runs meanwhile.            *)

Admit(r) ==
  /\ at[r] = "received"
  /\ Spent(BucketOf(r)) < Budget
  /\ charged' = [charged EXCEPT ![r] = BucketOf(r)]
  /\ Move(r, "routed")
  /\ UNCHANGED <<acceptVars, serverVars, failures, code>>

Deny(r) ==
  /\ at[r] = "received"
  /\ Spent(BucketOf(r)) >= Budget
  /\ Finish(r, 429, conns)
  /\ UNCHANGED <<acceptVars, counters>>

\* RedisError: 503, and the token may be gone.
LimiterFails(r) ==
  /\ at[r] = "received" /\ Fails
  /\ \/ UNCHANGED charged
     \/ /\ Spent(BucketOf(r)) < Budget
        /\ charged' = [charged EXCEPT ![r] = BucketOf(r)]
  /\ Finish(r, 503, conns)
  /\ UNCHANGED acceptVars

-----------------------------------------------------------------------------
(* Dependencies *)

\* A body that is no JSON is refused before any dependency runs.
RefuseMalformed(r) ==
  /\ at[r] = "routed" /\ r \in Send
  /\ "malformed" \in Bodies[r]
  /\ Finish(r, 422, conns)
  /\ UNCHANGED <<acceptVars, counters>>

\* The event loop finds a thread for the next function of a request.
StartThread(r, from, to) ==
  /\ at[r] = from /\ ThreadFree
  /\ threads' = threads \cup {r}
  /\ Move(r, to)
  /\ UNCHANGED <<acceptVars, conns, counters, code>>

\* get_db opens a session and get_current_client starts.
BeginAuthentication(r) ==
  /\ r \in Authenticated /\ ApiKeyOf[r] # None
  /\ Bodies[r] # {"malformed"}
  /\ StartThread(r, "routed", "authenticating")

\* No header: 401 from the thread without a query.
MissingKey(r) ==
  /\ at[r] = "routed" /\ r \in Authenticated
  /\ ApiKeyOf[r] = None /\ Bodies[r] # {"malformed"}
  /\ ThreadFree
  /\ Unauthorized(r, conns)
  /\ UNCHANGED <<acceptVars, counters>>

\* Variant without a limit to the pool.
AuthenticateUnpooled(r) ==
  /\ at[r] = "authenticating"
  /\ CurrentClient(r) # {}
  /\ conns' = conns \cup {r}
  /\ threads' = threads \ {r}
  /\ Move(r, "queued")
  /\ UNCHANGED <<acceptVars, counters, code>>

\* The SELECT takes a connection and finds the client; the thread goes back,
\* the connection does not.
Authenticate(r) ==
  /\ at[r] = "authenticating"
  /\ CurrentClient(r) # {}
  /\ ~PoolExhausted
  /\ conns' = conns \cup {r}
  /\ threads' = threads \ {r}
  /\ Move(r, "queued")
  /\ UNCHANGED <<acceptVars, counters, code>>

\* Variant of get_db without its finally.
RejectKeyUnclosed(r) ==
  /\ at[r] = "authenticating"
  /\ CurrentClient(r) = {}
  /\ ~PoolExhausted
  /\ code' = [code EXCEPT ![r] = 401]
  /\ threads' = threads \ {r}
  /\ conns' = conns \cup {r}
  /\ Move(r, "done")
  /\ UNCHANGED <<acceptVars, counters>>

\* The SELECT finds nobody, or somebody inactive.
RejectKey(r) ==
  /\ at[r] = "authenticating"
  /\ CurrentClient(r) = {}
  /\ ~PoolExhausted
  /\ Unauthorized(r, conns \cup {r})
  /\ UNCHANGED <<acceptVars, counters>>

\* The SELECT raises: 500, and get_db closes the session.
AuthenticationFails(r) ==
  /\ at[r] = "authenticating"
  /\ ~PoolExhausted
  /\ Fails
  /\ \E held \in {conns, conns \cup {r}} : Finish(r, 500, held)
  /\ UNCHANGED <<acceptVars, charged>>

\* get_notification_service, then the handler.
BeginHandling(r) == StartThread(r, "queued", "handling")

-----------------------------------------------------------------------------
(* Handlers *)

\* Variant that validates when accept has already begun.
RefuseInvalidLate(r) ==
  /\ at[r] = "handling" /\ "invalid" \in Bodies[r]
  /\ Finish(r, 422, conns)
  /\ UNCHANGED <<acceptVars, counters>>

\* The dependencies are solved; what does not fit the schema is reported now.
RefuseInvalid(r) ==
  /\ at[r] = "handling" /\ "invalid" \in Bodies[r]
  /\ r \in Send => step[r] = "lookup"
  /\ Finish(r, 422, conns)
  /\ UNCHANGED <<acceptVars, counters>>

\* GET /me, GET /metrics
AnswerRead(r) ==
  /\ at[r] = "handling" /\ r \in Read /\ None \in Asked[r]
  /\ Finish(r, 200, conns)
  /\ UNCHANGED <<acceptVars, counters>>

\* GET /{id}/status: 404 for a row that is missing or foreign.
AnswerStatus(r) ==
  /\ at[r] = "handling" /\ r \in Read /\ "valid" \in Bodies[r]
  /\ \E n \in Asked[r] \cap Notification :
       IF rows[n] # None /\ Owner[n] \in CurrentClient(r)
         THEN Finish(r, 200, conns) ELSE NotFound(r)
  /\ UNCHANGED <<acceptVars, counters>>

\* The SELECT of the counts or of the row raises: 500.
ReadFails(r) ==
  /\ at[r] = "handling" /\ r \in Read
  /\ None \in Asked[r] \/ "valid" \in Bodies[r]
  /\ Fails
  /\ Finish(r, 500, conns)
  /\ UNCHANGED <<acceptVars, charged>>

Handling(r) == at[r] = "handling" /\ r \in Send

\* accept finds no row with the key.
LookUp(r) ==
  /\ Handling(r) /\ "valid" \in Bodies[r]
  /\ Service!LookupMisses(r)
  /\ UNCHANGED <<at, serverVars, counters, code>>

AnswerReplay(r) ==
  /\ Handling(r) /\ "valid" \in Bodies[r]
  /\ Service!Replay(r)
  /\ Finish(r, 202, conns)
  /\ UNCHANGED counters

\* Variant that publishes before it ends the transaction.
EndTransactionLater(r) ==
  /\ Handling(r)
  /\ Service!CommitRow(r) \/ Service!LoseRace(r)
  /\ UNCHANGED <<at, serverVars, counters, code>>

\* The SELECT by key raises, for the lookup or, on another connection, for the
\* winner: 500.
KeyLookUpFails(r) ==
  /\ Handling(r) /\ "valid" \in Bodies[r]
  /\ step[r] = "recover" => ~PoolExhausted
  /\ Fails
  /\ Service!SelectFails(r)
  /\ \E held \in {conns, conns \cup {r}} : Finish(r, 500, held)
  /\ UNCHANGED charged

\* Commit and rollback give the connection back; the thread goes on.
EndTransaction(r) ==
  /\ Handling(r)
  /\ Service!CommitRow(r) \/ Service!LoseRace(r)
  /\ conns' = conns \ {r}
  /\ UNCHANGED <<at, threads, counters, code>>

\* The commit raises: 500.
CommitBreaks(r) ==
  /\ Handling(r) /\ Fails
  /\ Service!CommitFails(r)
  /\ Finish(r, 500, conns)
  /\ UNCHANGED charged

\* The row is refused for another reason than its key; rolled back as well.
CommitRefused(r) ==
  /\ Handling(r) /\ Fails
  /\ Service!CommitRefused(r)
  /\ conns' = conns \ {r}
  /\ UNCHANGED <<at, threads, charged, code>>

\* The loser of a race reads the winner on another connection.
AnswerWithWinner(r) ==
  /\ Handling(r) /\ ~PoolExhausted
  /\ Service!ReadWinner(r)
  /\ Finish(r, 202, conns \cup {r})
  /\ UNCHANGED counters

\* accept raises the IntegrityError again, at once without a key, or when the
\* SELECT on another connection finds no winner: 500.
AnswerReraised(r) ==
  /\ Handling(r)
  /\ Service!Reraise(r)
  /\ IF KeyOf[r] = None THEN Finish(r, 500, conns)
     ELSE ~PoolExhausted /\ Finish(r, 500, conns \cup {r})
  /\ UNCHANGED counters

AnswerAccepted(r) ==
  /\ Handling(r)
  /\ Service!Enqueue(r)
  /\ Finish(r, 202, conns)
  /\ UNCHANGED counters

\* Variant of a handler that has accepted once the row is there.
AnswerRegardless(r) ==
  /\ Handling(r) /\ Fails
  /\ Service!EnqueueFails(r)
  /\ Finish(r, 202, conns)
  /\ UNCHANGED charged

AnswerUnavailable(r) ==
  /\ Handling(r) /\ Fails
  /\ Service!EnqueueFails(r)
  /\ Unavailable(r)
  /\ UNCHANGED charged

\* The session of a request that still has a connection is closed, whatever
\* the answer.
Close(r) ==
  /\ at[r] = "closing"
  /\ conns' = conns \ {r}
  /\ Move(r, "done")
  /\ UNCHANGED <<acceptVars, threads, counters, code>>

\* GET /health needs a thread and nothing else.
AnswerProbe(r) ==
  /\ at[r] = "routed" /\ r \in Probe
  /\ ThreadFree
  /\ Finish(r, 200, conns)
  /\ UNCHANGED <<acceptVars, counters>>

-----------------------------------------------------------------------------
(* Timeouts: the pool raises when no connection comes free: 500 *)

WaitsForConnection(r) ==
  \/ at[r] = "authenticating"
  \/ Handling(r) /\ step[r] = "recover" /\ KeyOf[r] # None

\* Variant of a pool that waits for ever.
PoolWaits(r) == WaitsForConnection(r) /\ PoolExhausted /\ UNCHANGED vars

PoolTimesOut(r) ==
  /\ WaitsForConnection(r) /\ PoolExhausted
  /\ IF at[r] = "handling" THEN Service!SelectFails(r) ELSE UNCHANGED acceptVars
  /\ Finish(r, 500, conns)
  /\ UNCHANGED counters

-----------------------------------------------------------------------------

Dependencies(r) ==
  \/ RefuseMalformed(r)
  \/ BeginAuthentication(r) \/ MissingKey(r) \/ Authenticate(r) \/ RejectKey(r)
  \/ AuthenticationFails(r) \/ BeginHandling(r)

Handler(r) ==
  \/ RefuseInvalid(r) \/ AnswerRead(r) \/ AnswerStatus(r) \/ ReadFails(r)
  \/ LookUp(r) \/ AnswerReplay(r) \/ KeyLookUpFails(r)
  \/ EndTransaction(r) \/ CommitBreaks(r) \/ CommitRefused(r)
  \/ AnswerWithWinner(r) \/ AnswerReraised(r)
  \/ AnswerAccepted(r) \/ AnswerUnavailable(r)

Serve(r) ==
  \/ Admit(r) \/ Deny(r) \/ LimiterFails(r)
  \/ at[r] \in {"routed", "authenticating", "queued"} /\ Dependencies(r)
  \/ at[r] = "handling" /\ Handler(r)
  \/ Close(r) \/ AnswerProbe(r)

AllDone == (\A r \in Request : at[r] = "done") /\ UNCHANGED vars

Next ==
  \/ \E r \in Request : Serve(r) \/ PoolTimesOut(r)
  \/ AllDone

Spec == Init /\ [][Next]_vars

\* Redis, Postgres and the broker answer or raise, and a full pool raises in
\* the end.  A request takes finitely many steps, so it is enough that they
\* do not all stop.
FairSpec == Spec /\ WF_vars(\E r \in Request : Serve(r) \/ PoolTimesOut(r))

-----------------------------------------------------------------------------
(* Properties *)

\* Every variable holds values of the shape the code gives it, and neither
\* the threads nor the pool are overcommitted.
TypeOK ==
  /\ Service!TypeOK
  /\ at \in [Request -> Place]
  /\ threads \in SUBSET Authenticated /\ Cardinality(threads) <= Threads
  /\ conns \in SUBSET Authenticated /\ Cardinality(conns) <= PoolSize
  /\ charged \in [Send -> Bucket \cup {None}]
  /\ failures \in Nat
  /\ code \in [Request -> Codes \cup {None}]

InTransaction(r) ==
  \/ at[r] \in {"queued", "closing"}
  \/ at[r] = "handling" /\ (r \in Send => step[r] \in {"lookup", "insert"})

\* On every path, the failing ones included, a thread is occupied exactly by
\* a running dependency or handler, and a connection exactly by a request
\* between its authentication and the end of its transaction: none while
\* the broker is asked, none after the answer.
NothingLeaks ==
  /\ threads = {r \in Request : at[r] \in {"authenticating", "handling"}}
  /\ conns = {r \in Request : InTransaction(r)}

\* A handler that has its thread can do its next step.
HandlerCanProceed(r) ==
  \/ "invalid" \in Bodies[r] /\ (r \in Send => step[r] = "lookup")
  \/ r \in Read /\ None \in Asked[r]
  \/ r \in Read /\ "valid" \in Bodies[r] /\ Asked[r] \cap Notification # {}
  \/ r \in Send /\ step[r] = "lookup" /\ "valid" \in Bodies[r]
  \/ r \in Send /\ step[r] \in {"insert", "enqueue"}
  \/ r \in Send /\ step[r] = "recover" /\ (KeyOf[r] = None \/ ~PoolExhausted)

\* Request r can be served a step further: the guards of Serve.
CanProceed(r) ==
  \/ at[r] \in {"received", "closing"}
  \/ at[r] = "routed" /\ r \in Send /\ "malformed" \in Bodies[r]
  \/ at[r] = "routed" /\ ThreadFree /\ (r \in Probe \/ Bodies[r] # {"malformed"})
  \/ at[r] = "authenticating" /\ ~PoolExhausted
  \/ at[r] = "queued" /\ ThreadFree
  \/ at[r] = "handling" /\ HandlerCanProceed(r)

\* Some request is unfinished and none can go on before a timeout.
HeldUp ==
  /\ \E r \in Request : at[r] # "done"
  /\ \A r \in Request : ~CanProceed(r)

\* All threads wait for connections that are all held by requests that wait
\* for a thread.
Gridlock ==
  /\ Cardinality(threads) = Threads
  /\ \A r \in threads : WaitsForConnection(r)
  /\ Cardinality(conns) = PoolSize
  /\ \A r \in conns : at[r] = "queued"

\* Only gridlock can bring the process to a halt until a timeout: no smaller
\* load, no failure and no race of two requests for one key does.
HaltsOnlyInGridlock == HeldUp => Gridlock

\* The same of the steps themselves, whose guards CanProceed spells out.
StallsOnlyInGridlock ==
  /\ \A r \in Request : CanProceed(r) <=> ENABLED Serve(r)
  /\ HaltsOnlyInGridlock

Granted(c) ==
  {r \in Send : Owner[r] = c /\ (code[r] = 202 \/ rows[r] # None)}

\* Who pays: what a client gets accepted or stored, from however many
\* addresses, is within what one bucket gives out; and nobody is denied
\* unless those with the same key, or without one from the same address,
\* have spent the bucket.
RateIsPerClient ==
  /\ \A c \in Client : Cardinality(Granted(c)) <= Budget
  /\ \A r \in Send : code[r] = 429 => Spent(BucketOf(r)) >= Budget

\* A request refused with 401, 422 or 429 has left no row and no ticket: the
\* limiter, authentication and validation all come before accept.
RefusedWithoutTrace ==
  \A r \in Send :
    code[r] \in {401, 422, 429} => rows[r] = None /\ published[r] = 0

\* A client whose notification is stored and not enqueued was told that its
\* request failed: whatever of the two stores fails, it is not left to wait.
StrandedIsReported ==
  \A r \in Send :
    (code[r] # None /\ rows[r] # None /\ published[r] = 0)
      => code[r] \in {500, 503}

\* Every request is answered, whatever fails and however the requests
\* compete for threads and connections.
EveryRequestAnswered ==
  <>(\A r \in Request : at[r] = "done" /\ code[r] # None)
=============================================================================
