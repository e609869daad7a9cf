------------------------------ MODULE Service ------------------------------
(***************************************************************************)
(* What a client may rely on from POST /send to the recipient, as if there *)
(* were no requests in progress, no tickets and no workers: a key makes    *)
(* one notification (Idempotency), and that one runs through its life to   *)
(* SENT or FAILED (Lifecycle).                                             *)
(***************************************************************************)
EXTENDS NotificationDomain

CONSTANTS
  Owner,     \* the client of each request; a request stands for the id it
  KeyOf      \* would create, and for its key, or None

VARIABLES
  status, burned, delivered, buried,   \* see Lifecycle
  answer                               \* see Idempotency

life == <<status, burned, delivered, buried>>
vars == <<life, answer>>

Life == INSTANCE Lifecycle

Keys ==
  INSTANCE Idempotency WITH
    Request  <- Notification,
    NoKey    <- None,
    NoAnswer <- None,
    created  <- {n \in Notification : status[n] # None}

Init == Life!Init /\ Keys!Init

\* A notification is born PENDING, unless its like exists.
Create(r) ==
  /\ status' = [status EXCEPT ![r] = "PENDING"]
  /\ Keys!Create(r)
  /\ UNCHANGED <<burned, delivered, buried>>

\* Its id is the answer to every request for it, at any time of its life.
Answer(r) ==
  /\ Keys!Answer(r)
  /\ UNCHANGED life

Next ==
  \E n \in Notification :
    \/ Create(n)
    \/ Answer(n)
    \/ Life!Progress(n) /\ UNCHANGED answer

Spec == Init /\ [][Next]_vars
=============================================================================
