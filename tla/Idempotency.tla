---------------------------- MODULE Idempotency ----------------------------
(***************************************************************************)
(* What POST /send promises about idempotency keys, as if every request    *)
(* were handled in one step: a client's key names one notification for     *)
(* ever, and a request without a key names one of its own.                 *)
(*                                                                         *)
(* Each request would create one notification; the request stands for the  *)
(* id (a fresh UUID) of the notification it would create.                  *)
(***************************************************************************)
CONSTANTS
  Request,   \* requests, each with the id it would create
  Owner,     \* the authenticated client of each request
  KeyOf,     \* the idempotency key of each request, or NoKey
  NoKey,
  NoAnswer

VARIABLES
  created,   \* ids of the notifications that exist
  answer     \* the id each request was accepted with, or NoAnswer

vars == <<created, answer>>

\* Two requests that ask for the same notification.
Same(r, s) ==
  r = s \/ (KeyOf[r] # NoKey /\ KeyOf[r] = KeyOf[s] /\ Owner[r] = Owner[s])

Init ==
  /\ created = {}
  /\ answer = [r \in Request |-> NoAnswer]

\* A notification comes into being unless its like exists.
Create(r) ==
  /\ \A n \in created : ~Same(r, n)
  /\ created' = created \cup {r}
  /\ UNCHANGED answer

\* A request is accepted with the one notification that is its like.
Answer(r) ==
  /\ answer[r] = NoAnswer
  /\ \E n \in created :
       /\ Same(r, n)
       /\ answer' = [answer EXCEPT ![r] = n]
  /\ UNCHANGED created

Next == \E r \in Request : Create(r) \/ Answer(r)

Spec == Init /\ [][Next]_vars
=============================================================================
