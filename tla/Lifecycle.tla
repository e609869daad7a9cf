------------------------------ MODULE Lifecycle ------------------------------
(***************************************************************************)
(* What the delivery side promises about a notification, with no workers,  *)
(* tickets or sessions: an attempt begins, the recipient gets the message  *)
(* at most once, a failure is counted and either deferred or final, and a  *)
(* final failure is buried in the dead-letter queue.                       *)
(***************************************************************************)
EXTENDS NotificationDomain

VARIABLES
  status,     \* status the API would report; None if there is no row
  burned,     \* failed attempts counted in the row
  delivered,  \* messages the recipient got
  buried      \* ids handed to the dead-letter queue

vars == <<status, burned, delivered, buried>>

Init ==
  /\ status \in [Notification -> {None, "PENDING"}]
  /\ burned = [n \in Notification |-> 0]
  /\ delivered = [n \in Notification |-> 0]
  /\ buried = {}

Move(n, from, to) ==
  /\ status[n] = from
  /\ status' = [status EXCEPT ![n] = to]

\* An attempt is announced before the provider is called.
Begin(n) ==
  /\ Move(n, "PENDING", "PROCESSING")
  /\ UNCHANGED <<burned, delivered, buried>>

\* The recipient gets the message: once, during an attempt.
Deliver(n) ==
  /\ status[n] = "PROCESSING"
  /\ delivered[n] = 0
  /\ delivered' = [delivered EXCEPT ![n] = 1]
  /\ UNCHANGED <<status, burned, buried>>

\* SENT only after the recipient got the message.
Confirm(n) ==
  /\ delivered[n] = 1
  /\ Move(n, "PROCESSING", "SENT")
  /\ UNCHANGED <<burned, delivered, buried>>

\* A failed attempt counts exactly once.
Burn(n) ==
  /\ delivered[n] = 0
  /\ burned[n] < MaxAttempts
  /\ burned' = [burned EXCEPT ![n] = @ + 1]
  /\ UNCHANGED <<delivered, buried>>

\* Another attempt is allowed only while the budget is not used up.
Defer(n) ==
  /\ Burn(n)
  /\ burned'[n] < MaxAttempts
  /\ Move(n, "PROCESSING", "PENDING")

Fail(n) ==
  /\ Burn(n)
  /\ Move(n, "PROCESSING", "FAILED")

Bury(n) ==
  /\ status[n] = "FAILED"
  /\ n \notin buried
  /\ buried' = buried \cup {n}
  /\ UNCHANGED <<status, burned, delivered>>

Progress(n) ==
  Begin(n) \/ Deliver(n) \/ Confirm(n) \/ Defer(n) \/ Fail(n) \/ Bury(n)

Next == \E n \in Notification : Progress(n)

Spec == Init /\ [][Next]_vars

\* With nothing going wrong around it, every notification runs to its end.
FairSpec == Spec /\ \A n \in Notification : WF_vars(Progress(n))
=============================================================================
