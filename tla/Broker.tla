------------------------------- MODULE Broker -------------------------------
(***************************************************************************)
(* The Celery broker (Redis index 1) as this code configures and uses it:  *)
(* tickets carrying a notification id on the queue "notifications".        *)
(* External code: what is modelled is late acknowledgement                 *)
(* (task_acks_late), the acknowledgement of tasks that fail                *)
(* (task_acks_on_failure_or_timeout) and the restoration of tickets that   *)
(* were delivered and never acknowledged.                                  *)
(*                                                                         *)
(* A countdown only delays a ticket; time is not modelled, so a delayed    *)
(* ticket is a ready ticket that may still wait arbitrarily long.          *)
(***************************************************************************)
EXTENDS NotificationDomain

VARIABLES
  ready,      \* tickets waiting in the queue
  unacked,    \* tickets delivered to a worker and not acknowledged
  published   \* number of tickets ever published for each id

brokerVars == <<ready, unacked, published>>

\* seq plays the part of the delivery tag a publish creates: a restored
\* ticket keeps its tag.  retries is Celery's request.retries.
Ticket == [id : Notification, seq : Nat, retries : Nat, countdown : Nat]

BrokerTypeOK ==
  /\ ready \in SUBSET Ticket
  /\ unacked \in SUBSET Ticket
  /\ published \in [Notification -> Nat]

\* apply_async on the notifications queue.
Publish(n, retries, countdown) ==
  /\ ready' = ready \cup {[id |-> n, seq |-> published[n] + 1,
                           retries |-> retries, countdown |-> countdown]}
  /\ published' = [published EXCEPT ![n] = @ + 1]
  /\ UNCHANGED unacked

\* Variant with early acknowledgement (task_acks_late off).
DeliverAckedEarly(t) ==
  /\ t \in ready
  /\ ready' = ready \ {t}
  /\ UNCHANGED <<unacked, published>>

\* A worker takes a ticket (prefetch 1, late acknowledgement).
Deliver(t) ==
  /\ t \in ready
  /\ ready' = ready \ {t}
  /\ unacked' = unacked \cup {t}
  /\ UNCHANGED published

\* The acknowledgement of a ticket that was already restored finds no
\* entry to remove and changes nothing.
Acknowledge(t) ==
  /\ unacked' = unacked \ {t}
  /\ UNCHANGED <<ready, published>>

\* The visibility timeout, or a lost connection, puts a ticket back.
Requeue(t) ==
  /\ t \in unacked
  /\ unacked' = unacked \ {t}
  /\ ready' = ready \cup {t}
  /\ UNCHANGED published
=============================================================================
