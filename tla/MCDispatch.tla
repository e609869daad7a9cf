----------------------------- MODULE MCDispatch -----------------------------
(***************************************************************************)
(* Instances of Dispatch for TLC.                                          *)
(***************************************************************************)
EXTENDS Dispatch, TLC

CONSTANTS n1, n2, n3

\* The README schedule 5, 15, 45.
MCCountdowns == <<5, 15, 45>>

MCTwoSlots == <<5, 15>>

\* A provider behind the port that may answer anything, any time.
AnyOutcome == [n \in Notification |-> Outcome]

\* The simulated adapter on the three templates of the README's demos.
MCTemplate == n1 :> "welcome" @@ n2 :> "fail-transient" @@ n3 :> "fail-permanent"

Simulated == [n \in Notification |-> {SimulatedSend(MCTemplate[n])}]
=============================================================================
