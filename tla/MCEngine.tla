------------------------------ MODULE MCEngine ------------------------------
(***************************************************************************)
(* Instances of Engine for TLC.                                            *)
(***************************************************************************)
EXTENDS Engine, TLC

CONSTANTS r1, r2, r3, acme, other, k

\* Two requests race for one key of acme; another client uses the same key.
MCOwner == r1 :> acme @@ r2 :> acme @@ r3 :> other

MCKeyOf == r1 :> k @@ r2 :> k @@ r3 :> k

MCCountdowns == <<5>>

\* acme's provider is unreliable, the other client's recipient does not exist.
MCOutcomes ==
  [n \in Notification |->
     IF MCOwner[n] = acme THEN {"ok", "transient"} ELSE {"permanent"}]
=============================================================================
