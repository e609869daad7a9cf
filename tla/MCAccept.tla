------------------------------ MODULE MCAccept ------------------------------
(***************************************************************************)
(* Instances of Accept for TLC.                                            *)
(***************************************************************************)
EXTENDS Accept, TLC

CONSTANTS r1, r2, r3, r4, r5, acme, other, k

\* Three requests race for one key of acme, other uses the same key, and acme
\* also sends without a key.
MCOwner == r1 :> acme @@ r2 :> acme @@ r3 :> acme @@ r4 :> other @@ r5 :> acme

MCKeyOf == r1 :> k @@ r2 :> k @@ r3 :> k @@ r4 :> k @@ r5 :> None

MCCountdowns == <<5, 15, 45>>
=============================================================================
