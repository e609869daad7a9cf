------------------------------- MODULE MCHttp -------------------------------
(***************************************************************************)
(* Instances of Http for TLC.                                              *)
(***************************************************************************)
EXTENDS Http, TLC

CONSTANTS r1, r2, r3, r4, p1, p2, acme, gone, k, ka, kg, home, away

\* acme sends three times with its key, twice under one idempotency key, and a
\* client that was switched off sends from one of its addresses; acme reads
\* its metrics or the status of its first notification, and somebody reads
\* without an X-API-Key.
MCKeyOf == r1 :> k @@ r2 :> k @@ r3 :> None @@ r4 :> None

MCApiKeyOf ==
  r1 :> ka @@ r2 :> ka @@ r3 :> ka @@ r4 :> kg @@ p1 :> ka @@ p2 :> None

MCAddressOf == r1 :> home @@ r2 :> away @@ r3 :> away @@ r4 :> home

MCAccounts ==
  acme :> [api_key |-> ka, is_active |-> TRUE]
    @@ gone :> [api_key |-> kg, is_active |-> FALSE]

MCAsked == p1 :> {r1, None} @@ p2 :> {None}

MCBodies == [r \in Send \cup Read |-> IF r = r3 THEN BodyKind ELSE {"valid"}]

MCCountdowns == <<5>>
=============================================================================
