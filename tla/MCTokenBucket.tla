--------------------------- MODULE MCTokenBucket ---------------------------
(***************************************************************************)
(* Instances of TokenBucket for TLC.                                       *)
(***************************************************************************)
EXTENDS TokenBucket

CONSTANTS p1, p2
=============================================================================
