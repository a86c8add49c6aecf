---------------------------- MODULE MCRateLimit ----------------------------
(***************************************************************************)
(* An instance of RateLimit for TLC: limits of 1 and 2 instead of 5 and 10 *)
(* and three requests at a time, so that more ask than either lets pass.   *)
(***************************************************************************)
EXTENDS RateLimit

TwoLimits == [l \in Routes |-> IF l = "swap" THEN 2 ELSE 1]
=============================================================================
