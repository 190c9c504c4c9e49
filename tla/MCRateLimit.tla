---------------------------- MODULE MCRateLimit -----------------------------
(* Instances of RateLimit for TLC.                                         *)
EXTENDS RateLimit, TLC

Symmetric == Permutations(Requests)
=============================================================================
