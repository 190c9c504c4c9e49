------------------------------ MODULE MCForum -------------------------------
(* Instances of Forum for TLC.                                             *)
EXTENDS Forum, TLC

Symmetric == Permutations(Requests)
=============================================================================
