---------------------------- MODULE MCThreadPage ----------------------------
(* Instances of ThreadPage for TLC. *)
EXTENDS ThreadPage

\* The second and the third reply answer the first.
MCParentOf == <<0, 1, 1>>

Symmetric == Permutations(Calls)
=============================================================================
