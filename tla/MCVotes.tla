------------------------------ MODULE MCVotes -------------------------------
(* Instances of Votes for TLC.                                             *)
EXTENDS Votes, TLC

Symmetric == Permutations(Requests) \cup Permutations(Users)
=============================================================================
