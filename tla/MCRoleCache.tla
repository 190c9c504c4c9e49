---------------------------- MODULE MCRoleCache -----------------------------
(* Instances of RoleCache for TLC.                                         *)
EXTENDS RoleCache, TLC

Symmetric == Permutations(Requests) \cup Permutations(Roles)
=============================================================================
