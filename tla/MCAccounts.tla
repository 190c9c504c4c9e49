----------------------------- MODULE MCAccounts -----------------------------
(* Instances of Accounts for TLC.                                          *)
EXTENDS Accounts, TLC

Symmetric == Permutations(Requests) \cup Permutations(Names) \cup Permutations(Emails)
=============================================================================
