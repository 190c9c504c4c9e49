--------------------------- MODULE MCAuthSessions ---------------------------
(* The sessions of one user with a few browsers, requests and pairs.       *)
EXTENDS AuthSessions, TLC

Symmetric == Permutations(Browsers) \cup Permutations(Requests)
=============================================================================
