------------------------------ MODULE MCTempFS ------------------------------
(* Instances of TempFS for TLC.                                            *)
EXTENDS TempFS

CONSTANTS f1, f2, f3, u1, u2

\* The first two files are of one user, the others of another.
MCOwnerOf == [f \in Files |-> IF f \in {f1, f2} THEN u1 ELSE u2]
MCPermission == [f \in Files |-> IF f = f1 THEN "self" ELSE IF f = f2 THEN "password" ELSE "public"]
=============================================================================
