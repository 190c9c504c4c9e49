---------------------------- MODULE AccountLife -----------------------------
(***************************************************************************)
(* What the registration of users promises of one account: it is pending   *)
(* once, when it is registered, the first verdict of an administrator ends *)
(* that for good, and a verdict given is not taken back.                   *)
(***************************************************************************)
CONSTANTS Ids
VARIABLES tables    \* the tables each account has a row in

Init == tables = [i \in Ids |-> {}]

Register(i) ==
  /\ tables[i] = {}
  /\ tables' = [tables EXCEPT ![i] = {"pending"}]

\* Two administrators that act at once may give both verdicts.
Decide(i, verdict) ==
  /\ tables[i] # {} /\ verdict \notin tables[i]
  /\ tables' = [tables EXCEPT ![i] = (@ \ {"pending"}) \cup {verdict}]

Next == \E i \in Ids : Register(i) \/ \E v \in {"user", "rejected"} : Decide(i, v)

Spec == Init /\ [][Next]_tables
=============================================================================
