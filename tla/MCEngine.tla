------------------------------ MODULE MCEngine ------------------------------
(* A small instance of Engine for TLC.                                       *)
EXTENDS Engine

CONSTANTS p1, p2, r1, r2, s1

\* r1 and r2 do not fit into the cache together.
MCBytes == [r \in Revisions |-> 2]

session(op, slot, revision, items, minimum, delegation, approval) ==
  [op |-> op, slot |-> slot, revision |-> revision, items |-> items, minimum |-> minimum,
   delegation |-> delegation, approval |-> approval]

check == session("check", s1, r1, 1, 0, FALSE, FALSE)
explain == session("explain", s1, r1, 1, 0, FALSE, TRUE)
batch == session("batch", None, r2, 2, 1, TRUE, FALSE)
activate == [op |-> "activate", slot |-> s1, revision |-> r2]

write == [op |-> "write"]

\* Sessions that load equal and different revisions and verify evidence while data
\* is written; sessions whose slot moves.
MCWorkloads ==
  {[p \in Procs |-> IF p = p1 THEN {explain, batch} ELSE {explain, write}],
   [p \in Procs |-> IF p = p1 THEN {check} ELSE {check, activate}]}

=============================================================================
