-------------------------- MODULE MCWriteExecution --------------------------
(* Instances of WriteExecution for TLC. *)
EXTENDS WriteExecution

CONSTANTS a1, a2, u1, u2, x1, v1

\* a1 needs one approver besides the requester, the others only their code.
OneApproval == [a \in Actions |-> IF a = a1 THEN 1 ELSE 0]
Approver    == [a \in Actions |-> {u2}]
CodeOnly    == [a \in Actions |-> 0]
NoApprover  == [a \in Actions |-> {}]
SameTarget  == [a \in Actions |-> x1]
\* Both are satisfied by the same value: either may take the other's change,
\* or somebody's edit, for its own.
SameGoal    == [a \in Actions |-> {v1}]
=============================================================================
