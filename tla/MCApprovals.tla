----------------------------- MODULE MCApprovals -----------------------------
(* Instances of Approvals for TLC. *)
EXTENDS Approvals, TLC

CONSTANTS a1, a2, u1, u2, u3, t1, t2, t3, s1, s2

\* Every user is eligible: the requester too, so that only the code's
\* requester check stops a self-approval.
EveryoneApproves == [a \in Actions |-> Users]
TwoApprovals  == [a \in Actions |-> 2]
MixedApprovals == [a \in Actions |-> IF a = a1 THEN 2 ELSE 0]
TwoServices   == [t \in Tasks |-> IF t = t1 THEN s1 ELSE s2]
OneService    == [t \in Tasks |-> s1]
UserSymmetry  == Permutations(Users)
=============================================================================
