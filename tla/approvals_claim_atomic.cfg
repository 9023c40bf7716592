SPECIFICATION Spec
CONSTANTS
  a1 = a1  a2 = a2  u1 = u1  u2 = u2  u3 = u3
  t1 = t1  t2 = t2  t3 = t3  s1 = s1  s2 = s2
  Actions = {a1}
  Users = {u1, u2, u3}
  Services = {s1, s2}
  Tasks = {t1, t2}
  ServiceOf <- TwoServices
  ApprovalsRequired <- TwoApprovals
  Approvers <- EveryoneApproves
  TTL = 1
  MaxTime = 1
INVARIANTS ClaimIsAtomic
CHECK_DEADLOCK FALSE
