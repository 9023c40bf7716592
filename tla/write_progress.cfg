SPECIFICATION FairExecutionSpec
CONSTANTS
  a1 = a1  a2 = a2  u1 = u1  u2 = u2  x1 = x1  v1 = v1
  Actions = {a1, a2}
  Users = {u1, u2}
  Targets = {x1}
  ApprovalsRequired <- OneApproval
  Approvers <- Approver
  TargetOf <- SameTarget
  Values = {"initial", v1}
  Wanted <- SameGoal
  Uploads = {a1}
  Exports = {a2}
  Unbaselined = {a1}
  DatabaseErrors = FALSE
  Crashes = FALSE
PROPERTIES ExecutorsFinish
CHECK_DEADLOCK FALSE
