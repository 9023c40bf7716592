SPECIFICATION ExecutionSpec
CONSTANTS
  a1 = a1  a2 = a2  u1 = u1  u2 = u2  x1 = x1  v1 = v1
  Actions = {a1, a2}
  Users = {u1}
  Targets = {x1}
  ApprovalsRequired <- CodeOnly
  Approvers <- NoApprover
  TargetOf <- SameTarget
  Values = {"initial", v1}
  Wanted <- SameGoal
  Uploads = {a1}
  Exports = {}
  Unbaselined = {a2}
  DatabaseErrors = TRUE
  Crashes = TRUE
INVARIANTS ExecutionTypeOK AtMostOneDispatch NotExecutedMeansNoEffect SuccessHasACause
PROPERTIES NoBlindOverwrite InterruptedStaysOpen KillSwitchStops
CHECK_DEADLOCK FALSE
