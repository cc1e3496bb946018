SPECIFICATION FairSpec
CONSTANTS
  Calls = {c1, c2}
  MaxSessions = 3
  Policies = {"review", "tight"}
INVARIANTS AutomationKeepsItsSession NoForgottenSession ActivePolicyEnforced
PROPERTIES StopEndsRun
CHECK_DEADLOCK FALSE
