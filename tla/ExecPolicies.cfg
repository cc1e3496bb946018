CONSTANTS
  None = None
  p = p
  q = q
  test = test
  lint = lint
  m1 = m1
  m2 = m2
  ask = ask
  Paths <- WorkspacePaths
  Commands <- WorkspaceCommands
  Models <- ModelNames
  Prompts = {ask}
  DefaultWindow = 2
  Actions <- AllActions
  Sessions <- PolicySessions
  Ops = {o1, o2, o3, o4}
  MaxPending = 1
  MaxFaults = 0
  Reports <- SomeReports
SPECIFICATION Spec
SYMMETRY OpSymmetry
INVARIANTS LimitsHeld ReadBeforeWrite VerifiedCompletion WorkflowHeld
CHECK_DEADLOCK FALSE
