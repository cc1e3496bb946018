CONSTANTS
  None = None
  p = p
  q = q
  test = test
  lint = lint
  m1 = m1
  m2 = m2
  ask = ask
  Paths <- WorkspacePaths
  Commands <- WorkspaceCommands
  Models <- ModelNames
  Prompts = {ask}
  DefaultWindow = 2
  Actions <- AllActions
  Sessions <- QueueSessions
  Ops = {o1, o2, o3}
  MaxPending = 2
  MaxFaults = 1
  Reports <- NoReports
SPECIFICATION FairSpec
INVARIANT ChargedOnce
PROPERTIES EverythingSettles ImplementsActionGate
CHECK_DEADLOCK FALSE
