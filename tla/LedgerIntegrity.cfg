CONSTANTS
  None = None
  Ops = {o1, o2, o3}
  Readers = {r1}
  AppendKinds <- MessageAndDecision
  TokenCounts = {2}
  Endings = {"completed"}
  CleanRestarts = FALSE
  MaxCrashes = 1
  MaxFaults = 1
SPECIFICATION FairSpec
INVARIANTS SequenceIsPosition RecordBacked UsageAccounted TerminalAnswerComplete
PROPERTIES CallsSettle TerminalFrozen ImplementsSessionLog
CHECK_DEADLOCK FALSE
