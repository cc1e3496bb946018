CONSTANTS
  None = None
  Ops = {o1, o2, o3}
  Readers = {r1}
  AppendKinds <- MessageAndDecision
  TokenCounts = {2}
  Endings = {"completed"}
  CleanRestarts = TRUE
  MaxCrashes = 1
  MaxFaults = 0
SPECIFICATION Spec
INVARIANT IncreasingSequence
CHECK_DEADLOCK FALSE
