CONSTANTS
  None = None
  TurnStates = {"completed"}
  Writes = {2}
  Consumptions = {2}
  MaxTokens = 2
  MaxLines = 2
  MaxResets = 1
  MaxFaults = 1
SPECIFICATION FairSpec
INVARIANTS FinishedAgentStopped UsageNotInvented
PROPERTIES RelayEnds ImplementsRelayEnding
CHECK_DEADLOCK FALSE
