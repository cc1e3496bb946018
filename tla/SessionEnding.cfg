CONSTANTS
  None = None
  Timer = Timer
  Owner = Owner
  Clients = {c1, c2}
  MaxFaults = 2
SPECIFICATION FairSpec
INVARIANTS EndsOnce RefusalRecoverable ReleasedAtRest
PROPERTIES ExpiryEnds ImplementsSessionOutcome
CHECK_DEADLOCK FALSE
