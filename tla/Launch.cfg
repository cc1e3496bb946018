CONSTANTS
  Contracts = {"allows", "refuses"}
  Modes = {"follow", "watch", "wait"}
  Wanted <- OutcomeKinds
  MaxOutputs = 1
  MaxIncidents = 1
  MaxResumes = 1
SPECIFICATION FairSpec
INVARIANTS FollowedFaithfully EndedRunWhole
PROPERTIES LaunchSettles
CHECK_DEADLOCK FALSE
