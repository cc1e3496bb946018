CONSTANTS
  Absent = Absent
  public = public
  secret = secret
  Commands = {test, rm}
  Paths = {public, secret}
  CommandsAllow = {test}
  CommandsDeny = {rm}
  RequireSuccess = {test}
  PathsAllow = {public}
  PathsDeny = {secret}
  Correlations = {c1, c2}
  Renames <- MoveOutOfForbidden
  MaxEvents = 2
SPECIFICATION VerdictSpec
INVARIANT ForbiddenChangesConvicted
SYMMETRY Symmetric
CHECK_DEADLOCK FALSE
