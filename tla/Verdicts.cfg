CONSTANTS
  Absent = Absent
  public = public
  secret = secret
  Commands = {test, rm}
  Paths = {public, secret}
  CommandsAllow = {test}
  CommandsDeny = {rm}
  RequireSuccess = {test}
  PathsAllow = {public}
  PathsDeny = {secret}
  Correlations = {c1, c2}
  Renames <- MoveIntoForbidden
  MaxEvents = 3
SPECIFICATION VerdictSpec
INVARIANT ForbiddenChangesConvicted
PROPERTIES DeclaredProvesNothing VerdictsStand
SYMMETRY Symmetric
CHECK_DEADLOCK FALSE
