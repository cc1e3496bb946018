CONSTANTS
  None = None
  Foreign = Foreign
  Procs = {p1, p2, p3}
  Window = {w1, w2}
  Shell = {s1}
  Requests = {r1, r2}
  Workspaces = {a, b}
  MaxFaults = 1
SPECIFICATION Spec
SYMMETRY Symmetric
INVARIANTS OwnerHoldsLock ServesStoredToken AnsweredTrustLasts
CHECK_DEADLOCK FALSE
