SPECIFICATION Spec
CONSTANTS
  r1 = r1
  r2 = r2
  c1 = c1
  c2 = c2
  NoRun = NoRun
  Runs = {r1, r2}
  Clerks = {c1}
  ClerkOps <- RecoverOnly
  Mode = "local"
  RequeueLimit = 1
  MaxEdits = 0
  MaxCrashes = 0
  MaxLate = 2
SYMMETRY RunSymmetry
INVARIANTS RunningHasRunner
CHECK_DEADLOCK FALSE
