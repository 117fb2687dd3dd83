SPECIFICATION Spec
CONSTANTS
  r1 = r1
  r2 = r2
  c1 = c1
  c2 = c2
  NoRun = NoRun
  Runs = {r1, r2}
  Clerks = {c1}
  ClerkOps <- AllOps
  Mode = "auto"
  RequeueLimit = 1
  MaxEdits = 1
  MaxCrashes = 1
  MaxLate = 2
SYMMETRY RunSymmetry
INVARIANTS RowCoherent OneLateWrite
PROPERTIES SupersededNeverConcludes
CHECK_DEADLOCK FALSE
