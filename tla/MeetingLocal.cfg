SPECIFICATION FairSpec
CONSTANTS
  r1 = r1
  r2 = r2
  c1 = c1
  c2 = c2
  NoRun = NoRun
  Runs = {r1, r2}
  Clerks = {c1, c2}
  ClerkOps <- NoUpdates
  Mode = "local"
  RequeueLimit = 1
  MaxEdits = 1
  MaxCrashes = 1
  MaxLate = 0
INVARIANTS TypeOK EntryAlive RecoveriesBounded
PROPERTIES MeetingEnds
CHECK_DEADLOCK FALSE
