SPECIFICATION Spec
CONSTANTS
  Listeners = {l1, l2}
  NoOne = NoOne
  TTL = 2
  SlowestClaim = 2
  MaxFaults = 2
  MaxUpdates = 2
  MaxOverruns = 1
  Calling = {r1, r2}
  DailyBudget = 3
  MaxCharge = 2
  MaxSaves = 2
  Makers = {m1, m2}
  Drills = {d1}
  Copies = 1
  Days = 1
  LastDay = 2
  MaxBegun = 3
  Policies <- StoredPolicies
  MaxLabels = 12
  Teams = {t1, t2}
  PaperAccounts = {a1, a2}
  NoAccount = NoAccount
INVARIANTS
  TypeOK LeaseHonoured CommandsKept RepeatsBounded OverrunBounded
  DrilledReadsBack NegativeNeverSoftens TeamsSound
PROPERTIES RetentionKeepsNewest ListenerIsTakenOver
CHECK_DEADLOCK FALSE
