SPECIFICATION FairSpec
CONSTANTS
  p1 = p1
  p2 = p2
  p3 = p3
  c1 = c1
  pass = pass
  wake = wake
  recovery = recovery
  Plans = {p1, p2, p3}
  TimePlans = {p1}
  Edited = {p1}
  Broken = {p3}
  OldPlans = {p2, p3}
  OldInvalid = {p2}
  DueLimit = 2
  Pass = pass
  Clients = {c1}
  MaxActivations = 2
  MaxMeetings = 2
  JobOrder <- TwoJobs
  OtherTasks <- Meetings
  Concurrency = 1
  MaxIncidents = 2
  Wake = wake
  Recovery = recovery
INVARIANTS TypeOK FiredOncePerActivation
PROPERTIES OnlyDuePlansFire DuePlansAreTreated FiredMeetingsRun JobsKeepRunning
CHECK_DEADLOCK FALSE
