SPECIFICATION FairSpec
CONSTANTS
  w1 = w1
  w2 = w2
  c1 = c1
  Workers = {w1, w2}
  Callers = {c1}
  Buffer = 2
  Subscriptions = {1, 2}
  NumMessages = 2
  SubscriptionOf <- OneEach
  Isolation = "sqlite"
  MaxMeetings = 2
  MaxEvents = 3
INVARIANTS TypeOK KeysHeldOnce UnfilteredIsPending OneMeeting
PROPERTIES AcceptedTasksRun
CHECK_DEADLOCK FALSE
