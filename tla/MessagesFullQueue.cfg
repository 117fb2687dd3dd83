SPECIFICATION FairSpec
CONSTANTS
  w1 = w1
  w2 = w2
  c1 = c1
  Workers = {w1, w2}
  Callers = {c1}
  Buffer = 1
  Subscriptions = {1, 2}
  NumMessages = 3
  SubscriptionOf <- TwoAndOne
  Isolation = "sqlite"
  MaxMeetings = 2
  MaxEvents = 2
PROPERTIES AcceptedTasksRun
CHECK_DEADLOCK FALSE
