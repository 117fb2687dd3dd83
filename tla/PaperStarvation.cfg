SPECIFICATION FairSpec
CONSTANTS
  c1 = c1
  c2 = c2
  NumOrders = 2
  Codes = {c1, c2}
  Requests <- QueueRequests
  Substitute <- NoSubstitute
  Prices = {2}
  Volumes = {}
  InitialCash = 6
  CashEdits = {}
  RiskChoices <- NoChoice
  ActiveChoices = {}
  Dividends = {}
  BonusRatios = {}
  MinCommission = 1
  CommissionDiv = 10
  StampDiv = 10
  ParticipationDiv = 2
  BatchLimit = 1
  CascadeFills = FALSE
  MaxTime = 4
  MaxPos = 4
  MaxCash = 20
PROPERTIES DueOrdersExecuted
