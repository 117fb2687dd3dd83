SPECIFICATION FairSpec
CONSTANTS
  c1 = c1
  c2 = c2
  NumOrders = 2
  Codes = {c1}
  Requests <- BatchRequests
  Substitute <- NoSubstitute
  Prices = {2}
  Volumes = {0, 2, 4}
  InitialCash = 8
  CashEdits = {}
  RiskChoices <- NoChoice
  ActiveChoices = {}
  Dividends = {}
  BonusRatios = {}
  MinCommission = 1
  CommissionDiv = 10
  StampDiv = 10
  ParticipationDiv = 2
  BatchLimit = 2
  CascadeFills = FALSE
  MaxTime = 1
  MaxPos = 4
  MaxCash = 20
INVARIANTS VolumeShare
PROPERTIES DueOrdersExecuted
