SPECIFICATION Spec
CONSTANTS
  c1 = c1
  c2 = c2
  NumOrders = 2
  Codes = {c1, c2}
  Requests <- LedgerRequests
  Substitute <- ToTheFund
  Prices = {1}
  Volumes = {}
  InitialCash = 5
  CashEdits <- Overdrawn
  RiskChoices <- RiskEdits
  ActiveChoices = {TRUE, FALSE}
  Dividends = {1}
  BonusRatios = {1}
  MinCommission = 1
  CommissionDiv = 10
  StampDiv = 1
  ParticipationDiv = 1
  BatchLimit = 2
  CascadeFills = FALSE
  MaxTime = 4
  MaxPos = 2
  MaxCash = 6
INVARIANTS TypeOK FillProgress ApprovalGate TPlusOne HoldingsReconcile
PROPERTIES ClosedStaysClosed OnlySellsAndEditsOverdraw
