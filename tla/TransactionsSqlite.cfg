SPECIFICATION Spec
CONSTANTS
  t1 = t1
  t2 = t2
  Txs = {t1, t2}
  NumOrders = 2
  Side <- BuySell
  Qty <- TwoEach
  InitialCash = 3
  InitialHeld = 1
  Isolation = "sqlite"
  MaxFilled = 2
INVARIANTS TypeOK ApprovalCommitted
PROPERTIES LedgerPromise
CHECK_DEADLOCK FALSE
