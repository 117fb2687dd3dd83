------------------------ MODULE MCPaperTransactions ------------------------
(* A buy and a sell of two shares each, on one account. *)
EXTENDS PaperTransactions

CONSTANTS t1, t2

BuySell == [o \in Orders |-> IF o = 1 THEN "buy" ELSE "sell"]
TwoEach == [o \in Orders |-> 2]
=============================================================================
