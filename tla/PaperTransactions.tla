------------------------- MODULE PaperTransactions -------------------------
(***************************************************************************)
(* The order operations of app/paper as overlapping database transactions.  *)
(* Each reads the order row, decides, and later writes whole rows back      *)
(* (gorm's Save): the status it writes, the cash and the position it        *)
(* computes come from what it read.  No statement of the code locks a row   *)
(* it reads or repeats its condition in the UPDATE.                         *)
(*                                                                          *)
(* Isolation says what the database does about it.  Under "postgres" (READ  *)
(* COMMITTED) a write waits for the row lock and then overwrites; under     *)
(* "sqlite" one transaction writes at a time and a transaction that another *)
(* one has overtaken fails with SQLITE_BUSY and rolls back.                 *)
(*                                                                          *)
(* One account, one code, money in units of the fill price, no fees.  Risk  *)
(* refusals and blocked executions are choices: PaperTrading has their      *)
(* rules.                                                                   *)
(***************************************************************************)
EXTENDS Integers, FiniteSetsExt

CONSTANTS
  Txs,            \* connections: API requests and maintenance loops
  NumOrders,
  Side, Qty,      \* of each order
  InitialCash, InitialHeld,
  Isolation,      \* "postgres" or "sqlite"
  MaxFilled       \* bound of the model: fills booked for one order

Orders  == 1..NumOrders
Account == 0      \* the account row, among the rows that can be locked

ASSUME TransactionsAssumption ==
  /\ NumOrders \in Nat \ {0}
  /\ Side \in [Orders -> {"buy", "sell"}] /\ Qty \in [Orders -> Nat \ {0}]
  /\ InitialCash \in Nat /\ InitialHeld \in Nat
  /\ Isolation \in {"postgres", "sqlite"} /\ MaxFilled \in Nat

VARIABLES
  status,    \* committed order rows: the status, or "deleted"
  fills,     \* committed fill rows, summed by order
  cash,      \* committed account row
  position,  \* committed position row: its id (0: no row) and its quantity
  lastId,    \* the position id sequence
  tx,        \* the open transactions
  approved   \* ghost: orders whose approval committed

committed == <<status, fills, cash, position, lastId, approved>>
vars == <<status, fills, cash, position, lastId, tx, approved>>

Ops == {"approve", "reject", "cancel", "delete", "fill", "batch"}

(* The status each operation insists on when it reads the row. *)
PermittedUnchecked(op) == {"suggested", "pending", "cancelled", "rejected"}
Permitted(op) ==
  CASE op \in {"approve", "reject"} -> {"suggested"}
    [] op = "cancel" -> {"suggested", "pending"}
    [] op = "delete" -> {"cancelled", "rejected"}
    [] op \in {"fill", "batch"} -> {"pending"}

(* A transaction: what it still has to do, the plan for the order at hand, the *)
(* rows it has locked and what it has written to them ("" and 0: nothing).    *)
(* seenId is the position row its first write went to.                        *)
NoPlan == [kind |-> "none", to |-> "", add |-> 0, cash |-> 0,
           pos |-> [id |-> 0, qty |-> 0]]
Closed == [op |-> "none", todo |-> {}, q |-> 0, plan |-> NoPlan, noted |-> FALSE,
           stale |-> FALSE, locks |-> {}, cash |-> 0, pos |-> [id |-> 0, qty |-> 0],
           seenId |-> 0, to |-> [o \in Orders |-> ""], add |-> [o \in Orders |-> 0]]

Init ==
  /\ status = [o \in Orders |-> "suggested"] /\ fills = [o \in Orders |-> 0]
  /\ cash = InitialCash
  /\ position = [id |-> IF InitialHeld > 0 THEN 1 ELSE 0, qty |-> InitialHeld]
  /\ lastId = 1 /\ tx = [t \in Txs |-> Closed] /\ approved = {}

-----------------------------------------------------------------------------
Open(t) == tx[t].op # "none"
Current(t) == Min(tx[t].todo)

(* A transaction reads its own writes, else what is committed. *)
CashSeen(t)  == IF Account \in tx[t].locks THEN tx[t].cash ELSE cash
PosSeen(t)   == IF Account \in tx[t].locks THEN tx[t].pos ELSE position
FillsSeen(t, o) == fills[o] + tx[t].add[o]

MayWrite(t, row) ==
  /\ \A u \in Txs \ {t} : row \notin tx[u].locks
  /\ Isolation = "sqlite" => ~tx[t].stale /\ \A u \in Txs \ {t} : tx[u].locks = {}

(* FindOrder and the status check, or DuePendingOrders for the batch. *)
Begin(t, op, S, q) ==
  /\ ~Open(t) /\ S # {} /\ \A o \in S : status[o] \in Permitted(op)
  /\ IF op = "batch" THEN S = {o \in Orders : status[o] = "pending"}
                     ELSE Cardinality(S) = 1
  /\ tx' = [tx EXCEPT ![t] = [Closed EXCEPT !.op = op, !.todo = S, !.q = q]]
  /\ UNCHANGED committed

(* The batch saves the execution note of the row it loaded, still "pending". *)
SaveNote(t) ==
  /\ tx[t].op = "batch" /\ tx[t].todo # {} /\ tx[t].plan = NoPlan /\ ~tx[t].noted
  /\ MayWrite(t, Current(t))
  /\ tx' = [tx EXCEPT ![t].noted = TRUE, ![t].locks = @ \cup {Current(t)},
                      ![t].to[Current(t)] = "pending"]
  /\ UNCHANGED committed

(* The reads and the decision about the order at hand.  For a fill:           *)
(* FillOrderWithInput up to its first write.  A position row that does not    *)
(* exist has id 0.                                                            *)
Affordable(t, o, n) == IF Side[o] = "buy" THEN CashSeen(t) >= n
                                          ELSE PosSeen(t).qty >= n

RemainingForgetsFills(t, o) == Qty[o]
Remaining(t, o) == Qty[o] - FillsSeen(t, o)

Write(status_) == [NoPlan EXCEPT !.kind = "order", !.to = status_]

Book(t, o, n) ==
  LET signed == IF Side[o] = "buy" THEN n ELSE -n
  IN [kind |-> "book", add |-> n,
      to   |-> IF n = Remaining(t, o) THEN "filled" ELSE "pending",
      cash |-> CashSeen(t) - signed,
      pos  |-> [PosSeen(t) EXCEPT !.qty = @ + signed]]

SubmitPlans(t, o) ==
  {Write("rejected")} \cup (IF Affordable(t, o, Qty[o]) THEN {Write("pending")} ELSE {})

FillPlans(t, o) ==
  LET n == IF tx[t].q = 0 THEN Remaining(t, o) ELSE tx[t].q
  IN {Write("rejected")}
     \cup (IF Remaining(t, o) <= 0 THEN {Write("filled")}
           ELSE IF n > Remaining(t, o) THEN {}
           ELSE {Write("pending")} \cup
                (IF Affordable(t, o, n) /\ fills[o] + n <= MaxFilled
                   THEN {Book(t, o, n)} ELSE {}))

Plans(t, o) ==
  CASE tx[t].op = "approve"         -> SubmitPlans(t, o)
    [] tx[t].op = "reject"          -> {Write("rejected")}
    [] tx[t].op = "cancel"          -> {Write("cancelled")}
    [] tx[t].op = "delete"          -> {Write("deleted")}
    [] tx[t].op = "fill"            -> FillPlans(t, o)
    [] tx[t].op = "batch"           -> FillPlans(t, o) \cup {Write("expired")}

Decide(t) ==
  /\ Open(t) /\ tx[t].todo # {} /\ tx[t].plan = NoPlan
  /\ \E plan \in Plans(t, Current(t)) : tx' = [tx EXCEPT ![t].plan = plan]
  /\ UNCHANGED committed

(* SaveAccount and SavePosition or DeletePosition. *)
WriteAccount(t) ==
  /\ tx[t].plan.kind = "book" /\ MayWrite(t, Account)
  /\ tx' = [tx EXCEPT ![t].plan.kind = "order", ![t].locks = @ \cup {Account},
                      ![t].cash = tx[t].plan.cash, ![t].pos = tx[t].plan.pos,
                      ![t].seenId = IF Account \in tx[t].locks THEN @
                                    ELSE tx[t].plan.pos.id]
  /\ UNCHANGED committed

(* SaveOrder or DeleteOrder, then CreateFill. *)
WriteOrder(t) ==
  LET o == Current(t)
      plan == tx[t].plan
  IN /\ plan.kind = "order" /\ MayWrite(t, o)
     /\ tx' = [tx EXCEPT ![t] = [tx[t] EXCEPT
                  !.plan = NoPlan, !.noted = FALSE, !.todo = @ \ {o},
                  !.locks = @ \cup {o}, !.to[o] = plan.to, !.add[o] = @ + plan.add]]
     /\ UNCHANGED committed

(* The position row a commit leaves.  An insert, or a Save of a row that is    *)
(* gone (gorm inserts it again), fails if the code has another row by then.   *)
Conflict(t) ==
  /\ tx[t].pos.qty > 0
  /\ position.id # 0 /\ position.id # tx[t].seenId

PositionNeverDeleted(t) ==
  [id |-> IF tx[t].seenId = 0 THEN lastId + 1 ELSE tx[t].seenId, qty |-> tx[t].pos.qty]
PositionAfter(t) ==
  LET seen == tx[t].seenId
      qty == tx[t].pos.qty
  IN IF qty > 0 THEN [id |-> IF seen = 0 THEN lastId + 1 ELSE seen, qty |-> qty]
     ELSE IF position.id = seen THEN [id |-> 0, qty |-> 0] ELSE position

Overtaken(t) ==
  [u \in Txs |-> IF u = t THEN Closed
                 ELSE [tx[u] EXCEPT !.stale = Open(u) /\ Isolation = "sqlite"]]

Commit(t) ==
  LET mine == {o \in Orders : tx[t].to[o] # ""}
      booked == Account \in tx[t].locks
  IN /\ Open(t) /\ tx[t].todo = {}
     /\ booked => ~Conflict(t)
     /\ status' = [o \in Orders |-> IF o \in mine THEN tx[t].to[o] ELSE status[o]]
     /\ fills' = [o \in Orders |->
                    IF o \in mine /\ tx[t].to[o] = "deleted" /\ Isolation = "postgres"
                      THEN 0 ELSE fills[o] + tx[t].add[o]]
     /\ IF booked THEN /\ cash' = tx[t].cash /\ position' = PositionAfter(t)
                       /\ lastId' = IF position'.id > lastId THEN position'.id ELSE lastId
                  ELSE UNCHANGED <<cash, position, lastId>>
     /\ approved' = approved \cup {o \in mine : /\ tx[t].op = "approve"
                                               /\ tx[t].to[o] = "pending"}
     /\ tx' = Overtaken(t)

(* A transaction may fail at any point before it commits: a request that goes *)
(* away, SQLITE_BUSY, a deadlock, a unique violation, a quantity that exceeds *)
(* what remains.  The database rolls it back.                                 *)
Abort(t) == /\ Open(t) /\ tx' = [tx EXCEPT ![t] = Closed]
            /\ UNCHANGED committed

Next == \E t \in Txs :
  \/ \E op \in Ops, S \in SUBSET Orders : \E q \in 0..1 :
       Begin(t, op, S, IF op = "fill" THEN q ELSE 0)
  \/ SaveNote(t) \/ Decide(t) \/ WriteAccount(t) \/ WriteOrder(t)
  \/ Commit(t) \/ Abort(t)

Spec == Init /\ [][Next]_vars

-----------------------------------------------------------------------------
(* The tables hold what their columns can hold; a position row has shares. *)
TypeOK ==
  /\ status \in [Orders -> {"suggested", "pending", "filled", "rejected",
                            "cancelled", "expired", "deleted"}]
  /\ fills \in [Orders -> Nat] /\ cash \in Int
  /\ position \in [id : Nat, qty : Nat] /\ lastId \in Nat
  /\ position.id = 0 <=> position.qty = 0
  /\ \A t \in Txs : tx[t].op \in Ops \cup {"none"} /\ tx[t].todo \subseteq Orders
  /\ approved \subseteq Orders

(* An order executes only after its approval committed, in whatever order    *)
(* the transactions that raced on it read and wrote.                          *)
ApprovalCommitted ==
  \A o \in Orders : status[o] \in {"pending", "filled"} \/ fills[o] > 0 => o \in approved

(* What the ledger promises: the order book of PaperOrderBook. *)
Book_ == INSTANCE PaperOrderBook WITH Orders <- Orders, held <- position.qty

LedgerPromise == Book_!Spec

(* Cancelling an order ends it: what remains of it is not filled. *)
CancelledStaysUnfilled ==
  [][\A o \in Orders : status[o] = "cancelled" => fills'[o] <= fills[o]]_vars
=============================================================================
