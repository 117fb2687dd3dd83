---------------------------- MODULE PaperTrading ----------------------------
(***************************************************************************)
(* The paper-trading ledger of one simulated A-share account: the order     *)
(* book (suggested, pending, filled, rejected, cancelled, expired), the     *)
(* cash, the positions, the fill rows, and the maintenance batch that       *)
(* executes due orders every ten seconds.                                   *)
(*                                                                          *)
(* Every use case of app/paper runs in one database transaction; here the   *)
(* transactions are serial, which is what SQLite gives the program.  What   *)
(* overlapping transactions do under PostgreSQL's READ COMMITTED is the     *)
(* subject of PaperTransactions.                                            *)
(*                                                                          *)
(* Abstractions.  Quantities are whole lots and money whole units.  A       *)
(* position of quantity 0 stands for "no row" and for the empty row that    *)
(* FillOrderWithInput leaves behind when it rejects a buy: every reader     *)
(* treats the two alike.  The fill rows are kept as the sums the code asks  *)
(* of them: per order, per order today, and per code.  The sizing of a buy  *)
(* against equity, max_order_pct and max_position_pct is the choice of the  *)
(* resized quantity and of the outcome of the limit checks.                 *)
(***************************************************************************)
EXTENDS Integers, FiniteSets

CONSTANTS
  NumOrders,        \* orders are the ids 1..NumOrders, allocated in order
  Codes,            \* stock codes
  Substitute,       \* the board's ETF that stands in for a forbidden code
  Requests,         \* the order requests users and meetings make
  Prices,           \* prices inside the daily limit band
  Volumes,          \* realtime volumes a quote may carry
  InitialCash,
  CashEdits,        \* balances an operator may write into the account: any
  RiskChoices,      \* risk configs an operator may bind to the account
  ActiveChoices,    \* values an operator may give the account's active flag
  Dividends,        \* cash per share of a dividend
  BonusRatios,      \* extra shares per share of a bonus issue or split
  MinCommission, CommissionDiv, StampDiv,     \* fee schedule
  ParticipationDiv, \* a batch may take 1/ParticipationDiv of the volume
  BatchLimit,       \* orders one maintenance batch loads (50 in the code)
  CascadeFills,     \* TRUE: deleting an order deletes its fills (PostgreSQL)
  MaxTime, MaxPos, MaxCash          \* bounds of the model, not of the code

Unset == -1         \* a NULL time, a missing quote, an unallocated budget

Sides    == {"buy", "sell"}
Terminal == {"filled", "rejected", "cancelled", "expired"}
Status   == {"none", "suggested", "pending", "deleted"} \cup Terminal
Times    == Nat \cup {Unset}

(* requires_approval of an order spec, which copies the action of a meeting's *)
(* recap key by key: absent, true or false.                                   *)
Approvals == {"default", "required", "waived"}

(* A request: sized says whether a buy given as a share of equity could be   *)
(* sized; wait and life are execute_after and expire_at from now.             *)
Request == [side : Sides, code : Codes, qty : Nat, price : Nat, sized : BOOLEAN,
            meeting : BOOLEAN, approval : Approvals, wait : Times, life : Times]

ASSUME ConstantsAssumption ==
  /\ NumOrders \in Nat /\ Requests \subseteq Request /\ InitialCash \in Nat
  /\ Codes # {}
  /\ Substitute \in [Codes -> Codes]
  /\ Prices \subseteq Nat \ {0} /\ Volumes \subseteq Nat
  /\ RiskChoices \subseteq [enabled : BOOLEAN, allowed : SUBSET Codes]
  /\ ActiveChoices \subseteq BOOLEAN
  /\ CashEdits \subseteq Int /\ Dividends \subseteq Nat \ {0}
  /\ BonusRatios \subseteq Nat \ {0}
  /\ MinCommission \in Nat
  /\ CommissionDiv \in Nat \ {0} /\ StampDiv \in Nat \ {0}
  /\ ParticipationDiv \in Nat \ {0} /\ BatchLimit \in Nat \ {0}
  /\ CascadeFills \in BOOLEAN
  /\ MaxTime \in Nat /\ MaxPos \in Nat /\ MaxCash \in Nat

Orders == 1..NumOrders

VARIABLES
  orders,       \* the paper_orders rows
  filled,       \* SUM(quantity) of the fills of each order
  filledToday,  \* the part of it filled in the current calendar day
  netFilled,    \* buy fills minus sell fills of each code
  boughtToday,  \* same-day buy fills of each code, as the T+1 query sums them
  bonus,        \* shares credited by corporate actions
  pos,          \* position quantity of each code
  cash, active, \* the account row
  risk,         \* the bound risk config: enabled, and the codes it allows
  quote,        \* the latest realtime quote of each code
  now,          \* the clock, in phases of the day: pre-open, open, closed
  run,          \* the maintenance batch in progress
  approved,     \* ghost: orders a human has approved
  unsettled     \* ghost: shares of each code bought today, whatever was deleted

market  == <<quote, now>>
account == <<cash, active, risk>>
ledger  == <<filled, filledToday, netFilled, boughtToday, unsettled>>
vars == <<orders, filled, filledToday, netFilled, boughtToday, bonus, pos, cash,
          active, risk, quote, now, run, approved, unsettled>>

-----------------------------------------------------------------------------
(* The calendar: IsTradingTime and NextTradingSessionStart. *)

Phase(t)       == t % 3
IsTradingTime(t) == Phase(t) = 1
NextTradingSessionStart(t) == t + (IF Phase(t) = 2 THEN 2 ELSE 1 - Phase(t))

(* Money: calculateFees and latestQuotePrice. *)

calculateFees(side, gross) ==
  (IF gross \div CommissionDiv < MinCommission
     THEN MinCommission ELSE gross \div CommissionDiv)
  + (IF side = "sell" THEN gross \div StampDiv ELSE 0)

SuggestedPrice(r) == IF r.price # 0 THEN r.price ELSE quote[r.code].price

(* Quantities: paperOrderFillProgress and sellableQuantityTPlusOne. *)

RemainingForgetsFills(o) == orders[o].qty
Remaining(o) == IF orders[o].qty > filled[o] THEN orders[o].qty - filled[o] ELSE 0

SellableIgnoresToday(c) == pos[c]
Sellable(c) == IF pos[c] > boughtToday[c] THEN pos[c] - boughtToday[c] ELSE 0

(* validateFillExecution: T+1 and the zero-volume halt.  The limit band is    *)
(* the set Prices.                                                            *)
Blocked(r, q) == \/ r.side = "sell" /\ Sellable(r.code) < q
                 \/ quote[r.code].volume = 0

-----------------------------------------------------------------------------
NoOrder == [status |-> "none", side |-> "buy", code |-> CHOOSE c \in Codes : TRUE,
            qty |-> 0, price |-> 0, meeting |-> FALSE, approval |-> "default",
            after |-> Unset, expire |-> Unset]

Idle == [on |-> FALSE, due |-> {}, budget |-> [c \in Codes |-> Unset],
         taken |-> [c \in Codes |-> 0]]

Init ==
  /\ orders = [o \in Orders |-> NoOrder]
  /\ filled = [o \in Orders |-> 0] /\ filledToday = [o \in Orders |-> 0]
  /\ netFilled = [c \in Codes |-> 0] /\ boughtToday = [c \in Codes |-> 0]
  /\ bonus = [c \in Codes |-> 0] /\ pos = [c \in Codes |-> 0]
  /\ cash = InitialCash /\ active = TRUE
  /\ risk = [enabled |-> TRUE, allowed |-> Codes]
  /\ quote = [c \in Codes |-> [price |-> 0, volume |-> Unset]]
  /\ now = 0 /\ run = Idle
  /\ approved = {} /\ unsettled = [c \in Codes |-> 0]

-----------------------------------------------------------------------------
(* Placing an order: CreateOrderFromSpec, then SubmitOrder unless a human     *)
(* has to approve first.                                                      *)

RiskRefused(r) == ~risk.enabled \/ r.code \notin risk.allowed

SubmitRefused(r, overLimit) ==
  \/ ~active \/ RiskRefused(r)
  \/ r.qty = 0
  \/ overLimit
  \/ r.side = "buy" /\ cash < SuggestedPrice(r) * r.qty
  \/ r.side = "sell" /\ (pos[r.code] < r.qty \/ Sellable(r.code) < r.qty)

SubmitOrder(r, overLimit) ==
  IF SubmitRefused(r, overLimit)
    THEN [r EXCEPT !.status = "rejected"]
    ELSE [r EXCEPT !.status = "pending", !.price = SuggestedPrice(r),
                   !.after = IF @ # Unset THEN @
                             ELSE NextTradingSessionStart(now)]

resolveTargetCode(c, side) ==
  IF /\ risk.enabled /\ c \notin risk.allowed /\ side = "buy"
     /\ Substitute[c] \in risk.allowed
    THEN Substitute[c] ELSE c

At(delay) == IF delay = Unset THEN Unset ELSE now + delay

ApprovalNeverRequired(req) == FALSE
orderRequiresApproval(req) ==
  req.approval = "required" \/ (req.meeting /\ req.approval # "waived")

(* A sell without a quantity is recorded as rejected at once, and so is a     *)
(* buy that could not be sized.                                               *)
Unsizable(req) == \/ req.side = "sell" /\ req.qty = 0
                  \/ req.side = "buy" /\ ~req.sized

NewRow(req) ==
  LET code == resolveTargetCode(req.code, req.side)
  IN [status |-> IF Unsizable(req) THEN "rejected" ELSE "suggested",
      side |-> req.side, code |-> code,
      qty |-> IF Unsizable(req) THEN 0 ELSE req.qty,
      price |-> IF req.price # 0 THEN req.price ELSE quote[code].price,
      meeting |-> req.meeting, approval |-> req.approval,
      after |-> At(req.wait), expire |-> At(req.life)]

CreateOrder(o, req, overLimit) ==
  /\ ~run.on
  /\ orders[o].status = "none" /\ \A n \in 1..(o - 1) : orders[n].status # "none"
  /\ orders' = [orders EXCEPT ![o] =
       IF Unsizable(req) \/ orderRequiresApproval(req) THEN NewRow(req)
       ELSE SubmitOrder(NewRow(req), overLimit)]
  /\ UNCHANGED <<ledger, bonus, pos, account, market, run, approved>>

(* ApproveOrder.  A high-risk order without confirmHighRisk is refused with   *)
(* no change of state; the confirmation is the human's choice.                *)
ApproveOrder(o, overLimit) ==
  /\ ~run.on /\ orders[o].status = "suggested"
  /\ orders' = [orders EXCEPT ![o] = SubmitOrder(@, overLimit)]
  /\ approved' = approved \cup {o}
  /\ UNCHANGED <<ledger, bonus, pos, account, market, run>>

RejectOrder(o) ==
  /\ ~run.on /\ orders[o].status = "suggested"
  /\ orders' = [orders EXCEPT ![o].status = "rejected"]
  /\ UNCHANGED <<ledger, bonus, pos, account, market, run, approved>>

CancelOrder(o) ==
  /\ ~run.on /\ orders[o].status \in {"suggested", "pending"}
  /\ orders' = [orders EXCEPT ![o].status = "cancelled"]
  /\ UNCHANGED <<ledger, bonus, pos, account, market, run, approved>>

(* DeleteOrder, and the ON DELETE CASCADE of paper_fills.order_id where the   *)
(* database enforces foreign keys.                                            *)
DeleteOrder(o) ==
  LET c == orders[o].code
      buys == orders[o].side = "buy"
  IN /\ ~run.on /\ orders[o].status \in {"cancelled", "rejected"}
     /\ orders' = [orders EXCEPT ![o] = [@ EXCEPT !.status = "deleted"]]
     /\ IF CascadeFills
          THEN /\ filled' = [filled EXCEPT ![o] = 0]
               /\ filledToday' = [filledToday EXCEPT ![o] = 0]
               /\ netFilled' = [netFilled EXCEPT ![c] =
                                  IF buys THEN @ - filled[o] ELSE @ + filled[o]]
               /\ boughtToday' = [boughtToday EXCEPT ![c] =
                                    IF buys THEN @ - filledToday[o] ELSE @]
          ELSE UNCHANGED <<filled, filledToday, netFilled, boughtToday>>
     /\ UNCHANGED <<unsettled, bonus, pos, account, market, run, approved>>

-----------------------------------------------------------------------------
(* FillOrderWithInput for quantity q at price p.  The risk config is checked  *)
(* first, then a blocked execution leaves only a note, then funds are checked *)
(* and the fill is booked.                                                    *)

FundsIgnoreFees(r, p, q) ==
  \/ r.side = "buy" /\ cash < p * q
  \/ r.side = "sell" /\ pos[r.code] < q
FundsRefused(r, p, q) ==
  \/ r.side = "buy" /\ cash < p * q + calculateFees("buy", p * q)
  \/ r.side = "sell" /\ pos[r.code] < q

Refused(r, p, q) == RiskRefused(r) \/ (~Blocked(r, q) /\ FundsRefused(r, p, q))
Fillable(r, p, q) == ~RiskRefused(r) /\ ~Blocked(r, q) /\ ~FundsRefused(r, p, q)

RejectFill(o) ==
  /\ orders' = [orders EXCEPT ![o].status = "rejected"]
  /\ UNCHANGED <<ledger, pos, cash>>

MovedOutwards(buys, held, q) == held - q
Moved(buys, held, q) == IF buys THEN held + q ELSE held - q

BookFill(o, p, q) ==
  LET r == orders[o]
      buys == r.side = "buy"
      gross == p * q
      fees == calculateFees(r.side, gross)
  IN /\ cash' = IF buys THEN cash - (gross + fees) ELSE cash + gross - fees
     /\ pos' = [pos EXCEPT ![r.code] = Moved(buys, @, q)]
     /\ filled' = [filled EXCEPT ![o] = @ + q]
     /\ filledToday' = [filledToday EXCEPT ![o] = @ + q]
     /\ netFilled' = [netFilled EXCEPT ![r.code] = Moved(buys, @, q)]
     /\ boughtToday' = [boughtToday EXCEPT ![r.code] = IF buys THEN @ + q ELSE @]
     /\ unsettled' = [unsettled EXCEPT ![r.code] = IF buys THEN @ + q ELSE @]
     /\ orders' = [orders EXCEPT ![o].status =
                     IF filled[o] + q >= r.qty THEN "filled" ELSE "pending"]

(* The manual fill: any price in the band, any part of what remains.  It      *)
(* checks neither the session, nor execute_after, nor expire_at.              *)
FillOrder(o, p, q) ==
  /\ ~run.on /\ orders[o].status = "pending"
  /\ \/ Refused(orders[o], p, q) /\ RejectFill(o)
     \/ Fillable(orders[o], p, q) /\ BookFill(o, p, q)
  /\ UNCHANGED <<bonus, active, risk, market, run, approved>>

-----------------------------------------------------------------------------
(* ExecuteDueOrders: one transaction, one step per loaded order.              *)

DueWhateverStatus == {o \in Orders : orders[o].after # Unset /\ orders[o].after <= now}
Due == {o \in Orders : /\ orders[o].status = "pending"
                       /\ orders[o].after # Unset /\ orders[o].after <= now}

Before(a, b) == \/ orders[a].after < orders[b].after
                \/ orders[a].after = orders[b].after /\ a < b

(* DuePendingOrders: the first BatchLimit due rows by (execute_after, id). *)
Loaded(batch) ==
  /\ batch \subseteq Due
  /\ Cardinality(batch) <= BatchLimit
  /\ \A a \in batch, b \in Due \ batch : Before(a, b)
  /\ batch # Due => Cardinality(batch) = BatchLimit

StartBatch ==
  /\ ~run.on /\ IsTradingTime(now)
  /\ \E batch \in SUBSET Orders : Loaded(batch) /\ run' = [Idle EXCEPT !.on = TRUE,
                                                               !.due = batch]
  /\ UNCHANGED <<orders, ledger, bonus, pos, account, market, approved>>

Head(o) == o \in run.due /\ \A a \in run.due \ {o} : Before(o, a)

Expired(o) == orders[o].expire # Unset /\ orders[o].expire <= now

(* autoExecutionQuantity: the budget of a code is allocated on first use from *)
(* the realtime volume; without a same-day volume there is no budget.         *)
BudgetNeverSpent(c) ==
  IF quote[c].volume > 0 THEN quote[c].volume \div ParticipationDiv ELSE run.budget[c]
Budget(c) == IF quote[c].volume > 0 /\ run.budget[c] = Unset
               THEN quote[c].volume \div ParticipationDiv ELSE run.budget[c]

AutoQuantityNeedsQuote(o) ==
  LET c == orders[o].code
  IN IF quote[c].volume <= 0 THEN 0
     ELSE IF Budget(c) < Remaining(o) THEN Budget(c) ELSE Remaining(o)

AutoQuantity(o) ==
  LET c == orders[o].code
  IN IF quote[c].volume <= 0 THEN Remaining(o)
     ELSE IF Budget(c) < Remaining(o) THEN Budget(c) ELSE Remaining(o)

(* autoExecutionPrice: slippage and impact move the price against the order,  *)
(* inside the band.                                                           *)
AutoPrices(r) == {p \in Prices : IF r.side = "buy" THEN p >= SuggestedPrice(r)
                                                   ELSE p <= SuggestedPrice(r)}

(* The batch is done with o; used is what it charges to the budget of c.     *)
Advance(o, budget, used, taken) ==
  LET c == orders[o].code
  IN run' = [on     |-> run.on,
             due    |-> run.due \ {o},
             budget |-> [run.budget EXCEPT ![c] =
                           IF budget = Unset THEN Unset ELSE budget - used],
             taken  |-> [run.taken EXCEPT ![c] = @ + taken]]

ExpireDue(o) ==
  /\ Expired(o)
  /\ orders' = [orders EXCEPT ![o].status = "expired"]
  /\ Advance(o, run.budget[orders[o].code], 0, 0)
  /\ UNCHANGED <<ledger, pos, cash>>

(* No price, no quantity, or blocked: a note, and the order stays pending. *)
SkipDue(o) ==
  /\ ~Expired(o)
  /\ \/ /\ SuggestedPrice(orders[o]) = 0
        /\ Advance(o, run.budget[orders[o].code], 0, 0)
     \/ /\ SuggestedPrice(orders[o]) # 0
        /\ AutoQuantity(o) <= 0 \/ Blocked(orders[o], AutoQuantity(o))
        /\ Advance(o, Budget(orders[o].code), 0, 0)
  /\ UNCHANGED <<orders, ledger, pos, cash>>

FillDue(o) ==
  LET q == AutoQuantity(o)
      b == Budget(orders[o].code)
  IN /\ ~Expired(o) /\ SuggestedPrice(orders[o]) # 0
     /\ q > 0 /\ ~Blocked(orders[o], q)
     /\ \E p \in AutoPrices(orders[o]) :
          \/ Refused(orders[o], p, q) /\ RejectFill(o) /\ Advance(o, b, q, 0)
          \/ Fillable(orders[o], p, q) /\ BookFill(o, p, q) /\ Advance(o, b, q, q)

BatchStep == /\ run.on
             /\ \E o \in Orders : Head(o) /\ (ExpireDue(o) \/ SkipDue(o) \/ FillDue(o))
             /\ UNCHANGED <<bonus, active, risk, market, approved>>

EndBatch == /\ run.on /\ run.due = {}
            /\ run' = Idle
            /\ UNCHANGED <<orders, ledger, bonus, pos, account, market, approved>>

-----------------------------------------------------------------------------
(* The rest of the account: corporate actions, account and risk edits. *)

CashDividend(c, d) ==
  /\ ~run.on /\ pos[c] > 0 /\ cash + d * pos[c] <= MaxCash
  /\ cash' = cash + d * pos[c]
  /\ UNCHANGED <<orders, ledger, bonus, pos, active, risk, market, run, approved>>

ShareIssueUnrecorded(c, k) ==
  /\ ~run.on /\ pos[c] > 0 /\ pos[c] + k * pos[c] <= MaxPos
  /\ pos' = [pos EXCEPT ![c] = @ + k * @]
  /\ UNCHANGED <<orders, ledger, bonus, account, market, run, approved>>

ShareIssue(c, k) ==
  /\ ~run.on /\ pos[c] > 0 /\ pos[c] + k * pos[c] <= MaxPos
  /\ pos' = [pos EXCEPT ![c] = @ + k * @]
  /\ bonus' = [bonus EXCEPT ![c] = @ + k * pos[c]]
  /\ UNCHANGED <<orders, ledger, account, market, run, approved>>

SetAccountActive(a) ==
  /\ ~run.on /\ active' = a
  /\ UNCHANGED <<orders, ledger, bonus, pos, cash, risk, market, run, approved>>

(* The body of the request is decoded onto the row: nothing checks the value. *)
UpdateAccount(m) ==
  /\ ~run.on /\ cash' = m
  /\ UNCHANGED <<orders, ledger, bonus, pos, active, risk, market, run, approved>>

(* CreateRiskConfig, UpdateRiskConfig and DeleteRiskConfig, as the account    *)
(* sees them: bound to an enabled config or not, and what it allows.          *)
SetRisk(config) ==
  /\ ~run.on /\ risk' = config
  /\ UNCHANGED <<orders, ledger, bonus, pos, cash, active, market, run, approved>>

-----------------------------------------------------------------------------
(* The market and the calendar. *)

QuoteArrives(c, p, v) ==
  /\ ~run.on /\ quote' = [quote EXCEPT ![c] = [price |-> p, volume |-> v]]
  /\ UNCHANGED <<orders, ledger, bonus, pos, account, now, run, approved>>

(* At midnight the same-day sums start again and yesterday's volume no longer *)
(* counts (isSameTradingDay); the last price stays.                           *)
Tick ==
  /\ ~run.on /\ now < MaxTime /\ now' = now + 1
  /\ IF Phase(now) = 2
       THEN /\ filledToday' = [o \in Orders |-> 0]
            /\ boughtToday' = [c \in Codes |-> 0]
            /\ unsettled' = [c \in Codes |-> 0]
            /\ quote' = [c \in Codes |-> [quote[c] EXCEPT !.volume = Unset]]
       ELSE UNCHANGED <<filledToday, boughtToday, unsettled, quote>>
  /\ UNCHANGED <<orders, filled, netFilled, bonus, pos, account, run, approved>>

-----------------------------------------------------------------------------
UserStep ==
  \/ \E o \in Orders, req \in Requests, over \in BOOLEAN : CreateOrder(o, req, over)
  \/ \E o \in Orders, over \in BOOLEAN : ApproveOrder(o, over)
  \/ \E o \in Orders : RejectOrder(o) \/ CancelOrder(o) \/ DeleteOrder(o)
  \/ \E o \in Orders, p \in Prices : \E q \in 1..Remaining(o) : FillOrder(o, p, q)

OperatorStep ==
  \/ \E c \in Codes, d \in Dividends : CashDividend(c, d)
  \/ \E c \in Codes, k \in BonusRatios : ShareIssue(c, k)
  \/ \E a \in ActiveChoices : SetAccountActive(a)
  \/ \E m \in CashEdits : UpdateAccount(m)
  \/ \E config \in RiskChoices : SetRisk(config)

Maintenance == StartBatch \/ BatchStep \/ EndBatch

Next == \/ UserStep \/ OperatorStep \/ Maintenance
        \/ \E c \in Codes, p \in Prices, v \in Volumes : QuoteArrives(c, p, v)
        \/ Tick

Spec == Init /\ [][Next]_vars

(* RunMaintenanceLoop fires every ten seconds for as long as a worker or the *)
(* local runtime is up, and the wall clock advances.                         *)
FairSpec == Spec /\ WF_vars(Maintenance) /\ WF_vars(Tick)

-----------------------------------------------------------------------------
OrderRow == [status : Status, side : Sides, code : Codes, qty : Nat, price : Nat,
             meeting : BOOLEAN, approval : Approvals, after : Times, expire : Times]

(* Every row and every sum has its type; positions never go negative. *)
TypeOK ==
  /\ orders \in [Orders -> OrderRow]
  /\ filled \in [Orders -> Nat] /\ filledToday \in [Orders -> Nat]
  /\ netFilled \in [Codes -> Int] /\ boughtToday \in [Codes -> Int]
  /\ bonus \in [Codes -> Nat] /\ pos \in [Codes -> Nat]
  /\ unsettled \in [Codes -> Nat]
  /\ cash \in Int /\ active \in BOOLEAN
  /\ risk \in [enabled : BOOLEAN, allowed : SUBSET Codes]
  /\ quote \in [Codes -> [price : Nat, volume : Int]]
  /\ now \in Nat /\ approved \subseteq Orders
  /\ run \in [on : BOOLEAN, due : SUBSET Orders, budget : [Codes -> Int],
              taken : [Codes -> Nat]]

(* An order is "filled" exactly when its fills add up to its quantity, and a *)
(* pending order always has something left: neither a manual fill nor a       *)
(* batch fill overshoots, whatever partial fills came before.                 *)
FillProgress ==
  \A o \in Orders :
    /\ filled[o] <= orders[o].qty
    /\ orders[o].status = "filled" => filled[o] = orders[o].qty
    /\ orders[o].status = "pending" => filled[o] < orders[o].qty

(* An order that asks for approval, or that comes from a meeting whose recap  *)
(* did not itself waive it, is neither pending nor ever filled before a human *)
(* approved it.                                                               *)
ApprovalGate ==
  \A o \in Orders :
    /\ \/ orders[o].approval = "required"
       \/ orders[o].meeting /\ orders[o].approval # "waived"
    /\ o \notin approved
    => filled[o] = 0 /\ orders[o].status \notin {"pending", "filled"}

(* T+1: no share bought today is ever sold today, through any mix of manual  *)
(* and automatic partial fills, corporate actions, cancels and deletes.       *)
TPlusOne == \A c \in Codes : pos[c] >= unsettled[c]

(* The position of a code is what its fill rows and its corporate actions    *)
(* add up to: the replay timeline explains every share held.                  *)
HoldingsReconcile == \A c \in Codes : pos[c] = netFilled[c] + bonus[c]

(* One maintenance batch never takes more of a code than its share of the    *)
(* realtime volume, however many due orders compete for it.                   *)
VolumeShare ==
  \A c \in Codes :
    run.on /\ quote[c].volume >= 0
    => run.taken[c] <= quote[c].volume \div ParticipationDiv

(* Of all executions only a sell whose fees exceed its proceeds can overdraw *)
(* the account: a buy, fees included, is always covered by the cash it finds. *)
(* Apart from executions the cash falls below zero only when an operator's    *)
(* edit writes such a balance, which UpdateAccount takes unchecked.           *)
OnlySellsAndEditsOverdraw ==
  [][cash' < cash /\ cash' < 0 =>
       \/ \E o \in Orders : orders[o].side = "sell" /\ filled'[o] > filled[o]
       \/ UNCHANGED <<orders, filled>> /\ cash' \in CashEdits]_vars

(* A fill row appears only under an order that is pending and that the risk  *)
(* config of the moment allows; a filled, rejected, cancelled or expired      *)
(* order never comes back to life.                                            *)
ClosedStaysClosed ==
  [][\A o \in Orders :
       /\ filled'[o] > filled[o] =>
            orders[o].status = "pending" /\ orders[o].code \in risk.allowed
       /\ orders[o].status \in Terminal =>
            orders'[o].status \in {orders[o].status, "deleted"}]_vars

(* What a batch could execute now: due, unexpired, priced, not blocked, and  *)
(* with a share of the volume of at least one lot.                            *)
Executable(o) ==
  LET volume == quote[orders[o].code].volume
  IN /\ o \in Due /\ ~Expired(o) /\ IsTradingTime(now)
     /\ SuggestedPrice(orders[o]) # 0
     /\ volume = Unset \/ volume >= ParticipationDiv
     /\ ~Blocked(orders[o], Remaining(o))

(* An executable order is not passed over for ever: the maintenance batches  *)
(* execute it, reject it or expire it, or it stops being executable.          *)
DueOrdersExecuted == \A o \in Orders : []<>~Executable(o)
=============================================================================
