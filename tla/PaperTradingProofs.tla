------------------------- MODULE PaperTradingProofs -------------------------
(* Proofs about PaperTrading, for any number of orders and codes, any prices, *)
(* fees and volumes.                                                          *)
EXTENDS PaperTrading, TLAPS

-----------------------------------------------------------------------------
(* What the helper operators return. *)

\* Fees are never negative, whatever the side and the amount.
LEMMA FeesType ==
  ASSUME NEW side \in Sides, NEW gross \in Nat
  PROVE  calculateFees(side, gross) \in Nat
  <1>1. gross \div CommissionDiv \in Nat /\ gross \div StampDiv \in Nat
    BY ConstantsAssumption, SMT
  <1>2. QED
    BY <1>1, ConstantsAssumption, SMT DEF calculateFees

\* The product of two naturals is a natural.
LEMMA ProductType ==
  ASSUME NEW p \in Nat, NEW q \in Nat
  PROVE  p * q \in Nat
  BY SMT

\* The next session never lies in the past.
LEMMA SessionType ==
  ASSUME NEW t \in Nat
  PROVE  NextTradingSessionStart(t) \in Nat /\ NextTradingSessionStart(t) >= t
  <1>1. t % 3 \in 0..2
    BY SMT
  <1>2. QED
    BY <1>1, SMT DEF NextTradingSessionStart, Phase

\* The price an order is worked at is a natural.
LEMMA PriceType ==
  ASSUME TypeOK, NEW r \in OrderRow
  PROVE  SuggestedPrice(r) \in Nat
  BY SMT DEF TypeOK, OrderRow, SuggestedPrice

\* Submitting keeps the row a row, with its side, code, quantity and source;
\* it becomes pending or rejected, and pending only with a quantity.
LEMMA SubmitType ==
  ASSUME TypeOK, NEW r \in OrderRow, NEW over \in BOOLEAN
  PROVE  /\ SubmitOrder(r, over) \in OrderRow
         /\ SubmitOrder(r, over).status \in {"pending", "rejected"}
         /\ SubmitOrder(r, over).status = "pending" => r.qty > 0
         /\ SubmitOrder(r, over).qty = r.qty
         /\ SubmitOrder(r, over).meeting = r.meeting
         /\ SubmitOrder(r, over).approval = r.approval
  <1>1. SuggestedPrice(r) \in Nat
    BY PriceType
  <1>2. NextTradingSessionStart(now) \in Nat
    BY SessionType DEF TypeOK
  <1>3. ~SubmitRefused(r, over) => r.qty > 0
    BY SMT DEF SubmitRefused, OrderRow
  <1>4. "pending" \in Status /\ "rejected" \in Status /\ Nat \subseteq Times
    BY DEF Status, Terminal, Times
  <1>5. CASE SubmitRefused(r, over)
    <2>1. SubmitOrder(r, over) = [r EXCEPT !.status = "rejected"]
      BY <1>5 DEF SubmitOrder
    <2>2. QED
      BY <2>1, <1>4, SMT DEF OrderRow
  <1>6. CASE ~SubmitRefused(r, over)
    <2> DEFINE due == IF r.after # Unset THEN r.after
                      ELSE NextTradingSessionStart(now)
    <2>1. SubmitOrder(r, over) = [r EXCEPT !.status = "pending",
                                   !.price = SuggestedPrice(r), !.after = due]
      BY <1>6 DEF SubmitOrder
    <2>2. due \in Times
      BY <1>2, <1>4 DEF OrderRow
    <2> HIDE DEF due
    <2> DEFINE price == SuggestedPrice(r)
    <2> HIDE DEF price
    <2>3. price \in Nat
      BY <1>1 DEF price
    <2>4. SubmitOrder(r, over) = [r EXCEPT !.status = "pending",
                                   !.price = price, !.after = due]
      BY <2>1 DEF price
    <2> DEFINE accepted == [r EXCEPT !.status = "pending"]
               priced   == [accepted EXCEPT !.price = price]
    <2>5. SubmitOrder(r, over) = [priced EXCEPT !.after = due]
      BY <2>4, Zenon DEF OrderRow
    <2>6. /\ accepted \in OrderRow /\ accepted.status = "pending"
          /\ accepted.qty = r.qty /\ accepted.meeting = r.meeting
          /\ accepted.approval = r.approval
      BY <1>4, SMT DEF OrderRow
    <2> HIDE DEF accepted
    <2>7. /\ priced \in OrderRow /\ priced.status = "pending"
          /\ priced.qty = r.qty /\ priced.meeting = r.meeting
          /\ priced.approval = r.approval
      BY <2>3, <2>6, SMT DEF OrderRow
    <2> HIDE DEF priced
    <2>8. QED
      BY <2>2, <2>5, <2>7, <1>3, <1>6, SMT DEF OrderRow
  <1>7. QED
    BY <1>5, <1>6

\* A new order is a row: rejected or suggested, with the source of its request.
LEMMA NewRowType ==
  ASSUME TypeOK, NEW req \in Requests
  PROVE  /\ NewRow(req) \in OrderRow
         /\ NewRow(req).status \in {"rejected", "suggested"}
         /\ NewRow(req).meeting = req.meeting /\ NewRow(req).approval = req.approval
  <1> DEFINE code  == resolveTargetCode(req.code, req.side)
             price == IF req.price # 0 THEN req.price ELSE quote[code].price
             st    == IF Unsizable(req) THEN "rejected" ELSE "suggested"
             qty   == IF Unsizable(req) THEN 0 ELSE req.qty
  <1>1. req \in Request
    BY ConstantsAssumption
  <1>2. code \in Codes
    BY <1>1, ConstantsAssumption, SMT DEF resolveTargetCode, Request
  <1>3. price \in Nat
    BY <1>1, <1>2, SMT DEF TypeOK, Request
  <1>4. At(req.wait) \in Times /\ At(req.life) \in Times
    BY <1>1, SMT DEF At, Times, TypeOK, Request
  <1>5. st \in {"rejected", "suggested"} /\ st \in Status /\ qty \in Nat
    BY <1>1, SMT DEF Status, Terminal, Request
  <1>6. NewRow(req) = [status |-> st, side |-> req.side, code |-> code, qty |-> qty,
                       price |-> price, meeting |-> req.meeting, approval |-> req.approval,
                       after |-> At(req.wait), expire |-> At(req.life)]
    BY DEF NewRow
  <1> HIDE DEF code, price, st, qty
  <1>7. QED
    BY <1>1, <1>2, <1>3, <1>4, <1>5, <1>6, SMT DEF OrderRow, Request

\* What remains of an order and what is sellable are naturals.
LEMMA QuantityTypes ==
  ASSUME TypeOK
  PROVE  /\ \A o \in Orders : /\ Remaining(o) \in Nat
                              /\ Remaining(o) > 0 =>
                                   filled[o] + Remaining(o) = orders[o].qty
         /\ \A c \in Codes : Sellable(c) \in Nat
  BY SMT DEF TypeOK, OrderRow, Remaining, Sellable

\* A batch never fills more of an order than remains of it.
LEMMA AutoQuantityType ==
  ASSUME TypeOK, NEW o \in Orders
  PROVE  /\ AutoQuantity(o) \in Int /\ AutoQuantity(o) <= Remaining(o)
         /\ \A c \in Codes : Budget(c) \in Int
  <1>1. \A c \in Codes : quote[c].volume \in Int /\ run.budget[c] \in Int
    BY DEF TypeOK
  <1>2. \A c \in Codes : Budget(c) \in Int
    BY <1>1, ConstantsAssumption, SMT DEF Budget
  <1>3. orders[o].code \in Codes
    BY DEF TypeOK, OrderRow
  <1>4. Remaining(o) \in Nat
    BY QuantityTypes
  <1>5. AutoQuantity(o) \in Int /\ AutoQuantity(o) <= Remaining(o)
    BY <1>1, <1>2, <1>3, <1>4, SMT DEF AutoQuantity
  <1>6. QED
    BY <1>2, <1>5

-----------------------------------------------------------------------------
(* Type correctness. *)

\* Changing the status of one row keeps the book well typed.
LEMMA StatusType ==
  ASSUME TypeOK, NEW o \in Orders, NEW st \in Status
  PROVE  [orders EXCEPT ![o].status = st] \in [Orders -> OrderRow]
  <1>1. orders[o] \in OrderRow
    BY DEF TypeOK
  <1>2. [orders[o] EXCEPT !.status = st] \in OrderRow
    BY <1>1, SMT DEF OrderRow
  <1>3. QED
    BY <1>2, Zenon DEF TypeOK

\* A booked fill keeps every sum, the cash and the positions well typed; a
\* sell never takes more than is held.
LEMMA BookFillType ==
  ASSUME TypeOK, NEW o \in Orders, NEW p \in Prices, NEW q \in Nat,
         ~FundsRefused(orders[o], p, q), BookFill(o, p, q)
  PROVE  /\ orders' \in [Orders -> OrderRow]
         /\ filled' \in [Orders -> Nat] /\ filledToday' \in [Orders -> Nat]
         /\ netFilled' \in [Codes -> Int] /\ boughtToday' \in [Codes -> Int]
         /\ unsettled' \in [Codes -> Nat]
         /\ pos' \in [Codes -> Nat] /\ cash' \in Int
  <1> DEFINE r == orders[o]
             fees == calculateFees(r.side, p * q)
  <1>1. r.side \in Sides /\ r.code \in Codes
    BY DEF TypeOK, OrderRow
  <1>2. p \in Nat
    BY ConstantsAssumption
  <1>3. p * q \in Nat
    BY <1>2, ProductType
  <1>4. fees \in Nat
    BY <1>1, <1>3, FeesType
  <1>5. cash' \in Int
    <2>1. cash' = IF r.side = "buy" THEN cash - (p * q + fees) ELSE cash + p * q - fees
      BY DEF BookFill
    <2> HIDE DEF fees
    <2>2. QED
      BY <2>1, <1>3, <1>4, SMT DEF TypeOK
  <1>6. orders' \in [Orders -> OrderRow]
    <2>1. "filled" \in Status /\ "pending" \in Status
      BY DEF Status, Terminal
    <2>2. QED
      BY <2>1, StatusType DEF BookFill
  <1>7. filled' \in [Orders -> Nat] /\ filledToday' \in [Orders -> Nat]
    BY SMT DEF BookFill, TypeOK
  <1>8. boughtToday' \in [Codes -> Int] /\ unsettled' \in [Codes -> Nat]
    BY <1>1, SMT DEF BookFill, TypeOK
  <1>9. netFilled' \in [Codes -> Int]
    BY <1>1, SMT DEF BookFill, Moved, TypeOK
  <1>10. pos' \in [Codes -> Nat]
    <2>1. r.side = "sell" => pos[r.code] >= q
      BY <1>1, SMT DEF FundsRefused, TypeOK
    <2>2. r.side = "buy" \/ r.side = "sell"
      BY <1>1 DEF Sides
    <2> DEFINE held == Moved(r.side = "buy", pos[r.code], q)
    <2>3. pos' = [pos EXCEPT ![r.code] = held]
      BY DEF BookFill
    <2>4. held \in Nat
      BY <1>1, <2>1, <2>2, SMT DEF Moved, TypeOK
    <2> HIDE DEF held
    <2>5. QED
      BY <2>3, <2>4, Zenon DEF TypeOK
  <1>11. QED
    BY <1>5, <1>6, <1>7, <1>8, <1>9, <1>10

\* Charging the budget of a code keeps the batch record well typed.
LEMMA AdvanceType ==
  ASSUME TypeOK, NEW o \in Orders, NEW b \in Int, NEW used \in Int,
         NEW taken \in Nat, Advance(o, b, used, taken)
  PROVE  run' \in [on : BOOLEAN, due : SUBSET Orders, budget : [Codes -> Int],
                   taken : [Codes -> Nat]]
  <1> DEFINE left == IF b = Unset THEN Unset ELSE b - used
  <1>1. orders[o].code \in Codes
    BY DEF TypeOK, OrderRow
  <1>2. left \in Int
    BY SMT DEF Unset
  <1>3. run' = [on |-> run.on, due |-> run.due \ {o},
                budget |-> [run.budget EXCEPT ![orders[o].code] = left],
                taken |-> [run.taken EXCEPT ![orders[o].code] = @ + taken]]
    BY DEF Advance
  <1> HIDE DEF left
  <1>4. [run.budget EXCEPT ![orders[o].code] = left] \in [Codes -> Int]
    BY <1>1, <1>2, SMT DEF TypeOK
  <1>5. [run.taken EXCEPT ![orders[o].code] = @ + taken] \in [Codes -> Nat]
    BY <1>1, SMT DEF TypeOK
  <1>6. QED
    BY <1>3, <1>4, <1>5, SMT DEF TypeOK

\* Whatever a step does, the variables keep their types.
LEMMA TypeStep ==
  ASSUME TypeOK, [Next]_vars
  PROVE  TypeOK'
  <1>1. ASSUME NEW o \in Orders, NEW req \in Requests, NEW over \in BOOLEAN,
               CreateOrder(o, req, over)
        PROVE  TypeOK'
    <2> DEFINE row == NewRow(req)
               new == IF Unsizable(req) \/ orderRequiresApproval(req) THEN row
                      ELSE SubmitOrder(row, over)
    <2>1. orders' = [orders EXCEPT ![o] = new]
      BY <1>1 DEF CreateOrder
    <2>2. row \in OrderRow
      BY NewRowType
    <2> HIDE DEF row
    <2>3. SubmitOrder(row, over) \in OrderRow
      BY <2>2, SubmitType
    <2>4. new \in OrderRow
      BY <2>2, <2>3, Zenon
    <2> HIDE DEF new
    <2>5. orders' \in [Orders -> OrderRow]
      BY <2>1, <2>4, Zenon DEF TypeOK
    <2>6. QED
      BY <1>1, <2>5 DEF CreateOrder, TypeOK, ledger, account, market
  <1>2. ASSUME NEW o \in Orders, NEW over \in BOOLEAN, ApproveOrder(o, over)
        PROVE  TypeOK'
    <2> DEFINE new == SubmitOrder(orders[o], over)
    <2>a. orders[o] \in OrderRow
      BY DEF TypeOK
    <2>1. new \in OrderRow
      BY <2>a, SubmitType
    <2>2. orders' = [orders EXCEPT ![o] = new]
      BY <1>2, Zenon DEF ApproveOrder
    <2> HIDE DEF new
    <2>3. orders' \in [Orders -> OrderRow]
      BY <2>1, <2>2 DEF TypeOK
    <2>4. QED
      BY <1>2, <2>3 DEF ApproveOrder, TypeOK, ledger, account, market
  <1>3. ASSUME NEW o \in Orders, RejectOrder(o) \/ CancelOrder(o)
        PROVE  TypeOK'
    <2>1. "rejected" \in Status /\ "cancelled" \in Status
      BY DEF Status, Terminal
    <2>2. PICK st \in Status : orders' = [orders EXCEPT ![o].status = st]
      BY <1>3, <2>1, Zenon DEF RejectOrder, CancelOrder
    <2>3. orders' \in [Orders -> OrderRow]
      BY <2>2, StatusType
    <2>4. QED
      BY <1>3, <2>3 DEF RejectOrder, CancelOrder, TypeOK, ledger, account, market
  <1>4. ASSUME NEW o \in Orders, DeleteOrder(o)
        PROVE  TypeOK'
    <2>1. orders[o].code \in Codes
      BY DEF TypeOK, OrderRow
    <2>2. orders' \in [Orders -> OrderRow]
      <3>1. "deleted" \in Status
        BY DEF Status
      <3>2. orders' = [orders EXCEPT ![o].status = "deleted"]
        BY <1>4, Zenon DEF DeleteOrder
      <3>3. QED
        BY <3>1, <3>2, StatusType
    <2>3. /\ filled' \in [Orders -> Nat] /\ filledToday' \in [Orders -> Nat]
          /\ netFilled' \in [Codes -> Int] /\ boughtToday' \in [Codes -> Int]
      <3>1. CASE CascadeFills
        <4>1. filled' \in [Orders -> Nat] /\ filledToday' \in [Orders -> Nat]
          BY <1>4, <3>1, SMT DEF DeleteOrder, TypeOK
        <4>2. netFilled' \in [Codes -> Int]
          BY <1>4, <2>1, <3>1, SMT DEF DeleteOrder, TypeOK
        <4>3. boughtToday' \in [Codes -> Int]
          BY <1>4, <2>1, <3>1, SMT DEF DeleteOrder, TypeOK
        <4>4. QED
          BY <4>1, <4>2, <4>3
      <3>2. CASE ~CascadeFills
        BY <1>4, <3>2 DEF DeleteOrder, TypeOK
      <3>3. QED
        BY <3>1, <3>2
    <2>4. QED
      BY <1>4, <2>2, <2>3 DEF DeleteOrder, TypeOK, account, market
  <1>5. ASSUME NEW o \in Orders, NEW p \in Prices, NEW q \in 1..Remaining(o),
               FillOrder(o, p, q)
        PROVE  TypeOK'
    <2>1. q \in Nat
      BY QuantityTypes, SMT
    <2>2. CASE RejectFill(o)
      <3>1. orders' \in [Orders -> OrderRow]
        BY <2>2, StatusType DEF RejectFill, Status, Terminal
      <3>2. QED
        BY <1>5, <2>2, <3>1 DEF RejectFill, FillOrder, TypeOK, ledger, market
    <2>3. CASE ~FundsRefused(orders[o], p, q) /\ BookFill(o, p, q)
      BY <1>5, <2>1, <2>3, BookFillType DEF FillOrder, TypeOK, market
    <2>4. QED
      BY <1>5, <2>2, <2>3 DEF FillOrder, Fillable
  <1>6. ASSUME StartBatch
        PROVE  TypeOK'
    <2>1. PICK batch \in SUBSET Orders :
            run' = [Idle EXCEPT !.on = TRUE, !.due = batch]
      BY <1>6 DEF StartBatch
    <2>2. run' = [on |-> TRUE, due |-> batch, budget |-> Idle.budget,
                  taken |-> Idle.taken]
      BY <2>1, Zenon DEF Idle
    <2>3. Idle.budget \in [Codes -> Int] /\ Idle.taken \in [Codes -> Nat]
      BY SMT DEF Idle, Unset
    <2>4. QED
      BY <1>6, <2>2, <2>3 DEF StartBatch, TypeOK, ledger, account, market
  <1>7. ASSUME NEW o \in Orders, ExpireDue(o) \/ SkipDue(o) \/ FillDue(o),
               UNCHANGED <<bonus, active, risk, market, approved>>
        PROVE  TypeOK'
    <2>1. Budget(orders[o].code) \in Int /\ run.budget[orders[o].code] \in Int
      BY AutoQuantityType DEF TypeOK, OrderRow
    <2>2. CASE ExpireDue(o)
      <3>1. orders' \in [Orders -> OrderRow]
        BY <2>2, StatusType DEF ExpireDue, Status, Terminal
      <3>2. run' \in [on : BOOLEAN, due : SUBSET Orders, budget : [Codes -> Int],
                      taken : [Codes -> Nat]]
        BY <2>1, <2>2, AdvanceType DEF ExpireDue
      <3>3. QED
        BY <1>7, <2>2, <3>1, <3>2 DEF ExpireDue, TypeOK, ledger, market
    <2>3. CASE SkipDue(o)
      <3>1. run' \in [on : BOOLEAN, due : SUBSET Orders, budget : [Codes -> Int],
                      taken : [Codes -> Nat]]
        BY <2>1, <2>3, AdvanceType DEF SkipDue
      <3>2. QED
        BY <1>7, <2>3, <3>1 DEF SkipDue, TypeOK, ledger, market
    <2>4. CASE FillDue(o)
      <3> DEFINE q == AutoQuantity(o)
      <3>1. q \in Nat
        BY <2>4, AutoQuantityType, SMT DEF FillDue
      <3>2. run' \in [on : BOOLEAN, due : SUBSET Orders, budget : [Codes -> Int],
                      taken : [Codes -> Nat]]
        BY <2>1, <2>4, <3>1, AdvanceType DEF FillDue
      <3>3. PICK p \in Prices :
              \/ RejectFill(o)
              \/ ~FundsRefused(orders[o], p, q) /\ BookFill(o, p, q)
        BY <2>4, Zenon DEF FillDue, Fillable, AutoPrices
      <3> HIDE DEF q
      <3>4. CASE RejectFill(o)
        <4>1. orders' \in [Orders -> OrderRow]
          BY <3>4, StatusType DEF RejectFill, Status, Terminal
        <4>2. QED
          BY <1>7, <3>2, <3>4, <4>1 DEF RejectFill, TypeOK, ledger, market
      <3>5. CASE ~FundsRefused(orders[o], p, q) /\ BookFill(o, p, q)
        BY <1>7, <3>1, <3>2, <3>5, BookFillType DEF TypeOK, market
      <3>6. QED
        BY <3>3, <3>4, <3>5
    <2>5. QED
      BY <1>7, <2>2, <2>3, <2>4
  <1>8. CASE EndBatch
    <2>1. Idle \in [on : BOOLEAN, due : SUBSET Orders, budget : [Codes -> Int],
                    taken : [Codes -> Nat]]
      BY SMT DEF Idle, Unset
    <2>2. QED
      BY <1>8, <2>1 DEF EndBatch, TypeOK, ledger, account, market
  <1>9. ASSUME NEW c \in Codes, NEW d \in Dividends, CashDividend(c, d)
        PROVE  TypeOK'
    <2>1. d * pos[c] \in Nat
      BY ConstantsAssumption, ProductType DEF TypeOK
    <2>2. cash' \in Int
      BY <1>9, <2>1, SMT DEF CashDividend, TypeOK
    <2>3. QED
      BY <1>9, <2>2 DEF CashDividend, TypeOK, ledger, market
  <1>10. ASSUME NEW c \in Codes, NEW k \in BonusRatios, ShareIssue(c, k)
         PROVE  TypeOK'
    <2> DEFINE extra == k * pos[c]
    <2>1. extra \in Nat
      BY ConstantsAssumption, ProductType DEF TypeOK
    <2>2. /\ pos' = [pos EXCEPT ![c] = @ + extra]
          /\ bonus' = [bonus EXCEPT ![c] = @ + extra]
      BY <1>10 DEF ShareIssue
    <2> HIDE DEF extra
    <2>3. pos' \in [Codes -> Nat] /\ bonus' \in [Codes -> Nat]
      BY <2>1, <2>2, SMT DEF TypeOK
    <2>4. QED
      BY <1>10, <2>3 DEF ShareIssue, TypeOK, ledger, account, market
  <1>11. ASSUME NEW a \in ActiveChoices, SetAccountActive(a)
         PROVE  TypeOK'
    BY <1>11, ConstantsAssumption DEF SetAccountActive, TypeOK, ledger, market
  <1>12. ASSUME NEW m \in CashEdits, UpdateAccount(m)
         PROVE  TypeOK'
    <2>1. m \in Int
      BY ConstantsAssumption, SMT
    <2>2. QED
      BY <1>12, <2>1 DEF UpdateAccount, TypeOK, ledger, market
  <1>13. ASSUME NEW config \in RiskChoices, SetRisk(config)
         PROVE  TypeOK'
    BY <1>13, ConstantsAssumption DEF SetRisk, TypeOK, ledger, market
  <1>14. ASSUME NEW c \in Codes, NEW p \in Prices, NEW v \in Volumes,
                QuoteArrives(c, p, v)
         PROVE  TypeOK'
    <2>1. [price |-> p, volume |-> v] \in [price : Nat, volume : Int]
      BY ConstantsAssumption, SMT
    <2>2. quote' \in [Codes -> [price : Nat, volume : Int]]
      BY <1>14, <2>1, Zenon DEF QuoteArrives, TypeOK
    <2>3. QED
      BY <1>14, <2>2 DEF QuoteArrives, TypeOK, ledger, account
  <1>15. CASE Tick
    <2>1. now' \in Nat
      BY <1>15, SMT DEF Tick, TypeOK
    <2>2. /\ filledToday' \in [Orders -> Nat]
          /\ boughtToday' \in [Codes -> Int] /\ unsettled' \in [Codes -> Nat]
      BY <1>15, SMT DEF Tick, TypeOK
    <2>3. quote' \in [Codes -> [price : Nat, volume : Int]]
      <3>1. \A c \in Codes : [quote[c] EXCEPT !.volume = Unset]
                               \in [price : Nat, volume : Int]
        BY SMT DEF TypeOK, Unset
      <3>2. QED
        BY <1>15, <3>1, SMT DEF Tick, TypeOK
    <2>4. QED
      BY <1>15, <2>1, <2>2, <2>3 DEF Tick, TypeOK, account
  <1>16. CASE UNCHANGED vars
    BY <1>16 DEF vars, TypeOK
  <1>17. QED
    BY <1>1, <1>2, <1>3, <1>4, <1>5, <1>6, <1>7, <1>8, <1>9, <1>10, <1>11, <1>12,
       <1>13, <1>14, <1>15, <1>16
       DEF Next, UserStep, OperatorStep, Maintenance, BatchStep

\* The account starts well typed.
LEMMA TypeInit == Init => TypeOK
  <1> SUFFICES ASSUME Init PROVE TypeOK
    OBVIOUS
  <1>1. NoOrder \in OrderRow
    BY ConstantsAssumption, SMT
       DEF NoOrder, OrderRow, Status, Terminal, Sides, Approvals, Times, Unset
  <1>2. QED
    BY <1>1, ConstantsAssumption, SMT DEF Init, Idle, TypeOK, Unset

\* Every reachable state is well typed; in particular no position is ever
\* negative, whatever sells, splits and deletes came before.
THEOREM TypeCorrect == Spec => []TypeOK
  <1>1. QED
    BY TypeInit, TypeStep, PTL DEF Spec

-----------------------------------------------------------------------------
(* Fill progress and the approval gate.  Neither invariant is inductive by    *)
(* itself: a batch works on orders it loaded earlier, so what makes it safe   *)
(* is that they are all still pending; and an order can only be submitted     *)
(* without overshooting because nothing was filled while it was suggested.    *)

\* The row needs a human's approval.
Gated(row) == row.approval = "required" \/ (row.meeting /\ row.approval # "waived")

OrderInv(o) ==
  /\ filled[o] <= orders[o].qty
  /\ orders[o].status \in {"none", "suggested"} => filled[o] = 0
  /\ orders[o].status = "filled" => filled[o] = orders[o].qty
  /\ orders[o].status = "pending" => filled[o] < orders[o].qty
  /\ o \in run.due => run.on /\ orders[o].status = "pending"
  /\ Gated(orders[o]) /\ o \notin approved
       => filled[o] = 0 /\ orders[o].status \notin {"pending", "filled"}

OrdersInv == \A o \in Orders : OrderInv(o)

\* A step that leaves an order's row and fills alone keeps its invariant.
LEMMA OrderFrame ==
  ASSUME NEW o \in Orders, OrderInv(o), orders'[o] = orders[o],
         filled'[o] = filled[o], approved \subseteq approved',
         o \in run'.due => o \in run.due /\ run'.on
  PROVE  OrderInv(o)'
  BY DEF OrderInv

\* A booked fill of at most what remains of a pending order.
LEMMA BookFillOrder ==
  ASSUME TypeOK, NEW o \in Orders, OrderInv(o), orders[o].status = "pending",
         NEW p \in Prices, NEW q \in Nat, 0 < q, q <= Remaining(o),
         BookFill(o, p, q), approved' = approved, o \notin run'.due
  PROVE  /\ OrderInv(o)'
         /\ \A x \in Orders \ {o} : orders'[x] = orders[x] /\ filled'[x] = filled[x]
  <1> DEFINE st == IF filled[o] + q >= orders[o].qty THEN "filled" ELSE "pending"
  <1>1. orders' = [orders EXCEPT ![o].status = st] /\ filled' = [filled EXCEPT ![o] = @ + q]
    BY DEF BookFill
  <1>2. /\ orders'[o].status = st /\ orders'[o].qty = orders[o].qty
        /\ orders'[o].meeting = orders[o].meeting /\ orders'[o].approval = orders[o].approval
        /\ filled'[o] = filled[o] + q
        /\ \A x \in Orders \ {o} : orders'[x] = orders[x] /\ filled'[x] = filled[x]
    <2>1. orders[o] \in OrderRow
      BY DEF TypeOK
    <2> HIDE DEF st
    <2>2. QED
      BY <1>1, <2>1, SMT DEF TypeOK, OrderRow
  <1>3. filled[o] \in Nat /\ orders[o].qty \in Nat
    BY DEF TypeOK, OrderRow
  <1>4. filled[o] + q <= orders[o].qty
    BY <1>3, SMT DEF Remaining
  <1>5. filled[o] + q >= orders[o].qty => filled[o] + q = orders[o].qty
    BY <1>3, <1>4, SMT
  <1>6. Gated(orders[o]) => o \in approved
    BY DEF OrderInv
  <1>7. Gated(orders[o])' => Gated(orders[o])
    BY <1>2 DEF Gated
  <1>8. QED
    BY <1>2, <1>3, <1>4, <1>5, <1>6, <1>7, SMT DEF OrderInv

\* A change of status to one that is neither pending nor filled.
LEMMA CloseOrder ==
  ASSUME TypeOK, NEW o \in Orders, OrderInv(o),
         NEW st \in {"rejected", "cancelled", "expired", "deleted"},
         orders' = [orders EXCEPT ![o].status = st],
         filled'[o] \in {filled[o], 0}, approved' = approved, o \notin run'.due
  PROVE  /\ OrderInv(o)'
         /\ \A x \in Orders \ {o} : orders'[x] = orders[x]
  <1>1. orders[o] \in OrderRow /\ filled[o] \in Nat
    BY DEF TypeOK
  <1>2. /\ orders'[o].status = st /\ orders'[o].qty = orders[o].qty
        /\ orders'[o].meeting = orders[o].meeting /\ orders'[o].approval = orders[o].approval
        /\ \A x \in Orders \ {o} : orders'[x] = orders[x]
    BY <1>1, SMT DEF TypeOK, OrderRow
  <1>3. Gated(orders[o])' => Gated(orders[o])
    BY <1>2 DEF Gated
  <1>4. QED
    BY <1>1, <1>2, <1>3, SMT DEF OrderInv, OrderRow

\* Every step keeps the invariant of every order.
LEMMA OrdersStep ==
  ASSUME TypeOK, OrdersInv, [Next]_vars
  PROVE  OrdersInv'
  <1> USE DEF OrdersInv
  <1>1. ASSUME NEW o \in Orders, NEW req \in Requests, NEW over \in BOOLEAN,
               CreateOrder(o, req, over)
        PROVE  OrdersInv'
    <2> DEFINE row == NewRow(req)
               suggest == Unsizable(req) \/ orderRequiresApproval(req)
               new == IF suggest THEN row ELSE SubmitOrder(row, over)
    <2>1. /\ orders' = [orders EXCEPT ![o] = new]
          /\ filled' = filled /\ approved' = approved /\ run' = run
          /\ ~run.on /\ orders[o].status = "none"
      BY <1>1 DEF CreateOrder, ledger
    <2>2. /\ row \in OrderRow /\ row.status \in {"rejected", "suggested"}
          /\ ~suggest => ~Gated(row)
      BY NewRowType DEF orderRequiresApproval, Gated
    <2> HIDE DEF row
    <2>3. /\ SubmitOrder(row, over) \in OrderRow
          /\ SubmitOrder(row, over).status \in {"pending", "rejected"}
          /\ SubmitOrder(row, over).status = "pending" => row.qty > 0
          /\ SubmitOrder(row, over).qty = row.qty
          /\ SubmitOrder(row, over).meeting = row.meeting
          /\ SubmitOrder(row, over).approval = row.approval
      BY <2>2, SubmitType
    <2> HIDE DEF suggest
    <2>4. /\ new \in OrderRow /\ new.status \in {"pending", "rejected", "suggested"}
          /\ new.status = "pending" => new.qty > 0 /\ ~Gated(new)
      <3>1. CASE suggest
        BY <3>1, <2>2
      <3>2. CASE ~suggest
        BY <3>2, <2>2, <2>3 DEF Gated
      <3>3. QED
        BY <3>1, <3>2
    <2> HIDE DEF new
    <2>5. QED
      BY <2>1, <2>4, SMT DEF TypeOK, OrderInv, OrderRow
  <1>2. ASSUME NEW o \in Orders, NEW over \in BOOLEAN, ApproveOrder(o, over)
        PROVE  OrdersInv'
    <2> DEFINE new == SubmitOrder(orders[o], over)
    <2>a. orders[o] \in OrderRow
      BY DEF TypeOK
    <2>b. /\ new \in OrderRow /\ new.status \in {"pending", "rejected"}
          /\ new.status = "pending" => orders[o].qty > 0
          /\ new.qty = orders[o].qty
      BY <2>a, SubmitType
    <2> HIDE DEF new
    <2>1. /\ new \in OrderRow /\ new.status \in {"pending", "rejected"}
          /\ new.status = "pending" => new.qty > 0
      BY <2>b
    <2> USE DEF new
    <2>2. /\ orders' = [orders EXCEPT ![o] = new] /\ filled' = filled
          /\ approved' = approved \cup {o} /\ run' = run
          /\ ~run.on /\ orders[o].status = "suggested"
      BY <1>2, Zenon DEF ApproveOrder, ledger
    <2> HIDE DEF new
    <2>3. QED
      BY <2>1, <2>2, SMT DEF TypeOK, OrderInv, OrderRow
  <1>3. ASSUME NEW o \in Orders, RejectOrder(o) \/ CancelOrder(o) \/ DeleteOrder(o)
        PROVE  OrdersInv'
    <2>1. PICK st \in {"rejected", "cancelled", "expired", "deleted"} :
            orders' = [orders EXCEPT ![o].status = st]
      BY <1>3, Zenon DEF RejectOrder, CancelOrder, DeleteOrder
    <2>2. /\ filled'[o] \in {filled[o], 0}
          /\ \A x \in Orders \ {o} : filled'[x] = filled[x]
          /\ approved' = approved /\ run' = run /\ ~run.on
      BY <1>3, SMT DEF RejectOrder, CancelOrder, DeleteOrder, ledger, TypeOK
    <2>3. \A x \in Orders : x \notin run'.due
      BY <2>2 DEF OrderInv
    <2>4. OrderInv(o)' /\ \A x \in Orders \ {o} : orders'[x] = orders[x]
      BY <2>1, <2>2, <2>3, CloseOrder
    <2>5. QED
      BY <2>2, <2>3, <2>4, OrderFrame
  <1>4. ASSUME NEW o \in Orders, NEW p \in Prices, NEW q \in 1..Remaining(o),
               FillOrder(o, p, q)
        PROVE  OrdersInv'
    <2>1. approved' = approved /\ run' = run /\ ~run.on /\ orders[o].status = "pending"
      BY <1>4 DEF FillOrder
    <2>2. \A x \in Orders : x \notin run'.due
      BY <2>1 DEF OrderInv
    <2>3. CASE RejectFill(o)
      BY <2>1, <2>2, <2>3, CloseOrder, OrderFrame DEF RejectFill, ledger
    <2>4. CASE BookFill(o, p, q)
      <3>1. q \in Nat /\ 0 < q /\ q <= Remaining(o)
        BY QuantityTypes, SMT
      <3>2. QED
        BY <2>1, <2>2, <2>4, <3>1, BookFillOrder, OrderFrame
    <2>5. QED
      BY <1>4, <2>3, <2>4 DEF FillOrder
  <1>5. CASE StartBatch
    <2>1. PICK batch \in SUBSET Orders :
            Loaded(batch) /\ run' = [Idle EXCEPT !.on = TRUE, !.due = batch]
      BY <1>5 DEF StartBatch
    <2>2. run'.on /\ run'.due = batch
      BY <2>1, Zenon DEF Idle
    <2>3. \A x \in batch : orders[x].status = "pending"
      BY <2>1 DEF Loaded, Due
    <2>4. orders' = orders /\ filled' = filled /\ approved' = approved
      BY <1>5 DEF StartBatch, ledger
    <2>5. QED
      BY <2>2, <2>3, <2>4 DEF OrderInv
  <1>6. ASSUME NEW o \in Orders, run.on, Head(o),
               ExpireDue(o) \/ SkipDue(o) \/ FillDue(o), approved' = approved
        PROVE  OrdersInv'
    <2>1. orders[o].status = "pending"
      BY <1>6 DEF Head, OrderInv
    <2>2. run'.on /\ run'.due = run.due \ {o}
      <3>1. PICK b, used, taken : Advance(o, b, used, taken)
        BY <1>6, Zenon DEF ExpireDue, SkipDue, FillDue
      <3>2. QED
        BY <1>6, <3>1 DEF Advance
    <2>3. CASE ExpireDue(o)
      BY <1>6, <2>2, <2>3, CloseOrder, OrderFrame DEF ExpireDue, ledger
    <2>4. CASE SkipDue(o)
      BY <1>6, <2>2, <2>4, OrderFrame DEF SkipDue, ledger
    <2>5. CASE FillDue(o)
      <3> DEFINE q == AutoQuantity(o)
      <3>1. q \in Nat /\ 0 < q /\ q <= Remaining(o)
        BY <2>5, AutoQuantityType, SMT DEF FillDue
      <3>2. PICK p \in Prices : RejectFill(o) \/ BookFill(o, p, q)
        BY <2>5, Zenon DEF FillDue, AutoPrices
      <3> HIDE DEF q
      <3>3. CASE RejectFill(o)
        BY <1>6, <2>2, <3>3, CloseOrder, OrderFrame DEF RejectFill, ledger
      <3>4. CASE BookFill(o, p, q)
        BY <1>6, <2>1, <2>2, <3>1, <3>4, BookFillOrder, OrderFrame
      <3>5. QED
        BY <3>2, <3>3, <3>4
    <2>6. QED
      BY <1>6, <2>3, <2>4, <2>5
  <1>7. CASE EndBatch
    <2>1. run'.due = {}
      BY <1>7, Zenon DEF EndBatch, Idle
    <2>2. QED
      BY <1>7, <2>1, OrderFrame DEF EndBatch, ledger
  <1>8. CASE /\ UNCHANGED <<orders, filled, run, approved>>
    BY <1>8, OrderFrame DEF OrderInv
  <1>9. OperatorStep => UNCHANGED <<orders, filled, run, approved>>
    BY DEF OperatorStep, CashDividend, ShareIssue, SetAccountActive, UpdateAccount,
           SetRisk, ledger
  <1>10. ASSUME NEW c \in Codes, NEW p \in Prices, NEW v \in Volumes,
                QuoteArrives(c, p, v) \/ Tick
         PROVE  UNCHANGED <<orders, filled, run, approved>>
    BY <1>10 DEF QuoteArrives, Tick, ledger
  <1>11. Tick \/ UNCHANGED vars => UNCHANGED <<orders, filled, run, approved>>
    BY DEF Tick, vars
  <1>12. QED
    BY <1>1, <1>2, <1>3, <1>4, <1>5, <1>6, <1>7, <1>8, <1>9, <1>10, <1>11
       DEF Next, UserStep, Maintenance, BatchStep

\* The book starts empty.
LEMMA OrdersInit == Init => OrdersInv
  BY SMT DEF Init, OrdersInv, OrderInv, NoOrder, Idle

\* In every reachable state every order satisfies its invariant.
THEOREM OrdersCorrect == Spec => []OrdersInv
  <1>1. QED
    BY TypeCorrect, OrdersInit, OrdersStep, PTL DEF Spec

\* An order is filled exactly up to its quantity, never beyond it, whatever mix
\* of manual fills and batches executed it.
THEOREM FillsMatchQuantity == Spec => []FillProgress
  <1>1. OrdersInv => FillProgress
    BY DEF OrdersInv, OrderInv, FillProgress
  <1>2. QED
    BY <1>1, OrdersCorrect, PTL

\* No order that asks for approval, or of a meeting whose recap did not waive it,
\* is pending or filled without a human's approval.
THEOREM MeetingsNeedApproval == Spec => []ApprovalGate
  <1>1. OrdersInv => ApprovalGate
    BY DEF OrdersInv, OrderInv, Gated, ApprovalGate
  <1>2. QED
    BY <1>1, OrdersCorrect, PTL

-----------------------------------------------------------------------------
(* T+1 and the reconciliation of positions, for a database that keeps the     *)
(* fills of deleted orders.  The T+1 query reads the fill rows; what makes it *)
(* count every share bought today is that it agrees with the ghost.           *)

LedgerInv ==
  \A c \in Codes : /\ boughtToday[c] = unsettled[c]
                   /\ pos[c] >= unsettled[c]
                   /\ pos[c] = netFilled[c] + bonus[c]

Booked == \E o \in Orders, p \in Prices, q \in Nat :
            ~Blocked(orders[o], q) /\ BookFill(o, p, q)

\* The ways a step can touch the ledger.
LEMMA LedgerCases ==
  ASSUME TypeOK, [Next]_vars
  PROVE  \/ Booked /\ bonus' = bonus
         \/ \E o \in Orders : DeleteOrder(o)
         \/ \E c \in Codes, k \in BonusRatios : ShareIssue(c, k)
         \/ Tick
         \/ UNCHANGED <<netFilled, boughtToday, unsettled, bonus, pos>>
  <1> DEFINE Quiet == UNCHANGED <<netFilled, boughtToday, unsettled, bonus, pos>>
  <1>1. CASE UserStep
    <2>1. ASSUME NEW o \in Orders, NEW p \in Prices, NEW q \in 1..Remaining(o),
                 FillOrder(o, p, q)
          PROVE  (Booked /\ bonus' = bonus) \/ Quiet
      <3>1. q \in Nat
        BY QuantityTypes, SMT
      <3>2. QED
        BY <2>1, <3>1 DEF FillOrder, Fillable, RejectFill, Booked, ledger
    <2>2. ASSUME NEW o \in Orders, RejectOrder(o) \/ CancelOrder(o)
          PROVE  Quiet
      BY <2>2 DEF RejectOrder, CancelOrder, ledger
    <2>3. ASSUME NEW o \in Orders, NEW over \in BOOLEAN, ApproveOrder(o, over)
          PROVE  Quiet
      BY <2>3 DEF ApproveOrder, ledger
    <2>4. ASSUME NEW o \in Orders, NEW req \in Requests, NEW over \in BOOLEAN,
                 CreateOrder(o, req, over)
          PROVE  Quiet
      BY <2>4 DEF CreateOrder, ledger
    <2> HIDE DEF Quiet
    <2>5. QED
      BY <1>1, <2>1, <2>2, <2>3, <2>4 DEF UserStep, Quiet
  <1>2. CASE OperatorStep
    <2>1. \/ \E c \in Codes, k \in BonusRatios : ShareIssue(c, k)
          \/ Quiet
      BY <1>2 DEF OperatorStep, CashDividend, SetAccountActive, UpdateAccount, SetRisk,
                  ledger
    <2>2. QED
      BY <2>1
  <1>3. CASE Maintenance
    <2>1. StartBatch \/ EndBatch => Quiet
      BY DEF StartBatch, EndBatch, ledger
    <2>2. ASSUME NEW o \in Orders, ExpireDue(o) \/ SkipDue(o) \/ FillDue(o),
                 bonus' = bonus
          PROVE  Booked \/ Quiet
      <3>1. ExpireDue(o) \/ SkipDue(o) => Quiet
        BY <2>2 DEF ExpireDue, SkipDue, ledger
      <3>2. CASE FillDue(o)
        <4> DEFINE q == AutoQuantity(o)
        <4>1. q \in Nat
          BY <3>2, AutoQuantityType, SMT DEF FillDue
        <4>2. ~Blocked(orders[o], q)
          BY <3>2, Zenon DEF FillDue
        <4>3. PICK p \in Prices : RejectFill(o) \/ BookFill(o, p, q)
          BY <3>2, Zenon DEF FillDue, AutoPrices
        <4> HIDE DEF q
        <4>4. QED
          BY <2>2, <4>1, <4>2, <4>3 DEF RejectFill, Booked, ledger
      <3>3. QED
        BY <2>2, <3>1, <3>2
    <2>3. QED
      BY <1>3, <2>1, <2>2 DEF Maintenance, BatchStep
  <1>4. ASSUME NEW c \in Codes, NEW p \in Prices, NEW v \in Volumes,
               QuoteArrives(c, p, v)
        PROVE  Quiet
    BY <1>4 DEF QuoteArrives, ledger
  <1>5. UNCHANGED vars => Quiet
    BY DEF vars
  <1> HIDE DEF Quiet
  <1>6. QED
    BY <1>1, <1>2, <1>3, <1>4, <1>5 DEF Next, Quiet

\* A fill that is not blocked: a buy adds the same amount everywhere, a sell
\* leaves at least what was bought today.
LEMMA BookedLedger ==
  ASSUME TypeOK, LedgerInv, bonus' = bonus, Booked
  PROVE  LedgerInv'
  <1>1. PICK o \in Orders, p \in Prices, q \in Nat :
          ~Blocked(orders[o], q) /\ BookFill(o, p, q)
    BY DEF Booked
  <1> DEFINE c == orders[o].code
             buys == orders[o].side = "buy"
  <1>2. c \in Codes /\ (buys \/ orders[o].side = "sell")
    BY DEF TypeOK, OrderRow, Sides
  <1>3. /\ pos' = [pos EXCEPT ![c] = Moved(buys, @, q)]
        /\ netFilled' = [netFilled EXCEPT ![c] = Moved(buys, @, q)]
        /\ boughtToday' = [boughtToday EXCEPT ![c] = IF buys THEN @ + q ELSE @]
        /\ unsettled' = [unsettled EXCEPT ![c] = IF buys THEN @ + q ELSE @]
    BY <1>1 DEF BookFill
  <1>4. ~buys => Sellable(c) >= q
    BY <1>1, <1>2, SMT DEF Blocked, Sellable, TypeOK
  <1> HIDE DEF c, buys
  <1>5. ~buys /\ q > 0 => pos[c] - q >= unsettled[c]
    BY <1>2, <1>4, SMT DEF Sellable, LedgerInv, TypeOK
  <1>6. CASE buys
    BY <1>2, <1>3, <1>6, SMT DEF LedgerInv, Moved, TypeOK
  <1>7. CASE ~buys
    BY <1>2, <1>3, <1>5, <1>7, SMT DEF LedgerInv, Moved, TypeOK
  <1>8. QED
    BY <1>6, <1>7

\* Every step keeps the ledger consistent, unless deletes cascade to fills.
LEMMA LedgerStep ==
  ASSUME ~CascadeFills, TypeOK, LedgerInv, [Next]_vars
  PROVE  LedgerInv'
  <1>1. ASSUME NEW o \in Orders, DeleteOrder(o)
        PROVE  LedgerInv'
    BY <1>1 DEF DeleteOrder, LedgerInv
  <1>2. ASSUME NEW c \in Codes, NEW k \in BonusRatios, ShareIssue(c, k)
        PROVE  LedgerInv'
    <2> DEFINE extra == k * pos[c]
    <2>1. extra \in Nat
      BY ConstantsAssumption, ProductType DEF TypeOK
    <2>2. /\ pos' = [pos EXCEPT ![c] = @ + extra]
          /\ bonus' = [bonus EXCEPT ![c] = @ + extra]
          /\ UNCHANGED <<boughtToday, unsettled, netFilled>>
      BY <1>2 DEF ShareIssue, ledger
    <2> HIDE DEF extra
    <2>3. QED
      BY <2>1, <2>2, SMT DEF LedgerInv, TypeOK
  <1>3. CASE Tick
    BY <1>3, SMT DEF Tick, LedgerInv, TypeOK
  <1>4. CASE UNCHANGED <<netFilled, boughtToday, unsettled, bonus, pos>>
    BY <1>4 DEF LedgerInv
  <1>5. QED
    BY <1>1, <1>2, <1>3, <1>4, LedgerCases, BookedLedger

\* While fills outlive their orders, the ledger is consistent for ever.
LEMMA LedgerCorrect ==
  ASSUME ~CascadeFills
  PROVE  Spec => []LedgerInv
  <1>1. Init => LedgerInv
    BY SMT DEF Init, LedgerInv
  <1>2. TypeOK /\ LedgerInv /\ [Next]_vars => LedgerInv'
    BY LedgerStep
  <1>3. QED
    BY <1>1, <1>2, TypeCorrect, PTL DEF Spec

\* T+1 holds for every mix of fills, splits, cancels and deletes, as long as
\* deleting an order keeps its fills.
THEOREM NoSameDaySale ==
  ASSUME ~CascadeFills
  PROVE  Spec => []TPlusOne
  <1>1. LedgerInv => TPlusOne
    BY DEF LedgerInv, TPlusOne
  <1>2. QED
    BY <1>1, LedgerCorrect, PTL

\* Every share held is explained by the fill rows and the corporate actions.
THEOREM PositionsReconcile ==
  ASSUME ~CascadeFills
  PROVE  Spec => []HoldingsReconcile
  <1>1. LedgerInv => HoldingsReconcile
    BY DEF LedgerInv, HoldingsReconcile
  <1>2. QED
    BY <1>1, LedgerCorrect, PTL

-----------------------------------------------------------------------------
(* The shared volume budget.  What a batch took and what its budget still     *)
(* allows never exceed the share of the volume; the budget, allocated on the  *)
(* first use of a code, is what makes the bound hold across orders.           *)

Share(c) == quote[c].volume \div ParticipationDiv

Within(c, budget, taken) ==
  IF budget = Unset THEN taken = 0 ELSE budget >= 0 /\ taken + budget <= Share(c)

BudgetInv == \A c \in Codes :
  run.on /\ quote[c].volume >= 0 => Within(c, run.budget[c], run.taken[c])

\* The share of a realtime volume is a natural.
LEMMA ShareType ==
  ASSUME TypeOK, NEW c \in Codes, quote[c].volume >= 0
  PROVE  Share(c) \in Nat
  <1>1. quote[c].volume \in Nat
    BY SMT DEF TypeOK
  <1>2. QED
    BY <1>1, ConstantsAssumption, SMT DEF Share

\* Allocating the budget of a code keeps it within the share.
LEMMA BudgetWithin ==
  ASSUME TypeOK, BudgetInv, run.on, NEW c \in Codes, quote[c].volume >= 0
  PROVE  Within(c, Budget(c), run.taken[c])
  <1>1. Share(c) \in Nat /\ run.taken[c] \in Nat
    BY ShareType DEF TypeOK
  <1>2. Within(c, run.budget[c], run.taken[c])
    BY DEF BudgetInv
  <1>3. CASE Budget(c) = run.budget[c]
    BY <1>2, <1>3
  <1>4. CASE Budget(c) # run.budget[c]
    <2>1. Budget(c) = Share(c) /\ run.budget[c] = Unset
      BY <1>4 DEF Budget, Share
    <2>2. run.taken[c] = 0
      BY <1>2, <2>1 DEF Within
    <2>3. QED
      BY <1>1, <2>1, <2>2, SMT DEF Within
  <1>5. QED
    BY <1>3, <1>4

\* Charging to a budget no less than what is taken.
LEMMA AdvanceBudget ==
  ASSUME TypeOK, BudgetInv, run.on, NEW o \in Orders, NEW b \in Int,
         NEW used \in Nat, NEW taken \in Nat, taken <= used,
         Advance(o, b, used, taken), quote' = quote,
         quote[orders[o].code].volume >= 0 =>
           /\ Within(orders[o].code, b, run.taken[orders[o].code])
           /\ IF b = Unset THEN taken = 0 ELSE used <= b
  PROVE  BudgetInv'
  <1> DEFINE c == orders[o].code
             left == IF b = Unset THEN Unset ELSE b - used
  <1>1. c \in Codes
    BY DEF TypeOK, OrderRow
  <1>2. /\ run'.on = run.on
        /\ run'.budget = [run.budget EXCEPT ![c] = left]
        /\ run'.taken = [run.taken EXCEPT ![c] = @ + taken]
    BY DEF Advance
  <1>3. /\ run'.budget[c] = left /\ run'.taken[c] = run.taken[c] + taken
        /\ \A x \in Codes \ {c} : /\ run'.budget[x] = run.budget[x]
                                  /\ run'.taken[x] = run.taken[x]
    <2> HIDE DEF left, c
    <2>1. run.budget \in [Codes -> Int] /\ run.taken \in [Codes -> Nat]
      BY DEF TypeOK
    <2>2. QED
      BY <1>1, <1>2, <2>1, ZenonT(60)
  <1>4. \A x \in Codes \ {c} : quote[x].volume >= 0 =>
          Within(x, run'.budget[x], run'.taken[x])
    BY <1>3 DEF BudgetInv
  <1>5. quote[c].volume >= 0 => Within(c, left, run.taken[c] + taken)
    <2>1. SUFFICES ASSUME quote[c].volume >= 0
                   PROVE  Within(c, left, run.taken[c] + taken)
      OBVIOUS
    <2>2. /\ Within(c, b, run.taken[c])
          /\ IF b = Unset THEN taken = 0 ELSE used <= b
      BY <2>1
    <2>3. Share(c) \in Nat /\ run.taken[c] \in Nat
      BY <1>1, <2>1, ShareType DEF TypeOK
    <2> HIDE DEF c
    <2>4. QED
      BY <2>2, <2>3, SMT DEF Within, Unset
  <1>6. \A x \in Codes : quote'[x].volume >= 0 =>
          Within(x, run'.budget[x], run'.taken[x])
    <2> HIDE DEF left, c
    <2>1. QED
      BY <1>3, <1>4, <1>5
  <1>7. QED
    BY <1>6 DEF BudgetInv, Within, Share

\* Every step keeps every budget within the share of the volume.
LEMMA BudgetStep ==
  ASSUME TypeOK, BudgetInv, [Next]_vars
  PROVE  BudgetInv'
  <1>1. ASSUME run.on, NEW o \in Orders, ExpireDue(o) \/ SkipDue(o) \/ FillDue(o),
               quote' = quote
        PROVE  BudgetInv'
    <2> DEFINE c == orders[o].code
    <2>1. c \in Codes /\ Budget(c) \in Int /\ run.budget[c] \in Int
      BY AutoQuantityType DEF TypeOK, OrderRow
    <2>2. quote[c].volume >= 0 => /\ Within(c, Budget(c), run.taken[c])
                                  /\ Within(c, run.budget[c], run.taken[c])
      BY <1>1, <2>1, BudgetWithin DEF BudgetInv
    <2>3. ASSUME NEW b \in {Budget(c), run.budget[c]}, Advance(o, b, 0, 0)
          PROVE  BudgetInv'
      <3>1. quote[c].volume >= 0 => Within(c, b, run.taken[c])
        BY <2>2, <2>3
      <3>2. quote[c].volume >= 0 /\ b # Unset => 0 <= b
        BY <3>1 DEF Within
      <3>3. b \in Int
        BY <2>1, <2>3
      <3>4. QED
        BY <1>1, <2>3, <3>1, <3>2, <3>3, AdvanceBudget, SMT
    <2>4. CASE ExpireDue(o) \/ SkipDue(o)
      BY <2>3, <2>4, Zenon DEF ExpireDue, SkipDue
    <2>5. CASE FillDue(o)
      <3> DEFINE q == AutoQuantity(o)
      <3>1. q \in Nat /\ 0 < q
        BY <2>5, AutoQuantityType, SMT DEF FillDue
      <3>2. ~Blocked(orders[o], q)
        BY <2>5, Zenon DEF FillDue
      <3>3. PICK taken \in {0, q} : Advance(o, Budget(c), q, taken)
        BY <2>5, Zenon DEF FillDue
      <3>4. quote[c].volume >= 0 => Budget(c) # Unset /\ q <= Budget(c)
        <4>1. SUFFICES ASSUME quote[c].volume >= 0
                       PROVE  Budget(c) # Unset /\ q <= Budget(c)
          OBVIOUS
        <4>2. quote[c].volume \in Int /\ quote[c].volume # 0
          BY <2>1, <3>2 DEF Blocked, TypeOK
        <4>3. quote[c].volume > 0
          BY <4>1, <4>2, SMT
        <4>4. Remaining(o) \in Nat
          BY QuantityTypes
        <4>5. q = IF Budget(c) < Remaining(o) THEN Budget(c) ELSE Remaining(o)
          <5>1. ~(quote[c].volume <= 0)
            BY <4>2, <4>3, SMT
          <5>2. QED
            BY <5>1 DEF AutoQuantity
        <4> HIDE DEF q, c
        <4>6. QED
          BY <2>1, <3>1, <4>4, <4>5, SMT DEF Unset
      <3> HIDE DEF q
      <3>5. QED
        BY <1>1, <2>1, <2>2, <3>1, <3>3, <3>4, AdvanceBudget, SMT
    <2>6. QED
      BY <1>1, <2>4, <2>5
  <1>2. CASE StartBatch
    <2>1. \A c \in Codes : run'.budget[c] = Unset /\ run'.taken[c] = 0
      BY <1>2, ZenonT(60) DEF StartBatch, Idle
    <2>2. QED
      BY <2>1 DEF BudgetInv, Within
  <1>3. CASE EndBatch
    BY <1>3 DEF EndBatch, Idle, BudgetInv
  <1>4. ASSUME run' = run, ~run.on
        PROVE  BudgetInv'
    BY <1>4 DEF BudgetInv
  <1>5. CASE UserStep
    BY <1>4, <1>5 DEF UserStep, CreateOrder, ApproveOrder, RejectOrder, CancelOrder,
                      DeleteOrder, FillOrder
  <1>6. CASE OperatorStep
    BY <1>4, <1>6 DEF OperatorStep, CashDividend, ShareIssue, SetAccountActive,
                      UpdateAccount, SetRisk
  <1>7. ASSUME NEW c \in Codes, NEW p \in Prices, NEW v \in Volumes,
               QuoteArrives(c, p, v)
        PROVE  BudgetInv'
    BY <1>4, <1>7 DEF QuoteArrives
  <1>8. CASE Tick
    BY <1>4, <1>8 DEF Tick
  <1>9. CASE UNCHANGED vars
    BY <1>9 DEF vars, BudgetInv, Within, Share
  <1>10. CASE BatchStep
    BY <1>1, <1>10 DEF BatchStep, market
  <1>11. QED
    BY <1>2, <1>3, <1>5, <1>6, <1>7, <1>8, <1>9, <1>10 DEF Next, Maintenance

\* A maintenance batch never takes more of a code than its share of the volume,
\* however many orders of that code it executes.
THEOREM BatchesShareVolume == Spec => []VolumeShare
  <1>1. Init => BudgetInv
    BY DEF Init, Idle, BudgetInv
  <1>2. TypeOK /\ BudgetInv => VolumeShare
    <2>1. SUFFICES ASSUME TypeOK, BudgetInv, NEW c \in Codes, run.on,
                          quote[c].volume >= 0
                   PROVE  run.taken[c] <= Share(c)
      BY DEF VolumeShare, Share
    <2>2. Within(c, run.budget[c], run.taken[c])
      BY <2>1 DEF BudgetInv
    <2>3. /\ Share(c) \in Nat /\ run.taken[c] \in Nat /\ run.budget[c] \in Int
      BY <2>1, ShareType DEF TypeOK
    <2>4. QED
      BY <2>2, <2>3, SMT DEF Within
  <1>3. QED
    BY <1>1, <1>2, BudgetStep, TypeCorrect, PTL DEF Spec
-----------------------------------------------------------------------------
(* What a step may never do to a closed order or to the cash.                 *)

\* The order o gets another row: it was open, or it is deleted.
RowChanges(o) ==
  /\ \A x \in Orders \ {o} : orders'[x] = orders[x]
  /\ orders[o].status \notin Terminal \/ orders'[o].status = "deleted"
  /\ \A x \in Orders : filled'[x] <= filled[x]
  /\ cash' = cash

\* The order o executes.
Executes(o, p, q) ==
  q > 0 /\ orders[o].status = "pending" /\ Fillable(orders[o], p, q) /\ BookFill(o, p, q)

\* The account or the market changes, and only an edit takes cash away.
BookQuiet ==
  orders' = orders /\ filled' = filled /\ (cash' >= cash \/ cash' \in CashEdits)

\* A row whose status is written.
LEMMA StatusRow ==
  ASSUME TypeOK, NEW o \in Orders, NEW st, orders' = [orders EXCEPT ![o].status = st]
  PROVE  orders'[o].status = st /\ \A x \in Orders \ {o} : orders'[x] = orders[x]
  <1>1. orders[o] \in OrderRow
    BY DEF TypeOK
  <1>2. [orders[o] EXCEPT !.status = st].status = st
    BY <1>1 DEF OrderRow
  <1>3. QED
    BY <1>2, Zenon DEF TypeOK

LEMMA ClosesRow ==
  ASSUME TypeOK, NEW o \in Orders, NEW st, orders' = [orders EXCEPT ![o].status = st],
         orders[o].status \notin Terminal \/ st = "deleted",
         \A x \in Orders : filled'[x] \in {filled[x], 0}, cash' = cash
  PROVE  RowChanges(o)
  <1>1. \A x \in Orders : filled'[x] <= filled[x]
    BY SMT DEF TypeOK
  <1>2. QED
    BY <1>1, StatusRow DEF RowChanges

\* Every step is one of the three.
LEMMA StepKinds ==
  ASSUME TypeOK, OrdersInv, [Next]_vars
  PROVE  \/ BookQuiet
         \/ \E o \in Orders : RowChanges(o)
         \/ \E o \in Orders, p \in Prices, q \in Nat : Executes(o, p, q)
  <1>1. /\ cash \in Int /\ orders \in [Orders -> OrderRow] /\ filled \in [Orders -> Nat]
        /\ \A c \in Codes : pos[c] \in Nat
    BY DEF TypeOK
  <1>2. ASSUME NEW o \in Orders, NEW req \in Requests, NEW over \in BOOLEAN,
               CreateOrder(o, req, over)
        PROVE  RowChanges(o)
    <2>1. /\ orders[o].status \notin Terminal /\ filled' = filled /\ cash' = cash
          /\ \A x \in Orders \ {o} : orders'[x] = orders[x]
      BY <1>1, <1>2 DEF CreateOrder, ledger, account, Terminal
    <2>2. QED
      BY <1>1, <2>1, SMT DEF RowChanges
  <1>3. ASSUME NEW o \in Orders, NEW over \in BOOLEAN, ApproveOrder(o, over)
        PROVE  RowChanges(o)
    <2>1. /\ orders[o].status \notin Terminal /\ filled' = filled /\ cash' = cash
          /\ \A x \in Orders \ {o} : orders'[x] = orders[x]
      BY <1>1, <1>3 DEF ApproveOrder, ledger, account, Terminal
    <2>2. QED
      BY <1>1, <2>1, SMT DEF RowChanges
  <1>4. ASSUME NEW o \in Orders, RejectOrder(o) \/ CancelOrder(o) \/ DeleteOrder(o)
        PROVE  RowChanges(o)
    <2>1. cash' = cash /\ \A x \in Orders : filled'[x] \in {filled[x], 0}
      BY <1>1, <1>4, SMT DEF RejectOrder, CancelOrder, DeleteOrder, ledger, account
    <2>2. PICK st : /\ orders' = [orders EXCEPT ![o].status = st]
                    /\ orders[o].status \notin Terminal \/ st = "deleted"
      <3>1. CASE RejectOrder(o) \/ CancelOrder(o)
        BY <3>1 DEF RejectOrder, CancelOrder, Terminal
      <3>2. CASE DeleteOrder(o)
        BY <3>2, Zenon DEF DeleteOrder
      <3>3. QED
        BY <1>4, <3>1, <3>2
    <2>3. QED
      BY <2>1, <2>2, ClosesRow
  <1>5. ASSUME NEW o \in Orders, RejectFill(o), orders[o].status = "pending"
        PROVE  RowChanges(o)
    <2>1. orders[o].status \notin Terminal
      BY <1>5 DEF Terminal
    <2>2. QED
      BY <1>1, <1>5, <2>1, ClosesRow DEF RejectFill, ledger
  <1>6. ASSUME NEW o \in Orders, NEW p \in Prices, NEW q \in 1..Remaining(o),
               FillOrder(o, p, q)
        PROVE  RowChanges(o) \/ \E n \in Nat : Executes(o, p, n)
    <2>1. q \in Nat /\ q > 0
      BY QuantityTypes, SMT
    <2>2. QED
      BY <1>5, <1>6, <2>1 DEF FillOrder, Executes
  <1>7. ASSUME NEW o \in Orders, run.on, Head(o),
               ExpireDue(o) \/ SkipDue(o) \/ FillDue(o)
        PROVE  \/ BookQuiet \/ RowChanges(o)
               \/ \E p \in Prices, q \in Nat : Executes(o, p, q)
    <2>1. orders[o].status = "pending" /\ orders[o].status \notin Terminal
      BY <1>7 DEF Head, OrdersInv, OrderInv, Terminal
    <2>2. CASE ExpireDue(o)
      BY <1>1, <2>1, <2>2, ClosesRow DEF ExpireDue, ledger
    <2>3. CASE SkipDue(o)
      BY <1>1, <2>3, SMT DEF SkipDue, ledger, BookQuiet
    <2>4. CASE FillDue(o)
      <3> DEFINE q == AutoQuantity(o)
      <3>1. q \in Nat /\ q > 0
        BY <2>4, AutoQuantityType, SMT DEF FillDue
      <3>2. PICK p \in Prices :
              RejectFill(o) \/ (Fillable(orders[o], p, q) /\ BookFill(o, p, q))
        BY <2>4, Zenon DEF FillDue, AutoPrices
      <3> HIDE DEF q
      <3>3. QED
        BY <1>5, <2>1, <3>1, <3>2 DEF Executes
    <2>5. QED
      BY <1>7, <2>2, <2>3, <2>4
  <1>8. CASE UNCHANGED <<orders, filled, cash>>
    BY <1>1, <1>8, SMT DEF BookQuiet
  <1>9. CASE StartBatch \/ EndBatch \/ Tick
    <2>1. UNCHANGED <<orders, filled, cash>>
      BY <1>9 DEF StartBatch, EndBatch, Tick, ledger, account
    <2>2. QED
      BY <1>8, <2>1
  <1>10. CASE OperatorStep
    <2>1. ASSUME NEW c \in Codes, NEW d \in Dividends, CashDividend(c, d)
          PROVE  BookQuiet
      <3>1. d * pos[c] \in Nat
        BY <1>1, ConstantsAssumption, ProductType
      <3> DEFINE paid == d * pos[c]
      <3>2. cash' = cash + paid /\ orders' = orders /\ filled' = filled
        BY <2>1 DEF CashDividend, ledger
      <3>3. paid \in Nat
        BY <3>1
      <3> HIDE DEF paid
      <3>4. QED
        BY <1>1, <3>2, <3>3, SMT DEF BookQuiet
    <2>2. ASSUME NEW m \in CashEdits, UpdateAccount(m)
          PROVE  BookQuiet
      BY <2>2 DEF UpdateAccount, ledger, BookQuiet
    <2>3. ASSUME \/ \E c \in Codes, k \in BonusRatios : ShareIssue(c, k)
                 \/ \E a \in ActiveChoices : SetAccountActive(a)
                 \/ \E config \in RiskChoices : SetRisk(config)
          PROVE  UNCHANGED <<orders, filled, cash>>
      BY <2>3 DEF ShareIssue, SetAccountActive, SetRisk, ledger, account
    <2>4. QED
      BY <1>8, <1>10, <2>1, <2>2, <2>3 DEF OperatorStep
  <1>11. ASSUME NEW c \in Codes, NEW p \in Prices, NEW v \in Volumes, QuoteArrives(c, p, v)
         PROVE  UNCHANGED <<orders, filled, cash>>
    BY <1>11 DEF QuoteArrives, ledger, account
  <1>12. CASE UserStep
    <2>1. ASSUME NEW o \in Orders, NEW p \in Prices, NEW q \in 1..Remaining(o),
                 FillOrder(o, p, q)
          PROVE  \/ \E x \in Orders : RowChanges(x)
                 \/ \E x \in Orders, y \in Prices, n \in Nat : Executes(x, y, n)
      BY <1>6, <2>1
    <2>2. QED
      BY <1>2, <1>3, <1>4, <1>12, <2>1 DEF UserStep
  <1>13. CASE BatchStep
    <2>1. PICK o \in Orders : Head(o) /\ (ExpireDue(o) \/ SkipDue(o) \/ FillDue(o))
      BY <1>13 DEF BatchStep
    <2>2. run.on
      BY <1>13 DEF BatchStep
    <2>3. QED
      BY <1>7, <2>1, <2>2
  <1>14. UNCHANGED vars => UNCHANGED <<orders, filled, cash>>
    BY DEF vars
  <1>15. QED
    BY <1>8, <1>9, <1>10, <1>11, <1>12, <1>13, <1>14, Zenon DEF Next, Maintenance

\* What an execution changes.
LEMMA ExecutedOrder ==
  ASSUME TypeOK, NEW o \in Orders, NEW p \in Prices, NEW q \in Nat, Executes(o, p, q)
  PROVE  /\ \A x \in Orders \ {o} : orders'[x] = orders[x] /\ filled'[x] = filled[x]
         /\ filled'[o] > filled[o] /\ orders[o].code \in risk.allowed
         /\ orders[o].side = "sell" \/ cash' >= 0
  <1> DEFINE r == orders[o]
             gross == p * q
             fees == calculateFees(r.side, gross)
  <1>1. /\ filled' = [filled EXCEPT ![o] = @ + q]
        /\ \E st : orders' = [orders EXCEPT ![o].status = st]
        /\ cash' = IF r.side = "buy" THEN cash - (gross + fees) ELSE cash + gross - fees
    BY Zenon DEF Executes, BookFill
  <1>2. /\ r.side \in Sides /\ filled \in [Orders -> Nat] /\ cash \in Int
        /\ orders \in [Orders -> OrderRow]
    BY DEF TypeOK, OrderRow
  <1>3. gross \in Nat /\ fees \in Nat
    <2>1. gross \in Nat
      BY ConstantsAssumption, ProductType
    <2>2. QED
      BY <1>2, <2>1, FeesType
  <1>4. r.side = "buy" => cash >= gross + fees
    <2>1. ~FundsRefused(r, p, q)
      BY DEF Executes, Fillable
    <2>2. r.side = "buy" => ~(cash < gross + fees)
      BY <2>1 DEF FundsRefused
    <2> HIDE DEF gross, fees
    <2>3. QED
      BY <1>2, <1>3, <2>2, SMT
  <1>5. r.code \in risk.allowed
    BY DEF Executes, Fillable, RiskRefused
  <1>6. filled'[o] > filled[o] /\ \A x \in Orders \ {o} : filled'[x] = filled[x]
    <2>1. q > 0
      BY DEF Executes
    <2>2. QED
      BY <1>1, <1>2, <2>1, SMT
  <1>7. \A x \in Orders \ {o} : orders'[x] = orders[x]
    BY <1>1, <1>2, Zenon
  <1> HIDE DEF gross, fees
  <1>8. r.side = "sell" \/ cash' >= 0
    BY <1>1, <1>2, <1>3, <1>4, SMT DEF Sides
  <1>9. QED
    BY <1>5, <1>6, <1>7, <1>8

\* A fill appears only under an order that is pending and allowed, and a closed
\* order stays closed, also when a batch still holds it.
THEOREM ClosedOrdersStayClosed == Spec => ClosedStaysClosed
  <1>1. TypeOK /\ OrdersInv /\ [Next]_vars =>
          \A o \in Orders :
            /\ filled'[o] > filled[o] =>
                 orders[o].status = "pending" /\ orders[o].code \in risk.allowed
            /\ orders[o].status \in Terminal =>
                 orders'[o].status \in {orders[o].status, "deleted"}
    <2> SUFFICES ASSUME TypeOK, OrdersInv, [Next]_vars, NEW x \in Orders
                 PROVE  /\ filled'[x] > filled[x] =>
                             orders[x].status = "pending" /\ orders[x].code \in risk.allowed
                        /\ orders[x].status \in Terminal =>
                             orders'[x].status \in {orders[x].status, "deleted"}
      OBVIOUS
    <2>1. filled \in [Orders -> Nat] /\ filled[x] \in Nat /\ filled' \in [Orders -> Nat]
      BY TypeStep DEF TypeOK
    <2>2. CASE BookQuiet
      BY <2>1, <2>2, SMT DEF BookQuiet
    <2>3. ASSUME NEW o \in Orders, RowChanges(o)
          PROVE  /\ ~(filled'[x] > filled[x])
                 /\ orders[x].status \in Terminal =>
                      orders'[x].status \in {orders[x].status, "deleted"}
      <3>1. filled'[x] <= filled[x] /\ filled'[x] \in Nat
        BY <2>1, <2>3 DEF RowChanges
      <3>2. ~(filled'[x] > filled[x])
        BY <2>1, <3>1, SMT
      <3>3. QED
        BY <2>3, <3>2 DEF RowChanges
    <2>4. ASSUME NEW o \in Orders, NEW p \in Prices, NEW q \in Nat, Executes(o, p, q)
          PROVE  /\ filled'[x] > filled[x] =>
                      orders[x].status = "pending" /\ orders[x].code \in risk.allowed
                 /\ orders[x].status \in Terminal =>
                      orders'[x].status \in {orders[x].status, "deleted"}
      <3>1. orders[o].status = "pending" /\ orders[o].status \notin Terminal
        BY <2>4 DEF Executes, Terminal
      <3>2. CASE x = o
        BY <2>4, <3>1, <3>2, ExecutedOrder
      <3>3. CASE x # o
        <4>1. orders'[x] = orders[x] /\ filled'[x] = filled[x]
          BY <2>4, <3>3, ExecutedOrder
        <4>2. QED
          BY <2>1, <4>1, SMT
      <3>4. QED
        BY <3>2, <3>3
    <2>5. QED
      BY <2>2, <2>3, <2>4, StepKinds
  <1>2. QED
    BY <1>1, TypeCorrect, OrdersCorrect, PTL DEF Spec, ClosedStaysClosed

\* No execution takes the cash below zero but a sell, whose fees may exceed its
\* proceeds; apart from executions only an operator's edit does.
THEOREM OnlySellsOverdraw == Spec => OnlySellsAndEditsOverdraw
  <1>1. TypeOK /\ OrdersInv /\ [Next]_vars =>
          (cash' < cash /\ cash' < 0 =>
             \/ \E o \in Orders : orders[o].side = "sell" /\ filled'[o] > filled[o]
             \/ UNCHANGED <<orders, filled>> /\ cash' \in CashEdits)
    <2> SUFFICES ASSUME TypeOK, OrdersInv, [Next]_vars, cash' < cash, cash' < 0
                 PROVE  \/ \E o \in Orders : orders[o].side = "sell" /\ filled'[o] > filled[o]
                        \/ UNCHANGED <<orders, filled>> /\ cash' \in CashEdits
      OBVIOUS
    <2>1. cash \in Int /\ cash' \in Int
      BY TypeStep DEF TypeOK
    <2>2. CASE BookQuiet
      <3>1. ~(cash' >= cash)
        BY <2>1, SMT
      <3>2. QED
        BY <2>2, <3>1 DEF BookQuiet
    <2>3. \A o \in Orders : ~RowChanges(o)
      BY <2>1, SMT DEF RowChanges
    <2>4. ASSUME NEW o \in Orders, NEW p \in Prices, NEW q \in Nat, Executes(o, p, q)
          PROVE  orders[o].side = "sell" /\ filled'[o] > filled[o]
      <3>1. filled'[o] > filled[o] /\ (orders[o].side = "sell" \/ cash' >= 0)
        BY <2>4, ExecutedOrder
      <3>2. ~(cash' >= 0)
        BY <2>1, SMT
      <3>3. QED
        BY <3>1, <3>2
    <2>5. QED
      BY <2>2, <2>3, <2>4, StepKinds
  <1>2. QED
    BY <1>1, TypeCorrect, OrdersCorrect, PTL DEF Spec, OnlySellsAndEditsOverdraw
=============================================================================
