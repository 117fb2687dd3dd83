---------------------------- MODULE TokenBudget ----------------------------
(***************************************************************************)
(* The daily token budget of the meetings.  Before a model call a run adds  *)
(* the estimate to its meeting's token_budget, and after it the difference  *)
(* to what the call took; what is added is first compared with the sum over *)
(* today's meetings, in a statement of its own.  Requests save whole        *)
(* meeting rows they read earlier, token_budget included.                   *)
(* Each run has a meeting of its own here.                                  *)
(***************************************************************************)
EXTENDS Integers, FiniteSets, FiniteSetsExt

CONSTANTS
  Calling,      \* the runs
  DailyBudget,  \* MEETING_DAILY_TOKEN_BUDGET; no limit unless positive
  MaxCharge,    \* bound of the model: most tokens of a call
  MaxSaves      \* bound of the model: saves of a row read earlier

ASSUME BudgetAssumption ==
  /\ IsFiniteSet(Calling) /\ Calling # {} /\ DailyBudget \in Int
  /\ MaxCharge \in Nat \ {0} /\ MaxSaves \in Nat

VARIABLES
  charged,  \* token_budget of each run's meeting
  counted,  \* the meetings that exist and were created today
  call,     \* stage of each run: "ready", "reserve", "out" or "settle"
  amount,   \* what it estimated, and later what it still has to add
  copy,     \* the row a request holds: of which meeting, and its value
  putBack,  \* tokens that saves of such rows have added so far
  saves

budgetVars == <<charged, counted, call, amount, copy, putBack, saves>>

NoCopy == <<>>
Charges == 1..MaxCharge

BudgetInit ==
  /\ charged = [r \in Calling |-> 0] /\ counted = Calling
  /\ call = [r \in Calling |-> "ready"] /\ amount = [r \in Calling |-> 0]
  /\ copy = NoCopy /\ putBack = 0 /\ saves = 0

UsedToday == SumFunctionOnSet(charged, counted)

WithinBudgetSoFar(n) == DailyBudget > 0 => UsedToday <= DailyBudget
WithinBudget(n) == DailyBudget > 0 => UsedToday + n <= DailyBudget

(* UpdateColumn on the row, if it is still there.                            *)
AdjustTokenBudget(r, delta) ==
  charged' = [charged EXCEPT ![r] = IF r \in counted THEN @ + delta ELSE @]

CallMoves(r, stage, n) ==
  call' = [call EXCEPT ![r] = stage] /\ amount' = [amount EXCEPT ![r] = n]

(* reserveMeetingTokens: the comparison, and then the addition.              *)
CheckReservation(r) ==
  /\ call[r] = "ready"
  /\ \E n \in Charges : WithinBudget(n) /\ CallMoves(r, "reserve", n)
  /\ UNCHANGED <<charged, counted, copy, putBack, saves>>

Reserve(r) ==
  /\ call[r] = "reserve"
  /\ AdjustTokenBudget(r, amount[r]) /\ CallMoves(r, "out", amount[r])
  /\ UNCHANGED <<counted, copy, putBack, saves>>

(* The provider fails, or the run is cancelled meanwhile: the reservation    *)
(* stays.                                                                    *)
CallFails(r) ==
  /\ call[r] = "out" /\ CallMoves(r, "ready", 0)
  /\ UNCHANGED <<charged, counted, copy, putBack, saves>>

(* settleMeetingTokenUsage: less is given back, more is reserved; the run    *)
(* does not look at a refusal.                                               *)
CallReturns(r) ==
  /\ call[r] = "out"
  /\ \E actual \in Charges :
       LET delta == actual - amount[r]
       IN IF delta > 0 /\ WithinBudget(delta)
            THEN CallMoves(r, "settle", delta) /\ UNCHANGED charged
            ELSE /\ CallMoves(r, "ready", 0)
                 /\ IF delta > 0 THEN UNCHANGED charged
                    ELSE AdjustTokenBudget(r, delta)
  /\ UNCHANGED <<counted, copy, putBack, saves>>

Settle(r) ==
  /\ call[r] = "settle"
  /\ AdjustTokenBudget(r, amount[r]) /\ CallMoves(r, "ready", 0)
  /\ UNCHANGED <<counted, copy, putBack, saves>>

(* A cancellation, an edit or the start of a run reads the row and later     *)
(* saves all of it; Save creates the row of a deleted meeting again.         *)
ReadsMeeting(r) ==
  /\ copy = NoCopy /\ r \in counted /\ saves < MaxSaves
  /\ copy' = <<r, charged[r]>> /\ saves' = saves + 1
  /\ UNCHANGED <<charged, counted, call, amount, putBack>>

PutBack(r, before) ==
  /\ charged' = [charged EXCEPT ![r] = copy[2]]
  /\ putBack' = putBack + (IF copy[2] > before THEN copy[2] - before ELSE 0)

SavesMeeting ==
  /\ copy # NoCopy /\ copy' = NoCopy
  /\ LET r == copy[1]
     IN \/ r \in counted /\ PutBack(r, charged[r]) /\ UNCHANGED counted
        \/ r \notin counted /\ UNCHANGED <<charged, counted, putBack>>
        \/ r \notin counted /\ PutBack(r, 0) /\ counted' = counted \cup {r}
  /\ UNCHANGED <<call, amount, saves>>

(* A meeting is deleted, or the day it was created on is over.               *)
NoLongerCounted(r) ==
  /\ r \in counted /\ counted' = counted \ {r}
  /\ charged' = [charged EXCEPT ![r] = 0]
  /\ UNCHANGED <<call, amount, copy, putBack, saves>>

(* The run of another meeting takes the place.                               *)
NextMeeting(r) ==
  /\ r \notin counted /\ call[r] = "ready" /\ copy = NoCopy
  /\ counted' = counted \cup {r}
  /\ UNCHANGED <<charged, call, amount, copy, putBack, saves>>

BudgetNext ==
  \/ SavesMeeting
  \/ \E r \in Calling :
       \/ CheckReservation(r) \/ Reserve(r) \/ CallFails(r) \/ CallReturns(r)
       \/ Settle(r) \/ ReadsMeeting(r) \/ NoLongerCounted(r) \/ NextMeeting(r)

BudgetSpec == BudgetInit /\ [][BudgetNext]_budgetVars

-----------------------------------------------------------------------------
BudgetTypeOK ==
  /\ charged \in [Calling -> Int] /\ counted \subseteq Calling
  /\ call \in [Calling -> {"ready", "reserve", "out", "settle"}]
  /\ amount \in [Calling -> 0..MaxCharge]
  /\ putBack \in Nat /\ saves \in 0..MaxSaves

(* The day's tokens exceed the budget by at most one charge for every other  *)
(* run that was between its comparison and its addition, by what saves of    *)
(* old rows have put back, and by one charge for every row so read: a save   *)
(* may also take tokens away, and a sum below zero is only missing until     *)
(* its meeting goes.                                                         *)
OverrunBounded ==
  DailyBudget > 0 =>
    UsedToday <= DailyBudget + (Cardinality(Calling) - 1) * MaxCharge
                   + putBack + saves * MaxCharge
=============================================================================
