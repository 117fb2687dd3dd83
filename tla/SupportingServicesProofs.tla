---------------------- MODULE SupportingServicesProofs ----------------------
(* Proofs about SupportingServices: each service follows the specification of *)
(* its own component, so that what is proved of the component holds of all of *)
(* them together.  Before that, the proofs about four of the components.      *)
(* TokenBudget, for any runs, budget, size of a call and number of saves: the *)
(* day's overrun has a bound.  ResearchTeams, for any teams and accounts: what*)
(* TeamsSound says stays true.  BackupArchives, for any requests, copies and  *)
(* days: what is kept, and that a drilled archive reads back.  SourceTrust,    *)
(* for any policies: a negative label never raises the standing of a source.  *)
EXTENDS SupportingServices, BotPollingProofs, CollectionFacts

-----------------------------------------------------------------------------
(* The budget: the inductive invariant.  A save may leave a row with less     *)
(* than its run has out, even with less than nothing.  What is lacking is at  *)
(* most one charge for each row read; with that much, what rows hold and what *)
(* runs are about to add stays under the bound.                               *)

Total(f) == SumFunctionOnSet(f, Calling)
Others == (Cardinality(Calling) - 1) * MaxCharge

Pos(n) == IF n > 0 THEN n ELSE 0
Adding(r) == IF call[r] \in {"reserve", "settle"} THEN amount[r] ELSE 0
OutNow(r) == IF call[r] = "out" THEN amount[r] ELSE 0

\* What a row holds, and what its run is about to add to it.
Load == [r \in Calling |-> Pos(charged[r]) + Adding(r)]

\* lack[r]: how much the row of r may be short of.
Lacking(lack) ==
  /\ lack \in [Calling -> Nat]
  /\ \A r \in counted : OutNow(r) =< charged[r] + lack[r]
  /\ copy # NoCopy => 0 =< copy[2] + lack[copy[1]]
  /\ Total(lack) =< (IF copy = NoCopy THEN saves ELSE saves - 1) * MaxCharge

RowsOK ==
  /\ BudgetTypeOK
  /\ copy = NoCopy \/ (copy \in Calling \X Int /\ saves > 0)
  /\ \A r \in Calling \ counted : charged[r] = 0

Bound == DailyBudget + Others + putBack + saves * MaxCharge

BudgetInv ==
  /\ RowsOK
  /\ \E lack : Lacking(lack)
  /\ DailyBudget > 0 => Total(Load) =< Bound

-----------------------------------------------------------------------------
(* The rows. *)

LEMMA SomeRun == IsFiniteSet(Calling) /\ Cardinality(Calling) \in Nat \ {0} /\ Others \in Nat
  <1>1. IsFiniteSet(Calling) /\ Calling # {} /\ MaxCharge \in Nat
    BY BudgetAssumption
  <1>2. Cardinality(Calling) \in Nat /\ Cardinality(Calling) # 0
    BY <1>1, FS_CardinalityType, FS_EmptySet
  <1>3. QED
    BY <1>1, <1>2 DEF Others

LEMMA OneChargeMore ==
  ASSUME NEW k \in Int, NEW l \in Int, l = k - 1, NEW m \in Int
  PROVE  l * m + m = k * m
  OBVIOUS

LEMMA RowsInit == BudgetInit => RowsOK
  BY BudgetAssumption DEF BudgetInit, RowsOK, BudgetTypeOK

LEMMA RowsStep == RowsOK /\ BudgetNext => RowsOK'
  <1> SUFFICES ASSUME RowsOK, BudgetNext PROVE RowsOK'
    OBVIOUS
  <1> USE BudgetAssumption
  <1>1. CASE SavesMeeting
    <2>1. PICK r : r = copy[1]
      OBVIOUS
    <2>2. r \in Calling /\ copy[2] \in Int /\ copy' = NoCopy
      BY <1>1, <2>1 DEF SavesMeeting, RowsOK
    <2>3. UNCHANGED <<call, amount, saves>>
      BY <1>1 DEF SavesMeeting
    <2>4. CASE UNCHANGED <<charged, counted, putBack>>
      BY <2>2, <2>3, <2>4 DEF RowsOK, BudgetTypeOK
    <2>5. CASE \E before \in Int : PutBack(r, before) /\ counted' = counted \cup {r}
      <3>1. charged' = [charged EXCEPT ![r] = copy[2]] /\ putBack' \in Nat
        BY <2>2, <2>5 DEF PutBack, RowsOK, BudgetTypeOK
      <3>2. QED
        BY <2>2, <2>3, <2>5, <3>1 DEF RowsOK, BudgetTypeOK
    <2>6. charged[r] \in Int /\ (r \in counted => counted \cup {r} = counted)
      BY <2>2 DEF RowsOK, BudgetTypeOK
    <2>7. QED
      BY <1>1, <2>1, <2>4, <2>5, <2>6 DEF SavesMeeting
  <1>2. ASSUME NEW r \in Calling, CheckReservation(r) \/ CallFails(r) \/ NextMeeting(r)
        PROVE  RowsOK'
    BY <1>2 DEF CheckReservation, CallFails, NextMeeting, CallMoves, Charges,
                RowsOK, BudgetTypeOK
  <1>7. ASSUME NEW r \in Calling, ReadsMeeting(r)
        PROVE  RowsOK'
    <2>1. copy' = <<r, charged[r]>> /\ saves' = saves + 1 /\ saves < MaxSaves
          /\ UNCHANGED <<charged, counted, call, amount, putBack>>
      BY <1>7 DEF ReadsMeeting
    <2>2. charged[r] \in Int /\ saves' \in 0..MaxSaves /\ saves' > 0
      BY <2>1 DEF RowsOK, BudgetTypeOK
    <2>3. BudgetTypeOK'
      BY <2>1, <2>2 DEF RowsOK, BudgetTypeOK
    <2>4. copy' \in Calling \X Int
      BY <2>1, <2>2
    <2>5. QED
      BY <2>1, <2>2, <2>3, <2>4 DEF RowsOK
  <1>3. ASSUME NEW r \in Calling, Reserve(r) \/ Settle(r)
        PROVE  RowsOK'
    BY <1>3 DEF Reserve, Settle, AdjustTokenBudget, CallMoves, RowsOK, BudgetTypeOK
  <1>4. ASSUME NEW r \in Calling, CallReturns(r)
        PROVE  RowsOK'
    BY <1>4 DEF CallReturns, AdjustTokenBudget, CallMoves, Charges, RowsOK, BudgetTypeOK
  <1>5. ASSUME NEW r \in Calling, NoLongerCounted(r)
        PROVE  RowsOK'
    BY <1>5 DEF NoLongerCounted, RowsOK, BudgetTypeOK
  <1>6. QED
    BY <1>1, <1>2, <1>3, <1>4, <1>5, <1>7 DEF BudgetNext

-----------------------------------------------------------------------------
(* What rows lack. *)

LEMMA LackInit == BudgetInit => \E lack : Lacking(lack)
  <1> SUFFICES ASSUME BudgetInit PROVE \E lack : Lacking(lack)
    OBVIOUS
  <1> DEFINE none == [r \in Calling |-> 0]
  <1>1. none \in [Calling -> Nat] /\ none \in [Calling -> Int] /\ \A r \in Calling : none[r] = 0
    OBVIOUS
  <1> HIDE DEF none
  <1>2. Total(none) = 0
    BY <1>1, SomeRun, TotalOfZeros DEF Total
  <1>3. counted = Calling /\ copy = NoCopy /\ saves = 0
        /\ \A r \in Calling : charged[r] = 0 /\ OutNow(r) = 0
    BY DEF BudgetInit, OutNow
  <1>4. saves * MaxCharge = 0
    BY <1>3, BudgetAssumption
  <1>5. Lacking(none)
    BY <1>1, <1>2, <1>3, <1>4 DEF Lacking
  <1>6. QED
    BY <1>5

\* A run's step leaves the rows read alone and keeps its row short of no more.
RunStep(r) == CheckReservation(r) \/ Reserve(r) \/ CallFails(r) \/ CallReturns(r) \/ Settle(r)

LEMMA RunKeepsLack ==
  ASSUME RowsOK, NEW lack, Lacking(lack), NEW r \in Calling, RunStep(r)
  PROVE  /\ UNCHANGED <<counted, copy, putBack, saves>>
         /\ \A q \in counted : OutNow(q)' =< charged'[q] + lack[q]
  <1> USE BudgetAssumption
  <1>1. /\ charged \in [Calling -> Int] /\ counted \subseteq Calling
        /\ call \in [Calling -> {"ready", "reserve", "out", "settle"}]
        /\ amount \in [Calling -> 0..MaxCharge]
    BY DEF RowsOK, BudgetTypeOK
  <1>2. lack \in [Calling -> Nat] /\ \A q \in counted : OutNow(q) =< charged[q] + lack[q]
    BY DEF Lacking
  <1>3. UNCHANGED <<counted, copy, putBack, saves>>
    BY DEF RunStep, CheckReservation, Reserve, CallFails, CallReturns, Settle
  <1>4. \A q \in Calling \ {r} : charged'[q] = charged[q] /\ OutNow(q)' = OutNow(q)
    BY <1>1 DEF RunStep, CheckReservation, Reserve, CallFails, CallReturns, Settle,
                AdjustTokenBudget, CallMoves, OutNow
  <1>5. ASSUME r \in counted
        PROVE  OutNow(r)' =< charged'[r] + lack[r]
    <2>0. OutNow(r) =< charged[r] + lack[r] /\ lack[r] \in Nat /\ charged[r] \in Int
          /\ amount[r] \in Nat
      BY <1>1, <1>2, <1>5
    <2>1. CASE CheckReservation(r)
      <3>1. charged' = charged /\ call'[r] = "reserve" /\ call[r] = "ready"
        BY <1>1, <2>1 DEF CheckReservation, CallMoves
      <3>2. QED
        BY <2>0, <3>1 DEF OutNow
    <2>2. CASE Reserve(r)
      <3>1. charged'[r] = charged[r] + amount[r] /\ call'[r] = "out" /\ call[r] = "reserve"
            /\ amount'[r] = amount[r]
        BY <1>1, <1>5, <2>2 DEF Reserve, AdjustTokenBudget, CallMoves
      <3>2. QED
        BY <2>0, <3>1 DEF OutNow
    <2>3. CASE CallFails(r)
      <3>1. charged' = charged /\ call'[r] = "ready" /\ call[r] = "out"
        BY <1>1, <2>3 DEF CallFails, CallMoves
      <3>2. QED
        BY <2>0, <3>1 DEF OutNow
    <2>4. CASE CallReturns(r)
      <3>1. call[r] = "out" /\ call'[r] # "out"
        BY <1>1, <2>4 DEF CallReturns, CallMoves
      <3>2. charged'[r] = charged[r] \/ \E n \in Nat : charged'[r] = charged[r] + (n - amount[r])
        BY <1>1, <1>5, <2>4 DEF CallReturns, AdjustTokenBudget, Charges
      <3>3. QED
        BY <2>0, <3>1, <3>2 DEF OutNow
    <2>5. CASE Settle(r)
      <3>1. charged'[r] = charged[r] + amount[r] /\ call'[r] = "ready" /\ call[r] = "settle"
        BY <1>1, <1>5, <2>5 DEF Settle, AdjustTokenBudget, CallMoves
      <3>2. QED
        BY <2>0, <3>1 DEF OutNow
    <2>6. QED
      BY <2>1, <2>2, <2>3, <2>4, <2>5 DEF RunStep
  <1>6. QED
    BY <1>1, <1>2, <1>3, <1>4, <1>5

LEMMA LackStep == RowsOK /\ (\E lack : Lacking(lack)) /\ BudgetNext => \E lack : Lacking(lack)'
  <1> SUFFICES ASSUME RowsOK, NEW lack, Lacking(lack), BudgetNext
               PROVE  \E short : Lacking(short)'
    OBVIOUS
  <1> USE BudgetAssumption
  <1>0. /\ lack \in [Calling -> Nat] /\ charged \in [Calling -> Int] /\ saves \in Nat
        /\ copy # NoCopy => copy \in Calling \X Int /\ saves > 0
        /\ amount \in [Calling -> 0..MaxCharge]
    BY DEF RowsOK, BudgetTypeOK, Lacking
  <1>1. CASE SavesMeeting
    <2>1. PICK r, v : r = copy[1] /\ v = copy[2]
      OBVIOUS
    <2>2. r \in Calling /\ v \in Int /\ copy' = NoCopy /\ copy # NoCopy
          /\ UNCHANGED <<call, amount, saves>> /\ saves - 1 \in Nat
      BY <1>0, <1>1, <2>1 DEF SavesMeeting
    <2>3. Total(lack) =< (saves - 1) * MaxCharge /\ 0 =< v + lack[r]
      BY <2>1, <2>2 DEF Lacking
    <2>4. (saves - 1) * MaxCharge + MaxCharge = saves * MaxCharge
      <3>1. PICK l : l = saves - 1
        OBVIOUS
      <3>2. l \in Int /\ saves \in Int /\ MaxCharge \in Int
        BY <1>0, <3>1
      <3>3. l * MaxCharge + MaxCharge = saves * MaxCharge
        BY <3>1, <3>2, OneChargeMore
      <3>4. QED
        BY <3>1, <3>3, Zenon
    <2> DEFINE more == [lack EXCEPT ![r] = @ + MaxCharge]
    <2>5. /\ more \in [Calling -> Nat] /\ OneDiffers(lack, more, r, MaxCharge, Calling)
          /\ \A q \in Calling : lack[q] =< more[q]
          /\ more[r] = lack[r] + MaxCharge
      BY <1>0, <2>2 DEF OneDiffers
    <2> HIDE DEF more
    <2>6. Total(lack) \in Int /\ Total(more) = Total(lack) + MaxCharge
      BY <2>5, SomeRun, TotalFollows DEF Total
    <2>7. Total(more) =< saves * MaxCharge
      BY <2>2, <2>3, <2>4, <2>6
    <2>8. ASSUME NEW q \in counted'
          PROVE  OutNow(q)' =< charged'[q] + more[q]
      <3>1. CASE q = r /\ charged' = [charged EXCEPT ![r] = v]
        <4>1. charged'[q] = v /\ more[q] = lack[r] + MaxCharge /\ lack[r] \in Nat
          BY <1>0, <2>2, <2>5, <3>1
        <4>2. OutNow(q)' =< MaxCharge
          BY <1>0, <2>2, <3>1 DEF OutNow
        <4>3. OutNow(q)' \in Int
          BY <1>0, <2>2, <3>1 DEF OutNow
        <4>4. QED
          BY <2>2, <2>3, <4>1, <4>2, <4>3
      <3>2. CASE q \in counted /\ charged'[q] = charged[q]
        <4>1. OutNow(q) =< charged[q] + lack[q]
          BY <3>2 DEF Lacking
        <4>2. q \in Calling /\ OutNow(q)' = OutNow(q)
          BY <2>2, <3>2 DEF OutNow, RowsOK, BudgetTypeOK
        <4>3. OutNow(q) \in Int /\ charged[q] \in Int /\ lack[q] \in Nat /\ more[q] \in Nat
              /\ lack[q] =< more[q]
          BY <1>0, <2>5, <4>2 DEF OutNow
        <4>4. QED
          BY <3>2, <4>1, <4>2, <4>3
      <3>3. \/ q \in counted /\ charged' = charged
            \/ charged' = [charged EXCEPT ![r] = v] /\ q \in counted \cup {r}
        BY <1>1, <2>1, <2>2 DEF SavesMeeting, PutBack
      <3>4. counted \subseteq Calling
        BY DEF RowsOK, BudgetTypeOK
      <3>5. QED
        BY <1>0, <2>2, <3>1, <3>2, <3>3, <3>4
    <2>9. Lacking(more)'
      BY <2>2, <2>5, <2>7, <2>8 DEF Lacking
    <2>10. QED
      BY <2>9
  <1>2. ASSUME NEW r \in Calling, RunStep(r)
        PROVE  Lacking(lack)'
    BY <1>2, RunKeepsLack DEF Lacking
  <1>3. ASSUME NEW r \in Calling, ReadsMeeting(r)
        PROVE  Lacking(lack)'
    <2>1. /\ copy = NoCopy /\ r \in counted /\ copy' = <<r, charged[r]>> /\ saves' = saves + 1
          /\ UNCHANGED <<charged, counted, call, amount, putBack>>
      BY <1>3 DEF ReadsMeeting
    <2>2. copy'[1] = r /\ copy'[2] = charged[r] /\ copy' # NoCopy /\ saves' - 1 = saves
      BY <1>0, <2>1 DEF NoCopy
    <2>3. OutNow(r) =< charged[r] + lack[r] /\ OutNow(r) >= 0
      BY <1>0, <2>1 DEF Lacking, OutNow
    <2>4. 0 =< copy'[2] + lack[copy'[1]]
      <3>1. OutNow(r) \in Int /\ charged[r] \in Int /\ lack[r] \in Int
        BY <1>0 DEF OutNow
      <3>2. QED
        BY <2>2, <2>3, <3>1
    <2>5. \A q \in counted' : OutNow(q)' =< charged'[q] + lack[q]
      BY <2>1 DEF Lacking, OutNow
    <2>6. Total(lack) =< saves * MaxCharge
      BY <2>1 DEF Lacking
    <2>7. QED
      BY <1>0, <2>2, <2>4, <2>5, <2>6 DEF Lacking
  <1>4. ASSUME NEW r \in Calling, NoLongerCounted(r)
        PROVE  Lacking(lack)'
    BY <1>0, <1>4 DEF NoLongerCounted, Lacking, OutNow
  <1>5. ASSUME NEW r \in Calling, NextMeeting(r)
        PROVE  Lacking(lack)'
    <2>1. /\ r \notin counted /\ call[r] = "ready" /\ counted' = counted \cup {r}
          /\ UNCHANGED <<charged, call, amount, copy, putBack, saves>>
      BY <1>5 DEF NextMeeting
    <2>2. charged[r] = 0 /\ OutNow(r) = 0 /\ lack[r] \in Nat
      BY <1>0, <2>1 DEF RowsOK, OutNow
    <2>3. \A q \in counted' : OutNow(q)' =< charged'[q] + lack[q]
      BY <2>1, <2>2 DEF Lacking, OutNow
    <2>4. QED
      BY <2>1, <2>3 DEF Lacking
  <1>6. QED
    BY <1>1, <1>2, <1>3, <1>4, <1>5 DEF BudgetNext, RunStep

-----------------------------------------------------------------------------
(* What rows hold and runs are about to add. *)

LEMMA LoadType ==
  ASSUME RowsOK
  PROVE  /\ Load \in [Calling -> Int] /\ Bound \in Int
         /\ \A r \in Calling : Load[r] = Pos(charged[r]) + Adding(r)
         /\ \A r \in Calling : Pos(charged[r]) \in Nat /\ Adding(r) \in 0..MaxCharge
  <1>1. \A r \in Calling : Pos(charged[r]) \in Nat /\ Adding(r) \in 0..MaxCharge
    BY BudgetAssumption DEF RowsOK, BudgetTypeOK, Pos, Adding
  <1>2. Bound \in Int
    BY SomeRun, BudgetAssumption DEF RowsOK, BudgetTypeOK, Bound
  <1>3. QED
    BY <1>1, <1>2 DEF Load

LoadOK ==
  /\ Load \in [Calling -> Int] /\ Bound \in Int
  /\ \A r \in Calling : Load[r] = Pos(charged[r]) + Adding(r)
  /\ \A r \in Calling : Pos(charged[r]) \in Nat /\ Adding(r) \in 0..MaxCharge

LEMMA LoadFits == RowsOK => LoadOK
  BY LoadType DEF LoadOK

LEMMA LoadTypeNext ==
  ASSUME RowsOK'
  PROVE  /\ Load' \in [Calling -> Int] /\ Bound' \in Int
         /\ \A r \in Calling : Load'[r] = Pos(charged'[r]) + Adding(r)'
         /\ \A r \in Calling : Pos(charged'[r]) \in Nat /\ Adding(r)' \in 0..MaxCharge
  <1>1. RowsOK' => LoadOK'
    BY LoadFits, PTL
  <1>2. QED
    BY <1>1 DEF LoadOK

\* A step that adds to no load keeps the bound.
LEMMA NothingAdded ==
  ASSUME RowsOK, RowsOK', \A r \in Calling : Load'[r] =< Load[r],
         Bound =< Bound', Total(Load) =< Bound
  PROVE  Total(Load') =< Bound'
  <1>1. Load \in [Calling -> Int] /\ Load' \in [Calling -> Int] /\ Bound \in Int /\ Bound' \in Int
    BY LoadType, LoadTypeNext
  <1>2. Total(Load') \in Int /\ Total(Load) \in Int /\ Total(Load') =< Total(Load)
    BY <1>1, SomeRun, TotalAtMost DEF Total
  <1>3. QED
    BY <1>1, <1>2

\* What a comparison with the sum of the rows lets through.
LEMMA Compared ==
  ASSUME RowsOK, NEW lack, Lacking(lack), NEW r \in Calling, NEW n \in Int,
         UsedToday + n =< DailyBudget,
         NEW pending \in [Calling -> 0..MaxCharge], pending[r] = n
  PROVE  Total([q \in Calling |-> Pos(charged[q]) + pending[q]]) =< Bound
  <1> DEFINE held == [q \in Calling |-> Pos(charged[q])]
             most == [q \in Calling |-> charged[q] + lack[q]]
             load == [q \in Calling |-> held[q] + pending[q]]
  <1>1. /\ charged \in [Calling -> Int] /\ counted \in SUBSET Calling /\ lack \in [Calling -> Int]
        /\ \A q \in Calling \ counted : charged[q] = 0
        /\ \A q \in Calling : lack[q] \in Nat
        /\ pending \in [Calling -> Int] /\ MaxCharge \in Nat /\ \A q \in Calling : pending[q] =< MaxCharge
    BY BudgetAssumption DEF RowsOK, BudgetTypeOK, Lacking
  <1>2. held \in [Calling -> Int] /\ most \in [Calling -> Int]
    BY <1>1, LoadType
  <1>3. ASSUME NEW q \in Calling
        PROVE  held[q] =< most[q]
    <2>1. charged[q] \in Int /\ lack[q] \in Nat /\ (q \notin counted => charged[q] = 0)
      BY <1>1
    <2>2. q \in counted => 0 =< charged[q] + lack[q]
      <3>1. SUFFICES ASSUME q \in counted PROVE 0 =< charged[q] + lack[q]
        OBVIOUS
      <3>2. OutNow(q) =< charged[q] + lack[q]
        BY <3>1 DEF Lacking
      <3>3. OutNow(q) \in Nat
        BY DEF OutNow, RowsOK, BudgetTypeOK
      <3>4. QED
        BY <2>1, <3>2, <3>3
    <2>3. Pos(charged[q]) =< charged[q] + lack[q]
      BY <2>1, <2>2 DEF Pos
    <2>4. QED
      BY <2>3
  <1>4. Total(most) = Total(charged) + Total(lack)
    BY <1>1, SomeRun, TotalOfTwo DEF Total
  <1>5. UsedToday = Total(charged)
    BY <1>1, SomeRun, TotalOfSubset DEF UsedToday, Total
  <1>6. Total(load) = Total(held) + Total(pending)
    <2> HIDE DEF held
    <2>1. QED
      BY <1>1, <1>2, SomeRun, TotalOfTwo DEF Total
  <1>7. Total(pending) =< n + Others
    BY <1>1, SomeRun, TotalOfOthers DEF Total, Others
  <1>8. /\ Total(held) =< Total(most) /\ Total(held) \in Int
        /\ Total(charged) \in Int /\ Total(lack) \in Int /\ Total(pending) \in Int
    <2> HIDE DEF held, most
    <2>1. Total(held) =< Total(most) /\ Total(held) \in Int
      BY <1>2, <1>3, SomeRun, TotalAtMost DEF Total
    <2>2. Total(charged) \in Int
      BY <1>1, SomeRun, TotalAtMost DEF Total
    <2>3. Total(lack) \in Int
      BY <1>1, SomeRun, TotalAtMost DEF Total
    <2>4. Total(pending) \in Int
      BY <1>1, SomeRun, TotalAtMost DEF Total
    <2>5. QED
      BY <2>1, <2>2, <2>3, <2>4
  <1>9. Total(lack) =< saves * MaxCharge /\ saves * MaxCharge \in Int
    <2>1. saves \in Nat /\ MaxCharge \in Nat
      BY BudgetAssumption DEF RowsOK, BudgetTypeOK
    <2>2. PICK l : l = saves - 1
      OBVIOUS
    <2>3. l * MaxCharge + MaxCharge = saves * MaxCharge /\ l * MaxCharge \in Int
          /\ saves * MaxCharge \in Int
      BY <2>1, <2>2, OneChargeMore
    <2>4. Total(lack) =< saves * MaxCharge \/ Total(lack) =< l * MaxCharge
      BY <2>2 DEF Lacking
    <2>5. QED
      BY <1>8, <2>1, <2>3, <2>4
  <1>10. putBack \in Nat /\ Others \in Nat /\ DailyBudget \in Int
    BY SomeRun, BudgetAssumption DEF RowsOK, BudgetTypeOK
  <1>11. Total(load) =< DailyBudget + Others + putBack + saves * MaxCharge
    <2> HIDE DEF load, held, most
    <2>1. QED
      BY <1>4, <1>5, <1>6, <1>7, <1>8, <1>9, <1>10
  <1>12. load = [q \in Calling |-> Pos(charged[q]) + pending[q]]
    OBVIOUS
  <1>13. QED
    BY <1>11, <1>12, Zenon DEF Bound

LEMMA LoadStep ==
  ASSUME RowsOK, RowsOK', NEW lack, Lacking(lack), DailyBudget > 0, Total(Load) =< Bound,
         BudgetNext
  PROVE  Total(Load') =< Bound'
  <1> USE BudgetAssumption
  <1>0. /\ charged \in [Calling -> Int] /\ saves \in Nat /\ putBack \in Nat
        /\ counted \subseteq Calling /\ MaxCharge \in Nat /\ Others \in Nat
        /\ call \in [Calling -> {"ready", "reserve", "out", "settle"}]
        /\ amount \in [Calling -> 0..MaxCharge]
        /\ saves * MaxCharge \in Int
    BY SomeRun DEF RowsOK, BudgetTypeOK
  <1>l. /\ \A q \in Calling : Load[q] = Pos(charged[q]) + Adding(q)
        /\ \A q \in Calling : Load'[q] = Pos(charged'[q]) + Adding(q)'
        /\ \A q \in Calling : Pos(charged[q]) \in Nat /\ Adding(q) \in 0..MaxCharge
        /\ Load \in [Calling -> Int] /\ Load' \in [Calling -> Int]
        /\ Bound \in Int /\ Bound' \in Int
    BY LoadType, LoadTypeNext
  \* A comparison that lets n through.
  <1>c. ASSUME NEW r \in Calling, NEW n \in 0..MaxCharge, UsedToday + n =< DailyBudget,
               UNCHANGED <<charged, putBack, saves>>, Adding(r)' = n,
               \A q \in Calling \ {r} : Adding(q)' = Adding(q)
        PROVE  Total(Load') =< Bound'
    <2> DEFINE pending == [q \in Calling |-> Adding(q)']
               load == [q \in Calling |-> Pos(charged[q]) + pending[q]]
    <2>1. pending \in [Calling -> 0..MaxCharge] /\ pending[r] = n /\ n \in Int
      BY <1>c, <1>l
    <2>2. Load' = load
      BY <1>c DEF Load, Adding
    <2>3. PICK p : p = pending
      OBVIOUS
    <2>4. Total([q \in Calling |-> Pos(charged[q]) + p[q]]) =< Bound
      <3> HIDE DEF pending
      <3>1. p \in [Calling -> 0..MaxCharge] /\ p[r] = n
        BY <2>1, <2>3
      <3>2. QED
        BY <1>c, <2>1, <3>1, Compared
    <2>5. Bound' = Bound
      BY <1>c DEF Bound
    <2>6. QED
      BY <2>2, <2>3, <2>4, <2>5
  \* A run's step that adds what was pending, or nothing.
  <1>n. ASSUME NEW r \in Calling, UNCHANGED putBack, saves' = saves \/ saves' = saves + 1,
               \A q \in Calling \ {r} : charged'[q] = charged[q] /\ Adding(q)' = Adding(q),
               Pos(charged'[r]) + Adding(r)' =< Pos(charged[r]) + Adding(r)
        PROVE  Total(Load') =< Bound'
    <2>1. \A q \in Calling : Load'[q] =< Load[q]
      <3>1. ASSUME NEW q \in Calling
            PROVE  Load'[q] =< Load[q]
        <4>1. CASE q = r
          BY <1>n, <1>l, <4>1
        <4>2. CASE q # r
          <5>1. Load'[q] = Load[q] /\ Load[q] \in Int
            BY <1>n, <1>l, <4>2
          <5>2. QED
            BY <5>1
        <4>3. QED
          BY <4>1, <4>2
      <3>2. QED
        BY <3>1
    <2>2. saves * MaxCharge =< saves' * MaxCharge /\ saves' * MaxCharge \in Int
      <3>1. PICK k : k = saves'
        OBVIOUS
      <3>2. k = saves \/ saves = k - 1
        BY <1>0, <1>n, <3>1
      <3>3. saves \in Int /\ k \in Int /\ MaxCharge \in Nat
        BY <1>0, <3>1, <3>2, <1>n
      <3>4. saves = k - 1 => saves * MaxCharge + MaxCharge = k * MaxCharge
        BY <3>3, OneChargeMore
      <3>5. saves * MaxCharge =< k * MaxCharge /\ k * MaxCharge \in Int
        BY <1>0, <3>2, <3>3, <3>4
      <3>6. QED
        BY <3>1, <3>5
    <2>3. Bound =< Bound'
      BY <1>0, <1>n, <2>2 DEF Bound, Others
    <2>4. QED
      BY <2>1, <2>3, NothingAdded
  <1>1. CASE SavesMeeting
    <2>1. PICK r, v : r = copy[1] /\ v = copy[2]
      OBVIOUS
    <2>2. r \in Calling /\ v \in Int /\ UNCHANGED <<call, amount, saves>>
      BY <1>1, <2>1 DEF SavesMeeting, RowsOK
    <2>3. \A q \in Calling : Adding(q)' = Adding(q)
      BY <2>2 DEF Adding
    <2>4. CASE UNCHANGED <<charged, putBack>>
      <3>1. Pos(charged'[r]) + Adding(r)' =< Pos(charged[r]) + Adding(r)
        BY <1>l, <2>2, <2>3, <2>4
      <3>2. saves' = saves
        BY <2>2
      <3>3. QED
        BY <1>n, <2>2, <2>3, <2>4, <3>1, <3>2
    <2>5. CASE PutBack(r, charged[r])
      <3> DEFINE k == IF v > charged[r] THEN v - charged[r] ELSE 0
                 more == [Load EXCEPT ![r] = @ + k]
      <3>1. charged' = [charged EXCEPT ![r] = v] /\ putBack' = putBack + k /\ k \in Nat
        BY <1>0, <2>1, <2>2, <2>5 DEF PutBack
      <3>2. OneDiffers(Load, more, r, k, Calling) /\ more \in [Calling -> Int]
            /\ more[r] = Load[r] + k /\ \A q \in Calling \ {r} : more[q] = Load[q]
        BY <1>l, <2>2, <3>1 DEF OneDiffers
      <3>3. ASSUME NEW q \in Calling
            PROVE  Load'[q] =< more[q]
        <4>1. CASE q = r
          <5>1. charged'[r] = v /\ charged[r] \in Int
            BY <1>0, <2>2, <3>1
          <5>2. Pos(v) =< Pos(charged[r]) + k
            BY <2>2, <5>1 DEF Pos
          <5>3. Load'[r] = Pos(v) + Adding(r) /\ more[r] = Pos(charged[r]) + Adding(r) + k
            <6>1. Load'[r] = Pos(charged'[r]) + Adding(r)' /\ Load[r] = Pos(charged[r]) + Adding(r)
              BY <1>l, <2>2
            <6> HIDE DEF k, more
            <6>2. QED
              BY <2>2, <2>3, <3>2, <5>1, <6>1
          <5> HIDE DEF k, more
          <5>4. Pos(v) \in Int /\ Pos(charged[r]) \in Int /\ Adding(r) \in Int /\ k \in Int
            BY <1>l, <2>2, <3>1 DEF Pos
          <5>5. QED
            BY <4>1, <5>2, <5>3, <5>4
        <4>2. CASE q # r
          <5>1. Load'[q] = Load[q] /\ Load[q] \in Int
            BY <1>l, <2>2, <2>3, <3>1, <4>2
          <5>2. QED
            BY <3>2, <4>2, <5>1
        <4>3. QED
          BY <4>1, <4>2
      <3> HIDE DEF k, more
      <3>4. Total(Load) \in Int /\ Total(more) = Total(Load) + k
        BY <3>2, SomeRun, TotalFollows DEF Total
      <3>5. Total(Load') =< Total(more) /\ Total(Load') \in Int
        BY <1>l, <3>2, <3>3, SomeRun, TotalAtMost DEF Total
      <3>6. Bound' = Bound + k
        BY <1>0, <2>2, <3>1 DEF Bound, Others
      <3>7. QED
        BY <1>l, <3>1, <3>4, <3>5, <3>6
    <2>6. r \notin counted => charged[r] = 0
      BY <2>2 DEF RowsOK
    <2>7. QED
      BY <1>1, <2>1, <2>4, <2>5, <2>6, Zenon DEF SavesMeeting
  <1>2. ASSUME NEW r \in Calling, CheckReservation(r)
        PROVE  Total(Load') =< Bound'
    <2>1. PICK n \in Charges : WithinBudget(n) /\ CallMoves(r, "reserve", n)
      BY <1>2 DEF CheckReservation
    <2>2. UNCHANGED <<charged, putBack, saves>>
      BY <1>2 DEF CheckReservation
    <2>3. Adding(r)' = n /\ \A q \in Calling \ {r} : Adding(q)' = Adding(q)
      BY <1>0, <2>1 DEF CallMoves, Adding
    <2>4. n \in 0..MaxCharge /\ UsedToday + n =< DailyBudget
      BY <1>0, <2>1 DEF Charges, WithinBudget
    <2>5. QED
      BY <1>c, <2>2, <2>3, <2>4
  <1>3. ASSUME NEW r \in Calling, Reserve(r) \/ Settle(r)
        PROVE  Total(Load') =< Bound'
    <2>1. /\ AdjustTokenBudget(r, amount[r]) /\ UNCHANGED <<putBack, saves>>
          /\ Adding(r) = amount[r] /\ Adding(r)' = 0
          /\ \A q \in Calling \ {r} : Adding(q)' = Adding(q)
      BY <1>0, <1>3 DEF Reserve, Settle, CallMoves, Adding
    <2>2. /\ \A q \in Calling \ {r} : charged'[q] = charged[q]
          /\ charged'[r] = charged[r] \/ charged'[r] = charged[r] + amount[r]
      BY <1>0, <2>1 DEF AdjustTokenBudget
    <2>3. charged[r] \in Int /\ amount[r] \in Nat
      BY <1>0
    <2>4. Pos(charged'[r]) + Adding(r)' =< Pos(charged[r]) + Adding(r)
      BY <2>1, <2>2, <2>3 DEF Pos
    <2>5. saves' = saves \/ saves' = saves + 1
      BY <1>0, <2>1
    <2>6. QED
      BY <1>n, <2>1, <2>2, <2>4, <2>5
  <1>4. ASSUME NEW r \in Calling, CallFails(r)
        PROVE  Total(Load') =< Bound'
    <2>1. /\ UNCHANGED <<charged, putBack, saves>> /\ Adding(r) = 0 /\ Adding(r)' = 0
          /\ \A q \in Calling \ {r} : Adding(q)' = Adding(q)
      BY <1>0, <1>4 DEF CallFails, CallMoves, Adding
    <2>2. Pos(charged'[r]) + Adding(r)' =< Pos(charged[r]) + Adding(r)
      BY <1>l, <2>1
    <2>3. saves' = saves \/ saves' = saves + 1
      BY <1>0, <2>1
    <2>4. QED
      BY <1>n, <2>1, <2>2, <2>3
  <1>5. ASSUME NEW r \in Calling, CallReturns(r)
        PROVE  Total(Load') =< Bound'
    <2>1. PICK actual \in Charges :
            IF actual - amount[r] > 0 /\ WithinBudget(actual - amount[r])
              THEN CallMoves(r, "settle", actual - amount[r]) /\ UNCHANGED charged
              ELSE /\ CallMoves(r, "ready", 0)
                   /\ IF actual - amount[r] > 0 THEN UNCHANGED charged
                      ELSE AdjustTokenBudget(r, actual - amount[r])
      BY <1>5 DEF CallReturns
    <2>2. UNCHANGED <<putBack, saves>> /\ call[r] = "out" /\ Adding(r) = 0
      BY <1>5 DEF CallReturns, Adding
    <2>3. PICK delta : delta = actual - amount[r]
      OBVIOUS
    <2>4. delta \in Int /\ delta =< MaxCharge
      BY <1>0, <2>1, <2>3 DEF Charges
    <2>5. CASE delta > 0 /\ WithinBudget(delta)
      <3>1. CallMoves(r, "settle", delta) /\ UNCHANGED charged
        BY <2>1, <2>3, <2>5
      <3>2. Adding(r)' = delta /\ \A q \in Calling \ {r} : Adding(q)' = Adding(q)
        BY <1>0, <3>1 DEF CallMoves, Adding
      <3>3. delta \in 0..MaxCharge /\ UsedToday + delta =< DailyBudget
        BY <1>0, <2>4, <2>5 DEF WithinBudget
      <3>4. QED
        BY <1>c, <2>2, <3>1, <3>2, <3>3
    <2>6. CASE ~(delta > 0 /\ WithinBudget(delta))
      <3>1. CallMoves(r, "ready", 0)
            /\ (UNCHANGED charged \/ (AdjustTokenBudget(r, delta) /\ delta =< 0))
        BY <2>1, <2>3, <2>4, <2>6
      <3>2. Adding(r)' = 0 /\ \A q \in Calling \ {r} : Adding(q)' = Adding(q)
        BY <1>0, <3>1 DEF CallMoves, Adding
      <3>3. /\ \A q \in Calling \ {r} : charged'[q] = charged[q]
            /\ charged'[r] = charged[r] \/ (charged'[r] = charged[r] + delta /\ delta =< 0)
        BY <1>0, <3>1 DEF AdjustTokenBudget
      <3>4. charged[r] \in Int
        BY <1>0
      <3>5. Pos(charged'[r]) + Adding(r)' =< Pos(charged[r]) + Adding(r)
        BY <2>2, <2>4, <3>2, <3>3, <3>4 DEF Pos
      <3>6. saves' = saves \/ saves' = saves + 1
        BY <1>0, <2>2
      <3>7. QED
        BY <1>n, <2>2, <3>2, <3>3, <3>5, <3>6
    <2>7. QED
      BY <2>5, <2>6
  <1>6. ASSUME NEW r \in Calling, ReadsMeeting(r) \/ NextMeeting(r)
        PROVE  Total(Load') =< Bound'
    <2>1. /\ UNCHANGED <<charged, putBack>> /\ (saves' = saves \/ saves' = saves + 1)
          /\ \A q \in Calling : Adding(q)' = Adding(q)
      BY <1>6 DEF ReadsMeeting, NextMeeting, Adding
    <2>2. Pos(charged'[r]) + Adding(r)' =< Pos(charged[r]) + Adding(r)
      BY <1>l, <2>1
    <2>3. saves' = saves \/ saves' = saves + 1
      BY <1>0, <2>1
    <2>4. QED
      BY <1>n, <2>1, <2>2, <2>3
  <1>7. ASSUME NEW r \in Calling, NoLongerCounted(r)
        PROVE  Total(Load') =< Bound'
    <2>1. /\ charged' = [charged EXCEPT ![r] = 0] /\ UNCHANGED <<putBack, saves>>
          /\ \A q \in Calling : Adding(q)' = Adding(q)
      BY <1>7 DEF NoLongerCounted, Adding
    <2>2. charged'[r] = 0 /\ \A q \in Calling \ {r} : charged'[q] = charged[q]
      BY <1>0, <2>1
    <2>3. Pos(charged'[r]) = 0
      BY <2>2 DEF Pos
    <2>4. Pos(charged'[r]) + Adding(r)' =< Pos(charged[r]) + Adding(r)
      BY <1>l, <2>1, <2>3
    <2>5. saves' = saves \/ saves' = saves + 1
      BY <1>0, <2>1
    <2>6. QED
      BY <1>n, <2>1, <2>2, <2>4, <2>5
  <1>8. QED
    BY <1>1, <1>2, <1>3, <1>4, <1>5, <1>6, <1>7 DEF BudgetNext

LEMMA LoadInit == BudgetInit /\ DailyBudget > 0 => Total(Load) =< Bound
  <1> SUFFICES ASSUME BudgetInit, DailyBudget > 0 PROVE Total(Load) =< Bound
    OBVIOUS
  <1>1. Load \in [Calling -> Int] /\ \A r \in Calling : Load[r] = 0
    BY DEF BudgetInit, Load, Pos, Adding
  <1>2. Total(Load) = 0
    BY <1>1, SomeRun, TotalOfZeros DEF Total
  <1>3. saves * MaxCharge = 0 /\ putBack = 0
    BY BudgetAssumption DEF BudgetInit
  <1>4. QED
    BY <1>2, <1>3, SomeRun, BudgetAssumption DEF Bound

-----------------------------------------------------------------------------
(* The theorems about the budget. *)

LEMMA BudgetInvariant == BudgetSpec => []BudgetInv
  <1>1. BudgetInit => BudgetInv
    BY RowsInit, LackInit, LoadInit DEF BudgetInv
  <1>2. BudgetInv /\ [BudgetNext]_budgetVars => BudgetInv'
    <2>1. SUFFICES ASSUME BudgetInv, [BudgetNext]_budgetVars PROVE BudgetInv'
      OBVIOUS
    <2>2. CASE BudgetNext
      <3>1. RowsOK /\ RowsOK'
        BY <2>1, <2>2, RowsStep DEF BudgetInv
      <3>2. PICK lack : Lacking(lack)
        BY <2>1 DEF BudgetInv
      <3>3. \E short : Lacking(short)'
        BY <2>2, <3>1, <3>2, LackStep
      <3>4. DailyBudget > 0 => Total(Load') =< Bound'
        BY <2>1, <2>2, <3>1, <3>2, LoadStep DEF BudgetInv
      <3>5. QED
        BY <3>1, <3>3, <3>4 DEF BudgetInv
    <2>3. CASE UNCHANGED budgetVars
      BY <2>1, <2>3 DEF budgetVars, BudgetInv, RowsOK, BudgetTypeOK, Lacking, OutNow, Load,
                        Adding, Bound
    <2>4. QED
      BY <2>1, <2>2, <2>3
  <1>3. QED
    BY <1>1, <1>2, PTL DEF BudgetSpec

(* The types of the rows, the calls and the copies stay.                      *)
THEOREM BudgetTypes == BudgetSpec => []BudgetTypeOK
  <1>1. BudgetInv => BudgetTypeOK
    BY DEF BudgetInv, RowsOK
  <1>2. QED
    BY <1>1, BudgetInvariant, PTL

(* The day's tokens exceed the budget by at most one charge for every other   *)
(* run, what saves of old rows put back, and one charge for each row so read, *)
(* however many runs compare and add at once (reserveMeetingTokens).          *)
THEOREM OverrunHasBound == BudgetSpec => []OverrunBounded
  <1>1. BudgetInv => OverrunBounded
    <2>1. SUFFICES ASSUME BudgetInv, DailyBudget > 0 PROVE UsedToday =< Bound
      BY DEF OverrunBounded, Bound, Others
    <2>2. RowsOK /\ Total(Load) =< Bound
      BY <2>1 DEF BudgetInv
    <2>3. /\ charged \in [Calling -> Int] /\ counted \in SUBSET Calling
          /\ \A r \in Calling \ counted : charged[r] = 0
      BY <2>2 DEF RowsOK, BudgetTypeOK
    <2>4. UsedToday = Total(charged)
      BY <2>3, SomeRun, TotalOfSubset DEF UsedToday, Total
    <2>5. Load \in [Calling -> Int] /\ Bound \in Int
      BY <2>2, LoadType
    <2>6. ASSUME NEW r \in Calling
          PROVE  charged[r] =< Load[r]
      <3>1. Load[r] = Pos(charged[r]) + Adding(r) /\ Adding(r) \in Nat
        BY <2>2, LoadType, BudgetAssumption
      <3>2. charged[r] \in Int
        BY <2>3
      <3>3. QED
        BY <3>1, <3>2 DEF Pos
    <2>7. Total(charged) =< Total(Load) /\ Total(charged) \in Int /\ Total(Load) \in Int
      BY <2>3, <2>5, <2>6, SomeRun, TotalAtMost DEF Total
    <2>8. QED
      BY <2>2, <2>4, <2>5, <2>7
  <1>2. QED
    BY <1>1, BudgetInvariant, PTL

-----------------------------------------------------------------------------
(* The teams: the inductive invariant is TeamsSound with the types. *)

TeamsInv == TeamsTypeOK /\ TeamsSound

\* What a row must be for the tables to stay sound when a team gets it.
RowFits(t, row) ==
  /\ row \in Rows /\ (row.class = "none" => t \notin assigned)
  /\ row.class # "none" /\ RequiresAccount(row.class) => row.account \in accounts
  /\ row.class # "none" /\ row.account # NoAccount => row.account \in accounts
  /\ row.class = "prediction_market" => row.roles \subseteq {"prediction"}

-----------------------------------------------------------------------------
(* What the operations write fits. *)

\* The roles of a prediction-market team have no tools of the stock market.
LEMMA SanitizedRoles ==
  ASSUME NEW class, NEW roles \in SUBSET Roles
  PROVE  /\ Sanitized(class, roles) \in SUBSET Roles
         /\ class = "prediction_market" => Sanitized(class, roles) \subseteq {"prediction"}
  BY DEF Sanitized, Roles

LEMMA DefaultRolesFit ==
  ASSUME NEW class
  PROVE  /\ DefaultRoles(class) \in SUBSET Roles
         /\ class = "prediction_market" => DefaultRoles(class) \subseteq {"prediction"}
  BY DEF DefaultRoles, Roles

\* The two unique indexes do the rest.
LEMMA RowKeepsSound ==
  ASSUME TeamsInv, NEW t \in Teams, NEW row, RowFits(t, row), HasRow(t, row)
  PROVE  TeamsInv'
  <1>1. /\ team' \in [Teams -> Rows] /\ team'[t] = row
        /\ \A u \in Teams : u # t => team'[u] = team[u]
        /\ accounts' = accounts /\ assigned' = assigned
    BY DEF HasRow, RowFits, TeamsInv, TeamsTypeOK
  <1>2. TeamsTypeOK'
    BY <1>1 DEF TeamsInv, TeamsTypeOK
  <1>3. \A u \in Teams : u # t => (u \in Existing' <=> u \in Existing)
    BY <1>1 DEF Existing
  <1>4. assigned \subseteq Existing' /\ assigned \subseteq Teams
    BY <1>1, <1>3 DEF RowFits, TeamsInv, TeamsTypeOK, TeamsSound, Existing
  <1>5. ASSUME NEW u \in Existing', NEW v \in Existing',
               team'[u].account # NoAccount, team'[v].account = team'[u].account
        PROVE  v = u
    <2>1. u \in Teams /\ v \in Teams
      BY DEF Existing
    <2>2. \A x \in Existing \ {t} : row.account # NoAccount => team[x].account # row.account
      BY DEF HasRow
    <2>3. CASE u = t \/ v = t
      BY <1>1, <1>3, <1>5, <2>1, <2>2, <2>3
    <2>4. CASE u # t /\ v # t
      BY <1>1, <1>3, <1>5, <2>1, <2>4 DEF TeamsInv, TeamsSound
    <2>5. QED
      BY <2>3, <2>4
  <1>6. ASSUME NEW u \in Existing'
        PROVE  /\ RequiresAccount(team'[u].class) => team'[u].account \in accounts'
               /\ team'[u].account # NoAccount => team'[u].account \in accounts'
               /\ team'[u].class = "prediction_market" => team'[u].roles \subseteq {"prediction"}
    <2>1. u \in Teams
      BY DEF Existing
    <2>2. CASE u = t
      <3>1. row.class # "none"
        BY <1>1, <2>2 DEF Existing
      <3>2. QED
        BY <1>1, <2>2, <3>1 DEF RowFits
    <2>3. CASE u # t
      BY <1>1, <1>3, <2>1, <2>3 DEF TeamsInv, TeamsSound
    <2>4. QED
      BY <2>2, <2>3
  <1>7. TeamsSound'
    BY <1>1, <1>4, <1>5, <1>6, Zenon DEF TeamsSound, RequiresAccount
  <1>8. QED
    BY <1>2, <1>7 DEF TeamsInv

\* A change of the roles only.
LEMMA RolesKeepSound ==
  ASSUME TeamsInv, NEW t \in Existing, NEW roles \in SUBSET Roles,
         team[t].class = "prediction_market" => roles \subseteq {"prediction"},
         HasRow(t, [team[t] EXCEPT !.roles = roles])
  PROVE  TeamsInv'
  <1> DEFINE row == [team[t] EXCEPT !.roles = roles]
  <1>1. t \in Teams /\ team[t] \in Rows /\ team[t].class # "none"
    BY DEF Existing, TeamsInv, TeamsTypeOK
  <1>2. /\ row \in Rows /\ row.class = team[t].class /\ row.account = team[t].account
        /\ row.roles = roles
    BY <1>1, Zenon DEF Rows
  <1>3. HasRow(t, row)
    OBVIOUS
  <1> HIDE DEF row
  <1>4. RowFits(t, row)
    BY <1>1, <1>2 DEF RowFits, TeamsInv, TeamsSound, Existing
  <1>5. QED
    BY <1>1, <1>3, <1>4, RowKeepsSound

-----------------------------------------------------------------------------
(* Every operation keeps it. *)

LEMMA CreateTeamSound ==
  ASSUME TeamsInv, NEW t \in Teams, CreateTeam(t)
  PROVE  TeamsInv'
  <1>1. PICK class \in Classes, account \in PaperAccounts \cup {NoAccount}, named \in BOOLEAN,
             source \in Existing \cup {t} :
          /\ RequiresAccount(class) => account # NoAccount
          /\ account # NoAccount => Available(account, t)
          /\ HasRow(t, [class |-> class, named |-> named,
                        account |-> IF RequiresAccount(class) THEN account ELSE NoAccount,
                        roles |-> Sanitized(class, team[source].roles)])
    BY Zenon DEF CreateTeam
  <1> DEFINE acc == IF RequiresAccount(class) THEN account ELSE NoAccount
             roles == Sanitized(class, team[source].roles)
             row == [class |-> class, named |-> named, account |-> acc, roles |-> roles]
  <1>2. team[source].roles \in SUBSET Roles
    BY DEF TeamsInv, TeamsTypeOK, Rows, Existing
  <1>3. roles \in SUBSET Roles /\ (class = "prediction_market" => roles \subseteq {"prediction"})
    BY <1>2, SanitizedRoles
  <1>4. acc \in PaperAccounts \cup {NoAccount} /\ (acc # NoAccount => acc \in accounts)
        /\ (RequiresAccount(class) => acc \in accounts)
    BY <1>1 DEF Available
  <1>5. HasRow(t, row)
    BY <1>1
  <1> HIDE DEF acc, roles
  <1>6. RowFits(t, row)
    BY <1>3, <1>4 DEF RowFits, Rows, Classes
  <1> HIDE DEF row
  <1>7. QED
    BY <1>5, <1>6, RowKeepsSound

LEMMA UpdateTeamSound ==
  ASSUME TeamsInv, NEW t \in Teams, UpdateTeam(t)
  PROVE  TeamsInv'
  <1>1. t \in Existing /\ team[t] \in Rows
    BY DEF UpdateTeam, TeamsInv, TeamsTypeOK
  <1>2. PICK class \in Classes, account \in PaperAccounts \cup {NoAccount}, named \in BOOLEAN :
          /\ RequiresAccount(class) => account # NoAccount
          /\ account # NoAccount => account \in accounts
          /\ HasRow(t, [team[t] EXCEPT !.class = class, !.account = account,
                          !.named = named, !.roles = Sanitized(class, @)])
    <2>1. PICK fields \in SUBSET {"paperAccountId", "assetClass", "name"},
               account \in PaperAccounts \cup {NoAccount}, class \in Classes,
               named \in BOOLEAN :
            LET newClass == IF "assetClass" \in fields THEN class ELSE team[t].class
                asked == IF "paperAccountId" \in fields THEN account ELSE team[t].account
                newAccount == IF "assetClass" \in fields /\ ~RequiresAccount(class)
                                THEN NoAccount ELSE asked
                newName == IF "name" \in fields THEN named ELSE team[t].named
            IN /\ "paperAccountId" \in fields => AccountGiven(t, newClass, account)
               /\ RequiresAccount(newClass) => newAccount # NoAccount
               /\ "assetClass" \in fields /\ newAccount # NoAccount => Available(newAccount, t)
               /\ HasRow(t, [team[t] EXCEPT !.class = newClass, !.account = newAccount,
                               !.named = newName, !.roles = Sanitized(newClass, @)])
      BY Zenon DEF UpdateTeam
    <2> DEFINE newClass == IF "assetClass" \in fields THEN class ELSE team[t].class
               asked == IF "paperAccountId" \in fields THEN account ELSE team[t].account
               newAccount == IF "assetClass" \in fields /\ ~RequiresAccount(class)
                               THEN NoAccount ELSE asked
               newName == IF "name" \in fields THEN named ELSE team[t].named
    <2>2. HasRow(t, [team[t] EXCEPT !.class = newClass, !.account = newAccount,
                       !.named = newName, !.roles = Sanitized(newClass, @)])
      BY <2>1, Zenon
    <2>3. /\ "paperAccountId" \in fields => AccountGiven(t, newClass, account)
          /\ RequiresAccount(newClass) => newAccount # NoAccount
          /\ "assetClass" \in fields /\ newAccount # NoAccount => Available(newAccount, t)
      BY <2>1, Zenon
    <2>4. team[t].class \in Classes /\ newClass \in Classes /\ newName \in BOOLEAN
      BY <1>1 DEF Existing, Rows
    <2>5. newAccount \in PaperAccounts \cup {NoAccount}
      BY <1>1 DEF Rows
    <2>6. ASSUME newAccount # NoAccount
          PROVE  newAccount \in accounts
      <3>1. CASE "assetClass" \in fields
        BY <2>3, <2>6, <3>1, Zenon DEF Available
      <3>2. CASE "assetClass" \notin fields /\ "paperAccountId" \in fields
        <4>1. newAccount = account
          BY <3>2
        <4>2. QED
          BY <2>3, <2>6, <3>2, <4>1, Zenon DEF AccountGiven, Available
      <3>3. CASE "assetClass" \notin fields /\ "paperAccountId" \notin fields
        <4>1. newAccount = team[t].account
          BY <3>3
        <4>2. QED
          BY <1>1, <2>6, <4>1, Zenon DEF TeamsInv, TeamsSound
      <3>4. QED
        BY <3>1, <3>2, <3>3
    <2> HIDE DEF newClass, newAccount, newName
    <2>7. QED
      BY <2>2, <2>3, <2>4, <2>5, <2>6, Zenon
  <1> DEFINE roles == Sanitized(class, team[t].roles)
             row == [team[t] EXCEPT !.class = class, !.account = account, !.named = named,
                                    !.roles = roles]
  <1>3. roles \in SUBSET Roles /\ (class = "prediction_market" => roles \subseteq {"prediction"})
    BY <1>1, SanitizedRoles DEF Rows
  <1>4. HasRow(t, row)
    BY <1>2, Zenon
  <1> HIDE DEF roles
  <1>5. row \in Rows /\ row.class = class /\ row.account = account /\ row.roles = roles
    BY <1>1, <1>3, Zenon DEF Rows
  <1> HIDE DEF row
  <1>6. RowFits(t, row)
    BY <1>2, <1>3, <1>5 DEF RowFits, Classes
  <1>7. QED
    BY <1>4, <1>6, RowKeepsSound

LEMMA DeleteTeamSound ==
  ASSUME TeamsInv, NEW t \in Teams, DeleteTeam(t)
  PROVE  TeamsInv'
  <1>1. RowFits(t, NoTeam)
    BY DEF DeleteTeam, RowFits, NoTeam, Rows
  <1>2. QED
    BY <1>1, RowKeepsSound DEF DeleteTeam

LEMMA RolesSound ==
  ASSUME TeamsInv, NEW t \in Teams, UpsertRole(t) \/ DeleteRole(t) \/ ApplyDefaultRoles(t)
  PROVE  TeamsInv'
  <1>1. CASE UpsertRole(t)
    <2>1. PICK role \in Roles :
            HasRow(t, [team[t] EXCEPT !.roles = @ \cup Sanitized(team[t].class, {role})])
      BY <1>1 DEF UpsertRole
    <2> DEFINE roles == team[t].roles \cup Sanitized(team[t].class, {role})
    <2>2. t \in Existing /\ team[t].roles \in SUBSET Roles
      BY <1>1 DEF UpsertRole, TeamsInv, TeamsTypeOK, Rows
    <2>3. /\ roles \in SUBSET Roles
          /\ team[t].class = "prediction_market" => roles \subseteq {"prediction"}
      BY <2>2, SanitizedRoles DEF TeamsInv, TeamsSound
    <2>4. HasRow(t, [team[t] EXCEPT !.roles = roles])
      BY <2>1, Zenon
    <2> HIDE DEF roles
    <2>5. QED
      BY <2>2, <2>3, <2>4, RolesKeepSound
  <1>2. CASE DeleteRole(t)
    <2>1. PICK role \in team[t].roles :
            HasRow(t, [team[t] EXCEPT !.roles = @ \ {role}])
      BY <1>2 DEF DeleteRole
    <2> DEFINE roles == team[t].roles \ {role}
    <2>2. team[t] \in Rows
      BY DEF TeamsInv, TeamsTypeOK
    <2>3. CASE t \in Existing
      <3>1. /\ roles \in SUBSET Roles
            /\ team[t].class = "prediction_market" => roles \subseteq {"prediction"}
        BY <2>2, <2>3 DEF TeamsInv, TeamsSound, Rows
      <3>2. HasRow(t, [team[t] EXCEPT !.roles = roles])
        BY <2>1, Zenon
      <3> HIDE DEF roles
      <3>3. QED
        BY <2>3, <3>1, <3>2, RolesKeepSound
    <2>4. CASE t \notin Existing
      <3> DEFINE row == [team[t] EXCEPT !.roles = roles]
      <3>1. row \in Rows /\ row.class = team[t].class
        BY <2>2, Zenon DEF Rows
      <3>2. HasRow(t, row)
        BY <2>1, Zenon
      <3> HIDE DEF row
      <3>3. RowFits(t, row)
        BY <2>4, <3>1 DEF RowFits, Existing, TeamsInv, TeamsSound
      <3>4. QED
        BY <3>2, <3>3, RowKeepsSound
    <2>5. QED
      BY <2>3, <2>4
  <1>3. CASE ApplyDefaultRoles(t)
    <2>1. t \in Existing /\ HasRow(t, [team[t] EXCEPT !.roles = DefaultRoles(team[t].class)])
      BY <1>3 DEF ApplyDefaultRoles
    <2>2. QED
      BY <2>1, DefaultRolesFit, RolesKeepSound
  <1>4. QED
    BY <1>1, <1>2, <1>3

LEMMA DefaultTeamSound ==
  ASSUME TeamsInv, NEW t \in Teams, EnsureDefaultTeam(t)
  PROVE  TeamsInv'
  <1>1. PICK a \in accounts :
          HasRow(t, [NoTeam EXCEPT !.class = "a_share", !.account = a,
                       !.roles = DefaultRoles("a_share")])
    BY DEF EnsureDefaultTeam
  <1> DEFINE row == [NoTeam EXCEPT !.class = "a_share", !.account = a,
                                   !.roles = DefaultRoles("a_share")]
  <1>2. a \in PaperAccounts
    BY DEF TeamsInv, TeamsTypeOK
  <1>3. row \in Rows /\ row.class = "a_share" /\ row.account = a
    BY <1>2, DefaultRolesFit DEF NoTeam, Rows, Classes
  <1> HIDE DEF row
  <1>4. RowFits(t, row)
    BY <1>3 DEF RowFits
  <1>5. QED
    BY <1>1, <1>4, RowKeepsSound DEF row

LEMMA PredictionTeamSound ==
  ASSUME TeamsInv, NEW t \in Teams, EnsureDefaultPredictionTeam(t)
  PROVE  TeamsInv'
  <1> DEFINE righted == [team[t] EXCEPT !.class = "prediction_market",
                                        !.account = NoAccount, !.roles = {"prediction"}]
             new == [NoTeam EXCEPT !.class = "prediction_market", !.named = TRUE,
                                   !.roles = DefaultRoles("prediction_market")]
             roles == Sanitized("prediction_market", team[t].roles)
  <1>1. team[t] \in Rows
    BY DEF TeamsInv, TeamsTypeOK
  <1>2. CASE HasRow(t, righted)
    <2>1. "prediction_market" \in Classes \cup {"none"} /\ {"prediction"} \in SUBSET Roles
      BY DEF Classes, Roles
    <2>2. /\ righted \in Rows /\ righted.class = "prediction_market"
          /\ righted.account = NoAccount /\ righted.roles = {"prediction"}
      BY <1>1, <2>1, Zenon DEF Rows
    <2> HIDE DEF righted
    <2>3. RowFits(t, righted)
      BY <2>2 DEF RowFits, RequiresAccount
    <2>4. QED
      BY <1>2, <2>3, RowKeepsSound
  <1>3. CASE t \in PredictionTeams /\ HasRow(t, [team[t] EXCEPT !.roles = roles])
    <2>1. t \in Existing /\ team[t].class = "prediction_market"
      BY <1>3 DEF PredictionTeams
    <2>2. roles \in SUBSET Roles /\ roles \subseteq {"prediction"}
      BY <1>1, SanitizedRoles DEF Rows
    <2> HIDE DEF roles
    <2>3. QED
      BY <1>3, <2>1, <2>2, RolesKeepSound
  <1>4. CASE HasRow(t, new)
    <2>1. new \in Rows /\ new.class = "prediction_market" /\ new.account = NoAccount
          /\ new.roles \subseteq {"prediction"}
      BY DEF NoTeam, Rows, Classes, DefaultRoles, Roles
    <2> HIDE DEF new
    <2>2. RowFits(t, new)
      BY <2>1 DEF RowFits, RequiresAccount
    <2>3. QED
      BY <1>4, <2>2, RowKeepsSound
  <1> HIDE DEF righted, new, roles
  <1>5. QED
    BY <1>2, <1>3, <1>4, Zenon DEF EnsureDefaultPredictionTeam, righted, new, roles

LEMMA AssignSound ==
  ASSUME TeamsInv, NEW t \in Teams, AssignSubscriptions(t)
  PROVE  TeamsInv'
  BY DEF AssignSubscriptions, TeamsInv, TeamsTypeOK, TeamsSound, Existing

LEMMA AccountsSound ==
  ASSUME TeamsInv, NEW a \in PaperAccounts, CreatePaperAccount(a) \/ DeletePaperAccount(a)
  PROVE  TeamsInv'
  BY DEF CreatePaperAccount, DeletePaperAccount, TeamsInv, TeamsTypeOK, TeamsSound, Existing

LEMMA TeamsInvariant == TeamsSpec => []TeamsInv
  <1>1. TeamsInit => TeamsInv
    BY DEF TeamsInit, TeamsInv, TeamsTypeOK, TeamsSound, Existing, NoTeam, Rows
  <1>2. TeamsInv /\ [TeamsNext]_teamVars => TeamsInv'
    <2> SUFFICES ASSUME TeamsInv, [TeamsNext]_teamVars PROVE TeamsInv'
      OBVIOUS
    <2>1. CASE UNCHANGED teamVars
      BY <2>1 DEF teamVars, TeamsInv, TeamsTypeOK, TeamsSound, Existing
    <2>2. CASE TeamsNext
      BY <2>2, CreateTeamSound, UpdateTeamSound, DeleteTeamSound, RolesSound,
         DefaultTeamSound, PredictionTeamSound, AssignSound, AccountsSound, Zenon
         DEF TeamsNext
    <2>3. QED
      BY <2>1, <2>2
  <1>3. QED
    BY <1>1, <1>2, PTL DEF TeamsSpec

-----------------------------------------------------------------------------
(* The theorems about the teams. *)

\* The tables of teams, accounts and assignments stay within their types.
THEOREM TeamsTypes == TeamsSpec => []TeamsTypeOK
  BY TeamsInvariant, PTL DEF TeamsInv

\* No sequence of requests and restarts leaves a trading team without an account
\* of its own, a shared account, a reference to a row that is gone, or a
\* prediction-market team with a tool of the stock market.
THEOREM TeamsStaySound == TeamsSpec => []TeamsSound
  BY TeamsInvariant, PTL DEF TeamsInv

-----------------------------------------------------------------------------
(* The backups: the inductive invariant.  The directory is a stack of writes, *)
(* a request deletes only what it listed as old, nobody else writes to the    *)
(* archive of a request whose name did not clash, and what a drill is about   *)
(* to record as valid is so unless another archive took its name.             *)

\* A listing of the directory: a name stands in it once, the last written first.
Listing(fs, day) ==
  /\ fs \in Seq(File)
  /\ \A i, j \in 1..Len(fs) : fs[i].name = fs[j].name => i = j
  /\ \A i, j \in 1..Len(fs) : i < j => fs[j].at <= fs[i].at
  /\ \A i \in 1..Len(fs) : fs[i].name <= fs[i].at /\ fs[i].at <= day
Stack == Listing(files, today)

Stages == {"rest", "write", "list", "prune"}
Making == [stage : Stages, began : 0..LastDay, doomed : SUBSET (0..LastDay)]
Drilled == [stage : {"rest", "inspect", "record"}, name : 0..LastDay,
            result : {"none", "valid", "warning"}]
Recorded == [name : 0..(LastDay + 1), status : {"none", "valid", "warning"}]

\* What a request that began at some time may delete.
Doomed(fs, doomed, began) ==
  \A n \in doomed :
    /\ n + Days < began
    /\ \A i \in 1..Len(fs) : fs[i].name = n => fs[i].at + Days < began /\ i > Copies

\* What a request has begun and is about to delete.
RequestsOK ==
  /\ making \in [Makers -> Making]
  /\ \A m \in Makers :
       /\ making[m].began <= today
       /\ making[m].stage = "write" => today <= making[m].began + Days
       /\ Doomed(files, making[m].doomed, making[m].began)

WholeSince(fs, began) == \E j \in 1..Len(fs) : fs[j].whole /\ fs[j].at >= began

\* The archive a request has finished, or a whole one after it, is there.
WholeStays ==
  clashed = {} =>
    \A m \in Makers :
      making[m].stage \in {"list", "prune"} => WholeSince(files, making[m].began)

\* A request that writes under a name of its own has its archive to itself, which
\* is there and not finished.
Alone(m) ==
  /\ \E i \in 1..Len(files) : files[i].name = making[m].began
  /\ \A i \in 1..Len(files) : files[i].name = making[m].began => ~files[i].whole
  /\ \A p \in Makers \ {m} : making[p].stage = "write" => making[p].began # making[m].began
WritersAlone ==
  \A m \in Makers :
    making[m].stage = "write" /\ making[m].began \notin clashed => Alone(m)

\* An archive of that name that was found valid is whole and has a database entry,
\* as long as it has its name to itself.
Whole(n) ==
  /\ n < today \/ (n = today /\ n \in Names)
  /\ n \notin clashed => \A i \in 1..Len(files) :
       files[i].name = n => files[i].whole /\ files[i].database

DrillsOK ==
  /\ drill \in [Drills -> Drilled] /\ record \in Recorded
  /\ \A d \in Drills : drill[d].result = "valid" => Whole(drill[d].name)
  /\ record.status = "valid" => Whole(record.name)

BackupInv ==
  /\ today \in 0..LastDay /\ clashed \in SUBSET (0..LastDay) /\ begun \in 0..MaxBegun
  /\ Stack /\ RequestsOK /\ WritersAlone /\ WholeStays /\ DrillsOK

-----------------------------------------------------------------------------
(* What the directory holds after an archive of some name is gone. *)

\* w is what is left of fs without the name n, which stood at k, or past the end.
Left(w, fs, n, k) ==
  /\ w \in Seq(File) /\ k \in 1..(Len(fs) + 1)
  /\ \A i \in 1..Len(w) : Skip(k, i) \in 1..Len(fs) /\ w[i] = fs[Skip(k, i)]
  /\ \A o \in 1..Len(fs) : /\ o # k => Back(k, o) \in 1..Len(w) /\ w[Back(k, o)] = fs[o]
                           /\ fs[o].name = n <=> o = k

LEMMA NamesAreListed ==
  ASSUME files \in Seq(File), NEW n
  PROVE  n \in Names <=> \E i \in 1..Len(files) : files[i].name = n
  <1>1. ToSet(files) = {files[i] : i \in 1..Len(files)}
    BY LenProperties DEF ToSet
  <1>2. QED
    BY <1>1 DEF Names

LEMMA NamesAreListedNext ==
  ASSUME files' \in Seq(File), NEW n
  PROVE  n \in Names' <=> \E i \in 1..Len(files') : files'[i].name = n
  <1>1. ToSet(files') = {files'[i] : i \in 1..Len(files')}
    BY LenProperties DEF ToSet
  <1>2. QED
    BY <1>1 DEF Names

LEMMA WithoutLeft ==
  ASSUME Stack, NEW n
  PROVE  \E k : Left(Without(n), files, n, k)
  <1>1. /\ files \in Seq(File) /\ Len(files) \in Nat /\ DOMAIN files = 1..Len(files)
        /\ \A i, j \in 1..Len(files) : files[i].name = files[j].name => i = j
    BY LenProperties DEF Stack, Listing
  <1>2. CASE n \in Names
    <2>2. PICK k \in 1..Len(files) : files[k].name = n
      BY <1>1, <1>2, NamesAreListed
    <2>3. PICK w : w = RemoveAt(files, k)
      BY Zenon
    <2>4. /\ w \in Seq(File) /\ Len(w) = Len(files) - 1
          /\ \A i \in 1..(Len(files) - 1) : w[i] = files[Skip(k, i)]
      <3>1. ASSUME NEW s \in Seq(File), NEW o \in 1..Len(s)
            PROVE  /\ RemoveAt(s, o) \in Seq(File) /\ Len(RemoveAt(s, o)) = Len(s) - 1
                   /\ \A i \in 1..(Len(s) - 1) : RemoveAt(s, o)[i] = s[Skip(o, i)]
        BY RemoveAtFacts, Zenon
      <3>2. files \in Seq(File)
        BY <1>1
      <3>3. QED
        BY <2>3, <3>1, <3>2, Zenon
    <2>5. Without(n) = w
      <3>1. {i \in 1..Len(files) : files[i].name = n} = {k}
        BY <1>1, <2>2
      <3>2. Min({k}) = k
        BY DEF Min
      <3>3. SelectInSeq(files, LAMBDA f : f.name = n) = k
        BY <3>1, <3>2 DEF SelectInSeq
      <3>4. QED
        BY <2>2, <2>3, <3>3, Zenon DEF Without, RemoveFirstMatch
    <2>6. \A i \in 1..Len(w) : Skip(k, i) \in 1..Len(files) /\ w[i] = files[Skip(k, i)]
      BY <1>1, <2>2, <2>4 DEF Skip
    <2>7. ASSUME NEW o \in 1..Len(files), o # k
          PROVE  Back(k, o) \in 1..Len(w) /\ w[Back(k, o)] = files[o]
      <3>1. Back(k, o) \in 1..Len(w) /\ Skip(k, Back(k, o)) = o
        BY <1>1, <2>2, <2>4, <2>7 DEF Back, Skip
      <3>2. QED
        BY <3>1, <2>6
    <2>8. \A o \in 1..Len(files) : files[o].name = n <=> o = k
      BY <1>1, <2>2
    <2>9. k \in 1..(Len(files) + 1)
      BY <1>1, <2>2
    <2>10. Left(w, files, n, k)
      BY <2>4, <2>6, <2>7, <2>8, <2>9, Zenon DEF Left
    <2>11. QED
      BY <2>5, <2>10
  <1>3. CASE n \notin Names
    <2>2. PICK k : k = Len(files) + 1
      OBVIOUS
    <2>3. \A o \in 1..Len(files) : files[o].name # n
      BY <1>1, <1>3, NamesAreListed
    <2>1. Without(n) = files
      BY <2>3 DEF Without, RemoveFirstMatch
    <2>4. Left(files, files, n, k)
      BY <1>1, <2>2, <2>3 DEF Left, Skip, Back
    <2>5. QED
      BY <2>1, <2>4
  <1>4. QED
    BY <1>2, <1>3

LEMMA LeftIsListing ==
  ASSUME NEW fs, NEW day, Listing(fs, day), NEW w, NEW n, NEW k, Left(w, fs, n, k)
  PROVE  /\ Listing(w, day)
         /\ \A i \in 1..Len(w) : w[i].name # n
  <1>1. /\ Len(fs) \in Nat /\ Len(w) \in Nat /\ k \in Nat /\ w \in Seq(File)
        /\ \A i \in 1..Len(w) : Skip(k, i) \in 1..Len(fs) /\ w[i] = fs[Skip(k, i)]
                                /\ Skip(k, i) # k
        /\ \A i, j \in 1..Len(w) : /\ i < j => Skip(k, i) < Skip(k, j)
                                   /\ Skip(k, i) = Skip(k, j) => i = j
    BY LenProperties DEF Left, Listing, Skip
  <1>2. \A i, j \in 1..Len(w) : w[i].name = w[j].name => i = j
    BY <1>1, ZenonT(60) DEF Listing
  <1>3. \A i, j \in 1..Len(w) : i < j => w[j].at <= w[i].at
    BY <1>1 DEF Listing
  <1>4. \A i \in 1..Len(w) : w[i].name <= w[i].at /\ w[i].at <= day
    BY <1>1 DEF Listing
  <1>5. \A i \in 1..Len(w) : w[i].name # n
    BY <1>1 DEF Left
  <1>6. QED
    BY <1>1, <1>2, <1>3, <1>4, <1>5 DEF Listing

\* An archive is deleted.
Pruned(n, k) ==
  /\ Stack'
  /\ \A i \in 1..Len(files)' : \E o \in 1..Len(files) :
       files'[i] = files[o] /\ files[o].name # n /\ (o = i \/ (o = i + 1 /\ k <= i))
  /\ \A o \in 1..Len(files) :
       /\ files[o].name # n => \E i \in 1..Len(files)' : files'[i] = files[o]
       /\ files[o].name = n <=> o = k
  /\ k \in Nat \ {0}

LEMMA PruneEffect ==
  ASSUME Stack, NEW n, files' = Without(n), UNCHANGED today
  PROVE  \E k : Pruned(n, k)
  <1>1. PICK k : Left(files', files, n, k)
    BY WithoutLeft
  <1>2. Listing(files', today) /\ \A i \in 1..Len(files') : files'[i].name # n
    BY <1>1, LeftIsListing DEF Stack
  <1>3. Len(files) \in Nat /\ Len(files') \in Nat
    BY <1>2, LenProperties DEF Stack, Listing
  <1>4. ASSUME NEW i \in 1..Len(files')
        PROVE  \E o \in 1..Len(files) :
                 files'[i] = files[o] /\ files[o].name # n /\ (o = i \/ (o = i + 1 /\ k <= i))
    <2>1. Skip(k, i) \in 1..Len(files) /\ files'[i] = files[Skip(k, i)]
      BY <1>1 DEF Left
    <2>2. Skip(k, i) = i \/ (Skip(k, i) = i + 1 /\ k <= i)
      BY <1>1, <1>3 DEF Skip, Left
    <2>3. QED
      BY <1>2, <2>1, <2>2
  <1>5. ASSUME NEW o \in 1..Len(files)
        PROVE  /\ files[o].name # n => \E i \in 1..Len(files') : files'[i] = files[o]
               /\ files[o].name = n <=> o = k
    BY <1>1 DEF Left
  <1>6. k \in Nat \ {0}
    BY <1>1, <1>3 DEF Left
  <1>7. Stack'
    BY <1>2 DEF Stack, Listing
  <1>8. QED
    BY <1>4, <1>5, <1>6, <1>7 DEF Pruned

\* An archive is written, over one of the same name if there is one.
Written(n, whole, database) ==
  /\ Stack' /\ Len(files)' \in Nat \ {0}
  /\ files'[1] = [name |-> n, at |-> today, whole |-> whole, database |-> database]
  /\ \A i \in 2..Len(files)' : \E o \in 1..Len(files) :
       files'[i] = files[o] /\ files[o].name # n /\ o <= i
  /\ \A o \in 1..Len(files) :
       files[o].name # n => \E i \in 2..Len(files)' : files'[i] = files[o]

LEMMA WriteEffect ==
  ASSUME Stack, today \in 0..LastDay, NEW n \in 0..LastDay, n <= today,
         NEW whole \in BOOLEAN, NEW database \in BOOLEAN, Writes(n, whole, database),
         UNCHANGED today
  PROVE  Written(n, whole, database)
  <1> DEFINE r == [name |-> n, at |-> today, whole |-> whole, database |-> database]
  <1>1. PICK w : w = Without(n)
    OBVIOUS
  <1>2. PICK k : Left(w, files, n, k)
    BY <1>1, WithoutLeft
  <1>3. Listing(w, today) /\ \A i \in 1..Len(w) : w[i].name # n
    BY <1>2, LeftIsListing DEF Stack
  <1>4. r \in File /\ r.name = n /\ r.at = today
    BY DEF File
  <1> HIDE DEF r
  <1>5. files' = <<r>> \o w
    BY <1>1 DEF Writes, r
  <1>6. /\ files' \in Seq(File) /\ Len(files') = Len(w) + 1 /\ files'[1] = r
        /\ \A i \in 2..(Len(w) + 1) : files'[i] = w[i - 1]
    <2>1. w \in Seq(File)
      BY <1>3 DEF Listing
    <2>2. QED
      BY <2>1, <1>4, <1>5, ConsFacts
  <1>7. Len(files) \in Nat /\ Len(w) \in Nat /\ RetentionAssumption
    BY <1>3, LenProperties, RetentionAssumption DEF Stack, Listing
  <1>8. \A i \in 2..Len(files') : i - 1 \in 1..Len(w) /\ files'[i] = w[i - 1]
    BY <1>6, <1>7
  <1>9. Listing(files', today)
    <2>1. \A i, j \in 1..Len(w) : w[i].name = w[j].name => i = j
      BY <1>3 DEF Listing
    <2>2. \A i \in 1..Len(w) : w[i].name <= w[i].at /\ w[i].at <= today /\ w[i].at \in 0..LastDay
      <3>1. \A i \in 1..Len(w) : w[i].name <= w[i].at /\ w[i].at <= today /\ w[i] \in File
        BY <1>3, ElementOfSeq DEF Listing
      <3>2. QED
        BY <3>1 DEF File
    <2>3. \A i, j \in 1..Len(w) : i < j => w[j].at <= w[i].at
      BY <1>3 DEF Listing
    <2>4. \A i \in 1..Len(files') : i = 1 \/ i \in 2..Len(files')
      BY <1>6, <1>7
    <2>5. ASSUME NEW i \in 1..Len(files'), NEW j \in 1..Len(files')
          PROVE  /\ files'[i].name = files'[j].name => i = j
                 /\ i < j => files'[j].at <= files'[i].at
                 /\ files'[i].name <= files'[i].at /\ files'[i].at <= today
      <3>1. CASE i = 1 /\ j = 1
        BY <3>1, <1>4, <1>6
      <3>2. CASE i = 1 /\ j \in 2..Len(files')
        <4>1. PICK b \in 1..Len(w) : files'[j] = w[b]
          BY <3>2, <1>8
        <4>2. /\ w[b].name # n /\ w[b].at <= today
              /\ files'[1].name = n /\ files'[1].at = today /\ files'[1].name <= today
          BY <1>3, <1>4, <1>6, <2>2
        <4>3. i # j /\ today <= today
          BY <3>2
        <4>4. QED
          BY <3>2, <4>1, <4>2, <4>3
      <3>3. CASE i \in 2..Len(files') /\ j = 1
        <4>1. PICK a \in 1..Len(w) : files'[i] = w[a]
          BY <3>3, <1>8
        <4>2. w[a].name # n /\ w[a].name <= w[a].at /\ w[a].at <= today /\ files'[1].name = n
          BY <1>3, <1>4, <1>6, <2>2
        <4>3. ~(i < j)
          BY <3>3
        <4>4. QED
          BY <3>3, <4>1, <4>2, <4>3
      <3>4. CASE i \in 2..Len(files') /\ j \in 2..Len(files')
        <4>1. PICK a \in 1..Len(w) : a = i - 1 /\ files'[i] = w[a]
          BY <3>4, <1>8
        <4>2. PICK b \in 1..Len(w) : b = j - 1 /\ files'[j] = w[b]
          BY <3>4, <1>8
        <4>3. (a = b <=> i = j) /\ (i < j => a < b)
          BY <4>1, <4>2, <3>4
        <4>4. QED
          BY <4>1, <4>2, <4>3, <2>1, <2>2, <2>3
      <3>5. QED
        BY <2>4, <3>1, <3>2, <3>3, <3>4
    <2>6. QED
      BY <1>6, <2>5 DEF Listing
  <1>10. ASSUME NEW i \in 2..Len(files')
         PROVE  \E o \in 1..Len(files) :
                  files'[i] = files[o] /\ files[o].name # n /\ o <= i
    <2>1. /\ i - 1 \in 1..Len(w) /\ files'[i] = w[i - 1]
          /\ Skip(k, i - 1) \in 1..Len(files) /\ w[i - 1] = files[Skip(k, i - 1)]
      BY <1>2, <1>8 DEF Left
    <2>2. Skip(k, i - 1) <= i
      BY <1>2, <1>7, <1>6 DEF Skip, Left
    <2>3. QED
      BY <1>3, <2>1, <2>2
  <1>11. ASSUME NEW o \in 1..Len(files), files[o].name # n
         PROVE  \E i \in 2..Len(files') : files'[i] = files[o]
    <2>1. Back(k, o) \in 1..Len(w) /\ w[Back(k, o)] = files[o]
      BY <1>2, <1>11 DEF Left
    <2>2. PICK b : b = Back(k, o)
      OBVIOUS
    <2>3. b + 1 \in 2..Len(files') /\ b + 1 \in 2..(Len(w) + 1) /\ (b + 1) - 1 = b
      BY <1>6, <1>7, <2>1, <2>2
    <2>4. files'[b + 1] = w[b]
      BY <1>6, <2>3
    <2>5. QED
      BY <2>1, <2>2, <2>3, <2>4
  <1>12. Stack' /\ Len(files)' \in Nat \ {0}
    BY <1>6, <1>7, <1>9 DEF Stack, Listing
  <1>13. QED
    BY <1>6, <1>10, <1>11, <1>12 DEF Written, r

-----------------------------------------------------------------------------
(* What a step of a request does to what the others rely on. *)

LEMMA Times ==
  ASSUME BackupInv
  PROVE  /\ LastDay \in Nat /\ Days \in Nat /\ Days > 0 /\ Copies \in Nat /\ MaxBegun \in Nat
         /\ today \in Nat /\ today <= LastDay
         /\ \A m \in Makers : /\ making[m].stage \in Stages /\ making[m].began \in 0..LastDay
                              /\ making[m].doomed \in SUBSET (0..LastDay)
         /\ Len(files) \in Nat
         /\ \A i \in 1..Len(files) : /\ files[i] \in File /\ files[i].whole \in BOOLEAN
                                     /\ files[i].name \in Nat /\ files[i].at \in Nat
                                     /\ files[i].name <= files[i].at /\ files[i].at <= today
  <1>1. LastDay \in Nat /\ Days \in Nat /\ Days > 0 /\ Copies \in Nat /\ MaxBegun \in Nat
    BY RetentionAssumption
  <1>2. \A i \in 1..Len(files) : files[i] \in File
    BY ElementOfSeq DEF BackupInv, Stack, Listing
  <1>3. \A m \in Makers : making[m] \in Making
    BY DEF BackupInv, RequestsOK
  <1>4. Len(files) \in Nat
    BY LenProperties DEF BackupInv, Stack, Listing
  <1>5. \A m \in Makers : /\ making[m].stage \in Stages /\ making[m].began \in 0..LastDay
                          /\ making[m].doomed \in SUBSET (0..LastDay)
    BY <1>3, Zenon DEF Making
  <1>6. \A i \in 1..Len(files) : /\ files[i].whole \in BOOLEAN
                                 /\ files[i].name \in Nat /\ files[i].at \in Nat
                                 /\ files[i].name <= files[i].at /\ files[i].at <= today
    BY <1>1, <1>2 DEF File, BackupInv, Stack, Listing
  <1>7. QED
    BY <1>1, <1>2, <1>4, <1>5, <1>6 DEF BackupInv

\* An archive that is doomed is too old to be written again.
LEMMA WriteKeepsDoomed ==
  ASSUME BackupInv, NEW n \in 0..LastDay, today <= n + Days, NEW whole \in BOOLEAN,
         NEW database \in BOOLEAN, Written(n, whole, database), NEW m \in Makers
  PROVE  Doomed(files', making[m].doomed, making[m].began)
  <1>1. ASSUME NEW x \in making[m].doomed, NEW i \in 1..Len(files'), files'[i].name = x
        PROVE  files'[i].at + Days < making[m].began /\ i > Copies
    <2>1. x + Days < making[m].began /\ making[m].began <= today /\ x \in Nat
      BY Times DEF BackupInv, RequestsOK, Doomed
    <2>2. x # n /\ files'[1].name = n
      BY <2>1, Times DEF Written
    <2>3. i \in 2..Len(files') /\ Len(files') \in Nat
      BY <1>1, <2>2 DEF Written
    <2>4. PICK o \in 1..Len(files) : files'[i] = files[o] /\ o <= i
      BY <2>3 DEF Written
    <2>5. files[o].at + Days < making[m].began /\ o > Copies
      BY <1>1, <2>4 DEF BackupInv, RequestsOK, Doomed
    <2>6. QED
      BY <2>3, <2>4, <2>5, Times
  <1>2. QED
    BY <1>1 DEF Doomed, BackupInv, RequestsOK

\* What goes stands behind the archives that are kept, and so does what comes after it.
LEMMA PruneKeepsDoomed ==
  ASSUME BackupInv, NEW p \in Makers, NEW n \in making[p].doomed, NEW k, Pruned(n, k),
         NEW m \in Makers, NEW doomed \in SUBSET making[m].doomed
  PROVE  Doomed(files', doomed, making[m].began)
  <1>1. ASSUME NEW x \in doomed, NEW i \in 1..Len(files'), files'[i].name = x
        PROVE  files'[i].at + Days < making[m].began /\ i > Copies
    <2>1. PICK o \in 1..Len(files) :
            files'[i] = files[o] /\ (o = i \/ (o = i + 1 /\ k <= i))
      BY DEF Pruned
    <2>2. files[o].at + Days < making[m].began /\ o > Copies
      BY <1>1, <2>1 DEF BackupInv, RequestsOK, Doomed
    <2>3. CASE o = i
      BY <2>1, <2>2, <2>3
    <2>4. CASE o = i + 1 /\ k <= i
      <3>1. k \in 1..Len(files) /\ k \in Nat
        <4>1. k \in Nat \ {0} /\ Len(files) \in Nat
          BY Times DEF Pruned
        <4>2. QED
          BY <2>4, <4>1
      <3>2. files[k].name = n
        BY <3>1 DEF Pruned
      <3>3. k > Copies
        BY <3>1, <3>2 DEF BackupInv, RequestsOK, Doomed
      <3>4. QED
        BY <2>1, <2>2, <2>4, <3>1, <3>3, Times
    <2>5. QED
      BY <2>1, <2>3, <2>4
  <1>2. QED
    BY <1>1 DEF Doomed, BackupInv, RequestsOK

\* A request that deletes a whole archive has left a newer one that is whole.
LEMMA PruneKeepsWhole ==
  ASSUME BackupInv, NEW p \in Makers, making[p].stage = "prune",
         NEW n \in making[p].doomed, NEW k, Pruned(n, k), clashed = {},
         NEW m \in Makers, making[m].stage \in {"list", "prune"}
  PROVE  WholeSince(files', making[m].began)
  <1>1. ASSUME NEW j \in 1..Len(files), files[j].whole, files[j].at >= making[m].began,
               files[j].name # n
        PROVE  WholeSince(files', making[m].began)
    BY <1>1 DEF Pruned, WholeSince
  <1>2. PICK j \in 1..Len(files) : files[j].whole /\ files[j].at >= making[m].began
    BY DEF BackupInv, WholeStays, WholeSince
  <1>3. CASE files[j].name = n
    <2>1. files[j].at + Days < making[p].began
      BY <1>3 DEF BackupInv, RequestsOK, Doomed
    <2>2. PICK h \in 1..Len(files) : files[h].whole /\ files[h].at >= making[p].began
      BY DEF BackupInv, WholeStays, WholeSince
    <2>3. files[h].at > files[j].at /\ files[h].at >= making[m].began
      <3>1. /\ Days \in Nat /\ files[j].at \in Nat /\ files[h].at \in Nat
            /\ making[p].began \in Nat /\ making[m].began \in Nat
        BY Times, SMTT(30)
      <3>2. QED
        BY <1>2, <2>1, <2>2, <3>1, SMTT(30)
    <2>4. files[h].name # n
      BY <1>3, <2>3, Times, SMTT(30) DEF BackupInv, Stack, Listing
    <2>5. QED
      BY <1>1, <2>2, <2>3, <2>4
  <1>4. QED
    BY <1>1, <1>2, <1>3

\* A valid drill of an archive that is deleted says nothing of one to come.
LEMMA PruneKeepsValid ==
  ASSUME BackupInv, NEW p \in Makers, NEW n \in making[p].doomed, NEW k, Pruned(n, k),
         UNCHANGED <<today, clashed>>, NEW x \in 0..LastDay, Whole(x)
  PROVE  Whole(x)'
  <1>1. n < today /\ n \in Nat
    BY Times DEF BackupInv, RequestsOK, Doomed
  <1>2. x < today \/ (x = today /\ x \in Names')
    <2>1. SUFFICES ASSUME x = today, x \in Names PROVE x \in Names'
      BY DEF Whole
    <2>2. PICK o \in 1..Len(files) : files[o].name = x
      BY <2>1, NamesAreListed DEF BackupInv, Stack, Listing
    <2>3. PICK i \in 1..Len(files') : files'[i] = files[o]
      BY <1>1, <2>1, <2>2, Times DEF Pruned
    <2>4. \E i_1 \in 1..Len(files') : files'[i_1].name = x
      BY <2>2, <2>3
    <2>5. files' \in Seq(File)
      BY DEF Pruned, Stack, Listing
    <2>6. QED
      BY <2>4, <2>5, NamesAreListedNext
  <1>3. x \notin clashed => \A i \in 1..Len(files') : files'[i].name = x =>
          files'[i].whole /\ files'[i].database
    BY DEF Pruned, Whole
  <1>4. QED
    BY <1>2, <1>3 DEF Whole

\* Writing an archive spoils it only where two write to one name.
LEMMA WriteKeepsValid ==
  ASSUME BackupInv, NEW n \in 0..LastDay, n <= today, NEW whole \in BOOLEAN,
         NEW database \in BOOLEAN, Written(n, whole, database), UNCHANGED today,
         clashed \subseteq clashed', Whole(n) => n \in clashed',
         NEW x \in 0..LastDay, Whole(x)
  PROVE  Whole(x)'
  <1>1. files' \in Seq(File) /\ Len(files') \in Nat \ {0} /\ files'[1].name = n
    BY DEF Written, Stack, Listing
  <1>2. ASSUME x = today, x \in Names
        PROVE  x \in Names'
    <2>1. PICK o \in 1..Len(files) : files[o].name = x
      BY <1>2, NamesAreListed DEF BackupInv, Stack, Listing
    <2>2. \E i \in 1..Len(files') : files'[i].name = x
      <3>1. CASE x = n
        BY <1>1, <3>1
      <3>2. CASE x # n
        <4>1. PICK i \in 2..Len(files') : files'[i] = files[o]
          BY <2>1, <3>2 DEF Written
        <4>2. i \in 1..Len(files')
          BY <1>1, <4>1
        <4>3. QED
          BY <2>1, <4>1, <4>2
      <3>3. QED
        BY <3>1, <3>2
    <2>3. QED
      BY <1>1, <2>2, NamesAreListedNext
  <1>3. ASSUME x \notin clashed', NEW i \in 1..Len(files'), files'[i].name = x
        PROVE  files'[i].whole /\ files'[i].database
    <2>1. CASE i = 1
      <3>1. x = n
        BY <1>1, <1>3, <2>1
      <3>2. QED
        BY <1>3, <3>1
    <2>2. CASE i # 1
      <3>1. i \in 2..Len(files')
        BY <2>2, <1>1
      <3>2. PICK o \in 1..Len(files) : files'[i] = files[o]
        BY <3>1 DEF Written
      <3>3. QED
        BY <1>3, <3>2 DEF Whole
    <2>3. QED
      BY <2>1, <2>2
  <1>4. QED
    BY <1>2, <1>3 DEF Whole

-----------------------------------------------------------------------------
(* Each step. *)

LEMMA NextDayStep ==
  ASSUME BackupInv, NextDay
  PROVE  BackupInv'
  <1>1. /\ today' = today + 1 /\ today' \in 0..LastDay /\ today < today'
        /\ UNCHANGED <<files, clashed, making, drill, record, begun>>
    BY Times DEF NextDay
  <1>2. Stack'
    <2>1. Listing(files, today)
      BY DEF BackupInv, Stack
    <2>2. \A i \in 1..Len(files) : files[i].name <= files[i].at /\ files[i].at <= today'
      <3>1. today \in Nat
        BY Times
      <3>2. \A i \in 1..Len(files) : files[i].name <= files[i].at /\ files[i].at <= today
                                     /\ files[i].at \in Nat
        BY Times
      <3>3. QED
        BY <1>1, <3>1, <3>2
    <2>3. Listing(files, today')
      BY <2>1, <2>2 DEF Listing
    <2>4. QED
      BY <1>1, <2>3 DEF Stack
  <1>3. RequestsOK'
    <2>1. ASSUME NEW m \in Makers
          PROVE  /\ making[m].began <= today'
                 /\ making[m].stage = "write" => today' <= making[m].began + Days
      <3>1. making[m].began <= today /\ making[m].began \in Nat
        BY Times DEF BackupInv, RequestsOK
      <3>2. making[m].stage = "write" => today < making[m].began + Days
        BY DEF NextDay
      <3>3. QED
        BY <1>1, <3>1, <3>2, Times
    <2>2. QED
      BY <1>1, <2>1 DEF BackupInv, RequestsOK
  <1>4. WholeStays'
    BY <1>1 DEF BackupInv, WholeStays
  <1>a. WritersAlone'
    BY <1>1 DEF BackupInv, WritersAlone, Alone
  <1>5. \A n \in 0..LastDay : Whole(n) => Whole(n)'
    BY <1>1, Times DEF Whole, Names
  <1>6. DrillsOK'
    BY <1>1, <1>5, SMTT(30) DEF BackupInv, DrillsOK, Drilled, Recorded, Whole
  <1>7. QED
    BY <1>1, <1>2, <1>3, <1>4, <1>6, <1>a DEF BackupInv

\* The drills, when what is valid stays so.
LEMMA DrillsKept ==
  ASSUME DrillsOK, UNCHANGED <<drill, record>>, \A x \in 0..LastDay : Whole(x) => Whole(x)',
         LastDay \in Nat, today \in 0..LastDay
  PROVE  DrillsOK'
  <1>1. ASSUME NEW x \in 0..(LastDay + 1), Whole(x) PROVE x \in 0..LastDay
    BY <1>1 DEF Whole
  <1>2. \A d \in Drills : drill[d].result = "valid" => Whole(drill[d].name)'
    <2>1. ASSUME NEW d \in Drills, drill[d].result = "valid" PROVE Whole(drill[d].name)'
      <3>1. drill[d].name \in 0..LastDay
        BY DEF DrillsOK, Drilled
      <3>2. QED
        BY <2>1, <3>1 DEF DrillsOK
    <2>2. QED
      BY <2>1
  <1>3. record.status = "valid" => Whole(record.name)'
    <2>1. record.name \in 0..(LastDay + 1)
      BY DEF DrillsOK, Recorded
    <2>2. QED
      BY <1>1, <2>1 DEF DrillsOK
  <1>4. QED
    BY <1>2, <1>3 DEF DrillsOK, Whole

\* A request goes over to a stage in which it relies on no more than before.
LEMMA MakesKeepsRequests ==
  ASSUME BackupInv, NEW p \in Makers, NEW stage \in Stages, NEW began \in 0..LastDay,
         NEW doomed \in SUBSET (0..LastDay), Makes(p, stage, began, doomed),
         UNCHANGED today, began <= today, stage = "write" => today <= began + Days,
         Doomed(files', doomed, began),
         \A m \in Makers : Doomed(files', making[m].doomed, making[m].began)
  PROVE  RequestsOK'
  <1>1. /\ making' \in [Makers -> Making]
        /\ making'[p] = [stage |-> stage, began |-> began, doomed |-> doomed]
        /\ \A m \in Makers \ {p} : making'[m] = making[m]
    BY DEF Makes, BackupInv, RequestsOK, Making
  <1>2. ASSUME NEW m \in Makers
        PROVE  /\ making'[m].began <= today
               /\ making'[m].stage = "write" => today <= making'[m].began + Days
               /\ Doomed(files', making'[m].doomed, making'[m].began)
    <2>1. CASE m = p
      <3>1. /\ making'[m].stage = stage /\ making'[m].began = began
            /\ making'[m].doomed = doomed
        BY <1>1, <2>1
      <3>2. QED
        BY <3>1, Zenon
    <2>2. CASE m # p
      <3>1. making'[m] = making[m]
        BY <1>1, <2>2
      <3>2. QED
        BY <3>1 DEF BackupInv, RequestsOK
    <2>3. QED
      BY <2>1, <2>2
  <1>3. QED
    BY <1>1, <1>2 DEF RequestsOK, Doomed

\* The requests that write, when none joins them and the archives of those with a
\* name of their own stay as they are.
LEMMA WritersStayAlone ==
  ASSUME BackupInv, clashed \subseteq clashed',
         \A m \in Makers : making'[m].stage = "write" =>
           making[m].stage = "write" /\ making'[m].began = making[m].began,
         \A m \in Makers : making'[m].stage = "write" /\ making[m].began \notin clashed' =>
           /\ \A o \in 1..Len(files) : files[o].name = making[m].began =>
                \E i \in 1..Len(files') : files'[i] = files[o]
           /\ \A i \in 1..Len(files') : files'[i].name = making[m].began =>
                \E o \in 1..Len(files) : files'[i] = files[o]
  PROVE  WritersAlone'
  <1> SUFFICES ASSUME NEW m \in Makers, making'[m].stage = "write",
                      making'[m].began \notin clashed'
               PROVE  Alone(m)'
    BY DEF WritersAlone
  <1>1. /\ making[m].stage = "write" /\ making'[m].began = making[m].began
        /\ making[m].began \notin clashed /\ Alone(m)
    BY DEF BackupInv, WritersAlone
  <1>2. \E i \in 1..Len(files') : files'[i].name = making'[m].began
    <2>1. PICK o \in 1..Len(files) : files[o].name = making[m].began
      BY <1>1 DEF Alone
    <2>2. PICK i \in 1..Len(files') : files'[i] = files[o]
      BY <1>1, <2>1
    <2>3. QED
      BY <1>1, <2>1, <2>2
  <1>3. ASSUME NEW i \in 1..Len(files'), files'[i].name = making'[m].began
        PROVE  ~files'[i].whole
    <2>1. PICK o \in 1..Len(files) : files'[i] = files[o]
      BY <1>1, <1>3
    <2>2. QED
      BY <1>1, <1>3, <2>1 DEF Alone
  <1>4. ASSUME NEW p \in Makers \ {m}, making'[p].stage = "write"
        PROVE  making'[p].began # making'[m].began
    BY <1>1, <1>4 DEF Alone
  <1>5. QED
    BY <1>2, <1>3, <1>4 DEF Alone

LEMMA NothingDoomed ==
  ASSUME NEW fs, NEW began
  PROVE  Doomed(fs, {}, began)
  BY DEF Doomed

LEMMA BeginArchiveStep ==
  ASSUME BackupInv, NEW p \in Makers, BeginArchive(p)
  PROVE  BackupInv'
  <1>1. /\ Makes(p, "write", today, {}) /\ Writes(today, FALSE, FALSE)
        /\ clashed' = (IF today \in Names THEN clashed \cup {today} ELSE clashed)
        /\ UNCHANGED <<today, drill, record>>
    BY DEF BeginArchive
  <1>b. begun' \in 0..MaxBegun
    BY RetentionAssumption DEF BeginArchive, BackupInv
  <1>2. today \in 0..LastDay /\ today <= today + Days /\ Stack /\ LastDay \in Nat
        /\ today <= today
    BY Times DEF BackupInv
  <1>3. Written(today, FALSE, FALSE)
    BY <1>1, <1>2, WriteEffect
  <1>a. WritersAlone'
    <2>1. SUFFICES ASSUME NEW m \in Makers, making'[m].stage = "write",
                          making'[m].began \notin clashed'
                   PROVE  Alone(m)'
      BY DEF WritersAlone
    <2>2. /\ making'[p].stage = "write" /\ making'[p].began = today
          /\ \A q \in Makers \ {p} : making'[q] = making[q]
      BY <1>1 DEF Makes, BackupInv, RequestsOK, Making
    <2>3. /\ files'[1].name = today /\ ~files'[1].whole /\ 1 \in 1..Len(files')
          /\ \A i \in 2..Len(files') : \E o \in 1..Len(files) :
               files'[i] = files[o] /\ files[o].name # today
          /\ \A i \in 1..Len(files') : i = 1 \/ i \in 2..Len(files')
      BY <1>3 DEF Written
    <2>4. CASE m = p
      <3>1. today \notin Names /\ today \notin clashed
        BY <1>1, <2>1, <2>2, <2>4
      <3>2. ASSUME NEW q \in Makers \ {p}, making'[q].stage = "write"
            PROVE  making'[q].began # today
        <4>1. SUFFICES ASSUME making[q].began = today PROVE FALSE
          BY <2>2, <3>2
        <4>2. Alone(q)
          BY <2>2, <3>1, <3>2, <4>1 DEF BackupInv, WritersAlone
        <4>3. QED
          BY <3>1, <4>1, <4>2, NamesAreListed DEF Alone, BackupInv, Stack, Listing
      <3>3. QED
        BY <2>2, <2>3, <2>4, <3>2 DEF Alone
    <2>5. CASE m # p
      <3>1. making'[m] = making[m] /\ making[m].began \notin clashed /\ Alone(m)
        BY <1>1, <2>1, <2>2, <2>5 DEF BackupInv, WritersAlone
      <3>2. making[m].began # today
        <4>1. making[m].began \in Names
          BY <3>1, NamesAreListed DEF Alone, BackupInv, Stack, Listing
        <4>2. QED
          BY <1>1, <2>1, <3>1, <4>1
      <3>3. \E i \in 1..Len(files') : files'[i].name = making'[m].began
        <4>1. PICK o \in 1..Len(files) : files[o].name = making[m].began
          BY <3>1 DEF Alone
        <4>2. PICK i \in 2..Len(files') : files'[i] = files[o]
          BY <1>3, <3>2, <4>1 DEF Written
        <4>3. i \in 1..Len(files')
          BY <1>3, <4>2 DEF Written
        <4>4. QED
          BY <3>1, <4>1, <4>2, <4>3
      <3>4. \A i \in 1..Len(files') : files'[i].name = making'[m].began => ~files'[i].whole
        BY <2>3, <3>1, <3>2 DEF Alone
      <3>5. \A q \in Makers \ {m} :
              making'[q].stage = "write" => making'[q].began # making'[m].began
        BY <2>2, <3>1, <3>2 DEF Alone
      <3>6. QED
        BY <3>3, <3>4, <3>5 DEF Alone
    <2>6. QED
      BY <2>4, <2>5
  <1>4. RequestsOK'
    <2>1. \A m \in Makers : Doomed(files', making[m].doomed, making[m].began)
      BY <1>2, <1>3, WriteKeepsDoomed
    <2>2. "write" \in Stages /\ {} \in SUBSET (0..LastDay)
      BY DEF Stages
    <2>3. QED
      BY <1>1, <1>2, <2>1, <2>2, NothingDoomed, MakesKeepsRequests
  <1>5. WholeStays'
    <2>1. SUFFICES ASSUME clashed' = {}, NEW m \in Makers, making'[m].stage \in {"list", "prune"}
                   PROVE  WholeSince(files', making'[m].began)
      BY DEF WholeStays, WholeSince
    <2>2. m # p /\ making'[m] = making[m]
      BY <1>1, <2>1 DEF Makes, BackupInv, RequestsOK, Making
    <2>3. clashed = {} /\ today \notin Names
      BY <1>1, <2>1
    <2>4. PICK j \in 1..Len(files) : files[j].whole /\ files[j].at >= making[m].began
      BY <2>1, <2>2, <2>3 DEF BackupInv, WholeStays, WholeSince
    <2>5. files[j].name # today
      BY <2>3, NamesAreListed DEF BackupInv, Stack, Listing
    <2>6. PICK i \in 2..Len(files') : files'[i] = files[j]
      BY <1>3, <2>5 DEF Written
    <2>7. i \in 1..Len(files')
      BY <1>3, <2>6 DEF Written
    <2>8. QED
      BY <2>2, <2>4, <2>6, <2>7 DEF WholeSince
  <1>6. DrillsOK'
    <2>1. clashed \subseteq clashed' /\ (Whole(today) => today \in clashed')
      BY <1>1, <1>2 DEF Whole
    <2>2. \A x \in 0..LastDay : Whole(x) => Whole(x)'
      BY <1>1, <1>2, <1>3, <2>1, WriteKeepsValid
    <2>3. QED
      BY <1>1, <1>2, <2>2, DrillsKept DEF BackupInv
  <1>7. Stack'
    BY <1>3 DEF Written
  <1>8. clashed' \in SUBSET (0..LastDay) /\ today' \in 0..LastDay
    BY <1>1, <1>2 DEF BackupInv
  <1>9. QED
    BY <1>1, <1>a, <1>b, <1>4, <1>5, <1>6, <1>7, <1>8 DEF BackupInv

LEMMA FinishArchiveStep ==
  ASSUME BackupInv, NEW p \in Makers, FinishArchive(p)
  PROVE  BackupInv'
  <1>0. PICK n : n = making[p].began
    OBVIOUS
  <1>1. PICK whole \in BOOLEAN, database \in BOOLEAN :
          Writes(n, whole, database) /\ (n \notin clashed => whole = TRUE)
    BY <1>0 DEF FinishArchive
  <1>2. /\ making[p].stage = "write" /\ Makes(p, "list", n, {})
        /\ UNCHANGED <<today, clashed, drill, record, begun>>
    BY <1>0 DEF FinishArchive
  <1>3. /\ n \in 0..LastDay /\ n <= today /\ today <= n + Days /\ Stack /\ LastDay \in Nat
        /\ today \in 0..LastDay
    BY <1>0, <1>2, Times DEF BackupInv, RequestsOK
  <1>4. Written(n, whole, database)
    BY <1>1, <1>2, <1>3, WriteEffect
  <1>a. WritersAlone'
    <2>1. /\ \A m \in Makers : making'[m].stage = "write" => m # p /\ making'[m] = making[m]
          /\ clashed' = clashed
      BY <1>2 DEF Makes, BackupInv, RequestsOK, Making
    <2>2. ASSUME NEW m \in Makers, making'[m].stage = "write", making[m].began \notin clashed'
          PROVE  /\ \A o \in 1..Len(files) : files[o].name = making[m].began =>
                      \E i \in 1..Len(files') : files'[i] = files[o]
                 /\ \A i \in 1..Len(files') : files'[i].name = making[m].began =>
                      \E o \in 1..Len(files) : files'[i] = files[o]
      <3>1. Alone(m) /\ making[m].began # n
        BY <1>0, <1>2, <2>1, <2>2 DEF BackupInv, WritersAlone, Alone
      <3>2. /\ files'[1].name = n /\ 2..Len(files') \subseteq 1..Len(files')
            /\ \A i \in 1..Len(files') : i = 1 \/ i \in 2..Len(files')
        BY <1>4 DEF Written
      <3>3. QED
        BY <1>4, <3>1, <3>2 DEF Written
    <2>3. QED
      BY <2>1, <2>2, WritersStayAlone
  <1>5. RequestsOK'
    <2>1. \A m \in Makers : Doomed(files', making[m].doomed, making[m].began)
      BY <1>3, <1>4, WriteKeepsDoomed
    <2>2. "list" \in Stages /\ {} \in SUBSET (0..LastDay) /\ "list" # "write"
      BY DEF Stages
    <2>3. QED
      BY <1>2, <1>3, <2>1, <2>2, NothingDoomed, MakesKeepsRequests
  <1>6. WholeStays'
    <2>1. SUFFICES ASSUME clashed = {}, NEW m \in Makers, making'[m].stage \in {"list", "prune"}
                   PROVE  WholeSince(files', making'[m].began)
      BY <1>2 DEF WholeStays, WholeSince
    <2>2. /\ files'[1].whole /\ files'[1].at = today /\ files'[1].name = n
          /\ 1 \in 1..Len(files')
      BY <1>1, <1>4, <2>1 DEF Written
    <2>3. CASE m = p
      <3>1. making'[m].began = n
        BY <1>2, <2>3 DEF Makes, BackupInv, RequestsOK, Making
      <3>2. files'[1].at >= n
        BY <1>3, <2>2
      <3>3. QED
        BY <2>2, <3>1, <3>2, Zenon DEF WholeSince
    <2>4. CASE m # p
      <3>1. making'[m] = making[m]
        BY <1>2, <2>4 DEF Makes, BackupInv, RequestsOK, Making
      <3>2. making[m].began <= today
        BY DEF BackupInv, RequestsOK
      <3>3. files'[1].at >= making'[m].began
        BY <2>2, <3>1, <3>2, <1>3, Times
      <3>4. QED
        BY <2>2, <3>3 DEF WholeSince
    <2>5. QED
      BY <2>3, <2>4
  <1>7. DrillsOK'
    <2>1. clashed \subseteq clashed' /\ (Whole(n) => n \in clashed')
      BY <1>0, <1>2 DEF Whole, BackupInv, WritersAlone, Alone
    <2>2. \A x \in 0..LastDay : Whole(x) => Whole(x)'
      BY <1>2, <1>3, <1>4, <2>1, WriteKeepsValid
    <2>3. QED
      BY <1>2, <1>3, <2>2, DrillsKept DEF BackupInv
  <1>8. Stack'
    BY <1>4 DEF Written
  <1>9. QED
    BY <1>2, <1>5, <1>6, <1>7, <1>8, <1>a DEF BackupInv

\* The directory and the drills, when a request only goes over to another stage.
LEMMA DirectoryStays ==
  ASSUME BackupInv, UNCHANGED <<today, files, clashed, drill, record, begun>>,
         RequestsOK',
         \A m \in Makers :
           /\ making'[m].stage \in {"list", "prune"} => making[m].stage \in {"list", "prune"}
                                                  /\ making'[m].began = making[m].began
           /\ making'[m].stage # "write" \/ making'[m] = making[m]
  PROVE  BackupInv'
  <1>1. Stack'
    BY DEF BackupInv, Stack
  <1>2. WholeStays'
    BY DEF BackupInv, WholeStays, WholeSince
  <1>3. DrillsOK'
    BY DEF BackupInv, DrillsOK, Whole, Names
  <1>4. WritersAlone'
    BY WritersStayAlone
  <1>5. QED
    BY <1>1, <1>2, <1>3, <1>4 DEF BackupInv

LEMMA ListArchivesStep ==
  ASSUME BackupInv, NEW p \in Makers, ListArchives(p)
  PROVE  BackupInv'
  <1>0. PICK n : n = making[p].began
    OBVIOUS
  <1>1. PICK doomed : doomed = {files[i].name : i \in {j \in DOMAIN files : Prunable(j, n)}}
    OBVIOUS
  <1>2. /\ making[p].stage = "list" /\ Makes(p, "prune", n, doomed)
        /\ UNCHANGED <<today, files, clashed, drill, record, begun>>
    BY <1>0, <1>1 DEF ListArchives
  <1>3. DOMAIN files = 1..Len(files) /\ n \in 0..LastDay /\ n <= today /\ n \in Nat
    BY <1>0, Times, LenProperties DEF BackupInv, Stack, Listing, RequestsOK
  <1>4. doomed \in SUBSET (0..LastDay)
    BY <1>1, <1>3, Times DEF File
  <1>5. Doomed(files', doomed, n)
    <2>1. ASSUME NEW x \in doomed
          PROVE  /\ x + Days < n
                 /\ \A i \in 1..Len(files) :
                      files[i].name = x => files[i].at + Days < n /\ i > Copies
      <3>1. PICK j \in 1..Len(files) : files[j].name = x /\ j > Copies /\ files[j].at + Days < n
        BY <1>1, <1>3 DEF Prunable
      <3>2. \A i \in 1..Len(files) : files[i].name = x => i = j
        BY <3>1 DEF BackupInv, Stack, Listing
      <3>3. x + Days < n
        BY <1>3, <3>1, Times, SMTT(30)
      <3>4. QED
        BY <3>1, <3>2, <3>3
    <2>2. QED
      BY <1>2, <2>1 DEF Doomed
  <1>6. RequestsOK'
    <2>1. \A m \in Makers : Doomed(files', making[m].doomed, making[m].began)
      BY <1>2 DEF BackupInv, RequestsOK
    <2>2. "prune" \in Stages /\ "prune" # "write" /\ UNCHANGED today
      BY <1>2 DEF Stages
    <2>3. QED
      BY <1>2, <1>3, <1>4, <1>5, <2>1, <2>2, MakesKeepsRequests
  <1>7. \A m \in Makers :
          making'[m].stage \in {"list", "prune"} =>
            making[m].stage \in {"list", "prune"} /\ making'[m].began = making[m].began
    BY <1>0, <1>2 DEF Makes, BackupInv, RequestsOK, Making
  <1>9. \A m \in Makers : making'[m].stage # "write" \/ making'[m] = making[m]
    BY <1>2 DEF Makes, BackupInv, RequestsOK, Making
  <1>10. QED
    BY <1>2, <1>6, <1>7, <1>9, DirectoryStays

LEMMA RestStep ==
  ASSUME BackupInv, NEW p \in Makers, ArchiveCreated(p) \/ MakerFails(p)
  PROVE  BackupInv'
  <1>1. /\ making' = [making EXCEPT ![p] = Resting]
        /\ UNCHANGED <<today, files, clashed, drill, record, begun>>
    BY DEF ArchiveCreated, MakerFails
  <1>2. Makes(p, "rest", 0, {})
    BY <1>1 DEF Makes, Resting
  <1>3. RequestsOK'
    <2>1. \A m \in Makers : Doomed(files', making[m].doomed, making[m].began)
      BY <1>1 DEF BackupInv, RequestsOK
    <2>2. /\ "rest" \in Stages /\ "rest" # "write" /\ UNCHANGED today
          /\ 0 \in 0..LastDay /\ 0 <= today /\ {} \in SUBSET (0..LastDay)
      BY <1>1, Times DEF Stages
    <2>3. QED
      BY <1>2, <2>1, <2>2, NothingDoomed, MakesKeepsRequests
  <1>4. \A m \in Makers :
          making'[m].stage \in {"list", "prune"} =>
            making[m].stage \in {"list", "prune"} /\ making'[m].began = making[m].began
    BY <1>2 DEF Makes, BackupInv, RequestsOK, Making
  <1>5. \A m \in Makers : making'[m].stage # "write" \/ making'[m] = making[m]
    BY <1>2 DEF Makes, BackupInv, RequestsOK, Making
  <1>6. QED
    BY <1>1, <1>3, <1>4, <1>5, DirectoryStays

LEMMA PruneOneStep ==
  ASSUME BackupInv, NEW p \in Makers, PruneOne(p)
  PROVE  BackupInv'
  <1>0. PICK b : b = making[p].began
    OBVIOUS
  <1>1. PICK n \in making[p].doomed :
          files' = Without(n) /\ Makes(p, "prune", b, making[p].doomed \ {n})
    BY <1>0 DEF PruneOne
  <1>2. making[p].stage = "prune" /\ UNCHANGED <<today, clashed, drill, record, begun>>
    BY DEF PruneOne
  <1>3. PICK k : Pruned(n, k)
    BY <1>1, <1>2, PruneEffect DEF BackupInv
  <1>4. RequestsOK'
    <2>1. \A m \in Makers : Doomed(files', making[m].doomed, making[m].began)
      BY <1>3, PruneKeepsDoomed
    <2>2. Doomed(files', making[p].doomed \ {n}, b)
      BY <1>0, <1>3, PruneKeepsDoomed
    <2>3. /\ "prune" \in Stages /\ "prune" # "write" /\ UNCHANGED today
          /\ b \in 0..LastDay /\ b <= today /\ making[p].doomed \ {n} \in SUBSET (0..LastDay)
      BY <1>0, <1>2, Times DEF Stages, BackupInv, RequestsOK
    <2>4. QED
      BY <1>1, <2>1, <2>2, <2>3, MakesKeepsRequests
  <1>5. WholeStays'
    <2>1. SUFFICES ASSUME clashed = {}, NEW m \in Makers, making'[m].stage \in {"list", "prune"}
                   PROVE  WholeSince(files', making'[m].began)
      BY <1>2 DEF WholeStays, WholeSince
    <2>2. making[m].stage \in {"list", "prune"} /\ making'[m].began = making[m].began
      BY <1>0, <1>1, <1>2, <2>1 DEF Makes, BackupInv, RequestsOK, Making
    <2>3. QED
      BY <1>2, <1>3, <2>1, <2>2, PruneKeepsWhole
  <1>6. DrillsOK'
    <2>1. \A x \in 0..LastDay : Whole(x) => Whole(x)'
      BY <1>2, <1>3, PruneKeepsValid
    <2>2. QED
      BY <1>2, <2>1, Times, DrillsKept DEF BackupInv
  <1>7. Stack'
    BY <1>3 DEF Pruned
  <1>8. WritersAlone'
    <2>1. /\ \A m \in Makers : making'[m].stage = "write" => making'[m] = making[m]
          /\ clashed' = clashed
      BY <1>1, <1>2 DEF Makes, BackupInv, RequestsOK, Making
    <2>2. ASSUME NEW m \in Makers, making'[m].stage = "write"
          PROVE  making[m].began # n
      <3>1. n + Days < b /\ b <= today
        BY <1>0, <1>1 DEF BackupInv, RequestsOK, Doomed
      <3>2. today <= making[m].began + Days
        BY <2>1, <2>2 DEF BackupInv, RequestsOK
      <3>3. b \in Nat /\ n \in Nat /\ making[m].began \in Nat
        BY <1>0, <1>1, Times
      <3>4. QED
        BY <3>1, <3>2, <3>3, Times
    <2>3. QED
      BY <1>3, <2>1, <2>2, WritersStayAlone DEF Pruned
  <1>9. QED
    BY <1>2, <1>4, <1>5, <1>6, <1>7, <1>8 DEF BackupInv

LEMMA DrillStep ==
  ASSUME BackupInv, NEW e \in Drills, BeginDrill(e) \/ InspectArchive(e) \/ SaveDrill(e)
  PROVE  BackupInv'
  <1>1. UNCHANGED <<today, files, clashed, making, begun>>
    BY DEF BeginDrill, InspectArchive, SaveDrill
  <1>2. Stack' /\ RequestsOK' /\ WritersAlone' /\ WholeStays'
    BY <1>1 DEF BackupInv, Stack, RequestsOK, WritersAlone, Alone, WholeStays
  <1>3. files \in Seq(File) /\ ToSet(files) = {files[i] : i \in 1..Len(files)}
    BY LenProperties DEF BackupInv, Stack, Listing, ToSet
  <1>4. \A f \in ToSet(files) : f.name \in 0..LastDay
    BY <1>3, Times DEF File
  <1>5. /\ drill \in [Drills -> Drilled] /\ record \in Recorded
        /\ \A d \in Drills : drill[d].result = "valid" => Whole(drill[d].name)
        /\ record.status = "valid" => Whole(record.name)
    BY DEF BackupInv, DrillsOK
  <1>6. 0 \in 0..LastDay
    BY RetentionAssumption
  <1>7. ASSUME BeginDrill(e)
        PROVE  DrillsOK'
    <2>1. PICK n \in Names : Drilling(e, "inspect", n, "none")
      BY <1>7 DEF BeginDrill
    <2>2. n \in 0..LastDay
      BY <1>4 DEF Names
    <2>3. record' = record
      BY <1>7 DEF BeginDrill
    <2>4. /\ drill' \in [Drills -> Drilled]
          /\ \A d \in Drills : drill'[d].result = "valid" => Whole(drill'[d].name)
      BY <1>5, <2>1, <2>2 DEF Drilling, Drilled
    <2>5. QED
      BY <1>1, <1>5, <2>3, <2>4 DEF DrillsOK, Whole, Names
  <1>8. ASSUME InspectArchive(e)
        PROVE  DrillsOK'
    <2>1. record' = record
      BY <1>8 DEF InspectArchive
    <2>2. CASE drill' = [drill EXCEPT ![e] = NoDrill]
      <3>1. /\ drill' \in [Drills -> Drilled]
            /\ \A d \in Drills : drill'[d].result = "valid" => Whole(drill'[d].name)
        BY <1>5, <1>6, <2>2 DEF NoDrill, Drilled
      <3>2. QED
        BY <1>1, <1>5, <2>1, <3>1 DEF DrillsOK, Whole, Names
    <2>3. CASE \E f \in ToSet(files) :
                 /\ f.name = drill[e].name
                 /\ \E result \in Results(f) : Drilling(e, "record", f.name, result)
      <3>0. PICK f \in ToSet(files) : \E result \in Results(f) :
              Drilling(e, "record", f.name, result)
        BY <2>3
      <3>1. PICK result \in Results(f) : Drilling(e, "record", f.name, result)
        BY <3>0
      <3>2. result \in {"valid", "warning"} /\ (result = "valid" => f.whole /\ f.database)
        BY DEF Results
      <3>3. PICK i \in 1..Len(files) : f = files[i]
        BY <1>3
      <3>4. result = "valid" => Whole(f.name)
        <4>1. SUFFICES ASSUME f.whole, f.database PROVE Whole(f.name)
          BY <3>2
        <4>2. f.name \in Names
          BY DEF Names
        <4>3. f.name < today \/ f.name = today
          BY <3>3, Times
        <4>4. \A j \in 1..Len(files) :
                files[j].name = f.name => files[j].whole /\ files[j].database
          BY <4>1, <3>3 DEF BackupInv, Stack, Listing
        <4>5. QED
          BY <4>2, <4>3, <4>4 DEF Whole
      <3>5. f.name \in 0..LastDay
        BY <1>4
      <3>6. PICK n : n = f.name
        OBVIOUS
      <3>7. /\ drill' \in [Drills -> Drilled]
            /\ \A d \in Drills : drill'[d].result = "valid" => Whole(drill'[d].name)
        BY <1>5, <3>1, <3>2, <3>4, <3>5, <3>6 DEF Drilling, Drilled
      <3>8. QED
        BY <1>1, <1>5, <2>1, <3>7 DEF DrillsOK, Whole, Names
    <2>4. QED
      BY <1>8, <2>2, <2>3 DEF InspectArchive
  <1>9. ASSUME SaveDrill(e)
        PROVE  DrillsOK'
    <2>1. /\ drill' = [drill EXCEPT ![e] = NoDrill]
          /\ record' = [name |-> drill[e].name, status |-> drill[e].result]
      BY <1>9 DEF SaveDrill
    <2>2. drill[e].name \in 0..LastDay /\ drill[e].result \in {"none", "valid", "warning"}
          /\ LastDay \in Nat
      BY <1>5, RetentionAssumption DEF Drilled
    <2>3. record' \in Recorded /\ (record'.status = "valid" => Whole(record'.name))
      BY <1>5, <2>1, <2>2 DEF Recorded
    <2>4. /\ drill' \in [Drills -> Drilled]
          /\ \A d \in Drills : drill'[d].result = "valid" => Whole(drill'[d].name)
      BY <1>5, <1>6, <2>1 DEF NoDrill, Drilled
    <2>5. QED
      BY <1>1, <2>3, <2>4 DEF DrillsOK, Whole, Names
  <1>10. DrillsOK'
    BY <1>7, <1>8, <1>9
  <1>11. QED
    BY <1>1, <1>2, <1>10 DEF BackupInv

LEMMA BackupStart == BackupInit => BackupInv
  <1>1. SUFFICES ASSUME BackupInit PROVE BackupInv
    OBVIOUS
  <1>2. LastDay \in Nat /\ MaxBegun \in Nat
    BY RetentionAssumption
  <1>3. Stack
    BY <1>1 DEF BackupInit, Stack, Listing
  <1>4. /\ making = [m \in Makers |-> Resting] /\ Resting \in Making
        /\ Resting.stage = "rest" /\ Resting.began = 0 /\ Resting.doomed = {}
    BY <1>1, <1>2 DEF BackupInit, Resting, Making, Stages
  <1>5. RequestsOK /\ WritersAlone /\ WholeStays
    BY <1>1, <1>4 DEF BackupInit, RequestsOK, WritersAlone, WholeStays, Doomed
  <1>6. DrillsOK
    BY <1>1, <1>2 DEF BackupInit, DrillsOK, Drilled, Recorded, NoDrill, NoRecord
  <1>7. QED
    BY <1>1, <1>2, <1>3, <1>5, <1>6 DEF BackupInit, BackupInv

LEMMA BackupStep == BackupInv /\ [BackupNext]_backupVars => BackupInv'
  <1>1. ASSUME BackupInv, UNCHANGED backupVars
        PROVE  BackupInv'
    BY <1>1 DEF backupVars, BackupInv, Stack, RequestsOK, WritersAlone, Alone, WholeStays,
                DrillsOK, Whole, Names
  <1>2. ASSUME BackupInv, BackupNext
        PROVE  BackupInv'
    BY <1>2, NextDayStep, BeginArchiveStep, FinishArchiveStep, ListArchivesStep,
       PruneOneStep, RestStep, DrillStep DEF BackupNext
  <1>3. QED
    BY <1>1, <1>2

LEMMA BackupInvariant == BackupSpec => []BackupInv
  BY BackupStart, BackupStep, PTL DEF BackupSpec

\* The directory, the requests and the drills hold what they can hold.
THEOREM BackupTypes == BackupSpec => []BackupTypeOK
  <1>1. BackupInv => BackupTypeOK
    <2>1. SUFFICES ASSUME BackupInv PROVE BackupTypeOK
      OBVIOUS
    <2>2. \A m \in Makers : making[m].stage \in {"rest", "write", "list", "prune"}
      BY <2>1, Times DEF Stages
    <2>3. \A d \in Drills : drill[d].stage \in {"rest", "inspect", "record"}
      BY <2>1 DEF BackupInv, DrillsOK, Drilled
    <2>4. DrillStatus \in {"not_ready", "dry_run_available", "stale_drill", "drilled",
                           "drill_warning"}
      BY DEF DrillStatus
    <2>5. QED
      BY <2>1, <2>2, <2>3, <2>4 DEF BackupTypeOK, BackupInv, Stack, Listing
  <1>2. QED
    BY <1>1, BackupInvariant, PTL

\* "drilled" is said only of a latest archive that was finished and reads back, a
\* database entry in it, whichever drills and requests overlap, as long as no two
\* requests wrote under its name.  What its database entry holds is not claimed.
THEOREM DrilledIsWhole == BackupSpec => []DrilledReadsBack
  <1>1. BackupInv => DrilledReadsBack
    <2>1. SUFFICES ASSUME BackupInv, DrillStatus = "drilled", files # <<>>,
                          files[1].name \notin clashed
                   PROVE  files[1].whole /\ files[1].database
      BY DEF DrilledReadsBack
    <2>2. 1 \in 1..Len(files)
      BY <2>1, EmptySeq DEF BackupInv, Stack, Listing
    <2>3. record.status = "valid" /\ files[1].name = record.name
      BY <2>1 DEF DrillStatus
    <2>4. Whole(record.name)
      BY <2>1, <2>3 DEF BackupInv, DrillsOK
    <2>5. QED
      BY <2>1, <2>2, <2>3, <2>4 DEF Whole
  <1>2. QED
    BY <1>1, BackupInvariant, PTL

\* A deletion is of an archive that is old enough to go and has enough newer ones
\* before it, a whole one among them.
LEMMA PruneIsAllowed ==
  ASSUME BackupInv, NEW p \in Makers, PruneOne(p),
         NEW f \in ToSet(files), f.name \notin {g.name : g \in ToSet(files')}
  PROVE  /\ f.at + Days < today
         /\ \E i \in DOMAIN files :
              /\ files[i] = f /\ i > Copies
              /\ clashed = {} => \E j \in 1..(i - 1) : files[j].whole
  <1>1. PICK n \in making[p].doomed : files' = Without(n)
    BY DEF PruneOne
  <1>2. making[p].stage = "prune" /\ UNCHANGED today
    BY DEF PruneOne
  <1>3. PICK k : Pruned(n, k)
    BY <1>1, <1>2, PruneEffect DEF BackupInv
  <1>4. /\ DOMAIN files = 1..Len(files) /\ files' \in Seq(File) /\ DOMAIN files' = 1..Len(files')
        /\ Len(files) \in Nat
    BY <1>3, LenProperties DEF Pruned, BackupInv, Stack, Listing
  <1>5. PICK i \in 1..Len(files) : files[i] = f
    BY <1>4 DEF ToSet
  <1>6. f.name = n
    <2>1. SUFFICES ASSUME f.name # n PROVE FALSE
      OBVIOUS
    <2>2. PICK o \in 1..Len(files') : files'[o] = f
      BY <1>3, <1>5, <2>1 DEF Pruned
    <2>3. QED
      BY <1>4, <2>2 DEF ToSet
  <1>7. f.at + Days < making[p].began /\ i > Copies
    BY <1>5, <1>6 DEF BackupInv, RequestsOK, Doomed
  <1>8. making[p].began <= today /\ making[p].began \in Nat /\ f.at \in Nat
    BY <1>5, Times DEF BackupInv, RequestsOK
  <1>9. ASSUME clashed = {}
        PROVE  \E j \in 1..(i - 1) : files[j].whole
    <2>1. PICK j \in 1..Len(files) : files[j].whole /\ files[j].at >= making[p].began
      BY <1>2, <1>9 DEF BackupInv, WholeStays, WholeSince
    <2>2. ~(files[j].at <= files[i].at) /\ i # j
      <3>1. PICK a, b, c : a = files[i].at /\ b = making[p].began /\ c = files[j].at
        OBVIOUS
      <3>2. a \in Nat /\ b \in Nat /\ c \in Nat /\ Days \in Nat
        BY <1>5, <1>8, <3>1, Times DEF BackupInv, Stack, Listing, File
      <3>3. a + Days < b /\ c >= b
        BY <1>5, <1>7, <2>1, <3>1
      <3>4. ~(c <= a) /\ c # a
        BY <3>2, <3>3
      <3>5. QED
        BY <3>1, <3>4
    <2>3. ~(i < j) /\ i # j
      <3>1. i < j => files[j].at <= files[i].at
        BY <1>5 DEF BackupInv, Stack, Listing
      <3>2. QED
        BY <2>2, <3>1
    <2>4. j \in 1..(i - 1)
      BY <1>4, <2>3
    <2>5. QED
      BY <2>1, <2>4
  <1>10. f.at + Days < today
    BY <1>7, <1>8, Times
  <1>11. QED
    BY <1>4, <1>5, <1>7, <1>9, <1>10

\* Nothing else takes a name from the directory.
LEMMA NamesStay ==
  ASSUME BackupInv, BackupNext, ~\E p \in Makers : PruneOne(p),
         NEW f \in ToSet(files)
  PROVE  f.name \in {g.name : g \in ToSet(files')}
  <1>1. ASSUME NEW n \in 0..LastDay, n <= today, NEW whole \in BOOLEAN,
               NEW database \in BOOLEAN, Writes(n, whole, database), UNCHANGED today
        PROVE  f.name \in {g.name : g \in ToSet(files')}
    <2>1. Written(n, whole, database)
      BY <1>1, WriteEffect DEF BackupInv
    <2>2. /\ DOMAIN files = 1..Len(files) /\ DOMAIN files' = 1..Len(files')
          /\ Len(files') \in Nat \ {0}
      BY <2>1, LenProperties DEF BackupInv, Written, Stack, Listing
    <2>3. PICK o \in 1..Len(files) : files[o] = f
      BY <2>2 DEF ToSet
    <2>4. \E i \in 1..Len(files') : files'[i].name = f.name
      <3>1. CASE f.name = n
        <4>1. files'[1].name = n /\ 1 \in 1..Len(files')
          BY <2>1, <2>2 DEF Written
        <4>2. QED
          BY <3>1, <4>1
      <3>2. CASE f.name # n
        <4>1. PICK i \in 2..Len(files') : files'[i] = files[o]
          BY <2>1, <2>3, <3>2 DEF Written
        <4>2. i \in 1..Len(files')
          BY <2>2, <4>1
        <4>3. QED
          BY <2>3, <4>1, <4>2
      <3>3. QED
        BY <3>1, <3>2
    <2>5. QED
      BY <2>2, <2>4 DEF ToSet
  <1>2. CASE UNCHANGED files
    BY <1>2
  <1>3. ASSUME NEW m \in Makers, BeginArchive(m) PROVE f.name \in {g.name : g \in ToSet(files')}
    <2>1. today \in 0..LastDay /\ today <= today
      BY Times DEF BackupInv
    <2>2. QED
      BY <1>1, <1>3, <2>1 DEF BeginArchive
  <1>4. ASSUME NEW m \in Makers, FinishArchive(m) PROVE f.name \in {g.name : g \in ToSet(files')}
    <2>1. making[m].began \in 0..LastDay /\ making[m].began <= today
      BY Times DEF BackupInv, RequestsOK
    <2>2. PICK whole \in BOOLEAN, database \in BOOLEAN :
            Writes(making[m].began, whole, database)
      BY <1>4 DEF FinishArchive
    <2>3. QED
      BY <1>1, <1>4, <2>1, <2>2 DEF FinishArchive
  <1>5. QED
    BY <1>2, <1>3, <1>4
       DEF BackupNext, NextDay, ListArchives, ArchiveCreated, MakerFails,
           BeginDrill, InspectArchive, SaveDrill

\* However many requests prune at once, from however old a listing, what they
\* delete is too old, has enough newer archives before it and, as long as no two
\* wrote to one name, a whole one among them.
THEOREM RetentionHolds == BackupSpec => RetentionKeepsNewest
  <1> DEFINE Allowed ==
    \A f \in ToSet(files) :
      f.name \notin {g.name : g \in ToSet(files')} =>
        /\ f.at + Days < today
        /\ \E i \in DOMAIN files :
             /\ files[i] = f /\ i > Copies
             /\ clashed = {} => \E j \in 1..(i - 1) : files[j].whole
  <1>1. BackupInv /\ [BackupNext]_backupVars => [Allowed]_backupVars
    <2>1. SUFFICES ASSUME BackupInv, BackupNext PROVE Allowed
      OBVIOUS
    <2>2. CASE \E p \in Makers : PruneOne(p)
      BY <2>1, <2>2, PruneIsAllowed
    <2>3. CASE ~\E p \in Makers : PruneOne(p)
      BY <2>1, <2>3, NamesStay
    <2>4. QED
      BY <2>2, <2>3
  <1>2. QED
    BY <1>1, BackupInvariant, PTL DEF BackupSpec, RetentionKeepsNewest

-----------------------------------------------------------------------------
(* The trust in sources.  Quotients. *)

LEMMA Quotient ==
  ASSUME NEW a \in Nat, NEW p \in Nat \ {0}
  PROVE  a \div p \in Nat /\ p * (a \div p) <= a /\ a < p * (a \div p) + p
  OBVIOUS

LEMMA QuotientsCompared ==
  ASSUME NEW a \in Nat, NEW b \in Nat, NEW p \in Nat \ {0}, NEW q \in Nat \ {0},
         NEW x \in Nat, NEW y \in Nat, p * x <= a, b < q * y + q, a * q <= b * p
  PROVE  x <= y
  OBVIOUS

LEMMA QuotientGrows ==
  ASSUME NEW a \in Nat, NEW b \in Nat, NEW p \in Nat \ {0}, NEW q \in Nat \ {0},
         a * q <= b * p
  PROVE  a \div p <= b \div q
  <1>1. PICK x \in Nat : x = a \div p /\ p * x <= a
    BY Quotient
  <1>2. PICK y \in Nat : y = b \div q /\ b < q * y + q
    BY Quotient
  <1>3. x <= y
    BY <1>1, <1>2, QuotientsCompared
  <1>4. QED
    BY <1>1, <1>2, <1>3

LEMMA QuotientBounded ==
  ASSUME NEW a \in Nat, NEW p \in Nat \ {0}, NEW m \in Nat, a <= m * p
  PROVE  a \div p \in 0..m
  <1>1. a \div p \in Nat /\ p * (a \div p) <= a
    BY Quotient
  <1>2. PICK x \in Nat : x = a \div p /\ p * x <= m * p
    BY <1>1
  <1>3. x <= m
    BY <1>2
  <1>4. QED
    BY <1>2, <1>3

LEMMA CutOffType ==
  ASSUME NEW a \in Int, NEW p \in Nat \ {0}, NEW m \in Nat, a <= m * p, -a <= m * p
  PROVE  CutOff(a, p) \in Int /\ CutOff(a, p) <= m /\ -m <= CutOff(a, p)
  <1>1. CASE a >= 0
    <2>1. a \div p \in 0..m
      BY <1>1, QuotientBounded
    <2>2. QED
      BY <1>1, <2>1 DEF CutOff
  <1>2. CASE ~(a >= 0)
    <2>1. PICK b \in Nat : b = -a
      BY <1>2
    <2>2. b \div p \in 0..m
      BY <2>1, QuotientBounded
    <2>3. CutOff(a, p) = -(b \div p)
      BY <1>2, <2>1 DEF CutOff
    <2>4. QED
      BY <2>2, <2>3
  <1>3. QED
    BY <1>1, <1>2

LEMMA CutOffInt ==
  ASSUME NEW a \in Int, NEW p \in Nat \ {0}
  PROVE  CutOff(a, p) \in Int
  <1>1. CASE a >= 0
    BY <1>1, Quotient DEF CutOff
  <1>2. CASE ~(a >= 0)
    <2>1. PICK b \in Nat : b = -a
      BY <1>2
    <2>2. b \div p \in Nat /\ CutOff(a, p) = -(b \div p)
      BY <1>2, <2>1, Quotient DEF CutOff
    <2>3. QED
      BY <2>2
  <1>3. QED
    BY <1>1, <1>2

\* A smaller fraction is cut off to no larger an integer.
LEMMA CutOffGrows ==
  ASSUME NEW a \in Int, NEW b \in Int, NEW p \in Nat \ {0}, NEW q \in Nat \ {0},
         a * q <= b * p
  PROVE  CutOff(a, p) <= CutOff(b, q)
  <1>1. CASE a >= 0 /\ b >= 0
    <2>0. a \in Nat /\ b \in Nat
      BY <1>1
    <2>1. a \div p <= b \div q
      BY <2>0, QuotientGrows
    <2>2. QED
      BY <1>1, <2>1 DEF CutOff
  <1>2. CASE ~(a >= 0) /\ b >= 0
    <2>1. PICK c \in Nat : c = -a
      BY <1>2
    <2>2. c \div p \in Nat /\ b \div q \in Nat
      BY <1>2, Quotient
    <2>3. QED
      BY <1>2, <2>1, <2>2 DEF CutOff
  <1>3. CASE ~(a >= 0) /\ ~(b >= 0)
    <2>1. PICK c \in Nat : c = -a
      BY <1>3
    <2>2. PICK d \in Nat : d = -b
      BY <1>3
    <2>3. d * p <= c * q
      BY <2>1, <2>2
    <2>4. d \div q <= c \div p /\ d \div q \in Nat /\ c \div p \in Nat
      BY <2>3, QuotientGrows, Quotient
    <2>5. CutOff(a, p) = -(c \div p) /\ CutOff(b, q) = -(d \div q)
      BY <1>3, <2>1, <2>2 DEF CutOff
    <2>6. QED
      BY <2>4, <2>5
  <1>4. CASE a >= 0 /\ ~(b >= 0)
    <2>1. a * q >= 0 /\ b * p < 0
      BY <1>4
    <2>2. QED
      BY <2>1
  <1>5. QED
    BY <1>1, <1>2, <1>3, <1>4

-----------------------------------------------------------------------------
(* Labels, scores and rates. *)

Counts == [Labels -> Nat]

LEMMA CountsType ==
  ASSUME NEW l \in Counts
  PROVE  /\ l.helpful \in Nat /\ l.neutral \in Nat /\ l.negative \in Nat
         /\ Count(l) \in Nat /\ l.helpful - l.negative \in Int
         /\ l.helpful - l.negative <= Count(l) /\ -(l.helpful - l.negative) <= Count(l)
  <1>1. l.helpful \in Nat /\ l.neutral \in Nat /\ l.negative \in Nat
    BY DEF Counts, Labels
  <1>2. QED
    BY <1>1 DEF Count

LEMMA ScoreType ==
  ASSUME NEW l \in Counts
  PROVE  TrustScore(l) \in 0..100
  <1>1. CASE Count(l) = 0
    BY <1>1 DEF TrustScore
  <1>2. CASE Count(l) # 0
    <2>1. PICK d \in Int, n \in Nat \ {0} :
            d = l.helpful - l.negative /\ n = Count(l) /\ d <= n /\ -d <= n
      BY <1>2, CountsType
    <2>2. 50 * d \in Int /\ 50 * d <= 50 * n /\ -(50 * d) <= 50 * n
      BY <2>1
    <2>3. PICK c : c = CutOff(50 * d, n)
      OBVIOUS
    <2>4. c \in Int /\ c <= 50 /\ -50 <= c
      BY <2>2, <2>3, CutOffType
    <2>5. TrustScore(l) = 50 + c
      BY <1>2, <2>1, <2>3 DEF TrustScore
    <2>6. QED
      BY <2>4, <2>5
  <1>3. QED
    BY <1>1, <1>2

\* w is l with one more negative label, or with one label replaced by a worse one.
OneMoreNegative(l, w) ==
  Count(w) = Count(l) + 1 /\ w.helpful - w.negative = l.helpful - l.negative - 1
    /\ w.negative = l.negative + 1
OneReplaced(l, w) ==
  Count(w) = Count(l) /\ w.helpful - w.negative <= l.helpful - l.negative
    /\ w.negative >= l.negative

LEMMA WorseLabels ==
  ASSUME NEW l \in Counts, NEW w \in Worse(l)
  PROVE  w \in Counts /\ (OneMoreNegative(l, w) \/ (OneReplaced(l, w) /\ Count(l) # 0))
  <1>0. l.helpful \in Nat /\ l.neutral \in Nat /\ l.negative \in Nat
    BY CountsType
  <1>1. CASE w = [l EXCEPT !.negative = @ + 1]
    <2>1. /\ w \in Counts /\ w.negative = l.negative + 1
          /\ w.helpful = l.helpful /\ w.neutral = l.neutral
      BY <1>1, <1>0 DEF Counts, Labels
    <2>2. QED
      BY <2>1, <1>0 DEF OneMoreNegative, Count
  <1>2. CASE w = [l EXCEPT !["helpful"] = @ - 1, !["neutral"] = @ + 1] /\ l["helpful"] > 0
    <2>1. /\ w \in Counts /\ w.negative = l.negative
          /\ w.helpful = l.helpful - 1 /\ w.neutral = l.neutral + 1
      BY <1>2, <1>0 DEF Counts, Labels
    <2>2. QED
      BY <1>2, <2>1, <1>0 DEF OneReplaced, Count
  <1>3. CASE w = [l EXCEPT !["helpful"] = @ - 1, !["negative"] = @ + 1] /\ l["helpful"] > 0
    <2>1. /\ w \in Counts /\ w.negative = l.negative + 1
          /\ w.helpful = l.helpful - 1 /\ w.neutral = l.neutral
      BY <1>3, <1>0 DEF Counts, Labels
    <2>2. QED
      BY <1>3, <2>1, <1>0 DEF OneReplaced, Count
  <1>4. CASE w = [l EXCEPT !["neutral"] = @ - 1, !["negative"] = @ + 1] /\ l["neutral"] > 0
    <2>1. /\ w \in Counts /\ w.negative = l.negative + 1
          /\ w.helpful = l.helpful /\ w.neutral = l.neutral - 1
      BY <1>4, <1>0 DEF Counts, Labels
    <2>2. QED
      BY <1>4, <2>1, <1>0 DEF OneReplaced, Count
  <1>5. QED
    BY <1>1, <1>2, <1>3, <1>4 DEF Worse

\* A worse source does not score higher: with one label more, too, the net share of
\* the helpful ones falls.
LEMMA NetShareFalls ==
  ASSUME NEW d \in Int, NEW n \in Nat, -d <= n
  PROVE  (50 * (d - 1)) * n <= (50 * d) * (n + 1)
  <1>1. (50 * (d - 1)) * n = (50 * d) * n - 50 * n
    OBVIOUS
  <1>2. (50 * d) * (n + 1) = (50 * d) * n + 50 * d
    OBVIOUS
  <1>3. QED
    BY <1>1, <1>2

LEMMA SameShareFalls ==
  ASSUME NEW d \in Int, NEW e \in Int, NEW n \in Nat, e <= d
  PROVE  (50 * e) * n <= (50 * d) * n
  OBVIOUS

LEMMA ScoreFalls ==
  ASSUME NEW l \in Counts, NEW w \in Worse(l)
  PROVE  TrustScore(w) <= TrustScore(l)
  <1>1. PICK d \in Int, n \in Nat :
          d = l.helpful - l.negative /\ n = Count(l) /\ d <= n /\ -d <= n
    BY CountsType
  <1>2. PICK e \in Int, m \in Nat : e = w.helpful - w.negative /\ m = Count(w)
    BY WorseLabels, CountsType
  <1>3. m # 0 /\ (n = 0 => m = n + 1 /\ e = d - 1) /\ ((m = n + 1 /\ e = d - 1) \/ (m = n /\ e <= d))
    BY <1>1, <1>2, WorseLabels DEF OneMoreNegative, OneReplaced
  <1>4. CASE n = 0
    <2>1. TrustScore(l) = 50
      BY <1>1, <1>4 DEF TrustScore
    <2>2. d = 0 /\ e = -1 /\ m = 1
      BY <1>1, <1>3, <1>4
    <2>3. 50 * e \in Int /\ (50 * e) * 1 <= 0 * m
      BY <2>2
    <2>4. CutOff(50 * e, m) <= CutOff(0, 1) /\ CutOff(50 * e, m) \in Int
      BY <1>3, <2>3, CutOffGrows, CutOffInt
    <2>5. CutOff(0, 1) = 0
      BY QuotientBounded DEF CutOff
    <2>6. TrustScore(w) = 50 + CutOff(50 * e, m)
      BY <1>2, <1>3 DEF TrustScore
    <2>7. QED
      BY <2>1, <2>4, <2>5, <2>6
  <1>5. CASE n # 0
    <2>1. (50 * e) * n <= (50 * d) * m
      BY <1>1, <1>3, NetShareFalls, SameShareFalls
    <2>2. CutOff(50 * e, m) <= CutOff(50 * d, n)
      BY <1>3, <1>5, <2>1, CutOffGrows
    <2>3. TrustScore(w) = 50 + CutOff(50 * e, m) /\ TrustScore(l) = 50 + CutOff(50 * d, n)
      BY <1>1, <1>2, <1>3, <1>5 DEF TrustScore
    <2>4. m \in Nat \ {0} /\ n \in Nat \ {0} /\ 50 * e \in Int /\ 50 * d \in Int
      BY <1>3, <1>5
    <2>5. CutOff(50 * e, m) \in Int /\ CutOff(50 * d, n) \in Int
      BY <2>4, CutOffInt
    <2>6. QED
      BY <2>2, <2>3, <2>5
  <1>6. QED
    BY <1>4, <1>5

\* The share of the negative labels does not fall.
LEMMA RateGrows ==
  ASSUME NEW l \in Counts, NEW w \in Worse(l), NEW percent \in 1..100,
         NegativeRate(l, percent)
  PROVE  NegativeRate(w, percent)
  <1>1. PICK g \in Nat, n \in Nat : g = l.negative /\ n = Count(l)
    BY CountsType
  <1>2. PICK h \in Nat, m \in Nat : h = w.negative /\ m = Count(w)
    BY WorseLabels, CountsType
  <1>3. 100 * g >= percent * n
    BY <1>1 DEF NegativeRate
  <1>4. percent * (n + 1) = percent * n + percent /\ percent * n \in Int
    OBVIOUS
  <1>5. (m = n + 1 /\ h = g + 1) \/ (m = n /\ h >= g)
    BY <1>1, <1>2, WorseLabels DEF OneMoreNegative, OneReplaced
  <1>6. 100 * h >= percent * m
    BY <1>3, <1>4, <1>5
  <1>7. QED
    BY <1>2, <1>6 DEF NegativeRate

-----------------------------------------------------------------------------
(* What is decided. *)

LEMMA NormalizedTypes ==
  ASSUME NEW p \in Policies
  PROVE  LET q == Normalized(p)
         IN /\ q.enabled \in BOOLEAN /\ q.minFeedback \in Int
            /\ q.observeMax \in Int /\ q.ignoreMax \in Int
            /\ q.moderate \in 1..100 /\ q.severe \in 1..100
  BY PoliciesAssumption DEF Normalized, OrDefault, RateOrDefault

LEMMA SeverityGrows ==
  ASSUME NEW l \in Counts, NEW w \in Worse(l), NEW p \in Policies
  PROVE  /\ Severity(l, Normalized(p)) \in 0..2 /\ Severity(w, Normalized(p)) \in 0..2
         /\ Severity(l, Normalized(p)) <= Severity(w, Normalized(p))
  <1>1. PICK q : q = Normalized(p)
    OBVIOUS
  <1>2. /\ q.enabled \in BOOLEAN /\ q.minFeedback \in Int
        /\ q.observeMax \in Int /\ q.ignoreMax \in Int
        /\ q.moderate \in 1..100 /\ q.severe \in 1..100
    BY <1>1, NormalizedTypes
  <1>3. /\ TrustScore(w) <= TrustScore(l) /\ TrustScore(l) \in Int /\ TrustScore(w) \in Int
    BY WorseLabels, ScoreFalls, ScoreType
  <1>4. EnoughLabels(l, q) => EnoughLabels(w, q)
    BY <1>2, WorseLabels, CountsType DEF EnoughLabels, OneMoreNegative, OneReplaced
  <1>5. /\ NegativeRate(l, q.severe) => NegativeRate(w, q.severe)
        /\ NegativeRate(l, q.moderate) => NegativeRate(w, q.moderate)
    BY <1>2, RateGrows
  <1>6. /\ TrustScore(l) <= q.ignoreMax => TrustScore(w) <= q.ignoreMax
        /\ TrustScore(l) < q.observeMax => TrustScore(w) < q.observeMax
    BY <1>2, <1>3
  <1>7. /\ Severity(l, q) \in 0..2 /\ Severity(w, q) \in 0..2
        /\ Severity(l, q) <= Severity(w, q)
    BY <1>4, <1>5, <1>6 DEF Severity
  <1>8. QED
    BY <1>1, <1>7

LEMMA SevererIsHarsher ==
  ASSUME NEW s \in 0..2, NEW t \in 0..2, s <= t, NEW decision \in Decisions
  PROVE  Rank(Downranked(decision, t)) <= Rank(Downranked(decision, s))
  <1>1. (s = 0 \/ s = 1 \/ s = 2) /\ (t = 0 \/ t = 1 \/ t = 2)
    OBVIOUS
  <1>2. CASE decision = "meeting"
    <2>1. Downranked(decision, t) = (IF t > 0 THEN "observe" ELSE "meeting")
      BY <1>2 DEF Downranked
    <2>2. Downranked(decision, s) = (IF s > 0 THEN "observe" ELSE "meeting")
      BY <1>2 DEF Downranked
    <2>3. QED
      BY <1>1, <2>1, <2>2 DEF Rank
  <1>3. CASE decision = "observe"
    <2>1. Downranked(decision, t) = (IF t = 2 THEN "ignore" ELSE "observe")
      BY <1>3 DEF Downranked
    <2>2. Downranked(decision, s) = (IF s = 2 THEN "ignore" ELSE "observe")
      BY <1>3 DEF Downranked
    <2>3. QED
      BY <1>1, <2>1, <2>2 DEF Rank
  <1>4. CASE decision = "ignore"
    <2>1. Downranked(decision, t) = "ignore" /\ Downranked(decision, s) = "ignore"
      BY <1>4 DEF Downranked
    <2>2. QED
      BY <2>1 DEF Rank
  <1>5. QED
    BY <1>2, <1>3, <1>4 DEF Decisions

TrustInv ==
  /\ labels \in Counts /\ Count(labels) <= MaxLabels /\ policy \in Policies

LEMMA TrustStart == TrustInit => TrustInv
  BY PoliciesAssumption DEF TrustInit, TrustInv, Counts, Labels, Count

LEMMA TrustStep == TrustInv /\ [TrustNext]_trustVars => TrustInv'
  <1>1. SUFFICES ASSUME TrustInv, TrustNext PROVE TrustInv'
    BY DEF TrustInv, trustVars
  <1>2. CASE SetsPolicy
    BY <1>1, <1>2 DEF TrustInv, SetsPolicy
  <1>3. ASSUME NEW new \in Labels, Count(labels) < MaxLabels,
               labels' = [labels EXCEPT ![new] = @ + 1], UNCHANGED policy
        PROVE  TrustInv'
    BY <1>1, <1>3, PoliciesAssumption DEF TrustInv, Counts, Labels, Count
  <1>4. ASSUME NEW new \in Labels, NEW old \in Labels \ {new}, labels[old] > 0,
               labels' = [labels EXCEPT ![old] = @ - 1, ![new] = @ + 1], UNCHANGED policy
        PROVE  TrustInv'
    BY <1>1, <1>4, PoliciesAssumption DEF TrustInv, Counts, Labels, Count
  <1>5. QED
    BY <1>1, <1>2, <1>3, <1>4 DEF TrustNext, GivesFeedback

LEMMA TrustInvariant == TrustSpec => []TrustInv
  BY TrustStart, TrustStep, PTL DEF TrustSpec

\* The labels stay within the bound of the model, and the score between 0 and 100.
THEOREM TrustTypes == TrustSpec => []TrustTypeOK
  <1>1. TrustInv => TrustTypeOK
    <2>1. SUFFICES ASSUME TrustInv PROVE TrustTypeOK
      OBVIOUS
    <2>2. labels \in [Labels -> 0..MaxLabels]
      BY <2>1, PoliciesAssumption DEF TrustInv, Counts, Labels, Count
    <2>3. QED
      BY <2>1, <2>2, ScoreType DEF TrustTypeOK, TrustInv
  <1>2. QED
    BY <1>1, TrustInvariant, PTL

\* However many labels a source has and whatever policy is stored, a worse label never
\* makes the final decision on its messages milder.
THEOREM NegativeHardens == TrustSpec => []NegativeNeverSoftens
  <1>1. TrustInv => NegativeNeverSoftens
    <2>1. SUFFICES ASSUME TrustInv, NEW worse \in Worse(labels), NEW decision \in Decisions
                   PROVE  Rank(Downranked(decision, Severity(worse, Normalized(policy))))
                            <= Rank(Downranked(decision, Severity(labels, Normalized(policy))))
      BY DEF NegativeNeverSoftens
    <2>2. QED
      BY <2>1, SeverityGrows, SevererIsHarsher DEF TrustInv
  <1>2. QED
    BY <1>1, TrustInvariant, PTL

-----------------------------------------------------------------------------
(* The services together.  A behaviour exercises one of them; the others      *)
(* stand still, which their specifications allow.  The listeners' lease is    *)
(* that of the bot's processes: a behaviour that exercises the listeners      *)
(* leaves the rest of the bot as it was at the start.                         *)

LEMMA EachServiceSteps ==
  [Next]_serviceVars
    => /\ [BudgetNext]_budgetVars /\ [BackupNext]_backupVars
       /\ [TrustNext]_trustVars /\ [TeamsNext]_teamVars
       /\ UNCHANGED service
  BY DEF Next, Listener, Bot, Budget, Backup, Trust, TeamRequests, serviceVars

LEMMA ListenersStep ==
  service = "listener" /\ [Next]_serviceVars
    => [LeaseNext]_leaseVars /\ UNCHANGED botOwnVars
  BY DEF Next, Listener, Bot, Budget, Backup, Trust, TeamRequests, serviceVars, botVars,
         botOwnVars

LEMMA OtherServicesStep ==
  service # "listener" /\ [Next]_serviceVars => [BotNext]_botVars
  BY DEF Next, Listener, Bot, Budget, Backup, Trust, TeamRequests, serviceVars

\* Together, every service follows the specification of its own component:
\* none can be brought into a state it would not reach alone.
THEOREM ServicesFollow ==
  Spec => /\ BudgetSpec /\ BackupSpec /\ TrustSpec /\ TeamsSpec
          /\ service = "listener" => LeaseSpec
          /\ service # "listener" => BotSpec
  <1>1. Init => BudgetInit /\ BackupInit /\ TrustInit /\ TeamsInit /\ BotInit /\ LeaseInit
    BY DEF Init, BotInit
  <1>2. service = "listener" /\ [Next]_serviceVars
          => (service = "listener")' /\ [LeaseNext]_leaseVars
    BY EachServiceSteps, ListenersStep
  <1>3. service # "listener" /\ [Next]_serviceVars
          => (service # "listener")' /\ [BotNext]_botVars
    BY EachServiceSteps, OtherServicesStep
  <1>4. QED
    BY <1>1, <1>2, <1>3, EachServiceSteps, PTL
       DEF Spec, BudgetSpec, BackupSpec, TrustSpec, TeamsSpec, LeaseSpec, BotSpec

\* What the bot is left at while the listeners are exercised.
BotRests ==
  /\ sent = 0 /\ confirmed = 1 /\ offset = 0
  /\ poll = [p \in Listeners |-> NoPoll]
  /\ meetings = [u \in Updates |-> 0] /\ answered = {} /\ overruns = 0

LEMMA BotStaysAtRest == Spec /\ service = "listener" => []BotRests
  <1>1. Init => BotRests
    BY DEF Init, BotInit, BotRests
  <1>2. service = "listener" /\ BotRests /\ [Next]_serviceVars
          => (service = "listener")' /\ BotRests'
    BY EachServiceSteps, ListenersStep DEF botOwnVars, BotRests
  <1>3. QED
    BY <1>1, <1>2, PTL DEF Spec

BotSound == BotTypeOK /\ LeaseHonoured /\ CommandsKept /\ RepeatsBounded

LEMMA BotStaysSound == Spec => []BotSound
  <1>1. BotRests /\ LeaseTypeOK /\ LeaseHonoured => BotSound
    <2> SUFFICES ASSUME BotRests, LeaseTypeOK, LeaseHonoured PROVE BotSound
      OBVIOUS
    <2>1. BotTypeOK
      BY UpdatesAssumption DEF BotRests, BotTypeOK
    <2>2. CommandsKept
      BY UpdatesAssumption DEF BotRests, CommandsKept, Updates, Larger
    <2>3. RepeatsBounded
      BY LeaseAssumption DEF BotRests, RepeatsBounded, LeaseTypeOK
    <2>4. QED
      BY <2>1, <2>2, <2>3 DEF BotSound
  <1>2. BotSpec => []BotSound
    <2>1. RepeatInv => LeaseInv
      BY DEF RepeatInv, PollsOK
    <2>2. LeaseInv => LeaseHonoured
      BY LeaseAssumption DEF LeaseInv, LeaseTypeOK, GrantsCovered, LeaseHonoured
    <2>3. BotTypeOK /\ LeaseHonoured /\ CommandsKept /\ RepeatsBounded => BotSound
      BY DEF BotSound
    <2>4. QED
      BY <2>1, <2>2, <2>3, RepeatInvariant, BotTypes, BotKeepsCommands, BotRepeatsBounded, PTL
  <1>3. service = "listener" \/ service # "listener"
    OBVIOUS
  <1>4. QED
    BY <1>1, <1>2, <1>3, ServicesFollow, BotStaysAtRest, LeaseTypes, LeaseHolds, PTL

\* The state of all services stays within its types.
THEOREM ServicesTypes == Spec => []TypeOK
  <1>1. /\ BotSound /\ BudgetTypeOK /\ BackupTypeOK /\ TrustTypeOK /\ TeamsTypeOK
        => TypeOK
    BY DEF TypeOK, BotSound
  <1>2. QED
    BY <1>1, ServicesFollow, BotStaysSound, BudgetTypes, BackupTypes, TrustTypes, TeamsTypes, PTL

\* What each service promises holds of all of them together: a listener within
\* its grant owns the lease, no command is lost or repeated without a reason,
\* the budget's overrun has its bound, drilled archives read back, negative
\* labels never raise a source, the teams are sound and the newest archives stay.
THEOREM ServicesKeepPromises ==
  Spec => /\ [](/\ LeaseHonoured /\ CommandsKept /\ RepeatsBounded /\ OverrunBounded
                /\ DrilledReadsBack /\ NegativeNeverSoftens /\ TeamsSound)
          /\ RetentionKeepsNewest
  <1>1. BotSound => LeaseHonoured /\ CommandsKept /\ RepeatsBounded
    BY DEF BotSound
  <1>2. QED
    BY <1>1, ServicesFollow, BotStaysSound, OverrunHasBound, DrilledIsWhole, NegativeHardens,
       TeamsStaySound, RetentionHolds, PTL
=============================================================================
