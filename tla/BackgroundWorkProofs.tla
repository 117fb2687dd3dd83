------------------------ MODULE BackgroundWorkProofs ------------------------
(* Proofs about BackgroundWork, for any plans, clients, lists of jobs, slots  *)
(* and limits: a plan opens one meeting each time it is made active, and no   *)
(* meeting opens but for a plan that is active, and due if the evaluation     *)
(* fires it; on SQLite always, on PostgreSQL but for the saves that write an  *)
(* older copy of a plan over a newer one.                                     *)
EXTENDS BackgroundWork, CollectionFacts, TLAPS

-----------------------------------------------------------------------------
(* The inductive invariant.  A task that is known, waits to be enqueued or is *)
(* in the list recovery reads is about a meeting that was opened: a meeting   *)
(* that starts to run was counted when its plan fired.  And what an open      *)
(* transaction found about its plan holds until another overtakes it.         *)

PlanStatus == {"none", "active", "paused", "fired", "cancelled", "deleted"}
MeetingStatus == {"none", "queued", "running", "done"}

Opened(m) == m \in Meetings /\ meeting[m] # "none"

PlansPart ==
  /\ status \in [Plans -> PlanStatus] /\ activations \in [Plans -> Nat]
  /\ meeting \in [Meetings -> MeetingStatus]
  /\ opened \in Seq(Meetings)
  /\ \A i \in DOMAIN opened : Opened(opened[i])
  /\ overwritten \in [Plans -> Nat] /\ isolation \in {"postgres", "sqlite"}
  /\ isolation = "sqlite" => \A p \in Plans : overwritten[p] = 0

TasksPart ==
  /\ task \in [Tasks -> {"none", "pending", "active", "retry", "completed"}]
  /\ \A m \in Meetings : task[m] # "none" => Opened(m)
  /\ toDispatch = NoMeeting \/ Opened(toDispatch)
  /\ \A m \in answering : Opened(m)

TxType ==
  tx \in [Holders -> [op : {"none", "check", "edit", "fire"}, plan : Plans \cup {<<>>},
                     due : BOOLEAN, bad : BOOLEAN, behind : BOOLEAN]]

ReadHolds(h) ==
  /\ tx[h].plan \in Plans
  /\ ~tx[h].behind => Exists(tx[h].plan)
  /\ ~tx[h].behind =>
       /\ tx[h].op \in {"check", "fire"} => status[tx[h].plan] = "active"
       /\ tx[h].op = "check" => tx[h].plan \in due

TxPart == TxType /\ \A h \in Holders : IsOpen(h) => ReadHolds(h)

\* What FiredOncePerActivation says, without a look at the database.
MeetingsCounted ==
  \A p \in Plans :
    Cardinality(MeetingsOf(p)) + (IF status[p] = "active" THEN 1 ELSE 0)
      <= activations[p] + overwritten[p]

FireInv == PlansPart /\ TasksPart /\ TxPart /\ MeetingsCounted

\* What a step may do to the meetings: opened ones stay so.
MeetingsStay == \A m \in Meetings : Opened(m) => Opened(m)'

LEMMA MeetingsAreTasks == Meetings \subseteq Tasks
  BY BackgroundAssumption DEF Tasks

LEMMA MeetingsFinite ==
  ASSUME NEW p
  PROVE  /\ IsFiniteSet(MeetingsOf(p)) /\ Cardinality(MeetingsOf(p)) \in Nat
         /\ MeetingsOf(p) \subseteq Meetings
  <1>1. IsFiniteSet(1..MaxMeetings)
    BY FS_Interval, PlansAssumption
  <1>2. IsFiniteSet(Meetings)
    BY <1>1, FS_Product, PlansAssumption DEF Meetings
  <1>3. MeetingsOf(p) \in SUBSET Meetings
    BY DEF MeetingsOf
  <1>4. QED
    BY <1>2, <1>3, FS_Subset, FS_CardinalityType

-----------------------------------------------------------------------------
(* What happens to plans and meetings. *)

\* What MeetingsCounted says of one plan.
Counted(q) ==
  /\ Cardinality(MeetingsOf(q)) \in Nat /\ activations[q] \in Nat /\ overwritten[q] \in Nat
  /\ Cardinality(MeetingsOf(q)) + (IF status[q] = "active" THEN 1 ELSE 0)
       <= activations[q] + overwritten[q]

\* A save of the row of p, from a copy that was not the last if stale.
Saved(p, stale) ==
  /\ overwritten' = IF stale THEN [overwritten EXCEPT ![p] = @ + 1] ELSE overwritten
  /\ isolation' = isolation /\ (isolation = "sqlite" => ~stale)

LEMMA EachCounted ==
  ASSUME PlansPart, MeetingsCounted, NEW q \in Plans
  PROVE  Counted(q)
  BY MeetingsFinite DEF PlansPart, MeetingsCounted, Counted

\* A plan's row changes its status, by a request; the meetings stay.
LEMMA StatusKeepsPlans ==
  ASSUME PlansPart, MeetingsCounted, NEW p \in Plans, NEW s \in PlanStatus,
         Becomes(p, s), NEW stale \in BOOLEAN, Saved(p, stale), UNCHANGED <<meeting, opened>>
  PROVE  PlansPart' /\ MeetingsCounted' /\ MeetingsStay
  <1>1. PlansPart' /\ MeetingsStay
    BY DEF PlansPart, Becomes, Opened, MeetingsStay, Saved
  <1>2. ASSUME NEW q \in Plans
        PROVE  Cardinality(MeetingsOf(q))' + (IF status'[q] = "active" THEN 1 ELSE 0)
                 <= activations'[q] + overwritten'[q]
    <2>1. MeetingsOf(q)' = MeetingsOf(q)
      BY DEF MeetingsOf
    <2>2. Counted(q)
      BY EachCounted
    <2>3. QED
      BY <2>1, <2>2 DEF Becomes, PlansPart, Counted, Saved
  <1>3. QED
    BY <1>1, <1>2 DEF MeetingsCounted

\* A plan's row is written, deleted or left; only an old copy makes it active.
LEMMA WriteKeepsPlans ==
  ASSUME PlansPart, MeetingsCounted, NEW p \in Plans, NEW s \in PlanStatus,
         NEW stale \in BOOLEAN, Saved(p, stale), ~stale /\ s = "active" => status[p] = "active",
         status' = [status EXCEPT ![p] = s], UNCHANGED <<meeting, opened, activations>>
  PROVE  PlansPart' /\ MeetingsCounted' /\ MeetingsStay
  <1>1. PlansPart' /\ MeetingsStay
    BY DEF PlansPart, Opened, MeetingsStay, Saved
  <1>2. ASSUME NEW q \in Plans
        PROVE  Cardinality(MeetingsOf(q))' + (IF status'[q] = "active" THEN 1 ELSE 0)
                 <= activations'[q] + overwritten'[q]
    <2>1. MeetingsOf(q)' = MeetingsOf(q)
      BY DEF MeetingsOf
    <2>2. Counted(q)
      BY EachCounted
    <2>3. QED
      BY <2>1, <2>2 DEF PlansPart, Counted, Saved
  <1>3. QED
    BY <1>1, <1>2 DEF MeetingsCounted

\* A plan fires: one meeting more, and nothing left to fire or an old copy saved.
LEMMA FireKeepsPlans ==
  ASSUME PlansPart, MeetingsCounted, NEW h, tx[h].behind \in BOOLEAN,
         ~tx[h].behind => status[tx[h].plan] = "active",
         isolation = "sqlite" => ~tx[h].behind, firePlan(h), NEW m, m = NextMeeting(tx[h].plan)
  PROVE  /\ PlansPart' /\ MeetingsCounted' /\ MeetingsStay
         /\ m \in Meetings /\ meeting'[m] # "none"
  <1>0. PICK p : p = tx[h].plan
    OBVIOUS
  <1>1. m \in Meetings /\ p \in Plans /\ m[1] = p
    BY <1>0 DEF firePlan, NextMeeting, Meetings
  <1>2. /\ meeting' = [meeting EXCEPT ![m] = "queued"] /\ opened' = Append(opened, m)
        /\ status' = [status EXCEPT ![p] = "fired"] /\ activations' = activations
        /\ Saved(p, tx[h].behind)
    BY <1>0 DEF firePlan, StatusAfterFire, Save, Overtake, Saved
  <1>3. MeetingsStay /\ meeting'[m] = "queued"
    BY <1>1, <1>2 DEF MeetingsStay, Opened, PlansPart
  <1>4. PlansPart'
    <2>1. opened' \in Seq(Meetings)
      BY <1>1, <1>2 DEF PlansPart
    <2>2. \A i \in DOMAIN opened' : \/ i \in DOMAIN opened /\ opened'[i] = opened[i]
                                    \/ opened'[i] = m
      BY <1>1, <1>2 DEF PlansPart
    <2>3. \A i \in DOMAIN opened' : opened'[i] \in Meetings /\ meeting'[opened'[i]] # "none"
      BY <2>2, <1>1, <1>3 DEF PlansPart, MeetingsStay, Opened
    <2>4. QED
      BY <1>1, <1>2, <2>1, <2>3 DEF PlansPart, PlanStatus, MeetingStatus, Opened, Saved
  <1>5. ASSUME NEW q \in Plans
        PROVE  Cardinality(MeetingsOf(q))' + (IF status'[q] = "active" THEN 1 ELSE 0)
                 <= activations'[q] + overwritten'[q]
    <2>1. Counted(q)
      BY EachCounted
    <2>2. CASE q = p
      <3>1. MeetingsOf(p)' = MeetingsOf(p) \cup {m}
        BY <1>1, <1>2 DEF MeetingsOf, PlansPart
      <3>2. Cardinality(MeetingsOf(p) \cup {m}) <= Cardinality(MeetingsOf(p)) + 1
        <4>1. IsFiniteSet(MeetingsOf(p)) /\ Cardinality(MeetingsOf(p)) \in Nat
          BY MeetingsFinite
        <4>2. Cardinality(MeetingsOf(p) \cup {m})
                = IF m \in MeetingsOf(p) THEN Cardinality(MeetingsOf(p))
                  ELSE Cardinality(MeetingsOf(p)) + 1
          BY <4>1, FS_AddElement, Zenon
        <4>3. QED
          BY <4>1, <4>2
      <3>3. Cardinality(MeetingsOf(p)') = Cardinality(MeetingsOf(p) \cup {m})
        BY <3>1
      <3>4. Cardinality(MeetingsOf(p)') \in Nat
        BY <3>3, FS_AddElement, MeetingsFinite, FS_CardinalityType
      <3>5. /\ status'[p] = "fired"
            /\ overwritten'[p] + (IF status[p] = "active" THEN 1 ELSE 0)
                 >= overwritten[p] + 1
        BY <1>0, <1>1, <1>2 DEF PlansPart, Saved
      <3>6. overwritten'[p] \in Nat
        BY <1>1, <1>4 DEF PlansPart
      <3>7. QED
        BY <1>2, <2>1, <2>2, <3>2, <3>3, <3>4, <3>5, <3>6 DEF Counted
    <2>3. CASE q # p
      <3>1. MeetingsOf(q)' = MeetingsOf(q)
        BY <1>1, <1>2, <2>3 DEF MeetingsOf, PlansPart
      <3>2. QED
        BY <2>1, <2>3, <3>1, <1>2 DEF PlansPart, Counted, Saved
    <2>4. QED
      BY <2>2, <2>3
  <1>6. QED
    BY <1>1, <1>3, <1>4, <1>5 DEF MeetingsCounted

\* A meeting that was opened runs or is over: no plan counts one more.
LEMMA RunKeepsPlans ==
  ASSUME PlansPart, MeetingsCounted, NEW m \in Meetings, Opened(m),
         NEW s \in MeetingStatus \ {"none"}, meeting' = [meeting EXCEPT ![m] = s],
         UNCHANGED <<status, opened, activations, overwritten, isolation>>
  PROVE  PlansPart' /\ MeetingsCounted' /\ MeetingsStay
  <1>1. \A k \in Meetings : meeting'[k] # "none" <=> meeting[k] # "none"
    BY DEF PlansPart, Opened
  <1>2. PlansPart' /\ MeetingsStay
    BY <1>1 DEF PlansPart, Opened, MeetingsStay
  <1>3. \A q : MeetingsOf(q)' = MeetingsOf(q)
    BY <1>1 DEF MeetingsOf
  <1>4. QED
    BY <1>2, <1>3 DEF MeetingsCounted

\* The order of the plans and what is due are no part of the invariant.
LEMMA OrderKeepsPlans ==
  ASSUME PlansPart, MeetingsCounted,
         UNCHANGED <<status, meeting, opened, activations, overwritten, isolation>>
  PROVE  PlansPart' /\ MeetingsCounted' /\ MeetingsStay
  <1>1. \A q : MeetingsOf(q)' = MeetingsOf(q)
    BY DEF MeetingsOf
  <1>2. QED
    BY <1>1 DEF PlansPart, Opened, MeetingsStay, MeetingsCounted

-----------------------------------------------------------------------------
(* What happens to tasks. *)

\* Opened meetings are enqueued, and whatever else is known stays.
LEMMA EnqueueKeepsTasks ==
  ASSUME TasksPart, MeetingsStay, NEW S, \A m \in S \cap Meetings : Opened(m),
         task' = Enqueued(S)
  PROVE  /\ task' \in [Tasks -> {"none", "pending", "active", "retry", "completed"}]
         /\ \A m \in Meetings : task'[m] # "none" => Opened(m)'
  BY MeetingsAreTasks DEF TasksPart, MeetingsStay, Enqueued

\* A known task goes on in the queue, or its id becomes free.
LEMMA GoesOnKeepsTasks ==
  ASSUME TasksPart, MeetingsStay, NEW t, task[t] # "none",
         NEW s \in {"none", "pending", "active", "retry", "completed"},
         task' = [task EXCEPT ![t] = s]
  PROVE  /\ task' \in [Tasks -> {"none", "pending", "active", "retry", "completed"}]
         /\ \A m \in Meetings : task'[m] # "none" => Opened(m)'
  BY MeetingsAreTasks DEF TasksPart, MeetingsStay

\* Tasks that are known fail.
LEMMA FailedKeepsTasks ==
  ASSUME TasksPart, MeetingsStay, NEW S, \A t \in S : task[t] # "none", Failed(S)
  PROVE  /\ task' \in [Tasks -> {"none", "pending", "active", "retry", "completed"}]
         /\ \A m \in Meetings : task'[m] # "none" => Opened(m)'
  BY MeetingsAreTasks DEF TasksPart, MeetingsStay, Failed

\* The queue is left alone.
LEMMA QuietKeepsTasks ==
  ASSUME TasksPart, MeetingsStay, UNCHANGED task
  PROVE  /\ task' \in [Tasks -> {"none", "pending", "active", "retry", "completed"}]
         /\ \A m \in Meetings : task'[m] # "none" => Opened(m)'
  BY DEF TasksPart, MeetingsStay

\* What waits to be enqueued is opened, if it was or waits no longer.
LEMMA WaitersStay ==
  ASSUME TasksPart, MeetingsStay,
         toDispatch' \in {toDispatch, NoMeeting} \/ Opened(toDispatch)',
         \A m \in answering' : m \in answering \/ Opened(m)'
  PROVE  /\ toDispatch' = NoMeeting \/ Opened(toDispatch)'
         /\ \A m \in answering' : Opened(m)'
  BY DEF TasksPart, MeetingsStay, Opened

-----------------------------------------------------------------------------
(* What happens to transactions.                                             *)

\* Plans stay as they were, or come up: what was found still holds.
LEMMA QuietKeepsTx ==
  ASSUME TxPart, UNCHANGED <<status, tx>>, due \subseteq due'
  PROVE  TxPart'
  BY DEF TxPart, TxType, ReadHolds, IsOpen, Exists

\* A transaction begins, with a plan that is as it says.
LEMMA BeginKeepsTx ==
  ASSUME TxPart, NEW h \in Holders, NEW op \in {"check", "edit", "fire"}, NEW p \in Plans,
         Begin(h, op, p), Exists(p),
         op \in {"check", "fire"} => status[p] = "active", op = "check" => p \in due
  PROVE  TxPart'
  <1>1. UNCHANGED <<status, due>>
    BY DEF Begin, planVars, rowVars
  <1>2. \A g \in Holders : g # h => tx'[g] = tx[g]
    BY DEF Begin, TxPart, TxType
  <1>3. /\ tx'[h].op = op /\ tx'[h].plan = p /\ tx'[h].due \in BOOLEAN
        /\ tx'[h].bad \in BOOLEAN /\ tx'[h].behind = FALSE
    BY DEF Begin, TxPart, TxType
  <1>4. TxType'
    BY DEF Begin, TxPart, TxType
  <1>5. QED
    BY <1>1, <1>2, <1>3, <1>4 DEF TxPart, ReadHolds, IsOpen, Exists

\* A transaction ends, and has written nothing.
LEMMA CloseKeepsTx ==
  ASSUME TxPart, NEW h, tx' = [tx EXCEPT ![h] = NoTx], UNCHANGED planVars
  PROVE  TxPart'
  <1>1. UNCHANGED <<status, due>>
    BY DEF planVars, rowVars
  <1>2. \A g \in Holders : tx'[g] = tx[g] \/ tx'[g] = NoTx
    BY DEF TxPart, TxType
  <1>3. TxType'
    BY DEF TxPart, TxType, NoTx
  <1>4. QED
    BY <1>1, <1>2, <1>3 DEF TxPart, ReadHolds, IsOpen, Exists, NoTx

\* What is committed about a plan overtakes those that read it, and leaves what
\* the others found.
LEMMA CommitKeepsTx ==
  ASSUME TxPart, NEW S, NEW p, Overtake(S, p),
         \A q \in Plans : q # p => status'[q] = status[q], due \subseteq due' \cup {p}
  PROVE  TxPart'
  <1>1. ASSUME NEW g \in Holders
        PROVE  \/ g \in S /\ tx'[g] = NoTx
               \/ /\ tx'[g].op = tx[g].op /\ tx'[g].plan = tx[g].plan
                  /\ tx'[g].due = tx[g].due /\ tx'[g].bad = tx[g].bad
                  /\ tx'[g] \in [op : {"none", "check", "edit", "fire"},
                                 plan : Plans \cup {<<>>}, due : BOOLEAN, bad : BOOLEAN,
                                 behind : BOOLEAN]
                  /\ tx[g].behind => tx'[g].behind
                  /\ IsOpen(g) /\ (isolation = "sqlite" \/ tx[g].plan = p)
                       => tx'[g].behind
    BY DEF Overtake, TxPart, TxType
  <1>2. TxType'
    <2>1. \A g \in Holders :
            tx'[g] \in [op : {"none", "check", "edit", "fire"}, plan : Plans \cup {<<>>},
                       due : BOOLEAN, bad : BOOLEAN, behind : BOOLEAN]
      <3>1. NoTx \in [op : {"none", "check", "edit", "fire"}, plan : Plans \cup {<<>>},
                      due : BOOLEAN, bad : BOOLEAN, behind : BOOLEAN]
        BY DEF NoTx
      <3>2. QED
        BY <1>1, <3>1
    <2>2. tx' = [g \in Holders |-> tx'[g]]
      BY DEF Overtake
    <2>3. QED
      BY <2>1, <2>2 DEF TxType
  <1>3. ASSUME NEW g \in Holders, IsOpen(g)' PROVE ReadHolds(g)'
    <2>1. g \notin S \/ tx'[g] # NoTx
      BY <1>3 DEF IsOpen, NoTx
    <2>2. /\ tx'[g].plan = tx[g].plan /\ tx'[g].op = tx[g].op /\ IsOpen(g)
          /\ tx[g].behind => tx'[g].behind
          /\ isolation = "sqlite" \/ tx[g].plan = p => tx'[g].behind
      BY <1>1, <1>3, <2>1 DEF IsOpen, NoTx
    <2>3. ReadHolds(g)
      BY <2>2 DEF TxPart
    <2>4. tx[g].plan # p => status'[tx[g].plan] = status[tx[g].plan]
      BY <2>3 DEF ReadHolds
    <2>5. QED
      BY <2>2, <2>3, <2>4 DEF ReadHolds, Exists
  <1>4. QED
    BY <1>2, <1>3 DEF TxPart

-----------------------------------------------------------------------------
(* The order of the plans: each stands in it once, those that are due in front. *)

Ranked(q) == {q[i] : i \in 1..Len(q)}
Order(q, d, n) ==
  /\ q \in Seq(Plans) /\ n \in 0..Len(q)
  /\ \A i, j \in 1..Len(q) : q[i] = q[j] => i = j
  /\ d = {q[i] : i \in 1..n}

LEMMA OrderSize ==
  ASSUME NEW q, NEW d, NEW n, Order(q, d, n)
  PROVE  IsFiniteSet(d) /\ Cardinality(d) = n
  <1> DEFINE f == [i \in 1..n |-> q[i]]
  <1>1. n \in Nat /\ 1..n \subseteq 1..Len(q)
    BY LenProperties DEF Order
  <1>2. IsFiniteSet(1..n) /\ Cardinality(1..n) = n
    BY <1>1, FS_Interval
  <1>3. f \in Surjection(1..n, d)
    BY DEF Order, Surjection
  <1>4. f \in Injection(1..n, d)
    BY <1>1, <1>3 DEF Order, Surjection, Injection, IsInjective
  <1>5. QED
    BY <1>2, <1>3, <1>4, FS_Surjection

\* A plan goes.
LEMMA OrderWithout ==
  ASSUME NEW q, NEW d, NEW n, Order(q, d, n), NEW p
  PROVE  \E m : /\ Order(RemoveFirst(q, p), d \ {p}, m)
                /\ Ranked(RemoveFirst(q, p)) = Ranked(q) \ {p}
  <1>1. Len(q) \in Nat /\ n \in Nat /\ q \in Seq(Plans) /\ n <= Len(q)
    BY LenProperties DEF Order
  <1>2. CASE p \notin Ranked(q)
    <2>1. RemoveFirst(q, p) = q
      BY <1>2, RemoveFirstOfNone DEF Ranked
    <2>2. d \ {p} = d /\ Ranked(q) \ {p} = Ranked(q)
      BY <1>1, <1>2 DEF Order, Ranked
    <2>3. QED
      BY <2>1, <2>2
  <1>3. CASE p \in Ranked(q)
    <2>1. PICK k \in 1..Len(q) : q[k] = p
      BY <1>3 DEF Ranked
    <2>2. \A i \in 1..Len(q) : q[i] = p => i = k
      BY <2>1 DEF Order
    <2>3. PICK r : r = RemoveFirst(q, p)
      OBVIOUS
    <2>4. /\ r \in Seq(Plans) /\ Len(r) = Len(q) - 1
          /\ \A i \in 1..(Len(q) - 1) : r[i] = q[Skip(k, i)]
      <3>1. r = RemoveAt(q, k)
        BY <2>1, <2>2, <2>3, RemoveFirstIsRemoveAt
      <3>2. QED
        BY <1>1, <3>1, RemoveAtFacts
    <2>5. \A i \in 1..Len(r) : Skip(k, i) \in 1..Len(q) /\ r[i] = q[Skip(k, i)] /\ r[i] # p
      <3>1. ASSUME NEW i \in 1..Len(r)
            PROVE  Skip(k, i) \in 1..Len(q) /\ r[i] = q[Skip(k, i)] /\ Skip(k, i) # k
        BY <1>1, <2>4 DEF Skip
      <3>2. QED
        BY <2>2, <3>1
    <2>6. \A o \in 1..Len(q) : o # k => Back(k, o) \in 1..Len(r) /\ r[Back(k, o)] = q[o]
      <3>1. ASSUME NEW o \in 1..Len(q), o # k
            PROVE  Back(k, o) \in 1..Len(r) /\ Skip(k, Back(k, o)) = o
        BY <1>1, <2>4, <3>1 DEF Back, Skip
      <3>2. QED
        BY <2>5, <3>1
    <2>7. \A i, j \in 1..Len(r) : r[i] = r[j] => i = j
      <3>1. ASSUME NEW i \in 1..Len(r), NEW j \in 1..Len(r), r[i] = r[j] PROVE i = j
        <4>1. Skip(k, i) = Skip(k, j)
          BY <2>5, <3>1 DEF Order
        <4>2. QED
          BY <1>1, <2>4, <4>1 DEF Skip
      <3>2. QED
        BY <3>1
    <2>8. Ranked(r) = Ranked(q) \ {p}
      <3>1. Ranked(r) \subseteq Ranked(q) \ {p}
        BY <2>5 DEF Ranked
      <3>2. Ranked(q) \ {p} \subseteq Ranked(r)
        BY <2>1, <2>6 DEF Ranked
      <3>3. QED
        BY <3>1, <3>2
    <2>9. PICK m : m = IF k <= n THEN n - 1 ELSE n
      OBVIOUS
    <2>10. m \in 0..Len(r) /\ m \in Nat
      BY <1>1, <2>4, <2>9
    <2>11. d \ {p} = {r[i] : i \in 1..m}
      <3>1. ASSUME NEW i \in 1..m PROVE r[i] \in d \ {p}
        <4>1. i \in 1..Len(r) /\ Skip(k, i) \in 1..n
          BY <1>1, <2>4, <2>9, <2>10 DEF Skip
        <4>2. QED
          BY <2>5, <4>1 DEF Order
      <3>2. ASSUME NEW x \in d \ {p} PROVE \E i \in 1..m : r[i] = x
        <4>1. PICK o \in 1..n : q[o] = x
          BY DEF Order
        <4>2. o \in 1..Len(q) /\ o # k
          BY <1>1, <2>1, <4>1
        <4>3. Back(k, o) \in 1..m
          BY <1>1, <2>9, <4>1, <4>2 DEF Back
        <4>4. QED
          BY <2>6, <4>1, <4>2, <4>3
      <3>3. QED
        BY <3>1, <3>2
    <2>12. Order(r, d \ {p}, m)
      BY <2>4, <2>7, <2>10, <2>11 DEF Order
    <2>13. QED
      BY <2>3, <2>8, <2>12
  <1>4. QED
    BY <1>2, <1>3

\* A plan is put in, among those that are due or after them.
LEMMA OrderWith ==
  ASSUME NEW r, NEW e, NEW m, Order(r, e, m), NEW p \in Plans, p \notin Ranked(r),
         NEW k \in 1..(Len(r) + 1)
  PROVE  /\ Ranked(InsertAt(r, k, p)) = Ranked(r) \cup {p}
         /\ k <= m + 1 => Order(InsertAt(r, k, p), e \cup {p}, m + 1)
         /\ k > m => Order(InsertAt(r, k, p), e, m)
  <1>1. Len(r) \in Nat /\ m \in Nat /\ r \in Seq(Plans) /\ m <= Len(r)
    BY LenProperties DEF Order
  <1>2. PICK t : t = InsertAt(r, k, p)
    OBVIOUS
  <1>3. /\ t \in Seq(Plans) /\ Len(t) = Len(r) + 1 /\ t[k] = p
        /\ \A i \in 1..Len(r) : t[Skip(k, i)] = r[i]
        /\ \A j \in 1..(Len(r) + 1) : j # k => Back(k, j) \in 1..Len(r) /\ t[j] = r[Back(k, j)]
    BY <1>1, <1>2, InsertAtFacts, InsertedElements, SMTT(30)
  <1>4. \A i \in 1..Len(r) : r[i] # p
    BY DEF Ranked
  <1>5. \A i \in 1..Len(r) : Skip(k, i) \in 1..Len(t) /\ Skip(k, i) # k
    BY <1>1, <1>3 DEF Skip
  <1>6. \A i, j \in 1..Len(t) : t[i] = t[j] => i = j
    <2>1. ASSUME NEW i \in 1..Len(t), NEW j \in 1..Len(t), t[i] = t[j] PROVE i = j
      <3>1. CASE i = k \/ j = k
        BY <1>3, <1>4, <2>1, <3>1
      <3>2. CASE i # k /\ j # k
        <4>1. Back(k, i) = Back(k, j)
          BY <1>3, <2>1, <3>2 DEF Order
        <4>2. QED
          BY <1>1, <1>3, <3>2, <4>1 DEF Back
      <3>3. QED
        BY <3>1, <3>2
    <2>2. QED
      BY <2>1
  <1>7. Ranked(t) = Ranked(r) \cup {p}
    <2>1. Ranked(t) \subseteq Ranked(r) \cup {p}
      BY <1>3 DEF Ranked
    <2>2. k \in 1..Len(t)
      BY <1>3
    <2>3. Ranked(r) \cup {p} \subseteq Ranked(t)
      BY <1>3, <1>5, <2>2 DEF Ranked
    <2>4. QED
      BY <2>1, <2>3
  <1>8. ASSUME k <= m + 1 PROVE Order(t, e \cup {p}, m + 1)
    <2>1. m + 1 \in 0..Len(t)
      BY <1>1, <1>3
    <2>2. ASSUME NEW j \in 1..(m + 1) PROVE t[j] \in e \cup {p}
      <3>1. CASE j = k
        BY <1>3, <3>1
      <3>2. CASE j # k
        <4>1. j \in 1..(Len(r) + 1) /\ Back(k, j) \in 1..m
          BY <1>1, <1>8, <3>2 DEF Back
        <4>2. QED
          BY <1>3, <3>2, <4>1, SMTT(30) DEF Order
      <3>3. QED
        BY <3>1, <3>2
    <2>3. ASSUME NEW x \in e \cup {p} PROVE \E j \in 1..(m + 1) : t[j] = x
      <3>1. CASE x = p
        <4>1. k \in 1..(m + 1)
          BY <1>1, <1>8
        <4>2. QED
          BY <1>3, <3>1, <4>1
      <3>2. CASE x # p
        <4>1. PICK i \in 1..m : r[i] = x
          BY <3>2 DEF Order
        <4>2. i \in 1..Len(r) /\ Skip(k, i) \in 1..(m + 1)
          BY <1>1, <4>1 DEF Skip
        <4>3. QED
          BY <1>3, <4>1, <4>2
      <3>3. QED
        BY <3>1, <3>2
    <2>4. e \cup {p} = {t[j] : j \in 1..(m + 1)}
      BY <2>2, <2>3
    <2>5. QED
      BY <1>3, <1>6, <2>1, <2>4 DEF Order
  <1>9. ASSUME k > m PROVE Order(t, e, m)
    <2>1. m \in 0..Len(t)
      BY <1>1, <1>3
    <2>2. \A j \in 1..m : t[j] = r[j]
      <3>1. ASSUME NEW j \in 1..m PROVE t[j] = r[j]
        <4>1. j \in 1..(Len(r) + 1) /\ j # k /\ Back(k, j) = j
          BY <1>1, <1>9 DEF Back
        <4>2. QED
          BY <1>3, <4>1
      <3>2. QED
        BY <3>1
    <2>3. e = {t[j] : j \in 1..m}
      BY <2>2 DEF Order
    <2>4. QED
      BY <1>3, <1>6, <2>1, <2>3 DEF Order
  <1>10. QED
    BY <1>2, <1>7, <1>8, <1>9

OrderPart ==
  /\ \E n : Order(queue, due, n)
  /\ {p \in Plans : Exists(p)} = Ranked(queue)

LEMMA PlansScheduled ==
  ASSUME NEW n, Order(queue, due, n), NEW p \in Plans, NEW isDue \in BOOLEAN,
         Schedule(p, isDue)
  PROVE  /\ \E m : Order(queue', due', m)
         /\ Ranked(queue') = Ranked(queue) \cup {p}
  <1>1. PICK r : r = RemoveFirst(queue, p)
    OBVIOUS
  <1>2. PICK m : Order(r, due \ {p}, m) /\ Ranked(r) = Ranked(queue) \ {p}
    BY <1>1, OrderWithout
  <1>3. Cardinality(due \ {p}) = m /\ Len(r) \in Nat /\ m \in 0..Len(r)
    BY <1>2, OrderSize, LenProperties DEF Order
  <1>4. PICK k \in (IF isDue THEN 1..(m + 1) ELSE (m + 1)..(Len(r) + 1)) :
          queue' = InsertAt(r, k, p)
    BY <1>1, <1>3 DEF Schedule, Placed
  <1>5. k \in 1..(Len(r) + 1) /\ (isDue => k <= m + 1) /\ (~isDue => k > m)
    BY <1>3, <1>4
  <1>6. p \notin Ranked(r)
    BY <1>2
  <1>7. /\ Ranked(queue') = Ranked(r) \cup {p}
        /\ isDue => Order(queue', (due \ {p}) \cup {p}, m + 1)
        /\ ~isDue => Order(queue', due \ {p}, m)
    BY <1>2, <1>4, <1>5, <1>6, OrderWith
  <1>8. due' = IF isDue THEN (due \ {p}) \cup {p} ELSE due \ {p}
    BY DEF Schedule
  <1>9. QED
    BY <1>2, <1>7, <1>8

LEMMA OrderStart == Init => OrderPart
  <1>1. SUFFICES ASSUME Init PROVE OrderPart
    OBVIOUS
  <1>2. IsFiniteSet(OldPlans) /\ Cardinality(OldPlans) \in Nat
    BY PlansAssumption, FS_Subset, FS_CardinalityType
  <1>3. PICK n \in Nat : n = Cardinality(OldPlans)
    BY <1>2
  <1>4. queue \in [1..n -> OldPlans] /\ \A i, j \in 1..n : i # j => queue[i] # queue[j]
    BY <1>1, <1>3 DEF Init, WakeInit, SetToSeqs
  <1>5. queue \in Seq(OldPlans) /\ Len(queue) = n
    BY <1>3, <1>4
  <1>6. queue \in Injection(1..n, OldPlans)
    BY <1>4 DEF Injection, IsInjective
  <1>7. IsFiniteSet(1..n) /\ Cardinality(1..n) = n
    BY <1>3, FS_Interval
  <1>8. queue \in Surjection(1..n, OldPlans)
    BY <1>2, <1>3, <1>6, <1>7, FS_Injection
  <1>9. Ranked(queue) = OldPlans
    BY <1>5, <1>8 DEF Ranked, Surjection
  <1>10. Order(queue, due, 0)
    <2>1. queue \in Seq(Plans)
      BY <1>5, SeqMonotonic, PlansAssumption
    <2>2. due = {} /\ 0 \in 0..Len(queue)
      BY <1>1, <1>3, <1>5 DEF Init, WakeInit
    <2>3. QED
      BY <1>4, <1>5, <2>1, <2>2 DEF Order
  <1>11. {p \in Plans : Exists(p)} = OldPlans
    BY <1>1, PlansAssumption DEF Init, WakeInit, Exists
  <1>12. QED
    BY <1>9, <1>10, <1>11 DEF OrderPart

LEMMA DueArePlans ==
  ASSUME OrderPart
  PROVE  due \subseteq Plans
  <1>1. PICK n : Order(queue, due, n)
    BY DEF OrderPart
  <1>2. n \in 0..Len(queue) /\ Len(queue) \in Nat /\ queue \in Seq(Plans)
    BY <1>1, LenProperties DEF Order
  <1>3. \A i \in 1..n : i \in 1..Len(queue) /\ queue[i] \in Plans
    BY <1>2, ElementOfSeq
  <1>4. QED
    BY <1>1, <1>3 DEF Order

-----------------------------------------------------------------------------
(* Every step keeps the invariant. *)

\* Steps that leave the queue alone.
LEMMA TasksStay ==
  ASSUME FireInv, PlansPart', MeetingsCounted', TxPart', MeetingsStay,
         UNCHANGED task,
         toDispatch' \in {toDispatch, NoMeeting} \/ Opened(toDispatch)',
         \A m \in answering' : m \in answering \/ Opened(m)'
  PROVE  FireInv'
  <1>1. TasksPart'
    BY QuietKeepsTasks, WaitersStay DEF FireInv, TasksPart
  <1>2. QED
    BY <1>1 DEF FireInv

\* A save sets the next check of its own plan at most.
LEMMA RowKeepsDue ==
  ASSUME NEW h, KeepRow(h)
  PROVE  due \subseteq due' \cup {tx[h].plan}
  BY DEF KeepRow, Schedule, rowVars

\* A transaction that checked the status of its plan fires it.
LEMMA FiresActive ==
  ASSUME FireInv, NEW h \in Holders, NEW op \in {"check", "fire"}, Commits(h, op),
         firePlan(h), NEW m, m = NextMeeting(tx[h].plan)
  PROVE  /\ PlansPart' /\ MeetingsCounted' /\ TxPart' /\ MeetingsStay
         /\ m \in Meetings /\ meeting'[m] # "none"
  <1>1. /\ IsOpen(h) /\ ReadHolds(h) /\ (isolation = "sqlite" => ~tx[h].behind)
        /\ tx[h].behind \in BOOLEAN
    BY DEF Commits, Busy, IsOpen, FireInv, TxPart, TxType
  <1>2. ~tx[h].behind => status[tx[h].plan] = "active"
    BY <1>1 DEF Commits, ReadHolds
  <1>3. \A q \in Plans : q # tx[h].plan => status'[q] = status[q]
    BY DEF firePlan, FireInv, PlansPart
  <1>4. TxPart'
    BY <1>3, RowKeepsDue, CommitKeepsTx DEF firePlan, Save, FireInv
  <1>5. QED
    BY <1>1, <1>2, <1>4, FireKeepsPlans DEF FireInv

\* The transaction of the evaluation about the listed plan.
LEMMA ListedStep ==
  ASSUME FireInv, OrderPart, FindListed \/ TreatListed
  PROVE  FireInv'
  <1>0. Pass \in Holders /\ UNCHANGED <<task, answering>>
    BY DEF Holders, FindListed, TreatListed
  <1>1. CASE UNCHANGED wakeVars /\ UNCHANGED toDispatch
    <2>1. PlansPart' /\ MeetingsCounted' /\ MeetingsStay
      BY <1>1, OrderKeepsPlans DEF FireInv, wakeVars, planVars
    <2>2. TxPart'
      BY <1>1, QuietKeepsTx DEF FireInv, wakeVars, planVars, rowVars
    <2>3. QED
      BY <1>0, <1>1, <2>1, <2>2, TasksStay
  <1>2. ASSUME NEW p, CheckDue(p), UNCHANGED toDispatch PROVE FireInv'
    <2>1. PlansPart' /\ MeetingsCounted' /\ MeetingsStay
      BY <1>2, OrderKeepsPlans DEF FireInv, CheckDue, Begin, planVars
    <2>2. status[p] = "active" /\ p \in due
      BY <1>2 DEF CheckDue, StillDue
    <2>3. p \in Plans
      BY <2>2, DueArePlans
    <2>4. TxPart'
      BY <1>0, <1>2, <2>2, <2>3, BeginKeepsTx DEF FireInv, CheckDue, Exists
    <2>5. QED
      BY <1>0, <1>2, <2>1, <2>4, TasksStay
  <1>3. CASE FireDue /\ toDispatch' = NextMeeting(Checked)
    <2>1. PICK m : m = NextMeeting(tx[Pass].plan)
      OBVIOUS
    <2>2. Commits(Pass, "check") /\ firePlan(Pass)
      BY <1>3 DEF FireDue
    <2>3. /\ PlansPart' /\ MeetingsCounted' /\ TxPart' /\ MeetingsStay
          /\ m \in Meetings /\ meeting'[m] # "none"
      BY <1>0, <2>1, <2>2, FiresActive
    <2>4. toDispatch' = m
      BY <1>3, <2>1 DEF Checked
    <2>5. Opened(toDispatch)'
      BY <2>3, <2>4 DEF Opened
    <2>6. QED
      BY <1>0, <2>3, <2>5, TasksStay
  <1>4. CASE (RescheduleDue \/ cancelInvalidPlan) /\ UNCHANGED toDispatch
    <2>1. /\ IsOpen(Pass) /\ ReadHolds(Pass) /\ (isolation = "sqlite" => ~tx[Pass].behind)
          /\ tx[Pass].behind \in BOOLEAN
      BY <1>0, <1>4 DEF RescheduleDue, cancelInvalidPlan, Commits, Busy, IsOpen, FireInv,
                        TxPart, TxType
    <2>2. ~tx[Pass].behind => status[tx[Pass].plan] = "active"
      BY <1>4, <2>1 DEF RescheduleDue, cancelInvalidPlan, Commits, ReadHolds
    <2>3. PICK s \in {"active", "cancelled"} :
            status' = [status EXCEPT ![tx[Pass].plan] = s]
      BY <1>4 DEF RescheduleDue, reschedulePlan, cancelInvalidPlan, Checked
    <2>4. tx[Pass].plan \in Plans
      BY <2>1 DEF ReadHolds
    <2>5. UNCHANGED <<meeting, opened, activations>>
      BY <1>4 DEF RescheduleDue, reschedulePlan, cancelInvalidPlan
    <2>6. /\ Overtake({Pass}, tx[Pass].plan) /\ Saved(tx[Pass].plan, tx[Pass].behind)
          /\ due \subseteq due' \cup {tx[Pass].plan}
      BY <1>4, <2>1, RowKeepsDue
         DEF RescheduleDue, reschedulePlan, cancelInvalidPlan, Checked, Save, Overtake, Saved,
             Schedule
    <2>7. PlansPart' /\ MeetingsCounted' /\ MeetingsStay
      BY <2>1, <2>2, <2>3, <2>4, <2>5, <2>6, WriteKeepsPlans DEF FireInv, PlanStatus
    <2>8. TxPart'
      BY <2>3, <2>6, CommitKeepsTx DEF FireInv, PlansPart
    <2>9. QED
      BY <1>0, <1>4, <2>7, <2>8, TasksStay
  <1>5. CASE Abort(Pass) /\ UNCHANGED toDispatch
    <2>1. PlansPart' /\ MeetingsCounted' /\ MeetingsStay
      BY <1>5, OrderKeepsPlans DEF FireInv, Abort, planVars
    <2>2. TxPart'
      BY <1>5, CloseKeepsTx DEF FireInv, Abort
    <2>3. QED
      BY <1>0, <1>5, <2>1, <2>2, TasksStay
  <1>6. CASE FindListed
    BY <1>1, <1>2, <1>6 DEF FindListed, SkipDue
  <1>7. CASE TreatListed
    BY <1>3, <1>4, <1>5, <1>7 DEF TreatListed, FailsToEvaluate, OvertakenDue
  <1>8. QED
    BY <1>6, <1>7

LEMMA EvaluationStep ==
  ASSUME FireInv, OrderPart, StartEvaluation \/ Evaluates
  PROVE  FireInv'
  <1>0. ASSUME UNCHANGED wakeVars
        PROVE  PlansPart' /\ MeetingsCounted' /\ TxPart' /\ MeetingsStay
    BY <1>0, OrderKeepsPlans, QuietKeepsTx DEF FireInv, wakeVars, planVars, rowVars
  <1>1. CASE StartEvaluation
    <2>1. PlansPart' /\ MeetingsCounted' /\ TxPart' /\ MeetingsStay
      BY <1>0, <1>1 DEF StartEvaluation
    <2>2. TasksPart'
      BY <1>1, <2>1, GoesOnKeepsTasks, WaitersStay
         DEF FireInv, StartEvaluation, Take, TasksPart
    <2>3. QED
      BY <2>1, <2>2 DEF FireInv
  <1>2. CASE FindListed \/ TreatListed
    BY <1>2, ListedStep
  <1>3. CASE DispatchFired
    <2>1. PlansPart' /\ MeetingsCounted' /\ TxPart' /\ MeetingsStay
      BY <1>0, <1>3 DEF DispatchFired
    <2>2. \/ task' = Enqueued({toDispatch}) /\ Opened(toDispatch)
          \/ UNCHANGED task
      BY <1>3 DEF DispatchFired, EnqueueMeeting, FireInv, TasksPart
    <2>3. TasksPart'
      BY <1>3, <2>1, <2>2, EnqueueKeepsTasks, QuietKeepsTasks, WaitersStay
         DEF FireInv, DispatchFired, TasksPart
    <2>4. QED
      BY <2>1, <2>3 DEF FireInv
  <1>4. CASE EndEvaluation
    <2>1. PlansPart' /\ MeetingsCounted' /\ TxPart' /\ MeetingsStay
      BY <1>0, <1>4 DEF EndEvaluation
    <2>2. TasksPart'
      BY <1>4, <2>1, GoesOnKeepsTasks, WaitersStay
         DEF FireInv, EndEvaluation, AfterSuccess, TasksPart, handlerVars
    <2>3. QED
      BY <2>1, <2>2 DEF FireInv
  <1>5. QED
    BY <1>1, <1>2, <1>3, <1>4 DEF Evaluates

LEMMA RecoveryStep ==
  ASSUME FireInv, RunRecovery
  PROVE  FireInv'
  <1>1. PlansPart' /\ MeetingsCounted' /\ TxPart' /\ MeetingsStay
    BY OrderKeepsPlans, QuietKeepsTx DEF FireInv, RunRecovery, wakeVars, planVars, rowVars
  <1>2. \A m \in Recoverable : Opened(m)
    BY DEF Recoverable, Queued, FireInv, PlansPart
  <1>3. PICK s \in {"none", "retry"} : task' = [Enqueued(Recoverable) EXCEPT ![Recovery] = s]
    BY DEF RunRecovery, AfterSuccess
  <1>4. Recovery \in Tasks /\ Recovery \notin Meetings
    BY JobsAssumption, BackgroundAssumption DEF Tasks
  <1>5. /\ task' \in [Tasks -> {"none", "pending", "active", "retry", "completed"}]
        /\ \A m \in Meetings : task'[m] # "none" => Opened(m)'
    BY <1>1, <1>2, <1>3, <1>4, MeetingsAreTasks
       DEF FireInv, TasksPart, MeetingsStay, Enqueued
  <1>6. TasksPart'
    BY <1>1, <1>5, WaitersStay DEF FireInv, RunRecovery, TasksPart, handlerVars
  <1>7. QED
    BY <1>1, <1>6 DEF FireInv

LEMMA MeetingStep ==
  ASSUME FireInv, NEW m \in Meetings, StartMeeting(m) \/ FinishMeeting(m) \/ Answer(m)
  PROVE  FireInv'
  <1>1. CASE StartMeeting(m)
    <2>1. Opened(m)
      BY <1>1 DEF StartMeeting, Take, FireInv, TasksPart
    <2>2. PlansPart' /\ MeetingsCounted' /\ TxPart' /\ MeetingsStay
      BY <1>1, <2>1, RunKeepsPlans, QuietKeepsTx
         DEF FireInv, StartMeeting, MeetingStatus, rowVars
    <2>3. TasksPart'
      BY <1>1, <2>2, GoesOnKeepsTasks, WaitersStay
         DEF FireInv, StartMeeting, Take, TasksPart, handlerVars
    <2>4. QED
      BY <2>2, <2>3 DEF FireInv
  <1>2. CASE FinishMeeting(m)
    <2>1. Opened(m)
      BY <1>2 DEF FinishMeeting, FireInv, TasksPart
    <2>2. PlansPart' /\ MeetingsCounted' /\ TxPart' /\ MeetingsStay
      BY <1>2, <2>1, RunKeepsPlans, QuietKeepsTx
         DEF FireInv, FinishMeeting, MeetingStatus, rowVars
    <2>3. TasksPart'
      BY <1>2, <2>2, GoesOnKeepsTasks, WaitersStay
         DEF FireInv, FinishMeeting, AfterSuccess, TasksPart, handlerVars
    <2>4. QED
      BY <2>2, <2>3 DEF FireInv
  <1>3. CASE Answer(m)
    <2>1. PlansPart' /\ MeetingsCounted' /\ TxPart' /\ MeetingsStay
      BY <1>3, OrderKeepsPlans, QuietKeepsTx DEF FireInv, Answer, wakeVars, planVars, rowVars
    <2>2. \/ task' = Enqueued({m}) /\ Opened(m)
          \/ UNCHANGED task
      BY <1>3 DEF Answer, EnqueueMeeting, FireInv, TasksPart
    <2>3. TasksPart'
      BY <1>3, <2>1, <2>2, EnqueueKeepsTasks, QuietKeepsTasks, WaitersStay
         DEF FireInv, Answer, TasksPart
    <2>4. QED
      BY <2>1, <2>3 DEF FireInv
  <1>4. QED
    BY <1>1, <1>2, <1>3

LEMMA RequestStep ==
  ASSUME FireInv, NEW p \in Edited, Request(p)
  PROVE  FireInv'
  <1>1. p \in Plans /\ UNCHANGED <<task, toDispatch, answering>>
    BY BackgroundAssumption DEF Request, handlerVars
  <1>2. ASSUME PlansPart' /\ MeetingsCounted' /\ TxPart' /\ MeetingsStay
        PROVE  FireInv'
    BY <1>1, <1>2, TasksStay
  <1>3. CASE Delete(p)
    <2>1. PlansPart' /\ MeetingsCounted' /\ MeetingsStay
      BY <1>1, <1>3, WriteKeepsPlans DEF FireInv, Delete, Overtake, Saved, PlanStatus
    <2>2. TxPart'
      BY <1>3, CommitKeepsTx DEF FireInv, PlansPart, Delete
    <2>3. QED
      BY <1>2, <2>1, <2>2
  <1>4. ASSUME NEW s \in {"active", "paused"}, NEW isDue \in BOOLEAN, Create(p, s, isDue)
        PROVE  FireInv'
    <2>1. PlansPart' /\ MeetingsCounted' /\ MeetingsStay
      BY <1>1, <1>4, StatusKeepsPlans DEF FireInv, Create, Overtake, Saved, PlanStatus
    <2>2. TxPart'
      BY <1>4, CommitKeepsTx DEF FireInv, PlansPart, Create, Becomes, Schedule
    <2>3. QED
      BY <1>2, <2>1, <2>2
  <1>5. ASSUME NEW c \in Clients, NEW op \in {"edit", "fire"}, Begin(c, op, p), Exists(p),
               op = "fire" => Fireable(p)
        PROVE  FireInv'
    <2>1. PlansPart' /\ MeetingsCounted' /\ MeetingsStay
      BY <1>5, OrderKeepsPlans DEF FireInv, Begin, planVars
    <2>2. TxPart'
      BY <1>1, <1>5, BeginKeepsTx DEF FireInv, Holders, Fireable
    <2>3. QED
      BY <1>2, <2>1, <2>2
  <1>6. QED
    BY <1>3, <1>4, <1>5 DEF Request, Fireable, Exists

LEMMA ProceedStep ==
  ASSUME FireInv, NEW c \in Clients, Proceed(c)
  PROVE  FireInv'
  <1>0. c \in Holders /\ UNCHANGED <<task, toDispatch>>
    BY DEF Holders, Proceed, jobsVars
  <1>1. PICK m : m = NextMeeting(tx[c].plan)
    OBVIOUS
  <1>2. CASE Fire(c) /\ answering' = answering \cup {NextMeeting(tx[c].plan)}
    <2>1. Commits(c, "fire") /\ firePlan(c)
      BY <1>2 DEF Fire
    <2>2. /\ PlansPart' /\ MeetingsCounted' /\ TxPart' /\ MeetingsStay
          /\ m \in Meetings /\ meeting'[m] # "none"
      BY <1>0, <1>1, <2>1, FiresActive
    <2>3. \A k \in answering' : k \in answering \/ Opened(k)'
      BY <1>1, <1>2, <2>2 DEF Opened
    <2>4. QED
      BY <1>0, <2>2, <2>3, TasksStay
  <1>3. ASSUME PlansPart' /\ MeetingsCounted' /\ TxPart' /\ MeetingsStay,
               UNCHANGED answering
        PROVE  FireInv'
    BY <1>0, <1>3, TasksStay
  <1>4. ASSUME NEW s \in {"active", "paused", "cancelled"}, Commits(c, "edit"),
               Becomes(tx[c].plan, s), Save(c), due \subseteq due' \cup {tx[c].plan},
               UNCHANGED <<meeting, opened, answering>>
        PROVE  FireInv'
    <2>1. /\ tx[c].plan \in Plans /\ tx[c].behind \in BOOLEAN
          /\ isolation = "sqlite" => ~tx[c].behind
      BY <1>0, <1>4 DEF Commits, Busy, IsOpen, ReadHolds, FireInv, TxPart, TxType
    <2>2. PlansPart' /\ MeetingsCounted' /\ MeetingsStay
      BY <1>4, <2>1, StatusKeepsPlans DEF FireInv, PlanStatus, Save, Overtake, Saved
    <2>3. TxPart'
      BY <1>4, CommitKeepsTx DEF FireInv, PlansPart, Becomes, Save
    <2>4. QED
      BY <1>3, <1>4, <2>2, <2>3
  <1>5. CASE Abort(c) /\ UNCHANGED answering
    BY <1>3, <1>5, OrderKeepsPlans, CloseKeepsTx DEF FireInv, Abort, planVars
  <1>6. QED
    BY <1>2, <1>4, <1>5, RowKeepsDue DEF Proceed, Update, SetStatus, Schedule

LEMMA QueueStep ==
  ASSUME FireInv,
         \/ Elapses \/ Schedules \/ Crash
         \/ \E t \in Tasks : Retries(t)
         \/ \E j \in Jobs : TakeJob(j) \/ JobFails(j)
  PROVE  FireInv'
  <1>1. UNCHANGED <<status, meeting, opened, activations, overwritten, isolation, answering>>
    BY DEF Elapses, TimePasses, Schedules, Crash, Retries, TakeJob, JobFails, wakeVars,
           planVars, handlerVars
  <1>2. toDispatch' \in {toDispatch, NoMeeting}
    BY DEF Elapses, Schedules, Crash, Retries, TakeJob, JobFails, handlerVars
  <1>3. PlansPart' /\ MeetingsCounted' /\ MeetingsStay
    BY <1>1, OrderKeepsPlans DEF FireInv
  <1>4. TxPart'
    <2>1. CASE Crash
      BY <2>1, CloseKeepsTx DEF Crash, FireInv
    <2>2. CASE TimePasses
      BY <2>2, QuietKeepsTx DEF TimePasses, FireInv
    <2>3. CASE UNCHANGED wakeVars
      BY <2>3, QuietKeepsTx DEF wakeVars, planVars, rowVars, FireInv
    <2>4. QED
      BY <2>1, <2>2, <2>3 DEF Elapses, Schedules, Retries, TakeJob, JobFails
  <1>5. /\ task' \in [Tasks -> {"none", "pending", "active", "retry", "completed"}]
        /\ \A m \in Meetings : task'[m] # "none" => Opened(m)'
    <2>1. CASE Elapses
      BY <2>1, <1>3, QuietKeepsTasks DEF FireInv, Elapses, jobsVars, IntervalsPass
    <2>2. CASE Schedules
      <3>1. PICK n \in 0..Len(JobOrder) : task' = Enqueued(Walked(n))
        BY <2>2 DEF Schedules, EnqueueDuePeriodicJobs
      <3>2. Walked(n) \cap Meetings = {}
        <4>1. \A i \in 1..n : JobOrder[i] \in Jobs
          BY JobsAssumption
        <4>2. QED
          BY <4>1, JobsAssumption, BackgroundAssumption DEF Walked
      <3>3. QED
        BY <3>1, <3>2, <1>3, EnqueueKeepsTasks DEF FireInv
    <2>3. CASE Crash
      BY <2>3, <1>3, FailedKeepsTasks DEF FireInv, Crash, WorkerDies, Active
    <2>4. ASSUME NEW t \in Tasks, Retries(t)
          PROVE  /\ task' \in [Tasks -> {"none", "pending", "active", "retry", "completed"}]
                 /\ \A m \in Meetings : task'[m] # "none" => Opened(m)'
      BY <2>4, <1>3, GoesOnKeepsTasks DEF FireInv, Retries, RetryElapses
    <2>5. ASSUME NEW j \in Jobs, TakeJob(j)
          PROVE  /\ task' \in [Tasks -> {"none", "pending", "active", "retry", "completed"}]
                 /\ \A m \in Meetings : task'[m] # "none" => Opened(m)'
      BY <2>5, <1>3, GoesOnKeepsTasks DEF FireInv, TakeJob, Take
    <2>6. ASSUME NEW j \in Jobs, JobFails(j)
          PROVE  /\ task' \in [Tasks -> {"none", "pending", "active", "retry", "completed"}]
                 /\ \A m \in Meetings : task'[m] # "none" => Opened(m)'
      BY <2>6, <1>3, FailedKeepsTasks DEF FireInv, JobFails
    <2>7. QED
      BY <2>1, <2>2, <2>3, <2>4, <2>5, <2>6
  <1>6. TasksPart'
    BY <1>1, <1>2, <1>3, <1>5, WaitersStay DEF FireInv, TasksPart
  <1>7. QED
    BY <1>3, <1>4, <1>6 DEF FireInv

\* Initially nothing is open, and a plan that is active counts once.
LEMMA FireStart == Init => FireInv
  <1> SUFFICES ASSUME Init PROVE FireInv
    OBVIOUS
  <1>1. \A p \in Plans : MeetingsOf(p) = {}
    BY DEF Init, WakeInit, MeetingsOf
  <1>2. \A p \in Plans : Cardinality(MeetingsOf(p)) = 0
    BY <1>1, FS_EmptySet
  <1>3. MeetingsCounted
    BY <1>2 DEF Init, WakeInit, MeetingsCounted
  <1>4. PlansPart
    BY DEF Init, WakeInit, PlansPart, PlanStatus, MeetingStatus
  <1>5. TasksPart
    BY MeetingsAreTasks DEF Init, JobsInit, TasksPart, NoMeeting
  <1>6. TxPart
    BY DEF Init, WakeInit, TxPart, TxType, IsOpen, NoTx
  <1>7. QED
    BY <1>3, <1>4, <1>5, <1>6 DEF FireInv

LEMMA FireInvStep ==
  ASSUME FireInv, OrderPart, [Next]_vars
  PROVE  FireInv'
  <1>1. CASE UNCHANGED vars
    <2>1. PlansPart' /\ MeetingsCounted' /\ TxPart' /\ MeetingsStay
      BY <1>1, OrderKeepsPlans, QuietKeepsTx DEF FireInv, vars, wakeVars, planVars, rowVars
    <2>2. QED
      BY <1>1, <2>1, TasksStay DEF vars, jobsVars, handlerVars
  <1>2. CASE Next
    BY <1>2, EvaluationStep, RecoveryStep, MeetingStep, RequestStep, ProceedStep, QueueStep
       DEF Next, Works
  <1>3. QED
    BY <1>1, <1>2

-----------------------------------------------------------------------------
(* Every step keeps the order. *)

\* A plan's row is written and its next check set.
LEMMA WrittenPlanOrdered ==
  ASSUME OrderPart, status \in [Plans -> PlanStatus], NEW p \in Plans,
         NEW s \in {"active", "paused", "fired", "cancelled"}, NEW isDue \in BOOLEAN,
         status' = [status EXCEPT ![p] = s], Schedule(p, isDue)
  PROVE  OrderPart'
  <1>1. /\ \E m : Order(queue', due', m)
        /\ Ranked(queue') = Ranked(queue) \cup {p}
    BY PlansScheduled DEF OrderPart
  <1>2. {q \in Plans : Exists(q)}' = {q \in Plans : Exists(q)} \cup {p}
    BY DEF Exists
  <1>3. QED
    BY <1>1, <1>2 DEF OrderPart, Order, Ranked

\* Only the status of plans that exist changes.
LEMMA StatusKeepsOrder ==
  ASSUME OrderPart, UNCHANGED <<queue, due>>, {q \in Plans : Exists(q)}' = {q \in Plans : Exists(q)}
  PROVE  OrderPart'
  BY DEF OrderPart, Order, Ranked

LEMMA OneStatusKeepsOrder ==
  ASSUME OrderPart, status \in [Plans -> PlanStatus], NEW p \in Plans, Exists(p),
         NEW s \in {"active", "paused", "fired", "cancelled"},
         status' = [status EXCEPT ![p] = s], UNCHANGED <<queue, due>>
  PROVE  OrderPart'
  <1>1. {q \in Plans : Exists(q)}' = {q \in Plans : Exists(q)}
    BY DEF Exists
  <1>2. QED
    BY <1>1, StatusKeepsOrder

\* A transaction saves the row it read: of a plan that exists, or that was
\* deleted meanwhile and is inserted again.
LEMMA SaveKeepsOrder ==
  ASSUME PlansPart, TxPart, OrderPart, NEW h \in Holders, IsOpen(h), KeepRow(h),
         NEW s \in {"active", "paused", "fired", "cancelled"},
         status' = [status EXCEPT ![tx[h].plan] = s]
  PROVE  OrderPart'
  <1>1. ReadHolds(h) /\ tx[h].plan \in Plans
    BY DEF TxPart, ReadHolds
  <1>2. CASE tx[h].behind
    <2>1. PICK isDue \in BOOLEAN : Schedule(tx[h].plan, isDue)
      BY <1>2 DEF KeepRow
    <2>2. QED
      BY <1>1, <2>1, WrittenPlanOrdered DEF PlansPart
  <1>3. CASE ~tx[h].behind
    <2>1. Exists(tx[h].plan) /\ UNCHANGED <<queue, due>>
      BY <1>1, <1>3 DEF ReadHolds, KeepRow, rowVars
    <2>2. QED
      BY <1>1, <2>1, OneStatusKeepsOrder DEF PlansPart
  <1>4. QED
    BY <1>2, <1>3

LEMMA DeleteKeepsOrder ==
  ASSUME OrderPart, status \in [Plans -> PlanStatus], NEW p \in Plans, Delete(p)
  PROVE  OrderPart'
  <1>1. PICK n : Order(queue, due, n)
    BY DEF OrderPart
  <1>2. \E m : /\ Order(queue', due', m) /\ Ranked(queue') = Ranked(queue) \ {p}
    BY <1>1, OrderWithout DEF Delete
  <1>3. {q \in Plans : Exists(q)}' = {q \in Plans : Exists(q)} \ {p}
    BY DEF Exists, Delete
  <1>4. QED
    BY <1>2, <1>3 DEF OrderPart, Order, Ranked

LEMMA TimeKeepsOrder ==
  ASSUME OrderPart, TimePasses
  PROVE  OrderPart'
  <1>1. PICK n : Order(queue, due, n)
    BY DEF OrderPart
  <1>2. Dues = n /\ n \in Nat /\ Len(queue) \in Nat
    <2>1. Cardinality(due) = n
      BY <1>1, OrderSize
    <2>2. n \in Nat /\ Len(queue) \in Nat
      BY <1>1, LenProperties DEF Order
    <2>3. QED
      BY <2>1, <2>2 DEF Dues
  <1>3. /\ n < Len(queue) /\ due' = due \cup {queue[n + 1]} /\ UNCHANGED <<queue, status>>
    BY <1>2 DEF TimePasses
  <1>4. due' = {queue[i] : i \in 1..(n + 1)}
    BY <1>1, <1>2, <1>3 DEF Order
  <1>5. Order(queue', due', n + 1)
    <2>1. n + 1 \in 0..Len(queue)
      BY <1>2, <1>3
    <2>2. queue \in Seq(Plans) /\ \A i, j \in 1..Len(queue) : queue[i] = queue[j] => i = j
      BY <1>1 DEF Order
    <2>3. QED
      BY <1>3, <1>4, <2>1, <2>2 DEF Order
  <1>6. {q \in Plans : Exists(q)}' = {q \in Plans : Exists(q)}
    BY <1>3 DEF Exists
  <1>7. (\E m : Order(queue', due', m)) /\ Ranked(queue') = Ranked(queue)
    BY <1>3, <1>5
  <1>8. QED
    BY <1>6, <1>7 DEF OrderPart, Order, Ranked
-----------------------------------------------------------------------------
(* The slots of the worker: only taking a task fills one more. *)

SlotsPart == Cardinality(Active) <= Concurrency /\ ripe \subseteq Jobs

LEMMA TasksFinite == IsFiniteSet(Tasks)
  <1>1. IsFiniteSet(Jobs)
    <2>1. Len(JobOrder) \in Nat /\ JobOrder \in [1..Len(JobOrder) -> Jobs]
      BY JobsAssumption, LenProperties
    <2>2. JobOrder \in Surjection(1..Len(JobOrder), Jobs)
      BY <2>1 DEF Surjection, Jobs
    <2>3. QED
      BY <2>1, <2>2, FS_Interval, FS_Surjection
  <1>2. IsFiniteSet(1..MaxMeetings)
    BY FS_Interval, PlansAssumption
  <1>3. IsFiniteSet(Meetings)
    BY <1>2, FS_Product, PlansAssumption DEF Meetings
  <1>4. QED
    BY <1>1, <1>3, FS_Union, BackgroundAssumption DEF Tasks

LEMMA ActiveFinite == IsFiniteSet(Active) /\ Cardinality(Active) \in Nat
  <1>1. Active \subseteq Tasks
    BY DEF Active
  <1>2. QED
    BY <1>1, TasksFinite, FS_Subset, FS_CardinalityType

\* No task more is run.
LEMMA FewerKeepsSlots ==
  ASSUME SlotsPart, \A t \in Tasks : task'[t] = "active" => task[t] = "active",
         ripe' \subseteq Jobs
  PROVE  SlotsPart'
  <1>1. PICK S : S = Active'
    OBVIOUS
  <1>2. S \subseteq Active
    BY <1>1 DEF Active
  <1>3. Cardinality(S) <= Cardinality(Active) /\ Cardinality(S) \in Nat
    BY <1>2, ActiveFinite, FS_Subset, FS_CardinalityType
  <1>4. Cardinality(S) <= Concurrency
    BY <1>3, ActiveFinite, JobsAssumption DEF SlotsPart
  <1>5. QED
    BY <1>1, <1>4 DEF SlotsPart

\* A task is taken into a free slot.
LEMMA TakeKeepsSlots ==
  ASSUME SlotsPart, TasksPart, NEW t, Take(t)
  PROVE  SlotsPart'
  <1>1. PICK S : S = Active'
    OBVIOUS
  <1>2. S \subseteq Active \cup {t}
    BY <1>1 DEF Active, Take, TasksPart
  <1>3. /\ IsFiniteSet(Active \cup {t}) /\ Cardinality(Active \cup {t}) \in Nat
        /\ Cardinality(Active \cup {t}) <= Cardinality(Active) + 1
    <2>1. /\ IsFiniteSet(Active \cup {t})
          /\ Cardinality(Active \cup {t})
               = IF t \in Active THEN Cardinality(Active) ELSE Cardinality(Active) + 1
      BY ActiveFinite, FS_AddElement, Zenon
    <2>2. QED
      BY <2>1, ActiveFinite
  <1>4. Cardinality(S) <= Cardinality(Active \cup {t}) /\ Cardinality(S) \in Nat
    BY <1>2, <1>3, FS_Subset, FS_CardinalityType
  <1>5. Cardinality(S) <= Concurrency
    <2>1. Cardinality(Active) < Concurrency
      BY DEF Take, HasSlot
    <2>2. QED
      BY <1>3, <1>4, <2>1, ActiveFinite, JobsAssumption
  <1>6. QED
    BY <1>1, <1>5 DEF SlotsPart, Take

LEMMA OrderStays ==
  ASSUME OrderPart, UNCHANGED <<status, queue, due>>
  PROVE  OrderPart'
  <1>1. {p \in Plans : Exists(p)}' = {p \in Plans : Exists(p)}
    BY DEF Exists
  <1>2. QED
    BY <1>1, StatusKeepsOrder

-----------------------------------------------------------------------------
(* Every step keeps the slots, the order and the triggers. *)

LEMMA SlotsStep ==
  ASSUME FireInv, SlotsPart, Next
  PROVE  SlotsPart'
  <1>1. TasksPart /\ ripe \subseteq Jobs
    BY DEF FireInv, SlotsPart
  <1>2. ASSUME UNCHANGED <<task, ripe>> PROVE SlotsPart'
    BY <1>2, <1>1, FewerKeepsSlots
  <1>3. ASSUME NEW S, task' = Enqueued(S), ripe' \subseteq Jobs PROVE SlotsPart'
    BY <1>3, FewerKeepsSlots DEF Enqueued
  <1>4. ASSUME NEW S, Failed(S), UNCHANGED ripe PROVE SlotsPart'
    BY <1>4, <1>1, FewerKeepsSlots DEF Failed
  <1>5. ASSUME NEW t, NEW s \in {"none", "pending", "retry"}, task' = [task EXCEPT ![t] = s],
               UNCHANGED ripe
        PROVE  SlotsPart'
    BY <1>5, <1>1, FewerKeepsSlots DEF TasksPart
  <1>6. CASE Elapses
    BY <1>6, <1>1, <1>2, FewerKeepsSlots DEF Elapses, jobsVars, IntervalsPass
  <1>7. CASE Schedules
    <2>1. PICK n \in 0..Len(JobOrder) :
            /\ task' = Enqueued(Walked(n))
            /\ ripe' = IF n = Len(JobOrder) THEN Jobs ELSE ripe \ Walked(n)
      BY <1>7 DEF Schedules, EnqueueDuePeriodicJobs
    <2>2. ripe' \subseteq Jobs
      BY <1>1, <2>1
    <2>3. QED
      BY <1>3, <2>1, <2>2
  <1>8. CASE \E t \in Tasks : Retries(t)
    BY <1>5, <1>8 DEF Retries, RetryElapses
  <1>9. CASE StartEvaluation
    BY <1>1, <1>9, TakeKeepsSlots DEF StartEvaluation
  <1>10. CASE FindListed \/ TreatListed
    BY <1>2, <1>10 DEF FindListed, TreatListed
  <1>11. CASE DispatchFired
    BY <1>1, <1>2, <1>3, <1>11 DEF DispatchFired, EnqueueMeeting
  <1>12. CASE EndEvaluation
    BY <1>5, <1>12 DEF EndEvaluation, AfterSuccess
  <1>13. CASE RunRecovery
    <2>1. PICK s \in {"none", "retry"} : task' = [Enqueued(Recoverable) EXCEPT ![Recovery] = s]
      BY <1>13 DEF RunRecovery, AfterSuccess
    <2>2. \A t \in Tasks : task'[t] = "active" => task[t] = "active"
      BY <2>1 DEF Enqueued
    <2>3. QED
      BY <1>1, <1>13, <2>2, FewerKeepsSlots DEF RunRecovery
  <1>14. CASE \E j \in Jobs : TakeJob(j) \/ JobFails(j)
    BY <1>1, <1>4, <1>14, TakeKeepsSlots DEF TakeJob, JobFails
  <1>15. ASSUME NEW m \in Meetings, StartMeeting(m) \/ FinishMeeting(m) \/ Answer(m)
         PROVE  SlotsPart'
    <2>1. CASE StartMeeting(m)
      BY <1>1, <2>1, TakeKeepsSlots DEF StartMeeting
    <2>2. CASE FinishMeeting(m)
      BY <1>5, <2>2 DEF FinishMeeting, AfterSuccess
    <2>3. CASE Answer(m)
      BY <1>1, <1>2, <1>3, <2>3 DEF Answer, EnqueueMeeting
    <2>4. QED
      BY <1>15, <2>1, <2>2, <2>3
  <1>16. CASE Crash
    BY <1>4, <1>16 DEF Crash, WorkerDies
  <1>17. CASE (\E p \in Edited : Request(p)) \/ (\E c \in Clients : Proceed(c))
    BY <1>2, <1>17 DEF Request, Proceed, jobsVars
  <1>18. QED
    BY <1>6, <1>7, <1>8, <1>9, <1>10, <1>11, <1>12, <1>13, <1>14, <1>15, <1>16, <1>17
       DEF Next, Works, Evaluates

LEMMA FireKeepsOrder ==
  ASSUME PlansPart, TxPart, OrderPart, NEW h \in Holders, IsOpen(h), firePlan(h)
  PROVE  OrderPart'
  BY SaveKeepsOrder DEF firePlan, StatusAfterFire

LEMMA RequestKeepsOrder ==
  ASSUME PlansPart, OrderPart, NEW p \in Plans, Request(p)
  PROVE  OrderPart'
  <1>1. status \in [Plans -> PlanStatus]
    BY DEF PlansPart
  <1>2. ASSUME NEW s \in {"active", "paused"}, NEW isDue \in BOOLEAN, Create(p, s, isDue)
        PROVE  OrderPart'
    <2>1. status' = [status EXCEPT ![p] = s] /\ Schedule(p, isDue)
      BY <1>2 DEF Create, Becomes
    <2>2. QED
      BY <1>1, <2>1, WrittenPlanOrdered
  <1>3. CASE Delete(p)
    BY <1>1, <1>3, DeleteKeepsOrder
  <1>4. ASSUME NEW c, NEW op, Begin(c, op, p)
        PROVE  OrderPart'
    BY <1>4, OrderStays DEF Begin, planVars, rowVars
  <1>5. QED
    BY <1>2, <1>3, <1>4 DEF Request

LEMMA ProceedKeepsOrder ==
  ASSUME PlansPart, TxPart, OrderPart, NEW c \in Clients, Proceed(c)
  PROVE  OrderPart'
  <1>1. c \in Holders /\ status \in [Plans -> PlanStatus]
    BY DEF PlansPart, Holders
  <1>2. ASSUME NEW s \in {"active", "paused"}, NEW isDue \in BOOLEAN, Update(c, s, isDue)
        PROVE  OrderPart'
    <2>1. IsOpen(c) /\ status' = [status EXCEPT ![tx[c].plan] = s]
          /\ Schedule(tx[c].plan, isDue)
      BY <1>2 DEF Update, Commits, IsOpen, Becomes
    <2>2. tx[c].plan \in Plans
      BY <1>1, <2>1 DEF TxPart, ReadHolds
    <2>3. QED
      BY <1>1, <2>1, <2>2, WrittenPlanOrdered
  <1>3. ASSUME NEW s \in {"active", "paused", "cancelled"}, SetStatus(c, s)
        PROVE  OrderPart'
    <2>1. IsOpen(c) /\ status' = [status EXCEPT ![tx[c].plan] = s] /\ KeepRow(c)
      BY <1>3 DEF SetStatus, Commits, IsOpen, Becomes
    <2>2. QED
      BY <1>1, <2>1, SaveKeepsOrder
  <1>4. CASE Abort(c)
    BY <1>4, OrderStays DEF Abort, planVars, rowVars
  <1>5. CASE Fire(c)
    BY <1>1, <1>5, FireKeepsOrder DEF Fire, Commits, IsOpen
  <1>6. QED
    BY <1>2, <1>3, <1>4, <1>5 DEF Proceed

LEMMA ListedKeepsOrder ==
  ASSUME PlansPart, TxPart, OrderPart, FindListed \/ TreatListed
  PROVE  OrderPart'
  <1>0. Pass \in Holders /\ status \in [Plans -> PlanStatus]
    BY DEF Holders, PlansPart
  <1>1. CASE UNCHANGED <<status, queue, due>>
    BY <1>1, OrderStays
  <1>2. CASE FireDue
    BY <1>0, <1>2, FireKeepsOrder DEF FireDue, Commits, IsOpen
  <1>3. CASE RescheduleDue
    <2>1. /\ IsOpen(Pass) /\ status' = [status EXCEPT ![tx[Pass].plan] = "active"]
          /\ Schedule(tx[Pass].plan, FALSE)
      BY <1>3 DEF RescheduleDue, reschedulePlan, Commits, IsOpen, Checked
    <2>2. tx[Pass].plan \in Plans
      BY <1>0, <2>1 DEF TxPart, ReadHolds
    <2>3. QED
      BY <1>0, <2>1, <2>2, WrittenPlanOrdered
  <1>4. CASE cancelInvalidPlan
    BY <1>0, <1>4, SaveKeepsOrder DEF cancelInvalidPlan, Commits, IsOpen, Checked
  <1>5. CASE FindListed
    BY <1>1, <1>5 DEF FindListed, SkipDue, CheckDue, Begin, wakeVars, planVars, rowVars
  <1>6. CASE TreatListed
    BY <1>1, <1>2, <1>3, <1>4, <1>6
       DEF TreatListed, FailsToEvaluate, OvertakenDue, Abort, planVars, rowVars
  <1>7. QED
    BY <1>5, <1>6

LEMMA OrderStep ==
  ASSUME FireInv, OrderPart, Next
  PROVE  OrderPart'
  <1>1. PlansPart /\ TxPart
    BY DEF FireInv
  <1>2. CASE FindListed \/ TreatListed
    BY <1>1, <1>2, ListedKeepsOrder
  <1>3. CASE TimePasses
    BY <1>3, TimeKeepsOrder
  <1>4. CASE \E p \in Edited : Request(p)
    BY <1>1, <1>4, RequestKeepsOrder, BackgroundAssumption
  <1>5. CASE \E c \in Clients : Proceed(c)
    BY <1>1, <1>5, ProceedKeepsOrder
  <1>6. CASE UNCHANGED <<status, queue, due>>
    BY <1>6, OrderStays
  <1>7. QED
    BY <1>2, <1>3, <1>4, <1>5, <1>6
       DEF Next, Elapses, Schedules, Retries, StartEvaluation, Works, Evaluates, DispatchFired,
           EndEvaluation, RunRecovery, TakeJob, JobFails, StartMeeting, FinishMeeting, Answer,
           Crash, wakeVars, planVars, rowVars

\* Which triggers are invalid changes with the row that is written.
LEMMA InvalidStep ==
  ASSUME FireInv, invalid \subseteq Plans, Next
  PROVE  invalid' \subseteq Plans
  <1>1. ASSUME NEW h \in Holders, IsOpen(h),
               KeepRow(h) \/ invalid' = invalid \ {tx[h].plan}
        PROVE  invalid' \subseteq Plans
    <2>1. tx[h].plan \in Plans
      BY <1>1 DEF FireInv, TxPart, ReadHolds
    <2>2. invalid' \in {invalid, invalid \cup {tx[h].plan}, invalid \ {tx[h].plan}}
      BY <1>1 DEF KeepRow, rowVars
    <2>3. QED
      BY <2>1, <2>2
  <1>2. CASE UNCHANGED invalid
    BY <1>2
  <1>3. CASE TreatListed
    <2>1. CASE FireDue
      BY <1>1, <2>1 DEF FireDue, firePlan, Commits, IsOpen, Holders
    <2>2. CASE RescheduleDue
      BY <1>1, <2>2 DEF RescheduleDue, reschedulePlan, Commits, IsOpen, Holders, Checked
    <2>3. CASE cancelInvalidPlan
      BY <1>1, <2>3 DEF cancelInvalidPlan, Commits, IsOpen, Holders
    <2>4. QED
      BY <1>2, <1>3, <2>1, <2>2, <2>3
         DEF TreatListed, FailsToEvaluate, OvertakenDue, Abort, planVars, rowVars
  <1>4. ASSUME NEW c \in Clients, Proceed(c) PROVE invalid' \subseteq Plans
    <2>1. ASSUME NEW s, NEW isDue, Update(c, s, isDue) PROVE invalid' \subseteq Plans
      BY <1>1, <2>1 DEF Update, Commits, IsOpen, Holders
    <2>2. ASSUME NEW s, SetStatus(c, s) PROVE invalid' \subseteq Plans
      BY <1>1, <2>2 DEF SetStatus, Commits, IsOpen, Holders
    <2>3. CASE Fire(c)
      BY <1>1, <2>3 DEF Fire, firePlan, Commits, IsOpen, Holders
    <2>4. CASE Abort(c)
      BY <1>2, <2>4 DEF Abort, planVars, rowVars
    <2>5. QED
      BY <1>4, <2>1, <2>2, <2>3, <2>4 DEF Proceed
  <1>5. CASE \E p \in Edited : Request(p)
    BY <1>2, <1>5 DEF Request, Create, Delete, Begin, planVars, rowVars
  <1>6. CASE FindListed
    BY <1>2, <1>6 DEF FindListed, SkipDue, CheckDue, Begin, wakeVars, planVars, rowVars
  <1>7. QED
    BY <1>2, <1>3, <1>4, <1>5, <1>6
       DEF Next, Elapses, TimePasses, Schedules, Retries, StartEvaluation, Works, Evaluates,
           DispatchFired, EndEvaluation, RunRecovery, TakeJob, JobFails, StartMeeting,
           FinishMeeting, Answer, Crash, wakeVars, planVars, rowVars

WorkInv == FireInv /\ OrderPart /\ SlotsPart /\ invalid \subseteq Plans

LEMMA WorkInvariant == Spec => []WorkInv
  <1>1. Init => WorkInv
    <2> SUFFICES ASSUME Init PROVE WorkInv
      OBVIOUS
    <2>1. Active = {}
      BY DEF Init, JobsInit, Active
    <2>2. Cardinality(Active) = 0
      BY <2>1, FS_EmptySet
    <2>3. SlotsPart
      BY <2>2, JobsAssumption DEF Init, JobsInit, SlotsPart
    <2>4. invalid \subseteq Plans
      BY PlansAssumption DEF Init, WakeInit
    <2>5. QED
      BY <2>3, <2>4, FireStart, OrderStart DEF WorkInv
  <1>2. WorkInv /\ [Next]_vars => WorkInv'
    <2> SUFFICES ASSUME WorkInv, [Next]_vars PROVE WorkInv'
      OBVIOUS
    <2>1. FireInv'
      BY FireInvStep DEF WorkInv
    <2>2. CASE Next
      BY <2>1, <2>2, OrderStep, SlotsStep, InvalidStep DEF WorkInv
    <2>3. CASE UNCHANGED vars
      <3>1. OrderPart'
        BY <2>3, OrderStays DEF WorkInv, vars, wakeVars, planVars, rowVars
      <3>2. SlotsPart'
        BY <2>3, FewerKeepsSlots DEF WorkInv, vars, jobsVars, SlotsPart
      <3>3. UNCHANGED invalid
        BY <2>3 DEF vars, wakeVars, planVars, rowVars
      <3>4. QED
        BY <2>1, <3>1, <3>2, <3>3 DEF WorkInv
    <2>4. QED
      BY <2>2, <2>3
  <1>3. QED
    BY <1>1, <1>2, PTL DEF Spec

-----------------------------------------------------------------------------
(* The theorems. *)

\* The tables and the queue hold what they can hold, the order of the plans
\* has each plan that exists, the due ones in front, and no more tasks run than
\* the worker has slots, whatever passes, requests, retries and crashes do, on
\* either database.
THEOREM BackgroundTypes == Spec => []TypeOK
  <1>1. WorkInv => TypeOK
    <2> SUFFICES ASSUME WorkInv PROVE TypeOK
      OBVIOUS
    <2>1. PICK n : Order(queue, due, n)
      BY DEF WorkInv, OrderPart
    <2>2. Dues = n
      BY <2>1, OrderSize DEF Dues
    <2>3. due = {queue[i] : i \in 1..Dues}
      BY <2>1, <2>2 DEF Order
    <2>4. {p \in Plans : Exists(p)} = {queue[i] : i \in 1..Len(queue)}
      BY DEF WorkInv, OrderPart, Ranked
    <2>5. QED
      BY <2>3, <2>4 DEF WorkInv, FireInv, PlansPart, TasksPart, TxPart, TxType, SlotsPart,
                        TypeOK, PlanStatus, MeetingStatus
  <1>2. QED
    BY <1>1, WorkInvariant, PTL

\* A plan opens at most one meeting each time it is made active, whatever
\* transactions, retries and crashes interleave: a transaction that read the plan
\* as active and was not overtaken still finds it so.  SQLite lets no other
\* write; on PostgreSQL each further meeting is owed to one that was overtaken.
THEOREM PlansFireOnce == Spec => []FiredOncePerActivation
  <1>1. WorkInv => FiredOncePerActivation
    BY DEF WorkInv, FireInv, PlansPart, MeetingsCounted, FiredOncePerActivation, Overwritten
  <1>2. QED
    BY <1>1, WorkInvariant, PTL

\* A meeting is opened only for a plan that is active when the transaction
\* commits, and by the evaluation only for one that is due then; on PostgreSQL
\* also by a transaction that writes an older copy of the plan over a newer one.
THEOREM DuePlansFire == Spec => OnlyDuePlansFire
  <1> DEFINE Rightly(p) == status[p] = "active" /\ (toDispatch' # toDispatch => p \in due)
             Overwrites(p) == isolation = "postgres" /\ overwritten'[p] # overwritten[p]
             OpensRightly == opened' # opened =>
                               LET p == Last(opened')[1] IN Rightly(p) \/ Overwrites(p)
  <1>1. ASSUME FireInv, NEW h \in Holders, NEW op \in {"check", "fire"}, Commits(h, op),
               firePlan(h)
        PROVE  LET p == Last(opened')[1]
               IN \/ status[p] = "active" /\ (op = "check" => p \in due)
                  \/ Overwrites(p)
    <2>1. PICK m : m = NextMeeting(tx[h].plan)
      OBVIOUS
    <2>2. m[1] = tx[h].plan /\ m \in Meetings /\ opened' = Append(opened, m)
      BY <1>1, <2>1 DEF firePlan, NextMeeting
    <2>3. Last(opened') = m
      BY <1>1, <2>2 DEF Last, FireInv, PlansPart
    <2>4. ReadHolds(h) /\ (isolation = "sqlite" => ~tx[h].behind)
      BY <1>1 DEF Commits, Busy, IsOpen, FireInv, TxPart
    <2>5. CASE ~tx[h].behind
      BY <1>1, <2>2, <2>3, <2>4, <2>5 DEF ReadHolds, Commits
    <2>6. CASE tx[h].behind
      <3>1. isolation = "postgres" /\ tx[h].plan \in Plans /\ overwritten \in [Plans -> Nat]
        BY <1>1, <2>4, <2>6 DEF FireInv, PlansPart, ReadHolds
      <3>2. overwritten' = [overwritten EXCEPT ![tx[h].plan] = @ + 1]
        BY <1>1, <2>6 DEF firePlan, Save
      <3>3. QED
        BY <2>2, <2>3, <3>1, <3>2
    <2>7. QED
      BY <2>5, <2>6
  <1>2. ASSUME FireInv, Next PROVE OpensRightly
    <2>1. SUFFICES ASSUME opened' # opened
                   PROVE  LET p == Last(opened')[1] IN Rightly(p) \/ Overwrites(p)
      OBVIOUS
    <2>2. \/ TreatListed /\ FireDue
          \/ \E c \in Clients : Proceed(c) /\ Fire(c)
      BY <1>2, <2>1
         DEF Next, Elapses, TimePasses, Schedules, Retries, StartEvaluation, Works, Evaluates,
             FindListed, SkipDue, CheckDue, Begin, TreatListed, RescheduleDue, reschedulePlan,
             cancelInvalidPlan, FailsToEvaluate, OvertakenDue, Abort, DispatchFired,
             EndEvaluation, RunRecovery, TakeJob, JobFails, StartMeeting, FinishMeeting,
             Answer, Crash, Request, Create, Delete, Proceed, Update, SetStatus, wakeVars,
             planVars
    <2>3. CASE TreatListed /\ FireDue
      BY <1>1, <1>2, <2>3 DEF FireDue, Holders
    <2>4. ASSUME NEW c \in Clients, Proceed(c), Fire(c)
          PROVE  LET p == Last(opened')[1] IN Rightly(p) \/ Overwrites(p)
      <3>1. UNCHANGED toDispatch
        BY <2>4 DEF Proceed
      <3>2. QED
        BY <1>1, <1>2, <2>4, <3>1 DEF Fire, Holders
    <2>5. QED
      BY <2>2, <2>3, <2>4
  <1>3. FireInv /\ [Next]_vars => [OpensRightly]_vars
    BY <1>2
  <1>4. WorkInv => FireInv
    BY DEF WorkInv
  <1>5. QED
    BY <1>3, <1>4, WorkInvariant, PTL DEF Spec, OnlyDuePlansFire
=============================================================================
