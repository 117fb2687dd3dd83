------------------------------ MODULE WakePlans ------------------------------
(***************************************************************************)
(* app/wake: plans that open a follow-up meeting when a time or a condition *)
(* is reached.  ProcessDue lists the plans that are due outside any         *)
(* transaction and then treats each in a transaction of its own; requests   *)
(* and recaps create, change, fire and delete plans at any moment.          *)
(*                                                                          *)
(* A transaction that changes a plan reads its row (Find), decides, and     *)
(* saves the whole row (gorm's Save): two steps, since nothing locks the    *)
(* row in between.  isolation says what the database does about it.  Under  *)
(* "postgres" (READ COMMITTED) the save overwrites what others committed    *)
(* meanwhile, and inserts a row they deleted again; under "sqlite" a        *)
(* transaction that another has overtaken since it read cannot write        *)
(* (SQLITE_BUSY).  The row lock of the save lasts to the commit, so the     *)
(* save and all that follows it are one step.                               *)
(***************************************************************************)
EXTENDS Naturals, Sequences, FiniteSets, SequencesExt

CONSTANTS
  Plans,
  TimePlans,      \* plans of trigger type "time"; the others watch a condition
  OldPlans,       \* plans that are active at the start
  OldInvalid,     \* those of them that ValidatePlan may refuse
  Broken,         \* watching plans whose evaluation fails (no quote to be had)
  DueLimit,       \* rows of one ProcessDue: 100 in the code
  Pass, Clients,  \* who opens transactions: ProcessDue and the requests
  MaxActivations, \* bound of the model: how often one plan is made active
  MaxMeetings     \* bound of the model: meetings one plan opens

ASSUME PlansAssumption ==
  /\ IsFiniteSet(Plans) /\ TimePlans \subseteq Plans
  /\ OldPlans \subseteq Plans /\ OldInvalid \subseteq OldPlans \ TimePlans
  /\ Broken \subseteq Plans \ TimePlans
  /\ DueLimit \in Nat \ {0} /\ Pass \notin Clients
  /\ MaxActivations \in Nat /\ MaxMeetings \in Nat

Meetings == Plans \X (1..MaxMeetings)   \* the n-th meeting a plan opened
Holders  == Clients \cup {Pass}

VARIABLES
  status,       \* of each plan's row; "none" before and "deleted" after it exists
  queue,        \* the plans, by COALESCE(next_check_at, created_at), id
  due,          \* plans whose next check is not in the future
  invalid,      \* plans whose trigger ValidatePlan refuses
  meeting,      \* rows of the meetings the plans opened
  opened,       \* those meetings, by created_at
  activations,  \* ghost: how often each plan was made active
  overwritten,  \* ghost: saves of each plan's row from a copy that was not the last
  isolation,    \* "postgres" or "sqlite"
  tx            \* the open transactions, and the row each has read

rowVars  == <<queue, due, invalid>>
planVars == <<status, rowVars, meeting, opened, activations, overwritten, isolation>>
wakeVars == <<planVars, tx>>

(* due and bad: what the row that was read says; behind: overtaken since.    *)
NoTx == [op |-> "none", plan |-> <<>>, due |-> FALSE, bad |-> FALSE, behind |-> FALSE]

WakeInit ==
  /\ status = [p \in Plans |-> IF p \in OldPlans THEN "active" ELSE "none"]
  /\ queue \in SetToSeqs(OldPlans)
  /\ due = {} /\ invalid \in SUBSET OldInvalid
  /\ meeting = [m \in Meetings |-> "none"] /\ opened = <<>>
  /\ activations = [p \in Plans |-> IF p \in OldPlans THEN 1 ELSE 0]
  /\ overwritten = [p \in Plans |-> 0] /\ isolation \in {"postgres", "sqlite"}
  /\ tx = [h \in Holders |-> NoTx]

Exists(p) == status[p] \notin {"none", "deleted"}

(* A plan's next check is set: due plans stand before the others. *)
Dues == Cardinality(due)
Placed(p, isDue) ==
  LET rest == RemoveFirst(queue, p)
      ahead == Cardinality(due \ {p})
      places == IF isDue THEN 1..(ahead + 1) ELSE (ahead + 1)..(Len(rest) + 1)
  IN {InsertAt(rest, i, p) : i \in places}

Schedule(p, isDue) ==
  /\ queue' \in Placed(p, isDue)
  /\ due' = IF isDue THEN due \cup {p} ELSE due \ {p}

Becomes(p, s) ==
  /\ status' = [status EXCEPT ![p] = s]
  /\ IF s = "active" /\ status[p] # "active"
       THEN /\ activations[p] < MaxActivations
            /\ activations' = [activations EXCEPT ![p] = @ + 1]
       ELSE UNCHANGED activations

(* The first plan whose next check lies ahead comes up. *)
TimePasses ==
  /\ Dues < Len(queue) /\ due' = due \cup {queue[Dues + 1]}
  /\ UNCHANGED <<status, queue, invalid, meeting, opened, activations, overwritten,
                 isolation, tx>>

-----------------------------------------------------------------------------
(* Transactions.                                                              *)
IsOpen(h) == tx[h].op # "none"

Begin(h, op, p) ==
  /\ ~IsOpen(h)
  /\ tx' = [tx EXCEPT ![h] = [op |-> op, plan |-> p, due |-> p \in due,
                             bad |-> p \in invalid, behind |-> FALSE]]
  /\ UNCHANGED planVars

Abort(h) == IsOpen(h) /\ tx' = [tx EXCEPT ![h] = NoTx] /\ UNCHANGED planVars

Busy(h) == IsOpen(h) /\ tx[h].behind /\ isolation = "sqlite"

Commits(h, op) == tx[h].op = op /\ ~Busy(h)

(* A commit about p closes the transactions of S and overtakes the others. *)
Overtake(S, p) ==
  /\ tx' = [g \in Holders |->
              IF g \in S THEN NoTx
              ELSE [tx[g] EXCEPT !.behind =
                      \/ @
                      \/ IsOpen(g) /\ (isolation = "sqlite" \/ tx[g].plan = p)]]
  /\ UNCHANGED isolation

(* h saves the row it has read, as it now is, and commits. *)
Save(h) ==
  /\ Overtake({h}, tx[h].plan)
  /\ overwritten' = IF tx[h].behind
                      THEN [overwritten EXCEPT ![tx[h].plan] = @ + 1] ELSE overwritten

(* What a save does not set is written as it was read: the next check (where  *)
(* it puts the plan among the others is left open) and the trigger.           *)
KeepRow(h) ==
  LET p == tx[h].plan
  IN IF tx[h].behind
       THEN /\ \E isDue \in BOOLEAN : (tx[h].due => isDue) /\ Schedule(p, isDue)
            /\ invalid' = IF tx[h].bad THEN invalid \cup {p} ELSE invalid \ {p}
       ELSE UNCHANGED rowVars

-----------------------------------------------------------------------------
(* Requests, and the wake plans a recap creates (always active).  Create and  *)
(* Delete write without having read the plan.                                *)
Create(p, s, isDue) ==
  /\ status[p] = "none" /\ Becomes(p, s) /\ Schedule(p, isDue) /\ Overtake({}, p)
  /\ UNCHANGED <<invalid, meeting, opened, overwritten>>

Delete(p) ==
  /\ Exists(p) /\ status' = [status EXCEPT ![p] = "deleted"]
  /\ queue' = RemoveFirst(queue, p) /\ due' = due \ {p} /\ Overtake({}, p)
  /\ UNCHANGED <<invalid, meeting, opened, activations, overwritten>>

(* Update writes the whole row of the request: the status it names, the next  *)
(* check it gives and a trigger that was validated, whatever the plan went    *)
(* through.                                                                   *)
Update(h, s, isDue) ==
  LET p == tx[h].plan
  IN /\ Commits(h, "edit") /\ Becomes(p, s) /\ Schedule(p, isDue) /\ Save(h)
     /\ invalid' = invalid \ {p} /\ UNCHANGED <<meeting, opened>>

SetStatus(h, s) ==
  LET p == tx[h].plan
  IN /\ Commits(h, "edit") /\ (s = "active" => ~tx[h].bad)
     /\ Becomes(p, s) /\ KeepRow(h) /\ Save(h) /\ UNCHANGED <<meeting, opened>>

(* firePlan: the plan is fired and its meeting queued, in one transaction.   *)
MeetingsOf(p) == {m \in Meetings : m[1] = p /\ meeting[m] # "none"}
NextMeeting(p) == <<p, Cardinality(MeetingsOf(p)) + 1>>

StatusAfterFireUnset(p) == status[p]
StatusAfterFire(p) == "fired"

firePlan(h) ==
  LET p == tx[h].plan
  IN /\ NextMeeting(p) \in Meetings
     /\ status' = [status EXCEPT ![p] = StatusAfterFire(p)]
     /\ meeting' = [meeting EXCEPT ![NextMeeting(p)] = "queued"]
     /\ opened' = Append(opened, NextMeeting(p))
     /\ KeepRow(h) /\ Save(h) /\ UNCHANGED activations

Fireable(p) == status[p] = "active" /\ p \notin invalid

Fire(h) == Commits(h, "fire") /\ firePlan(h)

-----------------------------------------------------------------------------
(* ProcessDue.                                                                *)
ListDueInOrder == SelectSeq(queue, LAMBDA p : p \in due /\ status[p] = "active")
ListDue == SubSeq(ListDueInOrder, 1, IF Len(ListDueInOrder) < DueLimit
                                       THEN Len(ListDueInOrder) ELSE DueLimit)

StillDueAsListed(p) == Exists(p)
StillDue(p) == status[p] = "active" /\ p \in due

SkipDue(p) == ~StillDue(p) /\ UNCHANGED wakeVars
CheckDue(p) == StillDue(p) /\ Begin(Pass, "check", p)

(* What the transaction about one listed row comes to: the plan fires, is     *)
(* checked again later, is cancelled as invalid, or cannot be evaluated.      *)
Checked == tx[Pass].plan

FireDue ==
  /\ Commits(Pass, "check") /\ ~tx[Pass].bad /\ Checked \notin Broken
  /\ firePlan(Pass)

reschedulePlan ==
  /\ status' = [status EXCEPT ![Checked] = "active"]
  /\ Schedule(Checked, FALSE) /\ invalid' = invalid \ {Checked}
  /\ Save(Pass) /\ UNCHANGED <<meeting, opened, activations>>

RescheduleDue ==
  /\ Commits(Pass, "check") /\ ~tx[Pass].bad /\ Checked \notin Broken \cup TimePlans
  /\ reschedulePlan

cancelInvalidPlan ==
  /\ Commits(Pass, "check") /\ tx[Pass].bad
  /\ status' = [status EXCEPT ![Checked] = "cancelled"]
  /\ KeepRow(Pass) /\ Save(Pass)
  /\ UNCHANGED <<meeting, opened, activations>>

FailsToEvaluate == Checked \in Broken /\ ~tx[Pass].bad /\ Abort(Pass)
OvertakenDue == Busy(Pass) /\ Abort(Pass)

-----------------------------------------------------------------------------
(* A plan opens at most one meeting each time it is made active, however the  *)
(* transactions of the pass and of requests interleave: an active plan has    *)
(* one meeting to go, and a fired one none.  SQLite keeps this without         *)
(* exception; on PostgreSQL each further meeting is owed to a save that wrote  *)
(* an older copy of the plan over a newer one.                                *)
Overwritten(p) == IF isolation = "sqlite" THEN 0 ELSE overwritten[p]
FiredOncePerActivation ==
  \A p \in Plans :
    Cardinality(MeetingsOf(p)) + (IF status[p] = "active" THEN 1 ELSE 0)
      <= activations[p] + Overwritten(p)
=============================================================================
