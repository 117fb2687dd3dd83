--------------------------- MODULE BackgroundWork ---------------------------
(***************************************************************************)
(* The background work of the Redis deployment (RunScheduler and RunWorker  *)
(* of gorm/queue): the scheduler enqueues the periodic jobs, the worker's   *)
(* slots evaluate the wake plans, recover queued meetings and run the       *)
(* meetings, and requests change the plans.                                 *)
(* A meeting itself is one step: MeetingRuns has what happens in it.        *)
(***************************************************************************)
EXTENDS PeriodicJobs, WakePlans

CONSTANTS
  Wake, Recovery, \* the task types evaluate_wake_plans, recover_queued_meetings
  Edited          \* bound of the model: plans that requests touch

ASSUME BackgroundAssumption ==
  {Wake, Recovery} \subseteq Jobs /\ OtherTasks = Meetings /\ Edited \subseteq Plans

VARIABLES
  listed,     \* rows the evaluation at hand has still to treat
  toDispatch, \* the meeting it opened last, until that is enqueued
  answering   \* meetings requests opened and have not enqueued yet

handlerVars == <<listed, toDispatch, answering>>
vars == <<jobsVars, wakeVars, handlerVars>>

NoMeeting == <<>>

Init ==
  /\ JobsInit /\ WakeInit
  /\ listed = <<>> /\ toDispatch = NoMeeting /\ answering = {}

-----------------------------------------------------------------------------
(* EnqueueRunMeeting: the meeting's own task id.                              *)
EnqueueMeeting(m) ==
  /\ task' = Enqueued({m}) /\ UNCHANGED ripe

(* evaluate_wake_plans. *)
StartEvaluation ==
  /\ Take(Wake) /\ listed' = ListDue
  /\ UNCHANGED <<wakeVars, toDispatch, answering>>

Evaluating == task[Wake] = "active" /\ toDispatch = NoMeeting /\ listed # <<>>

AfterFailureReturn == <<>>
AfterFailure == Tail(listed)

(* The transaction about the next listed row: Find, and then its outcome. *)
FindListed ==
  /\ Evaluating /\ ~IsOpen(Pass)
  /\ \/ CheckDue(Head(listed)) /\ UNCHANGED <<listed, incidents>>
     \/ SkipDue(Head(listed)) /\ listed' = Tail(listed) /\ UNCHANGED incidents
     \/ UNCHANGED wakeVars /\ Incident /\ listed' = AfterFailure
  /\ UNCHANGED <<task, ripe, toDispatch, answering>>

TreatListed ==
  /\ Evaluating /\ IsOpen(Pass)
  /\ \/ /\ FireDue /\ toDispatch' = NextMeeting(Checked) /\ listed' = Tail(listed)
        /\ UNCHANGED incidents
     \/ /\ RescheduleDue \/ cancelInvalidPlan
        /\ listed' = Tail(listed) /\ UNCHANGED <<toDispatch, incidents>>
     \/ /\ \/ (FailsToEvaluate \/ OvertakenDue) /\ UNCHANGED incidents
           \/ Abort(Pass) /\ Incident
        /\ listed' = AfterFailure /\ UNCHANGED toDispatch
  /\ UNCHANGED <<task, ripe, answering>>

DispatchFired ==
  /\ task[Wake] = "active" /\ toDispatch # NoMeeting /\ toDispatch' = NoMeeting
  /\ \/ EnqueueMeeting(toDispatch) /\ UNCHANGED incidents
     \/ Incident /\ UNCHANGED <<task, ripe>>
  /\ UNCHANGED <<wakeVars, listed, answering>>

EndEvaluation ==
  /\ task[Wake] = "active" /\ toDispatch = NoMeeting /\ listed = <<>>
  /\ task' = [task EXCEPT ![Wake] = AfterSuccess(Wake)]
  /\ UNCHANGED <<ripe, incidents, wakeVars, handlerVars>>

(* recover_queued_meetings: it enqueues the queued meetings oldest first and   *)
(* fails at the first whose task id is still known.                           *)
Queued == {i \in DOMAIN opened : meeting[opened[i]] = "queued"}
Blocking == {i \in Queued : task[opened[i]] # "none"}
RecoverableNone == {}
Recoverable == {opened[i] : i \in {i \in Queued : \A j \in Blocking : i < j}}

RunRecovery ==
  /\ task[Recovery] = "active"
  /\ task' = [Enqueued(Recoverable) EXCEPT
                ![Recovery] = IF Blocking = {} THEN AfterSuccess(Recovery) ELSE "retry"]
  /\ UNCHANGED <<ripe, incidents, wakeVars, handlerVars>>

(* run_meeting. *)
StartMeeting(m) ==
  /\ Take(m) /\ meeting' = [meeting EXCEPT ![m] = "running"]
  /\ UNCHANGED <<status, rowVars, opened, activations, overwritten, isolation, tx,
                 handlerVars>>

FinishMeeting(m) ==
  /\ task[m] = "active" /\ task' = [task EXCEPT ![m] = AfterSuccess(m)]
  /\ meeting' = [meeting EXCEPT ![m] = "done"]
  /\ UNCHANGED <<ripe, incidents, status, rowVars, opened, activations, overwritten,
                 isolation, tx, handlerVars>>

TakeJob(j) == j # Wake /\ Take(j) /\ UNCHANGED <<wakeVars, handlerVars>>

(* A periodic job fails before it did anything: the database is away. *)
JobFails(j) ==
  /\ task[j] = "active" /\ (j = Wake => listed = <<>> /\ toDispatch = NoMeeting)
  /\ Failed({j}) /\ Incident
  /\ UNCHANGED <<ripe, wakeVars, handlerVars>>

Crash ==
  /\ WorkerDies /\ listed' = <<>> /\ toDispatch' = NoMeeting
  /\ tx' = [tx EXCEPT ![Pass] = NoTx] /\ UNCHANGED <<planVars, answering>>

-----------------------------------------------------------------------------
(* Requests, and recaps that create a plan.  After Fire the handler enqueues  *)
(* the meeting; an error is not reported, and the serve process may die       *)
(* before it gets there.  A request may fail wherever its transaction is.     *)
Request(p) ==
  /\ Incident
  /\ \/ Delete(p)
     \/ \E s \in {"active", "paused"}, isDue \in BOOLEAN : Create(p, s, isDue)
     \/ \E c \in Clients : \/ Exists(p) /\ Begin(c, "edit", p)
                           \/ Fireable(p) /\ Begin(c, "fire", p)
  /\ UNCHANGED <<task, ripe, handlerVars>>

Proceed(c) ==
  /\ \/ /\ \/ \E s \in {"active", "paused"}, isDue \in BOOLEAN : Update(c, s, isDue)
           \/ \E s \in {"active", "paused", "cancelled"} : SetStatus(c, s)
           \/ Abort(c)
        /\ UNCHANGED answering
     \/ Fire(c) /\ answering' = answering \cup {NextMeeting(tx[c].plan)}
  /\ UNCHANGED <<jobsVars, listed, toDispatch>>

Answer(m) ==
  /\ m \in answering /\ answering' = answering \ {m}
  /\ \/ EnqueueMeeting(m) /\ UNCHANGED incidents
     \/ Incident /\ UNCHANGED <<task, ripe>>
  /\ UNCHANGED <<wakeVars, listed, toDispatch>>

Elapses ==
  \/ TimePasses /\ UNCHANGED <<jobsVars, handlerVars>>
  \/ IntervalsPass /\ UNCHANGED <<wakeVars, handlerVars>>

Schedules == EnqueueDuePeriodicJobs /\ UNCHANGED <<wakeVars, handlerVars>>

Retries(t) == RetryElapses(t) /\ UNCHANGED <<wakeVars, handlerVars>>

Evaluates == FindListed \/ TreatListed \/ DispatchFired \/ EndEvaluation
Works == Evaluates \/ RunRecovery

Next ==
  \/ Elapses \/ Schedules \/ (\E t \in Tasks : Retries(t))
  \/ StartEvaluation \/ Works \/ (\E j \in Jobs : TakeJob(j) \/ JobFails(j))
  \/ (\E m \in Meetings : StartMeeting(m) \/ FinishMeeting(m) \/ Answer(m))
  \/ Crash \/ (\E p \in Edited : Request(p)) \/ (\E c \in Clients : Proceed(c))

Spec == Init /\ [][Next]_vars

(* The scheduler's loop and time go on, the worker runs what it took, and the *)
(* queue hands tasks out in order of arrival (strong fairness: a free slot    *)
(* recurs but does not wait).                                                 *)
Fairness ==
  /\ WF_vars(Schedules)
  /\ WF_vars(Evaluates) /\ WF_vars(RunRecovery)
  /\ SF_vars(StartEvaluation) /\ \A j \in Jobs \ {Wake} : SF_vars(TakeJob(j))
  /\ SF_vars(\E m \in Meetings : StartMeeting(m))
  /\ WF_vars(\E m \in Meetings : FinishMeeting(m))
  /\ \A j \in Jobs : WF_vars(Retries(j))
  /\ WF_vars(\E m \in Meetings : Retries(m))

FairSpec == Spec /\ Fairness

-----------------------------------------------------------------------------
(* The tables and the queue hold what they can hold, the order of the plans   *)
(* agrees with which of them are due, and no more tasks run than slots.       *)
TypeOK ==
  /\ status \in [Plans -> {"none", "active", "paused", "fired", "cancelled", "deleted"}]
  /\ {p \in Plans : Exists(p)} = {queue[i] : i \in 1..Len(queue)}
  /\ due = {queue[i] : i \in 1..Dues} /\ invalid \subseteq Plans
  /\ isolation \in {"postgres", "sqlite"}
  /\ tx \in [Holders -> [op : {"none", "check", "edit", "fire"}, plan : Plans \cup {<<>>},
                         due : BOOLEAN, bad : BOOLEAN, behind : BOOLEAN]]
  /\ meeting \in [Meetings -> {"none", "queued", "running", "done"}]
  /\ task \in [Tasks -> {"none", "pending", "active", "retry", "completed"}]
  /\ Cardinality(Active) <= Concurrency /\ ripe \subseteq Jobs

(* A meeting is opened for a plan that is active at that moment, and by the   *)
(* evaluation only for one that is due as well: a plan that was paused,       *)
(* fired, deleted or postponed after it was listed, or after the transaction  *)
(* read it, is left alone.  On PostgreSQL it is not when the transaction       *)
(* writes an older copy of the plan over a newer one.                         *)
OnlyDuePlansFire ==
  [][opened' # opened =>
       LET p == Last(opened')[1]
       IN \/ status[p] = "active" /\ (toDispatch' # toDispatch => p \in due)
          \/ isolation = "postgres" /\ overwritten'[p] # overwritten[p]]_vars

(* An active plan that is due is treated, however many plans with the same    *)
(* or an earlier check come up again and again, as long as the plans that     *)
(* cannot be evaluated leave a place in the list of a pass.                   *)
Waits(p) == status[p] = "active" /\ p \in due
DuePlansAreTreated ==
  Cardinality(Broken) < DueLimit =>
    \A p \in Plans \ Broken : []<>~Waits(p)

(* The meeting of a fired plan is run, whether its dispatch failed, the       *)
(* request or the worker died before it, or another's task stood in the way   *)
(* of the recovery.                                                           *)
FiredMeetingsRun ==
  \A p \in Plans : []<>(\A m \in MeetingsOf(p) : meeting[m] = "done")

(* Every periodic job runs again and again.                                   *)
JobsKeepRunning ==
  \A j \in Jobs : []<>(task[j] = "active")
=============================================================================
