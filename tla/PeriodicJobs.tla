---------------------------- MODULE PeriodicJobs ----------------------------
(***************************************************************************)
(* The scheduler process of the Redis deployment and the queue it feeds.    *)
(* Every second RunScheduler walks over its jobs and enqueues those whose   *)
(* interval has passed, each under one task id of its own; the worker       *)
(* process takes tasks, the periodic ones and the meetings', with           *)
(* Concurrency slots.                                                       *)
(*                                                                          *)
(* The queue is asynq, modelled from how the code uses it: an id that is    *)
(* still known (waiting, running or waiting for a retry) cannot be enqueued *)
(* again; a task that fails, and one whose worker died, is retried.  What   *)
(* asynq does after 25 retries, three weeks of growing delays later, is     *)
(* left out.                                                                *)
(***************************************************************************)
EXTENDS Naturals, Sequences, FiniteSets

CONSTANTS
  JobOrder,      \* the jobs of RunScheduler, in order
  OtherTasks,    \* the ids of the tasks that are no periodic job
  Concurrency,   \* slots of the worker
  MaxIncidents   \* bound of the model: faults of the environment and requests

Jobs  == {JobOrder[i] : i \in 1..Len(JobOrder)}
Tasks == Jobs \cup OtherTasks

ASSUME JobsAssumption ==
  /\ JobOrder \in Seq(Jobs) /\ Jobs \cap OtherTasks = {}
  /\ Concurrency \in Nat \ {0} /\ MaxIncidents \in Nat

VARIABLES
  task,     \* each id in the queue: "none" if it is not known there
  ripe,     \* jobs whose interval has passed since they were last enqueued
  incidents \* Redis errors, crashes, failed steps and requests so far

jobsVars == <<task, ripe, incidents>>

JobsInit ==
  /\ task = [t \in Tasks |-> "none"]
  /\ ripe = Jobs /\ incidents = 0

Incident == incidents < MaxIncidents /\ incidents' = incidents + 1

-----------------------------------------------------------------------------
(* The scheduler.  An id conflict counts as enqueued; any other error ends   *)
(* the walk, and the jobs from there on stay ripe for the next second.  Time  *)
(* goes by until every job is ripe again before the walk after a whole one, or *)
(* between two attempts.                                                       *)
IntervalsPass ==
  /\ ripe # Jobs /\ ripe' = Jobs
  /\ UNCHANGED <<task, incidents>>

Walked(n) == {JobOrder[i] : i \in 1..n} \cap ripe

Enqueued(S) == [t \in Tasks |-> IF t \in S /\ task[t] = "none" THEN "pending" ELSE task[t]]

EnqueueDuePeriodicJobs ==
  \E n \in 0..Len(JobOrder) :
       /\ IF n = Len(JobOrder) THEN UNCHANGED incidents
          ELSE JobOrder[n + 1] \in ripe /\ Incident
       /\ task' = Enqueued(Walked(n))
       /\ ripe' = IF n = Len(JobOrder) THEN Jobs ELSE ripe \ Walked(n)

-----------------------------------------------------------------------------
(* The worker and the queue.                                                 *)
Active == {t \in Tasks : task[t] = "active"}

HasSlotAlways == TRUE
HasSlot == Cardinality(Active) < Concurrency

Take(t) ==
  /\ task[t] = "pending" /\ HasSlot
  /\ task' = [task EXCEPT ![t] = "active"]
  /\ UNCHANGED <<ripe, incidents>>

(* Retention 0: the id of a task that is done is free again. *)
AfterSuccessRetained(t) == "completed"
AfterSuccess(t) == "none"

Failed(S) == task' = [t \in Tasks |-> IF t \in S THEN "retry" ELSE task[t]]

RetryElapses(t) ==
  /\ task[t] = "retry" /\ task' = [task EXCEPT ![t] = "pending"]
  /\ UNCHANGED <<ripe, incidents>>

(* The worker dies: its tasks' leases expire and they are retried. *)
WorkerDies == Active # {} /\ Failed(Active) /\ Incident /\ UNCHANGED ripe
=============================================================================
