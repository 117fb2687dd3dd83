----------------------------- MODULE MeetingRuns -----------------------------
(***************************************************************************)
(* The life of one research meeting: the row of the meetings table, the    *)
(* runs that execute it (goroutines of the serve process, or jobs of the   *)
(* Redis worker), the API requests that cancel, edit or delete it and the  *)
(* recovery pass that requeues it.  A run owns the meeting while the row    *)
(* is "running" under its run id; every run re-checks that with a           *)
(* conditional UPDATE between two steps of its work, while the requests,    *)
(* the recovery pass and the start of a run save whole rows they read       *)
(* earlier.                                                                *)
(***************************************************************************)
EXTENDS Naturals, FiniteSets

CONSTANTS
    Runs,          \* identities a run can take (a run id is the start time in ns)
    NoRun,         \* run_id IS NULL
    Clerks,        \* concurrent API requests and recovery passes
    ClerkOps,      \* operations the clerks perform
    Mode,          \* MEETING_DISPATCH_MODE: "local", "redis" or "auto"
    RequeueLimit,  \* MEETING_AUTO_REQUEUE_LIMIT
    MaxEdits,      \* bound: API requests other than the one that starts the meeting
    MaxCrashes,    \* bound: process crashes
    MaxLate        \* bound: counting late effects of one run stops here

Modes == {"local", "redis", "auto"}
Ops == {"recover", "cancel", "delete", "update"}

ASSUME RunsAssumption == NoRun \notin Runs /\ Mode \in Modes /\ ClerkOps \subseteq Ops
ASSUME BoundsAssumption == {RequeueLimit, MaxEdits, MaxCrashes, MaxLate} \subseteq Nat

VARIABLES
    row,         \* the meetings row, as committed
    pc,          \* pc[r]: the next step of run r, "idle" when there is no such run
    seen,        \* seen[r]: the row as run r loaded it
    ctx,         \* ctx[r]: "live", "cancelled", or "dead" when its database context is over too
    host,        \* host[r]: the process that executes run r
    entry,       \* localMeetingRuns: the run registered in the serve process
    job,         \* the task run_meeting:<id> in Redis
    request,     \* the API request that starts the meeting
    requested,   \* the run that request started in its own process
    clerk,       \* clerk[c]: operation, next step and loaded row
    late,        \* late[r]: writes of run r since it last owned the meeting
    lost,        \* runs that lost the meeting to another writer
    recoveries,  \* number of times the meeting was requeued
    edits, crashes

vars == <<row, pc, seen, ctx, host, entry, job, request, requested, clerk,
          late, lost, recoveries, edits, crashes>>
runVars == <<pc, seen, ctx, host, entry, job, late>>
history == <<recoveries, edits, crashes>>

Statuses == {"queued", "running", "completed", "cancelled", "failed", "gone"}
Terminal == {"completed", "cancelled", "failed"}
Rows == [status : Statuses, run : Runs \cup {NoRun}, started : BOOLEAN,
         requeues : 0..RequeueLimit, stale : BOOLEAN]
Queued == [status |-> "queued", run |-> NoRun, started |-> FALSE, requeues |-> 0, stale |-> FALSE]
Gone == [Queued EXCEPT !.status = "gone"]
Steps == {"idle", "read", "save", "check", "talk", "recap", "act", "apply",
          "close", "complete", "conclude"}
Free == [op |-> "none", at |-> "idle", seen |-> Gone]

Init ==
    /\ row = Queued
    /\ pc = [r \in Runs |-> "idle"] /\ seen = [r \in Runs |-> Gone]
    /\ ctx = [r \in Runs |-> "live"] /\ host = [r \in Runs |-> "serve"]
    /\ entry = NoRun /\ job = "none" /\ request = "open" /\ requested = NoRun
    /\ clerk = [c \in Clerks |-> Free]
    /\ late = [r \in Runs |-> 0] /\ lost = {}
    /\ recoveries = 0 /\ edits = 0 /\ crashes = 0

-----------------------------------------------------------------------------
(* Writers of the row *)

\* A full-row save (gorm Save): every column as the writer has it, inserted again
\* when the row is gone.
SaveRow(new) ==
    /\ row' = new
    /\ lost' = IF row.run \notin {NoRun, new.run} THEN lost \cup {row.run} ELSE lost

\* The save of an older copy hands the meeting back to the run the copy names.
SaveBack(old) ==
    /\ row' = old
    /\ lost' = (lost \cup ({row.run} \ {NoRun})) \ {old.run}

\* WHERE status = 'running' AND run_id = r: the condition of every conditional update.
Owns(r) == row.status = "running" /\ row.run = r

\* Mutant of ClosedAs: run_id is not reset.
ClosedKeepingRun(old, status) == [old EXCEPT !.status = status, !.stale = FALSE]
ClosedAs(old, status) == [old EXCEPT !.status = status, !.run = NoRun, !.stale = FALSE]

-----------------------------------------------------------------------------
(* Starting and ending runs *)

\* An identity no row or loaded copy of a row still mentions.
Unused(r) ==
    /\ pc[r] = "idle" /\ row.run # r /\ requested # r
    /\ \A q \in Runs : pc[q] # "idle" => seen[q].run # r
    /\ \A c \in Clerks : clerk[c].seen.run # r

Launch(r, where) ==
    /\ Unused(r)
    /\ pc' = [pc EXCEPT ![r] = "read"] /\ host' = [host EXCEPT ![r] = where]
    /\ ctx' = [ctx EXCEPT ![r] = "live"] /\ late' = [late EXCEPT ![r] = 0]

\* StartLocalMeetingRun: ignored while a run is registered; started says which run began.
StartLocal(started) ==
    \/ /\ entry # NoRun /\ started = NoRun
       /\ UNCHANGED <<pc, ctx, host, entry, late>>
    \/ /\ entry = NoRun /\ started \in Runs
       /\ Launch(started, "serve")
       /\ entry' = started

\* Enqueue under the TaskID of the meeting: a conflict while such a task exists.
Enqueue == job' = IF job = "none" THEN "pending" ELSE job

\* DispatchRun.  In "auto" mode the enqueue has 800 ms; when it answers late the
\* local run starts and the task may be in Redis all the same.
DispatchSubmitted ==
    /\ request = "open"
    /\ request' = "dispatched"
    /\ \/ /\ Mode \in {"redis", "auto"}
          /\ Enqueue
          /\ UNCHANGED <<pc, ctx, host, entry, late, requested>>
       \/ /\ Mode \in {"local", "auto"}
          /\ \E started \in Runs \cup {NoRun} : StartLocal(started) /\ requested' = started
          /\ IF Mode = "auto" THEN Enqueue \/ UNCHANGED job ELSE UNCHANGED job
    /\ lost' = lost \ {requested'}
    /\ UNCHANGED <<row, seen, clerk, history>>

\* The handler returns: net/http cancels the context of the request, which is the
\* database context of the run it started and the parent of its run context.
RequestReturns ==
    /\ request = "dispatched"
    /\ request' = "returned" /\ requested' = NoRun
    /\ ctx' = IF requested = NoRun \/ pc[requested] = "idle" THEN ctx ELSE [ctx EXCEPT ![requested] = "dead"]
    /\ UNCHANGED <<row, pc, seen, host, entry, job, clerk, late, lost, history>>

WorkerTakes(r) ==
    /\ job = "pending"
    /\ job' = "active"
    /\ Launch(r, "worker")
    /\ lost' = lost \ {r}
    /\ UNCHANGED <<row, seen, entry, request, requested, clerk, history>>

\* asynq's Timeout ends the context of a job (MEETING_RUN_TIMEOUT_SECONDS).
JobTimesOut(r) ==
    /\ pc[r] # "idle" /\ host[r] = "worker" /\ ctx[r] = "live"
    /\ ctx' = [ctx EXCEPT ![r] = "dead"]
    /\ UNCHANGED <<row, pc, seen, host, entry, job, request, requested, clerk,
                   late, lost, history>>

\* Mutant of Unregistered: a cancelled run returns before it unregisters.
UnregisteredWhileLive(r) == IF host[r] = "serve" /\ ctx[r] = "live" THEN NoRun ELSE entry
Unregistered(r) == IF host[r] = "serve" THEN NoRun ELSE entry

\* The deferred delete removes whichever run is registered; a finished job leaves
\* Redis, a failed one is retried and in the end archived under its TaskID.
Leaves(r, failed) ==
    /\ pc' = [pc EXCEPT ![r] = "idle"] /\ seen' = [seen EXCEPT ![r] = Gone]
    /\ ctx' = [ctx EXCEPT ![r] = "live"] /\ host' = [host EXCEPT ![r] = "serve"]
    /\ entry' = Unregistered(r)
    /\ IF host[r] = "worker"
       THEN job' \in IF failed THEN {"pending", "archived"} ELSE {"none"}
       ELSE UNCHANGED job

Stop(r) == Leaves(r, FALSE)
Goes(r, step) ==
    /\ pc' = [pc EXCEPT ![r] = step]
    /\ UNCHANGED <<seen, ctx, host, entry, job>>

-----------------------------------------------------------------------------
(* RunMeetingOnceWithContext *)

Read(r) ==
    /\ pc[r] = "read" /\ ctx[r] = "live"
    /\ \/ row.status = "gone" /\ Leaves(r, TRUE)
       \/ row.status \in Terminal /\ Stop(r)
       \/ /\ row.status \in {"queued", "running"}
          /\ pc' = [pc EXCEPT ![r] = "save"] /\ seen' = [seen EXCEPT ![r] = row]
          /\ UNCHANGED <<ctx, host, entry, job>>
    /\ UNCHANGED <<row, request, requested, clerk, late, lost, history>>

StartedRow(old, r) == [old EXCEPT !.status = "running", !.run = r, !.started = TRUE, !.stale = FALSE]

SaveStart(r) ==
    /\ pc[r] = "save" /\ ctx[r] # "dead"
    /\ SaveRow(StartedRow(seen[r], r))
    /\ pc' = [pc EXCEPT ![r] = "check"] /\ seen' = [seen EXCEPT ![r] = Gone]
    /\ UNCHANGED <<entry, job, ctx, host, request, requested, clerk, late, history>>

\* ensureActiveMeetingRun before the next role turn or the recap, after the recap
\* model call, and after the recap actions.
After(step) == CASE step = "check" -> {"talk", "recap"} [] step = "act" -> {"apply"} [] OTHER -> {"complete"}
\* Mutant of Touch: the heartbeat is not conditional on the run id.
TouchAnyRun(r) == row.status = "running"
Touch(r) == Owns(r)

EnsureActive(r) ==
    /\ pc[r] \in {"check", "act", "close"} /\ ctx[r] # "dead"
    /\ IF Touch(r)
       THEN /\ row' = [row EXCEPT !.stale = FALSE]
            /\ \E step \in After(pc[r]) : Goes(r, step)
       ELSE Stop(r) /\ UNCHANGED row
    /\ late' = IF Owns(r) THEN [late EXCEPT ![r] = 0] ELSE late
    /\ UNCHANGED <<request, requested, clerk, lost, history>>

Writes(r) == late' = [late EXCEPT ![r] = IF Owns(r) \/ @ = MaxLate THEN @ ELSE @ + 1]

\* One turn of a role: its events are appended without a condition, and the run
\* checks itself again only then.
Talk(r) ==
    /\ pc[r] = "talk" /\ ctx[r] # "dead"
    /\ Writes(r) /\ Goes(r, "check")
    /\ UNCHANGED <<row, request, requested, clerk, lost, history>>

\* MarkRecapRunning.
Recap(r) ==
    /\ pc[r] = "recap" /\ ctx[r] = "live"
    /\ IF Owns(r)
       THEN row' = [row EXCEPT !.stale = FALSE] /\ Goes(r, "act")
       ELSE Stop(r) /\ UNCHANGED row
    /\ UNCHANGED <<request, requested, clerk, late, lost, history>>

\* The recap event and ApplyMeetingRecapActions: watchlist, wake plans, orders.
Apply(r) ==
    /\ pc[r] = "apply" /\ ctx[r] # "dead"
    /\ Writes(r) /\ Goes(r, "close")
    /\ UNCHANGED <<row, request, requested, clerk, lost, history>>

\* Mutant of MayComplete: completed whichever run the row belongs to.
MayCompleteAnyRun(r) == row.status = "running"
MayComplete(r) == Owns(r)

\* CompleteRunning, then the conclusion event and the notification.
Complete(r) ==
    /\ pc[r] = "complete" /\ ctx[r] = "live"
    /\ IF MayComplete(r)
       THEN row' = ClosedAs(row, "completed") /\ Goes(r, "conclude")
       ELSE Stop(r) /\ UNCHANGED row
    /\ UNCHANGED <<request, requested, clerk, late, lost, history>>

Conclude(r) ==
    /\ pc[r] = "conclude" /\ ctx[r] # "dead"
    /\ Stop(r)
    /\ UNCHANGED <<row, request, requested, clerk, late, lost, history>>

\* A failed model call, recap or role lookup ends in failActiveMeetingRun.
FailRun(r) ==
    /\ pc[r] \in {"talk", "act"} /\ ctx[r] # "dead"
    /\ row' = IF Owns(r) THEN ClosedAs(row, "failed") ELSE row
    /\ Stop(r)
    /\ UNCHANGED <<request, requested, clerk, late, lost, history>>

\* A cancelled context ends the run at its next look at it; with a dead one no
\* statement reaches the database any more.
Abandon(r) ==
    /\ \/ ctx[r] = "dead" /\ pc[r] # "idle"
       \/ ctx[r] = "cancelled" /\ pc[r] \in {"read", "talk", "recap", "act", "complete"}
    /\ Leaves(r, pc[r] \in {"read", "save"})
    /\ UNCHANGED <<row, request, requested, clerk, late, lost, history>>

RunStep(r) ==
    \/ Read(r) \/ SaveStart(r) \/ EnsureActive(r) \/ Talk(r) \/ Recap(r) \/ Apply(r)
    \/ Complete(r) \/ Conclude(r) \/ FailRun(r) \/ Abandon(r)

-----------------------------------------------------------------------------
(* API requests and the recovery pass: read first, save what was read later *)

Moves(c, at) == clerk' = [clerk EXCEPT ![c].at = at]
Returns(c) == clerk' = [clerk EXCEPT ![c] = Free]

Loads(c, op) ==
    /\ clerk[c].at = "idle" /\ op \in ClerkOps
    /\ row.status # "gone"
    /\ edits < MaxEdits /\ edits' = edits + 1
    /\ clerk' = [clerk EXCEPT ![c] = [op |-> op, at |-> IF op = "update" THEN "save" ELSE "stop", seen |-> row]]
    /\ UNCHANGED <<row, runVars, request, requested, lost, recoveries, crashes>>

Interrupted(op, was) == op = "cancel" \/ was \in {"queued", "running"}

\* CancelLocalMeetingRun unregisters the run and cancels its context.
StopsLocalRun(c) ==
    /\ clerk[c].at = "stop"
    /\ IF Interrupted(clerk[c].op, clerk[c].seen.status) /\ entry # NoRun
       THEN /\ ctx' = [ctx EXCEPT ![entry] = IF @ = "dead" THEN @ ELSE "cancelled"]
            /\ entry' = NoRun
       ELSE UNCHANGED <<ctx, entry>>
    /\ Moves(c, "save")
    /\ UNCHANGED <<row, pc, seen, host, job, request, requested, late, lost, history>>

\* The transaction of Cancel and Restart (cancelMeeting), Delete (cancelMeeting and
\* DeleteGraph) and Update or Recap (the row as loaded, with other columns changed).
Saves(c) ==
    /\ clerk[c].at = "save"
    /\ LET old == clerk[c].seen IN
       \/ /\ clerk[c].op = "cancel" /\ old.status \notin Terminal
          /\ SaveRow(ClosedAs(old, "cancelled"))
       \/ /\ clerk[c].op = "cancel" /\ old.status \in Terminal
          /\ UNCHANGED <<row, lost>>
       \/ clerk[c].op = "delete" /\ SaveRow(Gone)
       \/ clerk[c].op = "update" /\ SaveBack(old)
    /\ Returns(c)
    /\ UNCHANGED <<runVars, request, requested, history>>

\* One pass at a time: the loop of the one serve process, or the one periodic task.
StartsPass(c) ==
    /\ clerk[c].at = "idle" /\ "recover" \in ClerkOps
    /\ \A d \in Clerks : clerk[d].op # "recover"

\* RecoverQueuedMeetings, first query: queued and never started.
FindsQueued(c) ==
    /\ StartsPass(c)
    /\ row.status = "queued" /\ ~row.started
    /\ clerk' = [clerk EXCEPT ![c] = [op |-> "recover", at |-> "dispatch", seen |-> row]]
    /\ UNCHANGED <<row, runVars, request, requested, lost, history>>

\* Second query: running with an old heartbeat.
FindsStale(c) ==
    /\ StartsPass(c)
    /\ row.status = "running" /\ row.stale
    /\ clerk' = [clerk EXCEPT ![c] = [op |-> "recover", at |-> "requeue", seen |-> row]]
    /\ UNCHANGED <<row, runVars, request, requested, lost, history>>

\* Mutants: one recovery too many; the count is forgotten; started_at is kept.
ExhaustedLate(old) == old.requeues > RequeueLimit
RequeuedUncounted(old) == [Queued EXCEPT !.requeues = old.requeues]
RequeuedStillStarted(old) == [Queued EXCEPT !.requeues = old.requeues + 1, !.started = TRUE]

Exhausted(old) == old.requeues >= RequeueLimit
RequeuedRow(old) == [Queued EXCEPT !.requeues = old.requeues + 1]

Requeues(c) ==
    /\ clerk[c].at = "requeue"
    /\ LET old == clerk[c].seen IN
       IF Exhausted(old)
       THEN /\ SaveRow(ClosedAs(old, "failed"))
            /\ Returns(c)
            /\ UNCHANGED recoveries
       ELSE /\ SaveRow(RequeuedRow(old))
            /\ clerk' = [clerk EXCEPT ![c].at = "dispatch", ![c].seen = RequeuedRow(old)]
            /\ recoveries' = IF recoveries > RequeueLimit THEN recoveries ELSE recoveries + 1
    /\ UNCHANGED <<runVars, request, requested, edits, crashes>>

\* The local loop starts a run of its own process, the worker's pass enqueues.
Dispatches(c) ==
    /\ clerk[c].at = "dispatch"
    /\ \/ /\ Mode = "local"
          /\ \E started \in Runs \cup {NoRun} : StartLocal(started) /\ lost' = lost \ {started}
          /\ UNCHANGED job
       \/ /\ Mode # "local"
          /\ Enqueue
          /\ UNCHANGED <<pc, ctx, host, entry, late, lost>>
    /\ Returns(c)
    /\ UNCHANGED <<row, seen, request, requested, history>>

Recover(c) == FindsQueued(c) \/ FindsStale(c) \/ Requeues(c) \/ Dispatches(c)
Edit(c) == (\E op \in ClerkOps \ {"recover"} : Loads(c, op)) \/ StopsLocalRun(c) \/ Saves(c)

-----------------------------------------------------------------------------
(* Time and crashes *)

\* MEETING_STALE_AFTER_SECONDS (half an hour) pass without a heartbeat.  Model calls may
\* take that long; a handler, or a query and the save that follows it, do not.
HeartbeatAges ==
    /\ row.status = "running" /\ ~row.stale /\ request # "open"
    /\ \A r \in Runs : pc[r] \notin {"read", "save"}
    /\ \A c \in Clerks : clerk[c].at = "idle"
    /\ row' = [row EXCEPT !.stale = TRUE]
    /\ UNCHANGED <<runVars, request, requested, clerk, lost, history>>

Process(op) == IF op = "recover" /\ Mode # "local" THEN "worker" ELSE "serve"

\* A process dies with its goroutines, registry and requests; asynq hands a job of a
\* dead worker out again.
Crash(p) ==
    /\ crashes < MaxCrashes /\ crashes' = crashes + 1
    /\ LET dead == {r \in Runs : pc[r] # "idle" /\ host[r] = p} IN
       /\ pc' = [r \in Runs |-> IF r \in dead THEN "idle" ELSE pc[r]]
       /\ seen' = [r \in Runs |-> IF r \in dead THEN Gone ELSE seen[r]]
       /\ ctx' = [r \in Runs |-> IF r \in dead THEN "live" ELSE ctx[r]]
       /\ host' = [r \in Runs |-> IF r \in dead THEN "serve" ELSE host[r]]
    /\ clerk' = [c \in Clerks |-> IF Process(clerk[c].op) = p THEN Free ELSE clerk[c]]
    /\ entry' = IF p = "serve" THEN NoRun ELSE entry
    /\ request' = IF p = "serve" THEN "returned" ELSE request
    /\ requested' = IF p = "serve" THEN NoRun ELSE requested
    /\ job' = IF p = "worker" /\ job = "active" THEN "pending" ELSE job
    /\ UNCHANGED <<row, late, lost, recoveries, edits>>

Processes == IF Mode = "local" THEN {"serve"} ELSE {"serve", "worker"}

Next ==
    \/ DispatchSubmitted \/ RequestReturns \/ HeartbeatAges
    \/ \E r \in Runs : WorkerTakes(r) \/ JobTimesOut(r) \/ RunStep(r)
    \/ \E c \in Clerks : Recover(c) \/ Edit(c)
    \/ \E p \in Processes : Crash(p)

\* Without a crash no run, request or pass stops for good: goroutines are scheduled,
\* model calls and statements return or time out, the recovery pass runs every minute,
\* time passes, and Redis hands its tasks out.
\* The discussion ends: it has at most MEETING_MAX_ROUNDS rounds.
EndsDiscussion(r) == EnsureActive(r) /\ pc'[r] = "recap"

Fairness ==
    /\ WF_vars(DispatchSubmitted) /\ WF_vars(RequestReturns) /\ WF_vars(HeartbeatAges)
    /\ \A r \in Runs : WF_vars(RunStep(r)) /\ SF_vars(EndsDiscussion(r))
    /\ WF_vars(\E r \in Runs : WorkerTakes(r))
    /\ \A c \in Clerks : WF_vars(Recover(c)) /\ WF_vars(StopsLocalRun(c) \/ Saves(c))

Spec == Init /\ [][Next]_vars
FairSpec == Spec /\ Fairness

-----------------------------------------------------------------------------
(* Properties *)

\* Every variable keeps its type.
TypeOK ==
    /\ row \in Rows
    /\ pc \in [Runs -> Steps] /\ seen \in [Runs -> Rows]
    /\ ctx \in [Runs -> {"live", "cancelled", "dead"}] /\ host \in [Runs -> {"serve", "worker"}]
    /\ entry \in Runs \cup {NoRun} /\ requested \in Runs \cup {NoRun}
    /\ job \in {"none", "pending", "active", "archived"}
    /\ request \in {"open", "dispatched", "returned"}
    /\ clerk \in [Clerks -> [op : Ops \cup {"none"},
                             at : {"idle", "stop", "save", "requeue", "dispatch"}, seen : Rows]]
    /\ late \in [Runs -> 0..MaxLate] /\ lost \subseteq Runs
    /\ recoveries \in 0..(RequeueLimit + 1) /\ edits \in 0..MaxEdits /\ crashes \in 0..MaxCrashes

\* Whoever saves the row, and however old the copy it saves, run_id is set exactly
\* while the meeting runs, and a queued meeting has no started_at: the recovery
\* queries, which look for those columns, can find every unfinished meeting.
RowCoherent ==
    /\ row.status = "running" <=> row.run # NoRun
    /\ row.status = "queued" => ~row.started

\* The registry never names a run that is over: such an entry would make every later
\* StartLocalMeetingRun of the meeting a no-op.
EntryAlive == entry # NoRun => pc[entry] # "idle" /\ host[entry] = "serve"

\* A run that lost the meeting (to a requeue, a cancel, a delete or another run)
\* makes at most one more turn, or applies its recap actions at most once more.
OneLateWrite == \A r \in Runs : late[r] <= 1

\* A run that lost the meeting never completes it and appends its conclusion, unless
\* the save of an older copy of the row handed the meeting back to it.
SupersededNeverConcludes ==
    [][\A r \in lost : pc'[r] = "conclude" => pc[r] = "conclude"]_vars

\* Recovery requeues a meeting at most MEETING_AUTO_REQUEUE_LIMIT times, whatever runs,
\* cancels, deletes and crashes overlap with its passes: in local mode, without edits.
RecoveriesBounded == recoveries <= RequeueLimit

\* A meeting that was submitted ends for good: completed, failed, cancelled or deleted.
MeetingEnds == <>[](row.status \in Terminal \cup {"gone"})

\* Without crashes and edits, a meeting marked running has a run working on it.
RunningHasRunner == row.status = "running" => pc[row.run] # "idle"

=============================================================================
