-------------------------- MODULE MeetingRunsProofs --------------------------
(* Proofs about MeetingRuns, for any number of runs, requests and recovery    *)
(* passes, in every dispatch mode.                                            *)
EXTENDS MeetingRuns, TLAPS

-----------------------------------------------------------------------------
(* The inductive invariant, by the part of the state it is about. *)

\* What RowCoherent says, of the row and of every copy someone loaded.
Coherent(x) ==
  /\ x.status = "running" <=> x.run # NoRun
  /\ x.status = "queued" => ~x.started

GoodRow(x) == x \in Rows /\ Coherent(x)

RowPart == GoodRow(row) /\ lost \subseteq Runs

RunsPart ==
  /\ pc \in [Runs -> Steps]
  /\ seen \in [Runs -> Rows] /\ \A r \in Runs : Coherent(seen[r])
  /\ ctx \in [Runs -> {"live", "cancelled", "dead"}] /\ host \in [Runs -> {"serve", "worker"}]
  /\ entry \in Runs \cup {NoRun} /\ EntryAlive
  /\ job \in {"none", "pending", "active", "archived"}

\* A run that is about to write has just found the meeting its own.
LatePart ==
  /\ late \in [Runs -> 0..MaxLate]
  /\ \A r \in Runs : late[r] <= 1 /\ (pc[r] \in {"talk", "apply"} => late[r] = 0)

RequestPart ==
  requested \in Runs \cup {NoRun} /\ request \in {"open", "dispatched", "returned"}

Clerk == [op : Ops \cup {"none"}, at : {"idle", "stop", "save", "requeue", "dispatch"},
          seen : Rows]

ClerksPart == clerk \in [Clerks -> Clerk] /\ \A c \in Clerks : Coherent(clerk[c].seen)

CountsPart ==
  /\ recoveries \in 0..(RequeueLimit + 1)
  /\ edits \in 0..MaxEdits /\ crashes \in 0..MaxCrashes

RunInv == RowPart /\ RunsPart /\ LatePart /\ RequestPart /\ ClerksPart /\ CountsPart

-----------------------------------------------------------------------------
(* The rows that are written. *)

LEMMA NewRows == GoodRow(Queued) /\ GoodRow(Gone)
  <1>1. 0 \in 0..RequeueLimit
    BY BoundsAssumption
  <1>2. Queued \in Rows /\ Gone \in Rows
    BY <1>1 DEF Queued, Gone, Rows, Statuses
  <1>3. QED
    BY <1>2 DEF GoodRow, Coherent, Queued, Gone

LEMMA ChangedRows ==
  ASSUME NEW old, GoodRow(old)
  PROVE  /\ \A status \in Terminal : GoodRow(ClosedAs(old, status))
         /\ \A r \in Runs : GoodRow(StartedRow(old, r))
         /\ \A stale \in BOOLEAN : GoodRow([old EXCEPT !.stale = stale])
         /\ ~Exhausted(old) => GoodRow(RequeuedRow(old))
  <1>1. old \in Rows /\ Coherent(old)
    BY DEF GoodRow
  <1>2. ASSUME NEW status \in Terminal
        PROVE  GoodRow(ClosedAs(old, status))
    <2>1. status \in Statuses /\ status # "running" /\ status # "queued"
      BY DEF Statuses, Terminal
    <2>2. /\ ClosedAs(old, status) \in Rows /\ ClosedAs(old, status).status = status
          /\ ClosedAs(old, status).run = NoRun
      BY <1>1, <2>1, Zenon DEF ClosedAs, Rows
    <2>3. QED
      BY <2>1, <2>2, Zenon DEF GoodRow, Coherent
  <1>3. ASSUME NEW r \in Runs
        PROVE  GoodRow(StartedRow(old, r))
    <2>1. "running" \in Statuses /\ r # NoRun /\ "running" # "queued"
      BY RunsAssumption DEF Statuses
    <2>2. /\ StartedRow(old, r) \in Rows /\ StartedRow(old, r).status = "running"
          /\ StartedRow(old, r).run = r
      BY <1>1, <2>1, Zenon DEF StartedRow, Rows
    <2>3. QED
      BY <2>1, <2>2, Zenon DEF GoodRow, Coherent
  <1>4. ASSUME NEW stale \in BOOLEAN
        PROVE  GoodRow([old EXCEPT !.stale = stale])
    <2> DEFINE new == [old EXCEPT !.stale = stale]
    <2>1. /\ new \in Rows /\ new.status = old.status /\ new.run = old.run
          /\ new.started = old.started
      BY <1>1, Zenon DEF Rows
    <2> HIDE DEF new
    <2>2. GoodRow(new)
      BY <1>1, <2>1, Zenon DEF GoodRow, Coherent
    <2>3. QED
      BY <2>2 DEF new
  <1>5. ASSUME ~Exhausted(old)
        PROVE  GoodRow(RequeuedRow(old))
    <2> DEFINE count == old.requeues + 1
    <2>1. count \in 0..RequeueLimit
      BY <1>1, <1>5, BoundsAssumption DEF Exhausted, Rows
    <2>2. Queued \in Rows /\ Coherent(Queued)
      BY NewRows DEF GoodRow
    <2>3. RequeuedRow(old) = [Queued EXCEPT !.requeues = count]
      BY DEF RequeuedRow
    <2> HIDE DEF count
    <2>4. /\ RequeuedRow(old) \in Rows /\ RequeuedRow(old).status = Queued.status
          /\ RequeuedRow(old).run = Queued.run /\ RequeuedRow(old).started = Queued.started
      BY <2>1, <2>2, <2>3, Zenon DEF Rows
    <2>5. QED
      BY <2>2, <2>4, Zenon DEF GoodRow, Coherent
  <1>6. QED
    BY <1>2, <1>3, <1>4, <1>5

LEMMA SavedRow ==
  ASSUME RowPart, NEW new, GoodRow(new), SaveRow(new) \/ SaveBack(new)
  PROVE  RowPart'
  <1>1. row.run \in Runs \cup {NoRun}
    BY DEF RowPart, GoodRow, Rows
  <1>2. row' = new /\ lost' \subseteq Runs
    BY <1>1 DEF RowPart, SaveRow, SaveBack
  <1>3. QED
    BY <1>2 DEF RowPart, GoodRow, Coherent

-----------------------------------------------------------------------------
(* The runs. *)

LEMMA LaunchedRun ==
  ASSUME RunsPart, LatePart, NEW r \in Runs, NEW where \in {"serve", "worker"},
         Launch(r, where), seen' = seen,
         entry' = IF where = "serve" THEN r ELSE entry,
         job' \in {"none", "pending", "active", "archived"}
  PROVE  RunsPart' /\ LatePart'
  <1>1. pc[r] = "idle" /\ "read" \in Steps
    BY DEF Launch, Unused, Steps
  <1>2. RunsPart'
    BY <1>1, RunsAssumption DEF RunsPart, Launch, EntryAlive, Coherent
  <1>3. LatePart'
    BY <1>1, BoundsAssumption DEF RunsPart, LatePart, Launch
  <1>4. QED
    BY <1>2, <1>3

LEMMA LeavingRun ==
  ASSUME RunsPart, LatePart, NEW r \in Runs, NEW failed, Leaves(r, failed),
         late' = late \/ late' = [late EXCEPT ![r] = 0]
  PROVE  RunsPart' /\ LatePart'
  <1>1. Coherent(Gone) /\ Gone \in Rows /\ "idle" \in Steps
    BY NewRows DEF GoodRow, Steps
  <1>2. \A x \in Runs : Coherent(seen'[x])
    BY <1>1, Zenon DEF RunsPart, Leaves
  <1>3. entry' \in Runs \cup {NoRun} /\ EntryAlive'
    BY DEF RunsPart, Leaves, EntryAlive, Unregistered
  <1>4. /\ pc' \in [Runs -> Steps] /\ seen' \in [Runs -> Rows]
        /\ ctx' \in [Runs -> {"live", "cancelled", "dead"}]
        /\ host' \in [Runs -> {"serve", "worker"}]
    BY <1>1, Zenon DEF RunsPart, Leaves
  <1>5. job' \in {"none", "pending", "active", "archived"}
    BY DEF RunsPart, Leaves
  <1>6. RunsPart'
    BY <1>2, <1>3, <1>4, <1>5, Zenon DEF RunsPart, Coherent
  <1>7. LatePart'
    BY BoundsAssumption DEF RunsPart, LatePart, Leaves
  <1>8. QED
    BY <1>6, <1>7

LEMMA GoingRun ==
  ASSUME RunsPart, NEW r \in Runs, NEW step \in Steps \ {"idle"}, Goes(r, step)
  PROVE  RunsPart'
  BY DEF RunsPart, Goes, EntryAlive, Coherent

\* A turn of a run, or its recap actions: late or not, it is the one write the run
\* makes before it checks itself again.
LEMMA WritingRun ==
  ASSUME RunsPart, LatePart, NEW r \in Runs, pc[r] \in {"talk", "apply"}, Writes(r),
         NEW step \in {"check", "close"}, Goes(r, step)
  PROVE  RunsPart' /\ LatePart'
  <1>1. RunsPart'
    <2>1. step \in Steps \ {"idle"}
      BY DEF Steps
    <2>2. QED
      BY <2>1, GoingRun
  <1>2. LatePart'
    BY BoundsAssumption DEF RunsPart, LatePart, Goes, Writes
  <1>3. QED
    BY <1>1, <1>2

\* The other steps of a run leave the count as it is, or reset it.
LEMMA ContinuingRun ==
  ASSUME RunsPart, LatePart, NEW r \in Runs, NEW step \in Steps \ {"idle"}, Goes(r, step),
         \/ late' = late /\ step \notin {"talk", "apply"}
         \/ late' = [late EXCEPT ![r] = 0]
  PROVE  RunsPart' /\ LatePart'
  <1>1. RunsPart'
    BY GoingRun
  <1>2. LatePart'
    BY BoundsAssumption DEF RunsPart, LatePart, Goes
  <1>3. QED
    BY <1>1, <1>2

LEMMA StartedLocally ==
  ASSUME RunsPart, LatePart, NEW started \in Runs \cup {NoRun}, StartLocal(started),
         seen' = seen, job' \in {"none", "pending", "active", "archived"}
  PROVE  RunsPart' /\ LatePart'
  <1>1. CASE UNCHANGED <<pc, ctx, host, entry, late>>
    BY <1>1 DEF RunsPart, LatePart, EntryAlive, Coherent
  <1>2. CASE started \in Runs /\ Launch(started, "serve") /\ entry' = started
    BY <1>2, LaunchedRun
  <1>3. QED
    BY <1>1, <1>2 DEF StartLocal

LEMMA EnqueuedType ==
  ASSUME RunsPart, Enqueue \/ UNCHANGED job
  PROVE  job' \in {"none", "pending", "active", "archived"}
  BY DEF RunsPart, Enqueue

-----------------------------------------------------------------------------
(* Every action keeps the invariant. *)

LEMMA RestUnchanged ==
  ASSUME RunInv
  PROVE  /\ UNCHANGED <<row, lost>> => RowPart'
         /\ UNCHANGED runVars => RunsPart' /\ LatePart'
         /\ UNCHANGED <<request, requested>> => RequestPart'
         /\ UNCHANGED clerk => ClerksPart'
         /\ UNCHANGED history => CountsPart'
  BY DEF RunInv, RowPart, GoodRow, Coherent, RunsPart, LatePart, runVars, EntryAlive,
         RequestPart, ClerksPart, CountsPart, history

LEMMA DispatchStep ==
  ASSUME RunInv, DispatchSubmitted \/ RequestReturns
  PROVE  RunInv'
  <1>1. CASE DispatchSubmitted
    <2>1. UNCHANGED <<row, seen, clerk, history>> /\ lost' \subseteq lost
          /\ request' = "dispatched"
      BY <1>1 DEF DispatchSubmitted
    <2>2. RowPart'
      BY <2>1 DEF RunInv, RowPart, GoodRow, Coherent
    <2>3. RunsPart' /\ LatePart' /\ requested' \in Runs \cup {NoRun}
      <3>1. CASE Enqueue /\ UNCHANGED <<pc, ctx, host, entry, late, requested>>
        <4>1. job' \in {"none", "pending", "active", "archived"}
          BY <3>1, EnqueuedType DEF RunInv
        <4>2. QED
          BY <2>1, <3>1, <4>1
             DEF RunInv, RunsPart, LatePart, RequestPart, EntryAlive, Coherent
      <3>2. CASE /\ \E started \in Runs \cup {NoRun} :
                      StartLocal(started) /\ requested' = started
                 /\ Enqueue \/ UNCHANGED job
        BY <2>1, <3>2, EnqueuedType, StartedLocally DEF RunInv
      <3>3. QED
        BY <1>1, <3>1, <3>2 DEF DispatchSubmitted
    <2>4. RequestPart'
      BY <2>1, <2>3 DEF RequestPart
    <2>5. QED
      BY <2>1, <2>2, <2>3, <2>4, RestUnchanged DEF RunInv
  <1>2. CASE RequestReturns
    <2>1. UNCHANGED <<row, pc, seen, host, entry, job, clerk, late, lost, history>>
          /\ request' = "returned" /\ requested' = NoRun
          /\ ctx' \in [Runs -> {"live", "cancelled", "dead"}]
      BY <1>2 DEF RequestReturns, RunInv, RunsPart
    <2>2. RunsPart' /\ LatePart' /\ RequestPart'
      BY <2>1 DEF RunInv, RunsPart, LatePart, RequestPart, EntryAlive, Coherent
    <2>3. QED
      BY <2>1, <2>2, RestUnchanged DEF RunInv
  <1>3. QED
    BY <1>1, <1>2

LEMMA WorkerStep ==
  ASSUME RunInv, NEW r \in Runs, WorkerTakes(r) \/ JobTimesOut(r)
  PROVE  RunInv'
  <1>1. CASE WorkerTakes(r)
    <2>1. RunsPart' /\ LatePart'
      BY <1>1, LaunchedRun DEF WorkerTakes, RunInv
    <2>2. RowPart'
      BY <1>1 DEF WorkerTakes, RunInv, RowPart, GoodRow, Coherent
    <2>3. QED
      BY <1>1, <2>1, <2>2, RestUnchanged DEF RunInv, WorkerTakes
  <1>2. CASE JobTimesOut(r)
    <2>1. RunsPart' /\ LatePart'
      BY <1>2 DEF JobTimesOut, RunInv, RunsPart, LatePart, EntryAlive, Coherent
    <2>2. QED
      BY <1>2, <2>1, RestUnchanged DEF RunInv, JobTimesOut
  <1>3. QED
    BY <1>1, <1>2

\* A step of a run leaves the requests, the clerks and the counts alone.
LEMMA RunStepParts ==
  ASSUME RunInv, UNCHANGED <<request, requested, clerk, history>>,
         RowPart', RunsPart', LatePart'
  PROVE  RunInv'
  BY RestUnchanged DEF RunInv

LEMMA ReadStep ==
  ASSUME RunInv, NEW r \in Runs, Read(r)
  PROVE  RunInv'
  <1>1. UNCHANGED <<row, request, requested, clerk, late, lost, history>>
    BY DEF Read
  <1>2. CASE \E failed \in BOOLEAN : Leaves(r, failed)
    BY <1>1, <1>2, LeavingRun, RestUnchanged, RunStepParts DEF RunInv
  <1>3. CASE /\ pc' = [pc EXCEPT ![r] = "save"] /\ seen' = [seen EXCEPT ![r] = row]
             /\ UNCHANGED <<ctx, host, entry, job>>
    <2>1. "save" \in Steps /\ row \in Rows /\ Coherent(row)
      BY DEF RunInv, RowPart, GoodRow, Steps
    <2>2. \A x \in Runs : Coherent(seen'[x])
      BY <1>3, <2>1, Zenon DEF RunInv, RunsPart
    <2>3. RunsPart'
      BY <1>3, <2>1, <2>2 DEF RunInv, RunsPart, EntryAlive, Coherent
    <2>4. LatePart'
      BY <1>1, <1>3 DEF RunInv, RunsPart, LatePart
    <2>5. QED
      BY <1>1, <2>3, <2>4, RestUnchanged, RunStepParts
  <1>4. QED
    BY <1>2, <1>3 DEF Read, Stop

LEMMA SaveStartStep ==
  ASSUME RunInv, NEW r \in Runs, SaveStart(r)
  PROVE  RunInv'
  <1>1. GoodRow(StartedRow(seen[r], r)) /\ Gone \in Rows /\ Coherent(Gone)
    BY ChangedRows, NewRows DEF RunInv, RunsPart, GoodRow
  <1>2. RowPart'
    BY <1>1, SavedRow DEF SaveStart, RunInv
  <1>3. \A x \in Runs : Coherent(seen'[x])
    BY <1>1, Zenon DEF SaveStart, RunInv, RunsPart
  <1>4. RunsPart'
    <2>1. "check" \in Steps /\ "check" # "idle"
      BY DEF Steps
    <2>2. QED
      BY <1>1, <1>3, <2>1 DEF SaveStart, RunInv, RunsPart, EntryAlive, Coherent
  <1>5. LatePart'
    BY DEF SaveStart, RunInv, RunsPart, LatePart
  <1>6. QED
    BY <1>2, <1>4, <1>5, RunStepParts DEF SaveStart

\* What the conditional updates leave of the row.
LEMMA ConditionalRow ==
  ASSUME RunInv, UNCHANGED lost,
         \/ row' = row \/ row' = [row EXCEPT !.stale = FALSE]
         \/ \E status \in Terminal : row' = ClosedAs(row, status)
  PROVE  RowPart'
  <1>1. GoodRow(row)
    BY DEF RunInv, RowPart
  <1>2. PICK new : row' = new /\ GoodRow(new)
    BY <1>1, ChangedRows
  <1>3. QED
    BY <1>2 DEF RunInv, RowPart, GoodRow, Coherent

LEMMA EnsureActiveStep ==
  ASSUME RunInv, NEW r \in Runs, EnsureActive(r)
  PROVE  RunInv'
  <1>1. /\ UNCHANGED <<request, requested, clerk, lost, history>>
        /\ late' = IF Owns(r) THEN [late EXCEPT ![r] = 0] ELSE late
    BY DEF EnsureActive
  <1>2. RowPart'
    BY ConditionalRow DEF EnsureActive
  <1>3. RunsPart' /\ LatePart'
    <2>1. CASE Touch(r)
      <3>1. PICK step \in After(pc[r]) : Goes(r, step)
        BY <2>1 DEF EnsureActive
      <3>2. step \in Steps \ {"idle"}
        BY <3>1 DEF After, Steps, EnsureActive
      <3>3. late' = [late EXCEPT ![r] = 0]
        BY <1>1, <2>1 DEF Touch
      <3>4. QED
        BY <3>1, <3>2, <3>3, ContinuingRun DEF RunInv
    <2>2. CASE ~Touch(r)
      BY <1>1, <2>2, LeavingRun DEF EnsureActive, Stop, RunInv
    <2>3. QED
      BY <2>1, <2>2
  <1>4. QED
    BY <1>1, <1>2, <1>3, RunStepParts

LEMMA TurnStep ==
  ASSUME RunInv, NEW r \in Runs, Talk(r) \/ Apply(r)
  PROVE  RunInv'
  <1>1. UNCHANGED <<row, request, requested, clerk, lost, history>>
    BY DEF Talk, Apply
  <1>2. RunsPart' /\ LatePart'
    BY WritingRun DEF Talk, Apply, RunInv
  <1>3. QED
    BY <1>1, <1>2, RestUnchanged, RunStepParts

LEMMA RecapStep ==
  ASSUME RunInv, NEW r \in Runs, Recap(r)
  PROVE  RunInv'
  <1>1. UNCHANGED <<request, requested, clerk, late, lost, history>>
    BY DEF Recap
  <1>2. RowPart'
    BY ConditionalRow DEF Recap
  <1>3. "act" \in Steps \ {"idle"} /\ "act" \notin {"talk", "apply"}
    BY DEF Steps
  <1>4. RunsPart' /\ LatePart'
    BY <1>1, <1>3, ContinuingRun, LeavingRun DEF Recap, Stop, RunInv
  <1>5. QED
    BY <1>1, <1>2, <1>4, RunStepParts

LEMMA EndStep ==
  ASSUME RunInv, NEW r \in Runs, Complete(r) \/ Conclude(r) \/ FailRun(r) \/ Abandon(r)
  PROVE  RunInv'
  <1>1. UNCHANGED <<request, requested, clerk, late, lost, history>>
    BY DEF Complete, Conclude, FailRun, Abandon
  <1>2. RowPart'
    <2>1. "completed" \in Terminal /\ "failed" \in Terminal
      BY DEF Terminal
    <2>2. QED
      BY <1>1, <2>1, ConditionalRow DEF Complete, Conclude, FailRun, Abandon
  <1>3. "conclude" \in Steps \ {"idle"} /\ "conclude" \notin {"talk", "apply"}
    BY DEF Steps
  <1>4. Goes(r, "conclude") \/ \E failed : Leaves(r, failed)
    BY DEF Complete, Conclude, FailRun, Abandon, Stop
  <1>5. RunsPart' /\ LatePart'
    BY <1>1, <1>3, <1>4, ContinuingRun, LeavingRun DEF RunInv
  <1>6. QED
    BY <1>1, <1>2, <1>5, RunStepParts

\* A request or a pass that leaves the runs alone.
LEMMA ClerkStepParts ==
  ASSUME RunInv, UNCHANGED <<runVars, request, requested>>, RowPart', ClerksPart', CountsPart'
  PROVE  RunInv'
  BY RestUnchanged DEF RunInv

\* A clerk moves on, with the copy it has or another coherent one.
LEMMA ClerkMoves ==
  ASSUME ClerksPart, NEW c \in Clerks, NEW new \in Clerk, Coherent(new.seen),
         clerk' = [clerk EXCEPT ![c] = new]
  PROVE  ClerksPart'
  <1>1. \A d \in Clerks : Coherent(clerk'[d].seen)
    BY DEF ClerksPart
  <1>2. QED
    BY <1>1 DEF ClerksPart, Coherent

LEMMA FreeClerk == Free \in Clerk /\ Coherent(Free.seen)
  BY NewRows DEF Free, Clerk, GoodRow

LEMMA ClerkAt ==
  ASSUME ClerksPart, NEW c \in Clerks, NEW at \in {"idle", "stop", "save", "requeue", "dispatch"}
  PROVE  [clerk[c] EXCEPT !.at = at] \in Clerk /\ [clerk[c] EXCEPT !.at = at].seen = clerk[c].seen
  BY Zenon DEF ClerksPart, Clerk

LEMMA LoadsStep ==
  ASSUME RunInv, NEW c \in Clerks, \E op \in ClerkOps : Loads(c, op)
  PROVE  RunInv'
  <1>1. PICK op \in ClerkOps : Loads(c, op)
    OBVIOUS
  <1> DEFINE new == [op |-> op, at |-> IF op = "update" THEN "save" ELSE "stop", seen |-> row]
  <1>2. new \in Clerk /\ Coherent(new.seen)
    BY RunsAssumption DEF Clerk, RunInv, RowPart, GoodRow
  <1> HIDE DEF new
  <1>3. ClerksPart'
    BY <1>1, <1>2, ClerkMoves DEF Loads, RunInv, new
  <1>4. CountsPart'
    BY <1>1, BoundsAssumption DEF Loads, RunInv, CountsPart
  <1>5. QED
    BY <1>1, <1>3, <1>4, RestUnchanged, ClerkStepParts DEF Loads

LEMMA StopsLocalRunStep ==
  ASSUME RunInv, NEW c \in Clerks, StopsLocalRun(c)
  PROVE  RunInv'
  <1>1. UNCHANGED <<row, pc, seen, host, job, request, requested, late, lost, history>>
    BY DEF StopsLocalRun
  <1>2. RunsPart' /\ LatePart'
    <2>1. ctx' \in [Runs -> {"live", "cancelled", "dead"}]
      BY DEF StopsLocalRun, RunInv, RunsPart
    <2>2. entry' \in {entry, NoRun}
      BY DEF StopsLocalRun
    <2>3. QED
      BY <1>1, <2>1, <2>2 DEF RunInv, RunsPart, LatePart, EntryAlive, Coherent
  <1>3. ClerksPart'
    <2> DEFINE new == [clerk[c] EXCEPT !.at = "save"]
    <2>1. new \in Clerk /\ new.seen = clerk[c].seen
      BY ClerkAt DEF RunInv
    <2>2. clerk' = [clerk EXCEPT ![c] = new]
      BY DEF StopsLocalRun, Moves
    <2>3. Coherent(clerk[c].seen)
      BY DEF RunInv, ClerksPart
    <2> HIDE DEF new
    <2>4. Coherent(new.seen)
      BY <2>1, <2>3
    <2>5. QED
      BY <2>1, <2>2, <2>4, ClerkMoves DEF RunInv
  <1>4. QED
    BY <1>1, <1>2, <1>3, RestUnchanged DEF RunInv

LEMMA SavesStep ==
  ASSUME RunInv, NEW c \in Clerks, Saves(c)
  PROVE  RunInv'
  <1>1. GoodRow(clerk[c].seen) /\ "cancelled" \in Terminal
    BY DEF RunInv, ClerksPart, Clerk, GoodRow, Terminal
  <1>2. GoodRow(ClosedAs(clerk[c].seen, "cancelled")) /\ GoodRow(Gone)
    BY <1>1, ChangedRows, NewRows
  <1>3. RowPart'
    BY <1>1, <1>2, SavedRow, RestUnchanged DEF Saves, RunInv
  <1>4. ClerksPart'
    BY FreeClerk, ClerkMoves DEF Saves, Returns, RunInv
  <1>5. QED
    BY <1>3, <1>4, RestUnchanged, ClerkStepParts DEF Saves

LEMMA FindsStep ==
  ASSUME RunInv, NEW c \in Clerks, FindsQueued(c) \/ FindsStale(c)
  PROVE  RunInv'
  <1>1. PICK at \in {"dispatch", "requeue"} :
          clerk' = [clerk EXCEPT ![c] = [op |-> "recover", at |-> at, seen |-> row]]
    BY DEF FindsQueued, FindsStale
  <1> DEFINE new == [op |-> "recover", at |-> at, seen |-> row]
  <1>2. new \in Clerk /\ Coherent(new.seen)
    BY DEF Clerk, Ops, RunInv, RowPart, GoodRow
  <1> HIDE DEF new
  <1>3. ClerksPart'
    BY <1>1, <1>2, ClerkMoves DEF RunInv, new
  <1>4. QED
    BY <1>3, RestUnchanged, ClerkStepParts DEF FindsQueued, FindsStale

LEMMA RequeuesStep ==
  ASSUME RunInv, NEW c \in Clerks, Requeues(c)
  PROVE  RunInv'
  <1> DEFINE old == clerk[c].seen
  <1>1. GoodRow(old) /\ "failed" \in Terminal
    BY DEF RunInv, ClerksPart, Clerk, GoodRow, Terminal
  <1>2. UNCHANGED <<runVars, request, requested, edits, crashes>>
    BY DEF Requeues
  <1>3. CASE Exhausted(old)
    <2>1. RowPart'
      BY <1>1, <1>3, ChangedRows, SavedRow DEF Requeues, RunInv
    <2>2. ClerksPart'
      BY <1>3, FreeClerk, ClerkMoves DEF Requeues, Returns, RunInv
    <2>3. QED
      BY <1>2, <1>3, <2>1, <2>2, RestUnchanged, ClerkStepParts DEF Requeues, history
  <1>4. CASE ~Exhausted(old)
    <2>1. GoodRow(RequeuedRow(old))
      BY <1>1, <1>4, ChangedRows
    <2>2. RowPart'
      BY <1>4, <2>1, SavedRow DEF Requeues, RunInv
    <2>3. ClerksPart'
      <3> DEFINE copy == RequeuedRow(old)
                 new == [clerk[c] EXCEPT !.at = "dispatch", !.seen = copy]
      <3>1. clerk' = [clerk EXCEPT ![c] = new]
        BY <1>4 DEF Requeues, RunInv, ClerksPart
      <3>2. clerk[c] \in Clerk /\ copy \in Rows /\ Coherent(copy)
        BY <2>1 DEF RunInv, ClerksPart, GoodRow
      <3> HIDE DEF copy
      <3>3. new \in Clerk /\ new.seen = copy
        BY <3>2, Zenon DEF Clerk
      <3> HIDE DEF new
      <3>4. Coherent(new.seen)
        BY <3>2, <3>3
      <3>5. QED
        BY <3>1, <3>3, <3>4, ClerkMoves DEF RunInv
    <2>4. CountsPart'
      BY <1>2, <1>4, BoundsAssumption DEF Requeues, RunInv, CountsPart
    <2>5. QED
      BY <1>2, <2>2, <2>3, <2>4, ClerkStepParts
  <1>5. QED
    BY <1>3, <1>4

LEMMA DispatchesStep ==
  ASSUME RunInv, NEW c \in Clerks, Dispatches(c)
  PROVE  RunInv'
  <1>1. UNCHANGED <<row, seen, request, requested, history>> /\ lost' \subseteq lost
    BY DEF Dispatches
  <1>2. RowPart'
    BY <1>1 DEF RunInv, RowPart, GoodRow, Coherent
  <1>3. RunsPart' /\ LatePart'
    <2>1. CASE UNCHANGED job /\ \E started \in Runs \cup {NoRun} : StartLocal(started)
      BY <1>1, <2>1, EnqueuedType, StartedLocally DEF RunInv
    <2>2. CASE Enqueue /\ UNCHANGED <<pc, ctx, host, entry, late>>
      <3>1. job' \in {"none", "pending", "active", "archived"}
        BY <2>2, EnqueuedType DEF RunInv
      <3>2. QED
        BY <1>1, <2>2, <3>1 DEF RunInv, RunsPart, LatePart, EntryAlive, Coherent
    <2>3. QED
      BY <2>1, <2>2 DEF Dispatches
  <1>4. ClerksPart'
    BY FreeClerk, ClerkMoves DEF Dispatches, Returns, RunInv
  <1>5. QED
    BY <1>1, <1>2, <1>3, <1>4, RestUnchanged DEF RunInv

LEMMA AgesStep ==
  ASSUME RunInv, HeartbeatAges
  PROVE  RunInv'
  <1>1. GoodRow([row EXCEPT !.stale = TRUE])
    BY ChangedRows DEF RunInv, RowPart
  <1>2. RowPart'
    BY <1>1 DEF HeartbeatAges, RunInv, RowPart, GoodRow, Coherent
  <1>3. QED
    BY <1>2, RestUnchanged DEF HeartbeatAges, RunInv

LEMMA CrashStep ==
  ASSUME RunInv, NEW p \in Processes, Crash(p)
  PROVE  RunInv'
  <1> DEFINE dead == {r \in Runs : pc[r] # "idle" /\ host[r] = p}
  <1>1. /\ pc' = [r \in Runs |-> IF r \in dead THEN "idle" ELSE pc[r]]
        /\ seen' = [r \in Runs |-> IF r \in dead THEN Gone ELSE seen[r]]
        /\ ctx' = [r \in Runs |-> IF r \in dead THEN "live" ELSE ctx[r]]
        /\ host' = [r \in Runs |-> IF r \in dead THEN "serve" ELSE host[r]]
        /\ clerk' = [c \in Clerks |-> IF Process(clerk[c].op) = p THEN Free ELSE clerk[c]]
        /\ entry' = IF p = "serve" THEN NoRun ELSE entry
        /\ request' = IF p = "serve" THEN "returned" ELSE request
        /\ requested' = IF p = "serve" THEN NoRun ELSE requested
        /\ job' = IF p = "worker" /\ job = "active" THEN "pending" ELSE job
        /\ UNCHANGED <<row, late, lost, recoveries, edits>>
    BY Zenon DEF Crash
  <1>2. Coherent(Gone) /\ Gone \in Rows /\ "idle" \in Steps
    BY NewRows DEF GoodRow, Steps
  <1>3. RunsPart'
    <2>1. pc' \in [Runs -> Steps]
      BY <1>1, <1>2, Zenon DEF RunInv, RunsPart
    <2>2. seen' \in [Runs -> Rows] /\ \A r \in Runs : Coherent(seen'[r])
      BY <1>1, <1>2, Zenon DEF RunInv, RunsPart
    <2>3. ctx' \in [Runs -> {"live", "cancelled", "dead"}] /\ host' \in [Runs -> {"serve", "worker"}]
      BY <1>1, Zenon DEF RunInv, RunsPart
    <2>4. entry' \in Runs \cup {NoRun} /\ job' \in {"none", "pending", "active", "archived"}
      BY <1>1 DEF RunInv, RunsPart
    <2>5. EntryAlive'
      BY <1>1 DEF RunInv, RunsPart, EntryAlive
    <2>6. QED
      BY <2>1, <2>2, <2>3, <2>4, <2>5, Zenon DEF RunsPart, Coherent
  <1>4. LatePart'
    <2>1. \A r \in Runs : pc'[r] \in {"idle", pc[r]}
      BY <1>1
    <2>2. QED
      BY <1>1, <2>1 DEF RunInv, LatePart
  <1>5. RequestPart'
    BY <1>1 DEF RunInv, RequestPart
  <1>6. ClerksPart'
    <2>1. \A c \in Clerks : clerk'[c] \in Clerk /\ Coherent(clerk'[c].seen)
      BY <1>1, FreeClerk, Zenon DEF RunInv, ClerksPart
    <2>2. clerk' \in [Clerks -> Clerk]
      BY <1>1, FreeClerk, Zenon DEF RunInv, ClerksPart
    <2>3. QED
      BY <2>1, <2>2, Zenon DEF ClerksPart, Coherent
  <1>7. CountsPart'
    BY <1>1, BoundsAssumption DEF Crash, RunInv, CountsPart
  <1>8. QED
    BY <1>1, <1>3, <1>4, <1>5, <1>6, <1>7, RestUnchanged DEF RunInv

LEMMA RunInvariant == Spec => []RunInv
  <1>1. Init => RunInv
    <2> SUFFICES ASSUME Init PROVE RunInv
      OBVIOUS
    <2>1. RowPart
      BY NewRows DEF Init, RowPart
    <2>2. RunsPart
      <3>1. Gone \in Rows /\ Coherent(Gone) /\ "idle" \in Steps
        BY NewRows DEF GoodRow, Steps
      <3>2. \A r \in Runs : Coherent(seen[r])
        BY <3>1, Zenon DEF Init
      <3>3. QED
        BY <3>1, <3>2 DEF Init, RunsPart, EntryAlive
    <2>3. LatePart
      BY BoundsAssumption DEF Init, LatePart
    <2>4. RequestPart
      BY DEF Init, RequestPart
    <2>5. ClerksPart
      BY FreeClerk, Zenon DEF Init, ClerksPart
    <2>6. CountsPart
      BY BoundsAssumption DEF Init, CountsPart
    <2>7. QED
      BY <2>1, <2>2, <2>3, <2>4, <2>5, <2>6 DEF RunInv
  <1>2. RunInv /\ [Next]_vars => RunInv'
    <2> SUFFICES ASSUME RunInv, [Next]_vars PROVE RunInv'
      OBVIOUS
    <2>1. CASE UNCHANGED vars
      BY <2>1, RestUnchanged DEF vars, runVars, history, RunInv
    <2>2. ASSUME NEW r \in Runs, RunStep(r)
          PROVE  RunInv'
      BY <2>2, ReadStep, SaveStartStep, EnsureActiveStep, TurnStep, RecapStep, EndStep
         DEF RunStep
    <2>3. ASSUME NEW c \in Clerks, Recover(c) \/ Edit(c)
          PROVE  RunInv'
      BY <2>3, FindsStep, RequeuesStep, DispatchesStep, LoadsStep, StopsLocalRunStep,
         SavesStep DEF Recover, Edit
    <2>4. QED
      BY <2>1, <2>2, <2>3, DispatchStep, WorkerStep, AgesStep, CrashStep, Zenon DEF Next
  <1>3. QED
    BY <1>1, <1>2, PTL DEF Spec

-----------------------------------------------------------------------------
(* The theorems. *)

\* The meeting's row, the copies of it and the bookkeeping stay within their types.
THEOREM RunTypes == Spec => []TypeOK
  <1>1. RunInv => TypeOK
    BY DEF RunInv, RowPart, GoodRow, RunsPart, LatePart, RequestPart, ClerksPart, Clerk,
           CountsPart, TypeOK
  <1>2. QED
    BY <1>1, RunInvariant, PTL

\* Whoever saves the row, and however old the copy, run_id is set exactly while the
\* meeting runs and a queued meeting has not started.
THEOREM RunRowCoherent == Spec => []RowCoherent
  <1>1. RunInv => RowCoherent
    BY DEF RunInv, RowPart, GoodRow, Coherent, RowCoherent
  <1>2. QED
    BY <1>1, RunInvariant, PTL

\* The registry of local runs never names a run that is over.
THEOREM RunEntryAlive == Spec => []EntryAlive
  <1>1. RunInv => EntryAlive
    BY DEF RunInv, RunsPart
  <1>2. QED
    BY <1>1, RunInvariant, PTL

\* A run that lost the meeting makes at most one more write.
THEOREM RunOneLateWrite == Spec => []OneLateWrite
  <1>1. RunInv => OneLateWrite
    BY DEF RunInv, LatePart, OneLateWrite
  <1>2. QED
    BY <1>1, RunInvariant, PTL

-----------------------------------------------------------------------------
(* Which run the row belongs to.  The run the row names has not lost it, for a *)
(* run that is about to take it is mentioned nowhere, and a copy that is saved *)
(* gives the meeting back to the run it names.                                 *)

\* x is a run that the row, a loaded copy or the ghost has heard of.
Mentioned(x) ==
  \/ row.run = x
  \/ x \in lost
  \/ \E q \in Runs : seen[q].run = x
  \/ \E c \in Clerks : clerk[c].seen.run = x

Starting == {"read", "save"}

OwnerInv ==
  /\ row.run \notin lost
  /\ \A q \in Runs : pc[q] # "save" => seen[q] = Gone
  /\ \A r \in Runs : pc[r] \in Starting => ~Mentioned(r)

\* A step after which nobody mentions a run that was unknown before.
LEMMA OwnerKept ==
  ASSUME OwnerInv,
         \A x \in Runs : Mentioned(x)' => Mentioned(x),
         \A r \in Runs : pc'[r] \in Starting => pc[r] \in Starting,
         \A q \in Runs : pc'[q] # "save" => seen'[q] = Gone,
         row'.run \notin lost'
  PROVE  OwnerInv'
  BY DEF OwnerInv

\* The columns of the rows that are written.
LEMMA WrittenRuns ==
  /\ Gone.run = NoRun /\ NoRun \notin Runs
  /\ \A old \in Rows :
       /\ \A to \in Statuses : ClosedAs(old, to).run = NoRun
       /\ \A r \in Runs : StartedRow(old, r).run = r
       /\ RequeuedRow(old).run = NoRun
       /\ \A stale \in BOOLEAN : [old EXCEPT !.stale = stale].run = old.run
  BY RunsAssumption
     DEF Gone, Queued, ClosedAs, StartedRow, RequeuedRow, Rows

\* A run is launched: Unused says that nobody mentions it.
LEMMA LaunchOwner ==
  ASSUME RunInv, OwnerInv, NEW r \in Runs, NEW where, Launch(r, where),
         UNCHANGED <<row, seen>>, lost' = lost \ {r},
         \A c \in Clerks : clerk'[c] \in {clerk[c], Free}
  PROVE  OwnerInv'
  <1>1. pc \in [Runs -> Steps] /\ pc[r] = "idle" /\ pc' = [pc EXCEPT ![r] = "read"]
    BY DEF RunInv, RunsPart, Launch, Unused
  <1>2. \A x \in Runs : Mentioned(x)' => Mentioned(x)
    BY WrittenRuns DEF Mentioned, Free
  <1>3. ~Mentioned(r)'
    <2>1. row'.run # r /\ r \notin lost'
      BY DEF Launch, Unused
    <2>2. \A q \in Runs : seen'[q].run # r
      BY WrittenRuns DEF Launch, Unused, OwnerInv
    <2>3. \A c \in Clerks : clerk'[c].seen.run # r
      BY WrittenRuns DEF Launch, Unused, Free
    <2>4. QED
      BY <2>1, <2>2, <2>3 DEF Mentioned
  <1>4. QED
    BY <1>1, <1>2, <1>3 DEF OwnerInv, Starting

\* A step that leaves the row alone and whose copies are known or of no run.
LEMMA CopiesOwner ==
  ASSUME RunInv, OwnerInv, row'.run \in {row.run, NoRun}, lost' \subseteq lost,
         \A q \in Runs : \/ (pc'[q] = pc[q] /\ seen'[q] = seen[q])
                        \/ (pc'[q] \notin Starting /\ seen'[q] = Gone)
                        \/ (pc[q] = "read" /\ pc'[q] = "save" /\ seen'[q] = row),
         \A c \in Clerks : clerk'[c].seen.run \in {clerk[c].seen.run, row.run, NoRun}
  PROVE  OwnerInv'
  <1>1. \A x \in Runs : Mentioned(x)' => Mentioned(x)
    <2>1. \A q \in Runs : seen'[q].run \in {seen[q].run, NoRun, row.run}
      BY WrittenRuns
    <2>2. QED
      BY <2>1, WrittenRuns DEF Mentioned
  <1>2. row'.run \notin lost'
    BY WrittenRuns DEF RunInv, RowPart, OwnerInv
  <1>3. QED
    BY <1>1, <1>2, OwnerKept DEF OwnerInv, Starting

\* A whole row without a run, or an older copy of the row, is saved.
LEMMA SaveOwner ==
  ASSUME RunInv, OwnerInv, NEW new \in Rows, UNCHANGED <<pc, seen>>,
         \/ SaveRow(new) /\ new.run = NoRun
         \/ SaveBack(new) /\ \E c \in Clerks : new = clerk[c].seen,
         \A c \in Clerks : clerk'[c].seen.run \in {clerk[c].seen.run, NoRun}
  PROVE  OwnerInv'
  <1>1. row' = new /\ row.run \in Runs \cup {NoRun} /\ lost \subseteq Runs
    BY DEF SaveRow, SaveBack, RunInv, RowPart, GoodRow, Rows
  <1>2. row'.run \notin lost' /\ lost' \subseteq lost \cup {row.run}
    BY <1>1, WrittenRuns DEF SaveRow, SaveBack
  <1>3. \A x \in Runs : Mentioned(x)' => Mentioned(x)
    BY <1>1, <1>2, WrittenRuns DEF Mentioned
  <1>4. QED
    BY <1>2, <1>3, OwnerKept DEF OwnerInv

\* A run takes the meeting: nobody has heard of it before.
LEMMA TakeOwner ==
  ASSUME RunInv, OwnerInv, NEW r \in Runs, SaveStart(r)
  PROVE  OwnerInv'
  <1>1. /\ row' = StartedRow(seen[r], r) /\ seen[r] \in Rows /\ lost \subseteq Runs
        /\ row'.run = r /\ UNCHANGED clerk /\ pc[r] = "save"
        /\ pc' = [pc EXCEPT ![r] = "check"] /\ seen' = [seen EXCEPT ![r] = Gone]
        /\ pc \in [Runs -> Steps] /\ seen \in [Runs -> Rows]
    BY WrittenRuns DEF SaveStart, SaveRow, RunInv, RunsPart, RowPart
  <1>2. ~Mentioned(r) /\ lost' \subseteq lost \cup {row.run}
    BY <1>1 DEF OwnerInv, Starting, SaveStart, SaveRow
  <1>3. r \notin lost'
    BY <1>2 DEF Mentioned
  <1>4. ASSUME NEW s \in Runs, pc'[s] \in Starting
        PROVE  ~Mentioned(s)'
    <2>1. s # r /\ pc[s] \in Starting
      BY <1>1, <1>4 DEF Starting
    <2>2. ~Mentioned(s)
      BY <2>1 DEF OwnerInv
    <2>3. \A q \in Runs : seen'[q].run # s
      BY <1>1, <2>2, WrittenRuns DEF Mentioned
    <2>4. s \notin lost' /\ row'.run # s /\ \A c \in Clerks : clerk'[c].seen.run # s
      BY <1>1, <1>2, <2>1, <2>2 DEF Mentioned
    <2>5. QED
      BY <2>3, <2>4 DEF Mentioned
  <1>5. QED
    BY <1>1, <1>3, <1>4 DEF OwnerInv

\* What the steps of a run other than SaveStart do to rows and copies.
LEMMA RunStepOwner ==
  ASSUME RunInv, OwnerInv, NEW r \in Runs, RunStep(r)
  PROVE  OwnerInv'
  <1>1. pc \in [Runs -> Steps] /\ seen \in [Runs -> Rows] /\ row \in Rows
    BY DEF RunInv, RunsPart, RowPart, GoodRow
  <1> DEFINE Ends == /\ pc' = [pc EXCEPT ![r] = "idle"]
                     /\ seen' = [seen EXCEPT ![r] = Gone]
             Reads == /\ pc[r] = "read" /\ pc' = [pc EXCEPT ![r] = "save"]
                      /\ seen' = [seen EXCEPT ![r] = row]
             Proceeds == /\ pc[r] \notin Starting /\ UNCHANGED seen
                         /\ \E step \in Steps \ Starting : pc' = [pc EXCEPT ![r] = step]
  <1>2. CASE SaveStart(r)
    BY <1>2, TakeOwner
  <1>3. CASE ~SaveStart(r)
    <2>1. UNCHANGED <<clerk, lost>>
      BY <1>3 DEF RunStep, Read, EnsureActive, Talk, Recap, Apply, Complete, Conclude,
                  FailRun, Abandon
    <2>2. row'.run \in {row.run, NoRun}
      <3>1. "completed" \in Statuses /\ "failed" \in Statuses
        BY DEF Statuses
      <3>2. \/ row' = row \/ row' = [row EXCEPT !.stale = FALSE]
            \/ row' = ClosedAs(row, "completed") \/ row' = ClosedAs(row, "failed")
        BY <1>3 DEF RunStep, Read, EnsureActive, Talk, Recap, Apply, Complete, Conclude,
                    FailRun, Abandon
      <3>3. /\ ClosedAs(row, "completed").run = NoRun /\ ClosedAs(row, "failed").run = NoRun
            /\ [row EXCEPT !.stale = FALSE].run = row.run
        BY <1>1, <3>1, WrittenRuns
      <3>4. QED
        BY <3>2, <3>3, Zenon
    <2>3. Ends \/ Reads \/ Proceeds
      <3>1. \A failed : Leaves(r, failed) => Ends
        BY DEF Leaves
      <3>2. \A step \in Steps \ Starting :
              pc[r] \notin Starting /\ Goes(r, step) => Proceeds
        BY DEF Goes
      <3>3. CASE Read(r) \/ Conclude(r) \/ FailRun(r)
        BY <3>1, <3>3 DEF Read, Conclude, FailRun, Stop
      <3>4. CASE Abandon(r)
        BY <3>1, <3>4, Zenon DEF Abandon
      <3>5. CASE EnsureActive(r)
        BY <3>1, <3>2, <3>5 DEF EnsureActive, Stop, After, Starting, Steps
      <3>6. CASE Talk(r) \/ Recap(r) \/ Apply(r) \/ Complete(r)
        BY <3>1, <3>2, <3>6 DEF Talk, Recap, Apply, Complete, Stop, Starting, Steps
      <3>7. QED
        BY <1>3, <3>3, <3>4, <3>5, <3>6 DEF RunStep
    <2>4. \A q \in Runs : \/ (pc'[q] = pc[q] /\ seen'[q] = seen[q])
                         \/ (pc'[q] \notin Starting /\ seen'[q] = Gone)
                         \/ (pc[q] = "read" /\ pc'[q] = "save" /\ seen'[q] = row)
      BY <1>1, <2>3 DEF Starting, OwnerInv
    <2>5. QED
      BY <2>1, <2>2, <2>4, CopiesOwner
  <1>4. QED
    BY <1>2, <1>3

\* Requests and recovery passes.
LEMMA ClerkStepOwner ==
  ASSUME RunInv, OwnerInv, NEW c \in Clerks, Recover(c) \/ Edit(c)
  PROVE  OwnerInv'
  <1>1. /\ clerk \in [Clerks -> Clerk] /\ row \in Rows /\ clerk[c].seen \in Rows
        /\ Free.seen.run = NoRun
    BY WrittenRuns DEF RunInv, ClerksPart, RowPart, GoodRow, Clerk, Free
  <1> DEFINE old == clerk[c].seen
             Kept == \A d \in Clerks : clerk'[d].seen.run \in {clerk[d].seen.run, NoRun}
  <1>2. CASE FindsQueued(c) \/ FindsStale(c) \/ \E op \in ClerkOps : Loads(c, op)
    <2>1. UNCHANGED <<row, lost, pc, seen>>
      BY <1>2 DEF FindsQueued, FindsStale, Loads, runVars
    <2>2. \A d \in Clerks : clerk'[d].seen.run \in {clerk[d].seen.run, row.run, NoRun}
      BY <1>1, <1>2 DEF FindsQueued, FindsStale, Loads
    <2>3. QED
      BY <2>1, <2>2, CopiesOwner
  <1>3. CASE StopsLocalRun(c)
    <2>1. UNCHANGED <<row, lost, pc, seen>>
      BY <1>3 DEF StopsLocalRun
    <2>2. Kept
      BY <1>1, <1>3 DEF StopsLocalRun, Moves, Clerk
    <2>3. QED
      BY <2>1, <2>2, CopiesOwner
  <1>4. CASE Saves(c)
    <2>1. UNCHANGED <<pc, seen>> /\ Kept
      BY <1>1, <1>4 DEF Saves, Returns, runVars
    <2>2. \/ SaveRow(ClosedAs(old, "cancelled")) \/ SaveRow(Gone)
          \/ SaveBack(old) \/ UNCHANGED <<row, lost>>
      BY <1>4 DEF Saves
    <2>3. /\ ClosedAs(old, "cancelled") \in Rows /\ ClosedAs(old, "cancelled").run = NoRun
          /\ Gone \in Rows /\ Gone.run = NoRun
      <3>1. GoodRow(old) /\ "cancelled" \in Terminal /\ "cancelled" \in Statuses
        BY <1>1 DEF RunInv, ClerksPart, GoodRow, Terminal, Statuses
      <3>2. QED
        BY <1>1, <3>1, ChangedRows, NewRows, WrittenRuns DEF GoodRow
    <2>4. CASE UNCHANGED <<row, lost>>
      BY <2>1, <2>4, CopiesOwner
    <2>5. QED
      BY <1>1, <2>1, <2>2, <2>3, <2>4, SaveOwner
  <1>5. CASE Requeues(c)
    <2>1. GoodRow(old) /\ "failed" \in Terminal /\ "failed" \in Statuses
      BY <1>1 DEF RunInv, ClerksPart, GoodRow, Terminal, Statuses
    <2>2. /\ ClosedAs(old, "failed") \in Rows /\ ClosedAs(old, "failed").run = NoRun
          /\ RequeuedRow(old).run = NoRun
      BY <1>1, <2>1, ChangedRows, WrittenRuns DEF GoodRow
    <2>3. UNCHANGED <<pc, seen>>
      BY <1>5 DEF Requeues, runVars
    <2>4. CASE Exhausted(old)
      <3>1. SaveRow(ClosedAs(old, "failed")) /\ Kept
        BY <1>1, <1>5, <2>4 DEF Requeues, Returns
      <3>2. QED
        BY <2>2, <2>3, <3>1, SaveOwner
    <2>5. CASE ~Exhausted(old)
      <3>1. RequeuedRow(old) \in Rows
        BY <2>1, <2>5, ChangedRows DEF GoodRow
      <3>2. SaveRow(RequeuedRow(old))
        BY <1>5, <2>5 DEF Requeues
      <3>3. Kept
        BY <1>1, <1>5, <2>2, <2>5 DEF Requeues, Clerk
      <3>4. QED
        BY <2>2, <2>3, <3>1, <3>2, <3>3, SaveOwner
    <2>6. QED
      BY <2>4, <2>5
  <1>6. CASE Dispatches(c)
    <2>1. UNCHANGED <<row, seen>> /\ \A d \in Clerks : clerk'[d] \in {clerk[d], Free}
      BY <1>1, <1>6 DEF Dispatches, Returns
    <2>2. Kept
      BY <1>1, <2>1
    <2>3. CASE \E started \in Runs : Launch(started, "serve") /\ lost' = lost \ {started}
      BY <2>1, <2>3, LaunchOwner
    <2>4. CASE UNCHANGED pc /\ lost' \subseteq lost
      BY <2>1, <2>2, <2>4, CopiesOwner
    <2>5. QED
      BY <1>6, <2>3, <2>4 DEF Dispatches, StartLocal
  <1>7. QED
    BY <1>2, <1>3, <1>4, <1>5, <1>6 DEF Recover, Edit

\* The requests that start runs, the worker, time and crashes.
LEMMA OtherStepOwner ==
  ASSUME RunInv, OwnerInv,
         \/ DispatchSubmitted \/ RequestReturns \/ HeartbeatAges
         \/ \E r \in Runs : WorkerTakes(r) \/ JobTimesOut(r)
         \/ \E p \in Processes : Crash(p)
  PROVE  OwnerInv'
  <1>1. \A c \in Clerks : clerk[c].seen.run \in {clerk[c].seen.run, row.run, NoRun}
    OBVIOUS
  <1>2. CASE DispatchSubmitted
    <2>1. UNCHANGED <<row, seen, clerk>> /\ lost' = lost \ {requested'}
      BY <1>2 DEF DispatchSubmitted
    <2>2. CASE UNCHANGED pc
      BY <1>1, <2>1, <2>2, CopiesOwner
    <2>3. CASE \E started \in Runs : Launch(started, "serve") /\ requested' = started
      BY <2>1, <2>3, LaunchOwner
    <2>4. QED
      BY <1>2, <2>2, <2>3 DEF DispatchSubmitted, StartLocal
  <1>3. CASE RequestReturns
    BY <1>1, <1>3, CopiesOwner DEF RequestReturns
  <1>4. CASE HeartbeatAges
    <2>1. row' = [row EXCEPT !.stale = TRUE] /\ UNCHANGED <<pc, seen, clerk, lost>>
      BY <1>4 DEF HeartbeatAges, runVars
    <2>2. row'.run = row.run
      BY <2>1, WrittenRuns DEF RunInv, RowPart, GoodRow
    <2>3. QED
      BY <1>1, <2>1, <2>2, CopiesOwner
  <1>5. ASSUME NEW r \in Runs, WorkerTakes(r) \/ JobTimesOut(r)
        PROVE  OwnerInv'
    <2>1. CASE WorkerTakes(r)
      BY <2>1, LaunchOwner DEF WorkerTakes
    <2>2. CASE JobTimesOut(r)
      BY <1>1, <2>2, CopiesOwner DEF JobTimesOut
    <2>3. QED
      BY <1>5, <2>1, <2>2
  <1>6. ASSUME NEW p \in Processes, Crash(p)
        PROVE  OwnerInv'
    <2>1. UNCHANGED <<row, lost>>
      BY <1>6 DEF Crash
    <2>2. \A q \in Runs : \/ (pc'[q] = pc[q] /\ seen'[q] = seen[q])
                         \/ (pc'[q] \notin Starting /\ seen'[q] = Gone)
      BY <1>6 DEF Crash, Starting
    <2>3. \A c \in Clerks : clerk'[c].seen.run \in {clerk[c].seen.run, NoRun}
      BY <1>6, WrittenRuns DEF Crash, Free
    <2>4. QED
      BY <2>1, <2>2, <2>3, CopiesOwner
  <1>7. QED
    BY <1>2, <1>3, <1>4, <1>5, <1>6

LEMMA OwnerInvariant == Spec => [](RunInv /\ OwnerInv)
  <1>1. Init => OwnerInv
    <2>1. Init => \A r \in Runs : pc[r] = "idle" /\ seen[r] = Gone
      BY DEF Init
    <2>2. QED
      BY <2>1 DEF Init, OwnerInv, Starting
  <1>2. RunInv /\ OwnerInv /\ [Next]_vars => OwnerInv'
    <2> SUFFICES ASSUME RunInv, OwnerInv, [Next]_vars PROVE OwnerInv'
      OBVIOUS
    <2>1. CASE UNCHANGED vars
      BY <2>1, CopiesOwner DEF vars
    <2>2. CASE Next
      BY <2>2, RunStepOwner, ClerkStepOwner, OtherStepOwner, Zenon DEF Next
    <2>3. QED
      BY <2>1, <2>2
  <1>3. QED
    BY <1>1, <1>2, RunInvariant, PTL DEF Spec

\* A run that lost the meeting never completes it and appends its conclusion, unless
\* the save of an older copy of the row handed the meeting back to it.
THEOREM RunSupersededNeverConcludes == Spec => SupersededNeverConcludes
  <1>1. RunInv /\ OwnerInv /\ [Next]_vars =>
          \A r \in lost : pc'[r] = "conclude" => pc[r] = "conclude"
    <2> SUFFICES ASSUME RunInv, OwnerInv, [Next]_vars, NEW r \in lost,
                        pc'[r] = "conclude", pc[r] # "conclude"
                 PROVE  FALSE
      OBVIOUS
    <2>1. r \in Runs /\ pc \in [Runs -> Steps] /\ row.run # r
      BY DEF RunInv, RowPart, RunsPart, OwnerInv
    <2>2. ASSUME NEW q \in Runs, RunStep(q)
          PROVE  FALSE
      <3>1. ~Complete(q)
        BY <2>1 DEF Complete, MayComplete, Owns, Goes, Stop, Leaves
      <3>2. \A failed : ~Leaves(q, failed)
        BY <2>1 DEF Leaves
      <3>3. \A step : step # "conclude" => ~Goes(q, step)
        BY <2>1 DEF Goes
      <3>4. ~(Read(q) \/ SaveStart(q))
        BY <2>1, <3>2 DEF Read, SaveStart, Stop
      <3>5. ~(Talk(q) \/ Recap(q) \/ Apply(q))
        BY <3>2, <3>3 DEF Talk, Recap, Apply, Stop
      <3>6. ~EnsureActive(q)
        <4>1. \A step \in After(pc[q]) : step # "conclude"
          BY DEF After
        <4>2. QED
          BY <3>2, <3>3, <4>1 DEF EnsureActive, Stop
      <3>7. ~(Conclude(q) \/ FailRun(q) \/ Abandon(q))
        BY <3>2, Zenon DEF Conclude, FailRun, Abandon, Stop
      <3>8. QED
        BY <2>2, <3>1, <3>4, <3>5, <3>6, <3>7 DEF RunStep
    <2>3. ASSUME NEW c \in Clerks, Recover(c) \/ Edit(c)
          PROVE  FALSE
      BY <2>1, <2>3 DEF Recover, Edit, FindsQueued, FindsStale, Requeues, Dispatches, Loads,
                        StopsLocalRun, Saves, StartLocal, Launch, runVars
    <2>4. CASE DispatchSubmitted \/ RequestReturns \/ HeartbeatAges
      BY <2>1, <2>4 DEF DispatchSubmitted, RequestReturns, HeartbeatAges, StartLocal, Launch,
                        runVars
    <2>5. ASSUME NEW q \in Runs, WorkerTakes(q) \/ JobTimesOut(q)
          PROVE  FALSE
      BY <2>1, <2>5 DEF WorkerTakes, JobTimesOut, Launch
    <2>6. ASSUME NEW p \in Processes, Crash(p)
          PROVE  FALSE
      BY <2>1, <2>6 DEF Crash
    <2>7. CASE UNCHANGED vars
      BY <2>7 DEF vars
    <2>8. QED
      BY <2>2, <2>3, <2>4, <2>5, <2>6, <2>7, Zenon DEF Next
  <1>2. QED
    BY <1>1, OwnerInvariant, PTL DEF Spec, SupersededNeverConcludes

-----------------------------------------------------------------------------
(* The number of recoveries. *)

\* One process does everything and no request saves the row of an older copy.
OneProcess == Mode = "local" /\ "update" \notin ClerkOps

Unfinished == {"queued", "running"}
Starts(x) == pc[x] \in {"read", "save"}
Recovering(c) == clerk[c].op = "recover"

\* The copies a requeue is written from have counted every recovery; while one may be
\* counted, nobody else starts a run or holds a copy of the row to start it from.
RecoveriesCounted ==
  /\ recoveries <= RequeueLimit
  /\ row.status \in Unfinished => recoveries <= row.requeues
  /\ row.stale => row.status = "running"
  /\ job = "none" /\ (\A r \in Runs : host[r] = "serve")
  /\ \A c \in Clerks : clerk[c].op # "update"
  /\ \A r \in Runs : pc[r] = "save" => recoveries <= seen[r].requeues
  /\ \A c \in Clerks : clerk[c].at = "requeue" => recoveries <= clerk[c].seen.requeues
  /\ \A c \in Clerks : clerk[c].at \in {"requeue", "dispatch"} => Recovering(c)
  /\ \A c, d \in Clerks : Recovering(c) /\ Recovering(d) => c = d
  /\ row.stale \/ (\E c \in Clerks : clerk[c].at = "requeue") =>
       /\ request # "open"
       /\ \A r \in Runs : ~Starts(r)
       /\ \A c \in Clerks : clerk[c].at # "dispatch"

RecoveryInv == OneProcess => RecoveriesCounted

\* What a requeue and a delete write.
LEMMA RestartedRow ==
  ASSUME NEW old \in Rows
  PROVE  /\ RequeuedRow(old).status = "queued" /\ RequeuedRow(old).stale = FALSE
         /\ RequeuedRow(old).requeues = old.requeues + 1
         /\ Gone.status = "gone" /\ Gone.stale = FALSE
  BY DEF RequeuedRow, Queued, Gone

\* Steps that neither start a run, nor copy the row, nor requeue.
Quiet ==
  /\ UNCHANGED <<recoveries, job>>
  /\ row'.status \in Unfinished => row.status \in Unfinished /\ row'.requeues = row.requeues
  /\ row'.stale => row.stale /\ row'.status = "running"
  /\ request # "open" => request' # "open"
  /\ \A r \in Runs : host'[r] \in {host[r], "serve"}
  /\ \A r \in Runs : pc'[r] \in {"read", "save"} => pc'[r] = pc[r] /\ seen'[r] = seen[r]
  /\ \A c \in Clerks : clerk'[c].at \in {"requeue", "dispatch"} => clerk'[c] = clerk[c]
  /\ \A c \in Clerks : clerk'[c].op = clerk[c].op \/ clerk'[c].op \notin {"recover", "update"}

LEMMA QuietStep ==
  ASSUME RecoveriesCounted, Quiet
  PROVE  RecoveriesCounted'
  <1>1. /\ recoveries' = recoveries /\ job' = "none"
        /\ \A r \in Runs : host'[r] = "serve"
        /\ \A c \in Clerks : clerk'[c].op # "update"
    BY DEF RecoveriesCounted, Quiet
  <1>2. /\ row'.status \in Unfinished => recoveries' <= row'.requeues
        /\ row'.stale => row'.status = "running"
    BY <1>1 DEF RecoveriesCounted, Quiet
  <1>3. \A r \in Runs : pc'[r] = "save" => recoveries' <= seen'[r].requeues
    BY <1>1 DEF RecoveriesCounted, Quiet
  <1>4. /\ \A c \in Clerks : clerk'[c].at = "requeue" => recoveries' <= clerk'[c].seen.requeues
        /\ \A c \in Clerks : clerk'[c].at \in {"requeue", "dispatch"} => Recovering(c)'
        /\ \A c, d \in Clerks : Recovering(c)' /\ Recovering(d)' => c = d
    BY <1>1 DEF RecoveriesCounted, Quiet, Recovering
  <1>5. row'.stale \/ (\E c \in Clerks : clerk'[c].at = "requeue") =>
          /\ request' # "open"
          /\ \A r \in Runs : ~Starts(r)'
          /\ \A c \in Clerks : clerk'[c].at # "dispatch"
    BY DEF RecoveriesCounted, Quiet, Starts
  <1>6. recoveries' <= RequeueLimit
    BY <1>1 DEF RecoveriesCounted
  <1>7. QED
    BY <1>1, <1>2, <1>3, <1>4, <1>5, <1>6 DEF RecoveriesCounted

\* What a run that leaves or goes on changes.
LEMMA LeavingIsQuiet ==
  ASSUME RunInv, RecoveriesCounted, NEW r \in Runs, NEW failed \in BOOLEAN, Leaves(r, failed)
  PROVE  /\ job' = job /\ \A q \in Runs : host'[q] \in {host[q], "serve"}
         /\ \A q \in Runs : pc'[q] \in {"read", "save"} => pc'[q] = pc[q] /\ seen'[q] = seen[q]
  <1>1. host[r] = "serve"
    BY DEF RecoveriesCounted
  <1>2. job' = job
    BY <1>1, Zenon DEF Leaves
  <1>3. \A q \in Runs : host'[q] \in {host[q], "serve"}
    BY DEF Leaves, RunInv, RunsPart
  <1>4. \A q \in Runs : pc'[q] \in {"read", "save"} => pc'[q] = pc[q] /\ seen'[q] = seen[q]
    BY DEF Leaves, RunInv, RunsPart
  <1>5. QED
    BY <1>2, <1>3, <1>4

LEMMA GoingIsQuiet ==
  ASSUME RunInv, NEW r \in Runs, NEW step \in Steps \ {"read", "save"}, Goes(r, step)
  PROVE  /\ job' = job /\ \A q \in Runs : host'[q] \in {host[q], "serve"}
         /\ \A q \in Runs : pc'[q] \in {"read", "save"} => pc'[q] = pc[q] /\ seen'[q] = seen[q]
  BY DEF Goes, RunInv, RunsPart

\* What a step of a run may make of the row by a conditional update.
LEMMA UpdatedRow ==
  ASSUME RunInv, RecoveriesCounted,
         \/ UNCHANGED row
         \/ row' = [row EXCEPT !.stale = FALSE]
         \/ row' = ClosedAs(row, "completed") \/ row' = ClosedAs(row, "failed")
  PROVE  /\ row'.status \in Unfinished => row.status \in Unfinished /\ row'.requeues = row.requeues
         /\ row'.stale => row.stale /\ row'.status = "running"
  <1>1. row \in Rows /\ (row.stale => row.status = "running")
        /\ {"completed", "failed"} \subseteq Statuses \ Unfinished
    BY DEF RunInv, RowPart, GoodRow, RecoveriesCounted, Statuses, Unfinished
  <1>2. CASE row' = [row EXCEPT !.stale = FALSE]
    <2>1. row'.status = row.status /\ row'.requeues = row.requeues /\ row'.stale = FALSE
      BY <1>1, <1>2 DEF Rows
    <2>2. QED
      BY <2>1
  <1>3. ASSUME NEW status \in {"completed", "failed"}, row' = ClosedAs(row, status)
        PROVE  row'.status = status /\ row'.stale = FALSE
    BY <1>1, <1>3 DEF Rows, ClosedAs
  <1>4. QED
    BY <1>1, <1>2, <1>3

LEMMA RunStepCounted ==
  ASSUME RunInv, OneProcess, RecoveriesCounted, NEW r \in Runs, RunStep(r)
  PROVE  RecoveriesCounted'
  <1>0. UNCHANGED <<request, requested, clerk, recoveries>>
    BY DEF RunStep, Read, SaveStart, EnsureActive, Talk, Recap, Apply, Complete, Conclude,
           FailRun, Abandon, history
  <1>1. ASSUME \/ \E failed \in BOOLEAN : Leaves(r, failed)
               \/ \E step \in Steps \ {"read", "save"} : Goes(r, step),
               \/ UNCHANGED row
               \/ row' = [row EXCEPT !.stale = FALSE]
               \/ row' = ClosedAs(row, "completed") \/ row' = ClosedAs(row, "failed")
        PROVE  RecoveriesCounted'
    <2>1. /\ job' = job /\ \A q \in Runs : host'[q] \in {host[q], "serve"}
          /\ \A q \in Runs : pc'[q] \in {"read", "save"} => pc'[q] = pc[q] /\ seen'[q] = seen[q]
      BY <1>1, LeavingIsQuiet, GoingIsQuiet
    <2>2. Quiet
      BY <1>0, <1>1, <2>1, UpdatedRow, Zenon DEF Quiet
    <2>3. QED
      BY <2>2, QuietStep
  <1>2. CASE Read(r)
    <2>1. UNCHANGED row
      BY <1>2 DEF Read
    <2>2. CASE \E failed \in BOOLEAN : Leaves(r, failed)
      BY <1>1, <2>1, <2>2
    <2>3. CASE /\ row.status \in Unfinished /\ pc[r] = "read"
               /\ pc' = [pc EXCEPT ![r] = "save"] /\ seen' = [seen EXCEPT ![r] = row]
               /\ UNCHANGED <<ctx, host, entry, job>>
      <3>1. \A q \in Runs : /\ pc'[q] = "save" => recoveries' <= seen'[q].requeues
                            /\ Starts(q)' => Starts(q)
        BY <1>0, <2>3 DEF RecoveriesCounted, Starts, RunInv, RunsPart
      <3>2. QED
        BY <1>0, <2>1, <2>3, <3>1 DEF RecoveriesCounted, Recovering, Starts
    <2>4. QED
      BY <1>2, <2>2, <2>3 DEF Read, Stop, Unfinished
  <1>3. CASE SaveStart(r)
    <2>1. /\ row' = StartedRow(seen[r], r) /\ pc[r] = "save"
          /\ pc' = [pc EXCEPT ![r] = "check"] /\ seen' = [seen EXCEPT ![r] = Gone]
          /\ UNCHANGED <<job, host>>
      BY <1>3 DEF SaveStart, SaveRow
    <2>2. row'.status = "running" /\ row'.stale = FALSE /\ row'.requeues = seen[r].requeues
      <3>1. seen[r] \in Rows
        BY DEF RunInv, RunsPart
      <3>2. QED
        BY <2>1, <3>1 DEF Rows, StartedRow
    <2>3. recoveries <= seen[r].requeues /\ (\A c \in Clerks : clerk[c].at # "requeue")
      BY <2>1 DEF RecoveriesCounted, Starts
    <2>4. \A q \in Runs : pc'[q] = "save" => pc[q] = "save" /\ seen'[q] = seen[q]
      BY <2>1 DEF RunInv, RunsPart
    <2>5. \A q \in Runs : pc'[q] = "save" => recoveries' <= seen'[q].requeues
      BY <1>0, <2>4 DEF RecoveriesCounted
    <2>6. QED
      BY <1>0, <2>1, <2>2, <2>3, <2>5 DEF RecoveriesCounted, Recovering
  <1>4. CASE EnsureActive(r)
    <2>1. After(pc[r]) \subseteq Steps \ {"read", "save"}
      BY DEF After, Steps
    <2>2. QED
      BY <1>1, <1>4, <2>1 DEF EnsureActive, Stop
  <1>5. CASE Talk(r) \/ Recap(r) \/ Apply(r)
    <2>1. {"check", "act", "close"} \subseteq Steps \ {"read", "save"}
      BY DEF Steps
    <2>2. QED
      BY <1>1, <1>5, <2>1 DEF Talk, Recap, Apply, Stop
  <1>6. CASE Complete(r) \/ Conclude(r)
    <2>1. "conclude" \in Steps \ {"read", "save"}
      BY DEF Steps
    <2>2. QED
      BY <1>1, <1>6, <2>1, Zenon DEF Complete, Conclude, Stop
  <1>7. CASE FailRun(r) \/ Abandon(r)
    <2>1. (pc[r] \in {"read", "save"}) \in BOOLEAN
      OBVIOUS
    <2>2. QED
      BY <1>1, <1>7, <2>1, Zenon DEF FailRun, Abandon, Stop
  <1>8. QED
    BY <1>2, <1>3, <1>4, <1>5, <1>6, <1>7 DEF RunStep

\* What the clerks hold.
LEMMA ClerkFields ==
  ASSUME RunInv, NEW c \in Clerks
  PROVE  /\ clerk[c].seen \in Rows /\ row \in Rows
         /\ Free.at = "idle" /\ Free.op = "none"
         /\ \A at \in {"save", "stop", "idle", "requeue", "dispatch"} :
              [clerk[c] EXCEPT !.at = at].at = at /\ [clerk[c] EXCEPT !.at = at].op = clerk[c].op
  BY Zenon DEF RunInv, RowPart, GoodRow, ClerksPart, Clerk, Free

LEMMA EditCounted ==
  ASSUME RunInv, OneProcess, RecoveriesCounted, NEW c \in Clerks, Edit(c)
  PROVE  RecoveriesCounted'
  <1>1. clerk[c].op # "update" /\ "update" \notin ClerkOps /\ ClerkOps \subseteq Ops
    BY RunsAssumption DEF RecoveriesCounted, OneProcess
  <1>2. UNCHANGED <<recoveries, job, request, host, pc, seen>>
    BY DEF Edit, Loads, StopsLocalRun, Saves, runVars, history
  <1>3. ASSUME clerk'[c].at \in {"save", "stop", "idle"},
               clerk'[c].op \in {clerk[c].op, "none", "cancel", "delete"},
               \A d \in Clerks : d # c => clerk'[d] = clerk[d],
               row' = row \/ (row'.status \notin Unfinished /\ ~row'.stale)
        PROVE  RecoveriesCounted'
    <2>1. /\ \A d \in Clerks : clerk'[d].at \in {"requeue", "dispatch"} => clerk'[d] = clerk[d]
          /\ \A d \in Clerks : clerk'[d].op = clerk[d].op \/ clerk'[d].op \notin {"recover", "update"}
      BY <1>3
    <2>2. /\ row'.status \in Unfinished => row.status \in Unfinished /\ row'.requeues = row.requeues
          /\ row'.stale => row.stale /\ row'.status = "running"
      BY <1>3 DEF RecoveriesCounted
    <2>3. Quiet
      BY <1>2, <2>1, <2>2 DEF Quiet
    <2>4. QED
      BY <2>3, QuietStep
  <1>4. ASSUME NEW op \in ClerkOps \ {"recover"}, Loads(c, op)
        PROVE  RecoveriesCounted'
    <2> DEFINE new == [op |-> op, at |-> IF op = "update" THEN "save" ELSE "stop", seen |-> row]
    <2>1. clerk' = [clerk EXCEPT ![c] = new] /\ row' = row
      BY <1>4 DEF Loads
    <2>2. new.at \in {"save", "stop"} /\ new.op \in {"cancel", "delete"}
      BY <1>1 DEF Ops
    <2> HIDE DEF new
    <2>3. clerk'[c] = new /\ \A d \in Clerks : d # c => clerk'[d] = clerk[d]
      BY <2>1 DEF RunInv, ClerksPart
    <2>4. clerk'[c].at \in {"save", "stop", "idle"}
          /\ clerk'[c].op \in {clerk[c].op, "none", "cancel", "delete"}
      BY <2>2, <2>3
    <2>5. QED
      BY <1>3, <2>1, <2>3, <2>4, Zenon
  <1>5. CASE StopsLocalRun(c)
    <2> DEFINE new == [clerk[c] EXCEPT !.at = "save"]
    <2>1. clerk' = [clerk EXCEPT ![c] = new] /\ row' = row
      BY <1>5 DEF StopsLocalRun, Moves
    <2>2. new.at = "save" /\ new.op = clerk[c].op
      BY ClerkFields
    <2> HIDE DEF new
    <2>3. clerk'[c] = new /\ \A d \in Clerks : d # c => clerk'[d] = clerk[d]
      BY <2>1 DEF RunInv, ClerksPart
    <2>4. clerk'[c].at \in {"save", "stop", "idle"}
          /\ clerk'[c].op \in {clerk[c].op, "none", "cancel", "delete"}
      BY <2>2, <2>3
    <2>5. QED
      BY <1>3, <2>1, <2>3, <2>4, Zenon
  <1>6. CASE Saves(c)
    <2>1. clerk' = [clerk EXCEPT ![c] = Free] /\ Free.at = "idle" /\ Free.op = "none"
      BY <1>6, ClerkFields DEF Saves, Returns
    <2>2. row' = row \/ (row'.status \notin Unfinished /\ ~row'.stale)
      <3>1. \/ row' = row \/ row' = Gone
            \/ row' = ClosedAs(clerk[c].seen, "cancelled")
        BY <1>1, <1>6 DEF Saves, SaveRow
      <3>2. clerk[c].seen \in Rows
        BY ClerkFields
      <3>3. ClosedAs(clerk[c].seen, "cancelled").status = "cancelled"
            /\ ClosedAs(clerk[c].seen, "cancelled").stale = FALSE
        BY <3>2 DEF Rows, ClosedAs
      <3>4. QED
        BY <3>1, <3>3, RestartedRow, <3>2 DEF Unfinished
    <2>3. clerk'[c] = Free /\ \A d \in Clerks : d # c => clerk'[d] = clerk[d]
      BY <2>1 DEF RunInv, ClerksPart
    <2>4. clerk'[c].at \in {"save", "stop", "idle"}
          /\ clerk'[c].op \in {clerk[c].op, "none", "cancel", "delete"}
      BY <2>1, <2>3
    <2>5. QED
      BY <1>3, <2>2, <2>3, <2>4, Zenon
  <1>7. QED
    BY <1>4, <1>5, <1>6 DEF Edit

LEMMA RecoverCounted ==
  ASSUME RunInv, OneProcess, RecoveriesCounted, NEW c \in Clerks, Recover(c)
  PROVE  RecoveriesCounted'
  <1>t. /\ recoveries \in 0..(RequeueLimit + 1) /\ RequeueLimit \in Nat
        /\ clerk[c].seen \in Rows /\ row \in Rows /\ clerk[c].seen.requeues \in Nat
        /\ Free.at = "idle" /\ Free.op = "none"
    BY ClerkFields, BoundsAssumption DEF RunInv, CountsPart, Rows
  <1>1. ASSUME NEW new, clerk' = [clerk EXCEPT ![c] = new]
        PROVE  \A d \in Clerks : clerk'[d] = IF d = c THEN new ELSE clerk[d]
    BY <1>1 DEF RunInv, ClerksPart
  <1>2. CASE FindsQueued(c) \/ FindsStale(c)
    <2>1. PICK at \in {"dispatch", "requeue"} :
            /\ clerk' = [clerk EXCEPT ![c] = [op |-> "recover", at |-> at, seen |-> row]]
            /\ row.status \in Unfinished /\ (row.stale <=> at = "requeue")
      BY <1>2 DEF FindsQueued, FindsStale, Unfinished, RecoveriesCounted
    <2> DEFINE new == [op |-> "recover", at |-> at, seen |-> row]
    <2>2. new.op = "recover" /\ new.at = at /\ new.seen = row
      OBVIOUS
    <2>3. clerk' = [clerk EXCEPT ![c] = new]
      BY <2>1
    <2> HIDE DEF new
    <2>4. \A d \in Clerks : clerk'[d] = IF d = c THEN new ELSE clerk[d]
      BY <1>1, <2>3
    <2>5. UNCHANGED <<row, runVars, request, recoveries>>
          /\ \A d \in Clerks : clerk[d].op # "recover"
      BY <1>2 DEF FindsQueued, FindsStale, StartsPass, history
    <2>6. \A d \in Clerks : clerk[d].at \notin {"requeue", "dispatch"}
      BY <2>5 DEF RecoveriesCounted, Recovering
    <2>7. QED
      BY <2>1, <2>2, <2>4, <2>5, <2>6 DEF RecoveriesCounted, Recovering, Starts, runVars
  <1>3. CASE Requeues(c)
    <2>1. /\ UNCHANGED <<runVars, request>> /\ clerk[c].at = "requeue"
          /\ recoveries <= clerk[c].seen.requeues /\ Recovering(c)
          /\ \A d \in Clerks : d # c => clerk[d].at \notin {"requeue", "dispatch"}
          /\ \A r \in Runs : ~Starts(r)
      BY <1>3 DEF Requeues, RecoveriesCounted, Recovering
    <2>2. CASE Exhausted(clerk[c].seen)
      <3>1. /\ row' = ClosedAs(clerk[c].seen, "failed") /\ UNCHANGED recoveries
            /\ clerk' = [clerk EXCEPT ![c] = Free]
        BY <1>3, <2>2 DEF Requeues, SaveRow, Returns
      <3>2. row'.status = "failed" /\ row'.stale = FALSE
        BY <1>t, <3>1 DEF Rows, ClosedAs
      <3>3. \A d \in Clerks : clerk'[d] = IF d = c THEN Free ELSE clerk[d]
        BY <1>1, <3>1
      <3>4. QED
        BY <1>t, <2>1, <3>1, <3>2, <3>3
           DEF RecoveriesCounted, Recovering, Starts, runVars, Unfinished
    <2>3. CASE ~Exhausted(clerk[c].seen)
      <3> DEFINE copy == RequeuedRow(clerk[c].seen)
                 new == [clerk[c] EXCEPT !.at = "dispatch", !.seen = copy]
      <3>1. row' = copy /\ clerk' = [clerk EXCEPT ![c] = new]
            /\ recoveries' = IF recoveries > RequeueLimit THEN recoveries ELSE recoveries + 1
        BY <1>3, <2>3 DEF Requeues, SaveRow, RunInv, ClerksPart
      <3>2. row'.status = "queued" /\ row'.stale = FALSE /\ row'.requeues = clerk[c].seen.requeues + 1
        BY <1>t, <3>1, RestartedRow
      <3>3. new.at = "dispatch" /\ new.op = clerk[c].op
        BY DEF RunInv, ClerksPart, Clerk
      <3> HIDE DEF copy, new
      <3>4. \A d \in Clerks : clerk'[d] = IF d = c THEN new ELSE clerk[d]
        BY <1>1, <3>1
      <3>5. recoveries' = recoveries + 1 /\ recoveries' <= RequeueLimit /\ recoveries' <= row'.requeues
        BY <1>t, <2>1, <2>3, <3>1, <3>2 DEF Exhausted
      <3>6. QED
        BY <2>1, <3>2, <3>3, <3>4, <3>5 DEF RecoveriesCounted, Recovering, Starts, runVars
    <2>4. QED
      BY <2>2, <2>3
  <1>4. CASE Dispatches(c)
    <2>1. /\ clerk[c].at = "dispatch" /\ clerk' = [clerk EXCEPT ![c] = Free] /\ UNCHANGED job
          /\ UNCHANGED <<row, seen, request, requested, recoveries>>
          /\ \E started \in Runs \cup {NoRun} : StartLocal(started)
      BY <1>4 DEF Dispatches, Returns, OneProcess, history
    <2>2. \A d \in Clerks : clerk'[d] = IF d = c THEN Free ELSE clerk[d]
      BY <1>1, <2>1
    <2>3. \A r \in Runs : host'[r] = "serve" /\ (pc'[r] = "save" => pc[r] = "save")
      BY <2>1 DEF StartLocal, Launch, RunInv, RunsPart, RecoveriesCounted
    <2>4. ~row.stale /\ Recovering(c) /\ \A d \in Clerks : clerk'[d].at # "requeue"
      BY <1>t, <2>1, <2>2 DEF RecoveriesCounted, Recovering
    <2>5. QED
      BY <1>t, <2>1, <2>2, <2>3, <2>4 DEF RecoveriesCounted, Recovering
  <1>5. QED
    BY <1>2, <1>3, <1>4 DEF Recover

\* The requests that start runs, time and crashes; no worker takes anything.
LEMMA OtherStepCounted ==
  ASSUME RunInv, OneProcess, RecoveriesCounted,
         \/ DispatchSubmitted \/ RequestReturns \/ HeartbeatAges
         \/ \E r \in Runs : WorkerTakes(r) \/ JobTimesOut(r)
         \/ \E p \in Processes : Crash(p)
  PROVE  RecoveriesCounted'
  <1>1. CASE DispatchSubmitted
    <2>1. /\ request = "open" /\ request' = "dispatched" /\ UNCHANGED <<row, seen, clerk, recoveries, job>>
          /\ \E started \in Runs \cup {NoRun} : StartLocal(started)
      BY <1>1 DEF DispatchSubmitted, OneProcess, history
    <2>2. \A r \in Runs : host'[r] = "serve" /\ (pc'[r] = "save" => pc[r] = "save")
      BY <2>1 DEF StartLocal, Launch, RunInv, RunsPart, RecoveriesCounted
    <2>3. ~row.stale /\ \A c \in Clerks : clerk[c].at # "requeue"
      BY <2>1 DEF RecoveriesCounted
    <2>4. QED
      BY <2>1, <2>2, <2>3 DEF RecoveriesCounted, Recovering
  <1>2. CASE RequestReturns
    <2>1. Quiet
      BY <1>2 DEF RequestReturns, Quiet, history, RecoveriesCounted
    <2>2. QED
      BY <2>1, QuietStep
  <1>3. CASE HeartbeatAges
    <2>1. /\ row' = [row EXCEPT !.stale = TRUE] /\ row.status = "running" /\ request # "open"
          /\ \A r \in Runs : ~Starts(r)
          /\ \A c \in Clerks : clerk[c].at = "idle"
          /\ UNCHANGED <<runVars, request, clerk, recoveries>>
      BY <1>3 DEF HeartbeatAges, Starts, history
    <2>2. row'.status = "running" /\ row'.requeues = row.requeues
      <3>1. row \in Rows
        BY DEF RunInv, RowPart, GoodRow
      <3>2. QED
        BY <2>1, <3>1 DEF Rows
    <2>3. QED
      BY <2>1, <2>2 DEF RecoveriesCounted, Recovering, Starts, runVars, Unfinished
  <1>4. ASSUME NEW r \in Runs, WorkerTakes(r) \/ JobTimesOut(r)
        PROVE  RecoveriesCounted'
    BY <1>4 DEF RecoveriesCounted, WorkerTakes, JobTimesOut
  <1>5. ASSUME NEW p \in Processes, Crash(p)
        PROVE  RecoveriesCounted'
    <2>1. p = "serve"
      BY DEF Processes, OneProcess
    <2>2. /\ UNCHANGED <<row, recoveries>> /\ request' = "returned" /\ job' = job
          /\ \A c \in Clerks : clerk'[c] \in {Free, clerk[c]}
          /\ \A r \in Runs : host'[r] \in {host[r], "serve"}
          /\ \A r \in Runs : pc'[r] = "idle" \/ (pc'[r] = pc[r] /\ seen'[r] = seen[r])
      BY <1>5, <2>1 DEF Crash
    <2>3. Free.at = "idle" /\ Free.op = "none"
      BY DEF Free
    <2>4. Quiet
      BY <2>2, <2>3 DEF Quiet, RecoveriesCounted
    <2>5. QED
      BY <2>4, QuietStep
  <1>6. QED
    BY <1>1, <1>2, <1>3, <1>4, <1>5

\* Where one process does everything and no request saves the row of an older copy,
\* recovery requeues a meeting at most MEETING_AUTO_REQUEUE_LIMIT times, however many
\* runs, cancels, deletes and crashes overlap with its passes.
THEOREM RunRecoveriesBounded == Spec => [](OneProcess => RecoveriesBounded)
  <1>1. Init => RecoveryInv
    <2> SUFFICES ASSUME Init PROVE RecoveriesCounted
      BY DEF RecoveryInv
    <2>1. RequeueLimit \in Nat
      BY BoundsAssumption
    <2>2. Free.at = "idle" /\ Free.op = "none"
      BY DEF Free
    <2>3. row.requeues = 0 /\ row.stale = FALSE /\ recoveries = 0
      BY DEF Init, Queued
    <2>4. /\ job = "none" /\ \A r \in Runs : host[r] = "serve" /\ pc[r] = "idle"
          /\ \A c \in Clerks : clerk[c] = Free
      BY DEF Init
    <2>5. QED
      BY <2>1, <2>2, <2>3, <2>4 DEF RecoveriesCounted, Recovering, Starts
  <1>2. RunInv /\ RecoveryInv /\ [Next]_vars => RecoveryInv'
    <2> SUFFICES ASSUME RunInv, RecoveryInv, [Next]_vars, OneProcess PROVE RecoveriesCounted'
      BY DEF RecoveryInv, OneProcess
    <2>0. RecoveriesCounted
      BY DEF RecoveryInv
    <2>1. CASE UNCHANGED vars
      BY <2>0, <2>1 DEF vars, RecoveriesCounted, Recovering, Starts
    <2>2. CASE Next
      BY <2>0, <2>2, RunStepCounted, RecoverCounted, EditCounted, OtherStepCounted, Zenon DEF Next
    <2>3. QED
      BY <2>1, <2>2
  <1>3. RecoveryInv => (OneProcess => RecoveriesBounded)
    BY DEF RecoveryInv, RecoveriesCounted, RecoveriesBounded
  <1>4. QED
    BY <1>1, <1>2, <1>3, RunInvariant, PTL DEF Spec
-----------------------------------------------------------------------------
(* What ends a run that the row still names. *)

\* One process runs the meeting, and no request but the one that starts it touches it.
Undisturbed == Mode = "local" /\ ClerkOps \subseteq {"recover"}

\* Where a run is that owns the row it saved.
Working == {"check", "talk", "recap", "act", "apply", "close", "complete"}

\* Until the request returns no context has ended, and the owner is at work.
Attended ==
  /\ job = "none" /\ (\A r \in Runs : host[r] = "serve")
  /\ \A c \in Clerks : clerk[c].at \notin {"stop", "save"}
  /\ request # "returned" =>
       /\ \A r \in Runs : ctx[r] = "live"
       /\ row.status = "running" => pc[row.run] \in Working

\* A run other than the owner starts, goes on or leaves.
LEMMA OtherRunMoves ==
  ASSUME RunInv, Attended, NEW r \in Runs, NEW step \in Steps,
         row.status = "running" => row.run # r, pc' = [pc EXCEPT ![r] = step],
         job' = job, request' = request, clerk' = clerk,
         \A q \in Runs : host'[q] = "serve", \A q \in Runs : ctx'[q] \in {"live", ctx[q]},
         row' = row
  PROVE  Attended'
  <1>1. row.status = "running" => row.run \in Runs
    BY DEF RunInv, RowPart, GoodRow, Rows, Coherent
  <1>2. row.status = "running" => pc'[row.run] = pc[row.run]
    BY <1>1 DEF RunInv, RunsPart
  <1>3. QED
    BY <1>2 DEF Attended

\* The owner goes on, or closes the row.
LEMMA OwnerMoves ==
  ASSUME RunInv, Attended, NEW r \in Runs, NEW step \in Steps, pc' = [pc EXCEPT ![r] = step],
         job' = job, request' = request, clerk' = clerk,
         \A q \in Runs : host'[q] = "serve", \A q \in Runs : ctx'[q] \in {"live", ctx[q]},
         row'.status = "running" => row'.run = r /\ step \in Working
  PROVE  Attended'
  <1>1. pc'[r] = step
    BY DEF RunInv, RunsPart
  <1>2. QED
    BY <1>1 DEF Attended

\* What leaving and going on do, where everything runs in the serve process.
LEMMA ServeRunMoves ==
  ASSUME RunInv, Attended, NEW r \in Runs
  PROVE  /\ \A failed \in BOOLEAN : Leaves(r, failed) =>
              /\ pc' = [pc EXCEPT ![r] = "idle"] /\ job' = job
              /\ \A q \in Runs : host'[q] = "serve" /\ ctx'[q] \in {"live", ctx[q]}
         /\ \A step \in Steps : Goes(r, step) =>
              /\ pc' = [pc EXCEPT ![r] = step] /\ job' = job
              /\ \A q \in Runs : host'[q] = "serve" /\ ctx'[q] \in {"live", ctx[q]}
  <1>1. host[r] = "serve"
    BY DEF Attended
  <1>2. ASSUME NEW failed \in BOOLEAN, Leaves(r, failed)
        PROVE  /\ pc' = [pc EXCEPT ![r] = "idle"] /\ job' = job
               /\ \A q \in Runs : host'[q] = "serve" /\ ctx'[q] \in {"live", ctx[q]}
    <2>1. pc' = [pc EXCEPT ![r] = "idle"] /\ job' = job
      BY <1>1, <1>2, Zenon DEF Leaves
    <2>2. \A q \in Runs : host'[q] = "serve" /\ ctx'[q] \in {"live", ctx[q]}
      BY <1>2 DEF Leaves, Attended, RunInv, RunsPart
    <2>3. QED
      BY <2>1, <2>2
  <1>3. ASSUME NEW step \in Steps, Goes(r, step)
        PROVE  /\ pc' = [pc EXCEPT ![r] = step] /\ job' = job
               /\ \A q \in Runs : host'[q] = "serve" /\ ctx'[q] \in {"live", ctx[q]}
    BY <1>3 DEF Goes, Attended
  <1>4. QED
    BY <1>2, <1>3, Zenon

LEMMA RunStepAttended ==
  ASSUME RunInv, Attended, NEW r \in Runs, RunStep(r)
  PROVE  Attended'
  <1>0. UNCHANGED <<request, requested, clerk>>
    BY DEF RunStep, Read, SaveStart, EnsureActive, Talk, Recap, Apply, Complete, Conclude,
           FailRun, Abandon
  <1>s. {"idle", "save", "conclude"} \cup Working \subseteq Steps
    BY DEF Steps, Working
  <1>1. ASSUME \/ \E failed \in BOOLEAN : Leaves(r, failed)
               \/ \E step \in Steps : Goes(r, step),
               row.status = "running" => row.run # r, UNCHANGED row
        PROVE  Attended'
    BY <1>0, <1>s, <1>1, ServeRunMoves, OtherRunMoves
  <1>2. ASSUME NEW step \in Working, Goes(r, step),
               row'.status = "running" => row'.run = r
        PROVE  Attended'
    BY <1>0, <1>s, <1>2, ServeRunMoves, OwnerMoves
  <1>3. ASSUME NEW status \in Terminal, row' = ClosedAs(row, status),
               (\E failed \in BOOLEAN : Leaves(r, failed)) \/ Goes(r, "conclude")
        PROVE  Attended'
    <2>1. row'.status # "running"
      <3>1. row \in Rows /\ status # "running"
        BY DEF RunInv, RowPart, GoodRow, Terminal
      <3>2. QED
        BY <1>3, <3>1 DEF ClosedAs, Rows
    <2>2. QED
      BY <1>0, <1>s, <1>3, <2>1, ServeRunMoves, OwnerMoves
  <1>4. pc[r] \notin Working => (row.status = "running" /\ row.run = r => request = "returned")
    BY DEF Attended
  <1>5. ASSUME request = "returned", \E failed \in BOOLEAN : Leaves(r, failed)
        PROVE  Attended'
    BY <1>0, <1>5, ServeRunMoves DEF Attended
  <1>6. row' = [row EXCEPT !.stale = FALSE] => row'.status = row.status /\ row'.run = row.run
    BY DEF RunInv, RowPart, GoodRow, Rows
  <1>7. CASE Read(r)
    <2>1. pc[r] \notin Working /\ UNCHANGED row
      BY <1>7 DEF Read, Working
    <2>2. CASE \E failed \in BOOLEAN : Leaves(r, failed)
      BY <1>1, <1>4, <1>5, <2>1, <2>2
    <2>3. CASE /\ pc' = [pc EXCEPT ![r] = "save"] /\ UNCHANGED <<ctx, host, job>>
      <3>1. CASE request = "returned"
        BY <1>0, <2>3, <3>1 DEF Attended
      <3>2. CASE request # "returned"
        <4>1. row.status = "running" => row.run # r
          BY <1>4, <2>1, <3>2
        <4>2. /\ \A q \in Runs : host'[q] = "serve"
              /\ \A q \in Runs : ctx'[q] \in {"live", ctx[q]}
          BY <2>3 DEF Attended
        <4>3. QED
          BY <1>0, <1>s, <2>1, <2>3, <4>1, <4>2, OtherRunMoves
      <3>3. QED
        BY <3>1, <3>2
    <2>4. QED
      BY <1>7, <2>2, <2>3 DEF Read, Stop
  <1>8. CASE SaveStart(r)
    <2>1. /\ row' = StartedRow(seen[r], r) /\ pc' = [pc EXCEPT ![r] = "check"]
          /\ UNCHANGED <<job, ctx, host>>
      BY <1>8 DEF SaveStart, SaveRow
    <2>2. row'.run = r
      BY <2>1 DEF StartedRow, RunInv, RunsPart, Rows
    <2>3. "check" \in Working
      BY DEF Working
    <2>4. /\ \A q \in Runs : host'[q] = "serve"
          /\ \A q \in Runs : ctx'[q] \in {"live", ctx[q]}
      BY <2>1 DEF Attended
    <2>5. QED
      BY <1>0, <1>s, <2>1, <2>2, <2>3, <2>4, OwnerMoves
  <1>9. CASE EnsureActive(r)
    <2>1. CASE Owns(r)
      <3>1. After(pc[r]) \subseteq Working
        BY DEF After, Working
      <3>2. QED
        BY <1>2, <1>6, <1>9, <2>1, <3>1 DEF EnsureActive, Touch, Owns
    <2>2. CASE ~Owns(r)
      BY <1>1, <1>9, <2>2 DEF EnsureActive, Touch, Owns, Stop
    <2>3. QED
      BY <2>1, <2>2
  <1>10. CASE Talk(r) \/ Apply(r)
    <2>1. UNCHANGED row /\ \E step \in {"check", "close"} : Goes(r, step)
      BY <1>10 DEF Talk, Apply
    <2>2. {"check", "close"} \subseteq Working
      BY DEF Working
    <2>3. CASE row.status = "running" => row.run = r
      BY <1>2, <2>1, <2>2, <2>3
    <2>4. CASE row.status = "running" => row.run # r
      BY <1>1, <1>s, <2>1, <2>2, <2>4
    <2>5. QED
      BY <2>3, <2>4
  <1>11. CASE Recap(r)
    <2>1. CASE Owns(r)
      <3>1. "act" \in Working
        BY DEF Working
      <3>2. QED
        BY <1>2, <1>6, <1>11, <2>1, <3>1 DEF Recap, Owns
    <2>2. CASE ~Owns(r)
      BY <1>1, <1>11, <2>2 DEF Recap, Owns, Stop
    <2>3. QED
      BY <2>1, <2>2
  <1>12. CASE Complete(r)
    <2>1. CASE Owns(r)
      BY <1>3, <1>12, <2>1 DEF Complete, MayComplete, Terminal
    <2>2. CASE ~Owns(r)
      BY <1>1, <1>12, <2>2 DEF Complete, MayComplete, Owns, Stop
    <2>3. QED
      BY <2>1, <2>2
  <1>13. CASE Conclude(r)
    <2>1. pc[r] \notin Working /\ UNCHANGED row /\ Leaves(r, FALSE)
      BY <1>13 DEF Conclude, Working, Stop
    <2>2. QED
      BY <1>1, <1>4, <1>5, <2>1
  <1>14. CASE FailRun(r)
    <2>1. CASE Owns(r)
      BY <1>3, <1>14, <2>1 DEF FailRun, Terminal, Stop
    <2>2. CASE ~Owns(r)
      BY <1>1, <1>14, <2>2 DEF FailRun, Owns, Stop
    <2>3. QED
      BY <2>1, <2>2
  <1>15. CASE Abandon(r)
    <2>1. request = "returned"
      BY <1>15 DEF Abandon, Attended
    <2>2. (pc[r] \in {"read", "save"}) \in BOOLEAN
      OBVIOUS
    <2>3. QED
      BY <1>5, <1>15, <2>1, <2>2 DEF Abandon
  <1>16. QED
    BY <1>7, <1>8, <1>9, <1>10, <1>11, <1>12, <1>13, <1>14, <1>15 DEF RunStep

\* A run starts: not the one the row names.
LEMMA StartAttended ==
  ASSUME RunInv, Attended, NEW started \in Runs \cup {NoRun}, StartLocal(started),
         row' = row, job' = job, request' # "returned" => request # "returned",
         \A c \in Clerks : clerk'[c].at \notin {"stop", "save"}
  PROVE  Attended'
  <1>1. row.status = "running" => row.run \in Runs
    BY DEF RunInv, RowPart, GoodRow, Rows, Coherent
  <1>2. CASE UNCHANGED <<pc, ctx, host>>
    BY <1>2 DEF Attended
  <1>3. CASE started \in Runs /\ Launch(started, "serve")
    <2>1. /\ row.run # started /\ pc' = [pc EXCEPT ![started] = "read"]
          /\ host' = [host EXCEPT ![started] = "serve"] /\ ctx' = [ctx EXCEPT ![started] = "live"]
      BY <1>3 DEF Launch, Unused
    <2>2. \A q \in Runs : host'[q] = "serve" /\ (ctx[q] = "live" => ctx'[q] = "live")
      BY <2>1 DEF Attended, RunInv, RunsPart
    <2>3. row.status = "running" => pc'[row.run] = pc[row.run]
      BY <1>1, <2>1 DEF RunInv, RunsPart
    <2>4. QED
      BY <2>2, <2>3 DEF Attended
  <1>4. QED
    BY <1>2, <1>3 DEF StartLocal

LEMMA RecoverAttended ==
  ASSUME RunInv, Mode = "local", Attended, NEW c \in Clerks, Recover(c)
  PROVE  Attended'
  <1>1. Free.at = "idle"
    BY DEF Free
  <1>2. clerk \in [Clerks -> Clerk]
    BY DEF RunInv, ClerksPart
  <1>3. CASE FindsQueued(c) \/ FindsStale(c)
    <2>1. UNCHANGED <<row, pc, ctx, host, job, request>>
      BY <1>3 DEF FindsQueued, FindsStale, runVars
    <2>2. \A d \in Clerks : clerk'[d].at \notin {"stop", "save"}
      BY <1>2, <1>3 DEF FindsQueued, FindsStale, Attended
    <2>3. QED
      BY <2>1, <2>2 DEF Attended
  <1>4. CASE Requeues(c)
    <2>1. UNCHANGED <<pc, ctx, host, job, request>>
      BY <1>4 DEF Requeues, runVars
    <2>2. row'.status # "running"
      <3>1. clerk[c].seen \in Rows
        BY <1>2 DEF Clerk
      <3>2. \/ row' = ClosedAs(clerk[c].seen, "failed")
            \/ row' = RequeuedRow(clerk[c].seen)
        BY <1>4, Zenon DEF Requeues, SaveRow
      <3>3. QED
        BY <3>1, <3>2 DEF ClosedAs, RequeuedRow, Queued, Rows
    <2>3. \A d \in Clerks : clerk'[d].at \notin {"stop", "save"}
      <3>1. \/ clerk' = [clerk EXCEPT ![c] = Free]
            \/ clerk' = [clerk EXCEPT ![c].at = "dispatch",
                                      ![c].seen = RequeuedRow(clerk[c].seen)]
        BY <1>4, Zenon DEF Requeues, Returns
      <3>2. QED
        BY <1>1, <1>2, <3>1 DEF Attended, Clerk
    <2>4. QED
      BY <2>1, <2>2, <2>3 DEF Attended
  <1>5. CASE Dispatches(c)
    <2>1. /\ UNCHANGED <<row, request, job>> /\ clerk' = [clerk EXCEPT ![c] = Free]
          /\ \E started \in Runs \cup {NoRun} : StartLocal(started)
      BY <1>5 DEF Dispatches, Returns
    <2>2. \A d \in Clerks : clerk'[d].at \notin {"stop", "save"}
      BY <1>1, <1>2, <2>1 DEF Attended
    <2>3. QED
      BY <2>1, <2>2, StartAttended
  <1>6. QED
    BY <1>3, <1>4, <1>5 DEF Recover

\* Until the request that starts a meeting has returned, a meeting marked running has a
\* run working on it, in one process and without edits.  So it is that return alone, and
\* the end it puts to the context of the run, that takes a run from under the row.
THEOREM RunHeldUntilReturn ==
  Undisturbed => (Spec => [](request # "returned" => RunningHasRunner))
  <1> SUFFICES ASSUME Undisturbed
               PROVE  Spec => [](request # "returned" => RunningHasRunner)
    OBVIOUS
  <1>1. Init => Attended
    <2> SUFFICES ASSUME Init PROVE Attended
      OBVIOUS
    <2>1. \A c \in Clerks : clerk[c] = Free
      BY DEF Init
    <2>2. Free.at = "idle" /\ Queued.status = "queued"
      BY DEF Free, Queued
    <2>3. QED
      BY <2>1, <2>2 DEF Init, Attended
  <1>2. RunInv /\ Attended /\ [Next]_vars => Attended'
    <2> SUFFICES ASSUME RunInv, Attended, [Next]_vars PROVE Attended'
      OBVIOUS
    <2>1. CASE UNCHANGED vars
      BY <2>1 DEF vars, Attended
    <2>2. CASE DispatchSubmitted
      <3>1. /\ UNCHANGED <<row, clerk, job>> /\ request = "open"
            /\ \E started \in Runs \cup {NoRun} : StartLocal(started)
        BY <2>2 DEF DispatchSubmitted, Undisturbed
      <3>2. QED
        BY <3>1, StartAttended DEF Attended
    <2>3. CASE RequestReturns
      BY <2>3 DEF RequestReturns, Attended
    <2>4. CASE HeartbeatAges
      <3>1. /\ row' = [row EXCEPT !.stale = TRUE]
            /\ UNCHANGED <<pc, ctx, host, job, request, clerk>>
        BY <2>4 DEF HeartbeatAges, runVars
      <3>2. row'.status = row.status /\ row'.run = row.run
        BY <3>1 DEF RunInv, RowPart, GoodRow, Rows
      <3>3. QED
        BY <3>1, <3>2 DEF Attended
    <2>5. ASSUME NEW r \in Runs, WorkerTakes(r) \/ JobTimesOut(r)
          PROVE  Attended'
      BY <2>5 DEF WorkerTakes, JobTimesOut, Attended
    <2>6. ASSUME NEW c \in Clerks, Edit(c)
          PROVE  Attended'
      BY <2>6 DEF Edit, Loads, StopsLocalRun, Saves, Undisturbed, Attended
    <2>7. ASSUME NEW p \in Processes, Crash(p)
          PROVE  Attended'
      <3>1. p = "serve" /\ Free.at = "idle"
        BY DEF Processes, Undisturbed, Free
      <3>2. /\ job' = job /\ request' = "returned"
            /\ \A c \in Clerks : clerk'[c] \in {Free, clerk[c]}
            /\ \A r \in Runs : host'[r] \in {host[r], "serve"}
        BY <2>7, <3>1 DEF Crash
      <3>3. QED
        BY <3>1, <3>2 DEF Attended
    <2>8. QED
      BY <2>1, <2>2, <2>3, <2>4, <2>5, <2>6, <2>7, RunStepAttended, RecoverAttended
      DEF Next, Undisturbed
  <1>3. Attended => (request # "returned" => RunningHasRunner)
    BY DEF Attended, RunningHasRunner, Working
  <1>4. QED
    BY <1>1, <1>2, <1>3, RunInvariant, PTL DEF Spec
=============================================================================
