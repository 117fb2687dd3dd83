---------------------------- MODULE MessageTasks ----------------------------
(***************************************************************************)
(* Collecting and filtering messages through the local task queue:          *)
(* ProcessCollectTask and ProcessFilterTask of app/messaging, which the     *)
(* workers run, and the requests and the listener that enqueue tasks.       *)
(*                                                                          *)
(* A collect task fetches the new messages of its subscription, stores each *)
(* in a transaction of its own and enqueues a filter task for it, from the  *)
(* worker.  A filter task marks its message and then, in one transaction,   *)
(* asks the model and opens a meeting.  A refilter request resets the       *)
(* message and enqueues a forced filter task, a key of its own.             *)
(*                                                                          *)
(* Isolation: on "sqlite" the filter transaction is the only writer from    *)
(* its first write to its commit, and a write of another connection waits   *)
(* or fails; on "postgres" (READ COMMITTED) transactions overlap.  Deleting *)
(* messages and reconciling a backfill are not modelled.                    *)
(***************************************************************************)
EXTENDS LocalTaskQueue, FiniteSetsExt

CONSTANTS
  Subscriptions,
  NumMessages, SubscriptionOf,  \* the messages of the sources
  Isolation,
  MaxMeetings,                  \* bound of the model: meetings of one message
  MaxEvents                     \* bound of the model: requests and restarts

Messages == 1..NumMessages

ASSUME MessagesAssumption ==
  /\ NumMessages \in Nat /\ SubscriptionOf \in [Messages -> Subscriptions]
  /\ Isolation \in {"sqlite", "postgres"} /\ MaxMeetings \in Nat
  /\ MaxEvents \in Nat

VARIABLES
  row,       \* of each message: FilterStatus of its row, or "absent"
  meetings,  \* of each message: meetings opened for it
  thread,    \* of each thread: where it is in its handler
  lost,      \* ghost: messages whose filter task was dropped
  events     \* requests and restarts so far

db == <<row, meetings>>
vars == <<tasks, seen, sending, running, row, meetings, thread, lost, events>>

(* at: the next step.  todo: fetched messages still to store.  next: the task *)
(* to enqueue.  to, open: what the filter transaction will commit.            *)
Idle == [at |-> "idle", todo |-> {}, next |-> NoTask, to |-> "", open |-> FALSE]
Finishing == [Idle EXCEPT !.at = "store"]

Init ==
  /\ QueueInit
  /\ row = [m \in Messages |-> "absent"] /\ meetings = [m \in Messages |-> 0]
  /\ thread = [t \in Threads |-> Idle] /\ lost = {} /\ events = 0

-----------------------------------------------------------------------------
At(t, a) == thread[t].at = a
Go(t, state) == thread' = [thread EXCEPT ![t] = state]
Step(t, a) == Go(t, [thread[t] EXCEPT !.at = a])
MessageOf(w) == running[w].of

InFilterTx(w) == At(w, "commit")
MayWrite(t) == Isolation = "sqlite" => \A w \in Workers \ {t} : ~InFilterTx(w)

Event == events < MaxEvents /\ events' = events + 1

(* POST collect, or the listener's collect loop: QueueCollectSubscriptions. *)
QueueCollect(c, s) ==
  /\ Event /\ At(c, "idle") /\ Go(c, [Idle EXCEPT !.at = "enqueue", !.next = CollectTask(s)])
  /\ UNCHANGED <<queue, db, lost>>

(* handleLiveMessage: the listener stores one message. *)
Live(c, m) ==
  /\ Event /\ At(c, "idle") /\ Go(c, [Idle EXCEPT !.at = "store", !.todo = {m}])
  /\ UNCHANGED <<queue, db, lost>>

(* QueueFilterMessage, RefilterMessages: the row is reset, then enqueued. *)
Refilter(c, m) ==
  /\ Event /\ At(c, "idle") /\ row[m] # "absent" /\ MayWrite(c)
  /\ row' = [row EXCEPT ![m] = "unfiltered"]
  /\ Go(c, [Idle EXCEPT !.at = "enqueue", !.next = FilterTask(m, TRUE)])
  /\ UNCHANGED <<queue, meetings, lost>>

(* The mutex part of enqueue.  A key that is there is skipped; if the worker  *)
(* that holds it has already committed, the skipped task is lost.             *)
Enqueue(t) ==
  LET task == thread[t].next
      m == {task.of : x \in {task.kind} \ {"collect"}}
      past == \E w \in Workers : running[w] = task /\ At(w, "store")
  IN /\ At(t, "enqueue")
     /\ IF task \in seen
          THEN /\ Step(t, "store") /\ UNCHANGED queue
               /\ lost' = IF past THEN lost \cup m ELSE lost
          ELSE Accept(t, task) /\ Step(t, "send") /\ lost' = lost \ m
     /\ UNCHANGED <<db, events>>

Deliver(t) == At(t, "send") /\ Send(t) /\ Step(t, "store") /\ UNCHANGED <<db, lost, events>>

(* The request's or the listener's context ends while the channel is full. *)
GiveUp(c) ==
  /\ At(c, "send") /\ Withdraw(c) /\ Go(c, Idle)
  /\ lost' = IF sending[c].kind = "filter" THEN lost \cup {sending[c].of} ELSE lost
  /\ UNCHANGED <<db, events>>

-----------------------------------------------------------------------------
(* Run takes a task and calls its handler. *)
Start(w) ==
  /\ At(w, "idle") /\ Receive(w)
  /\ Go(w, [Idle EXCEPT !.at = IF Head(tasks).kind = "collect" THEN "fetch" ELSE "find"])
  /\ UNCHANGED <<db, lost, events>>

(* collectSubscription: some of what the source has and the table has not. *)
Fetch(w) ==
  /\ At(w, "fetch")
  /\ \E new \in SUBSET {m \in Messages : /\ SubscriptionOf[m] = MessageOf(w)
                                         /\ row[m] = "absent"} :
       Go(w, [Idle EXCEPT !.at = "store", !.todo = new])
  /\ UNCHANGED <<queue, db, lost, events>>

(* IngestFetchedMessage: the oldest message is stored, unless it is there by  *)
(* now, and its filter task comes after the commit.                           *)
StoreWithoutTask(t) ==
  LET m == Min(thread[t].todo)
  IN /\ At(t, "store") /\ thread[t].todo # {} /\ MayWrite(t)
     /\ row' = [row EXCEPT ![m] = IF @ = "absent" THEN "unfiltered" ELSE @]
     /\ Go(t, [thread[t] EXCEPT !.todo = @ \ {m}])
     /\ UNCHANGED <<queue, meetings, lost, events>>
Store(t) ==
  LET m == Min(thread[t].todo)
      rest == [thread[t] EXCEPT !.todo = @ \ {m}]
  IN /\ At(t, "store") /\ thread[t].todo # {}
     /\ IF row[m] = "absent"
          THEN /\ MayWrite(t) /\ row' = [row EXCEPT ![m] = "unfiltered"]
               /\ Go(t, [rest EXCEPT !.at = "enqueue", !.next = FilterTask(m, FALSE)])
          ELSE Go(t, rest) /\ UNCHANGED row
     /\ UNCHANGED <<queue, meetings, lost, events>>

(* ProcessFilterTask reads the row and saves the mark. *)
Find(w) ==
  /\ At(w, "find")
  /\ IF row[MessageOf(w)] = "filtered" /\ ~running[w].force
       THEN Go(w, Finishing) ELSE Step(w, "mark")
  /\ UNCHANGED <<queue, db, lost, events>>

Mark(w) ==
  /\ At(w, "mark") /\ MayWrite(w)
  /\ row' = [row EXCEPT ![MessageOf(w)] = "filtering"] /\ Step(w, "ask")
  /\ UNCHANGED <<queue, meetings, lost, events>>

(* The transaction, applyFilter and ensureMeetingsForMessage: after its first  *)
(* write, what the model answers and whether the message has a meeting; later  *)
(* what it writes and commits.                                                 *)
AlwaysNew(m) == TRUE
NewMeeting(m) == meetings[m] = 0

Ask(w) ==
  /\ At(w, "ask") /\ MayWrite(w)
  /\ \E answer \in {"failed", "ignore", "meeting"} :
       Go(w, [Idle EXCEPT !.at = "commit",
                          !.to = IF answer = "failed" THEN "failed" ELSE "filtered",
                          !.open = answer = "meeting" /\ NewMeeting(MessageOf(w))])
  /\ UNCHANGED <<queue, db, lost, events>>

Commit(w) ==
  LET m == MessageOf(w)
  IN /\ At(w, "commit") /\ (thread[w].open => meetings[m] < MaxMeetings)
     /\ row' = [row EXCEPT ![m] = thread[w].to]
     /\ meetings' = [meetings EXCEPT ![m] = IF thread[w].open THEN @ + 1 ELSE @]
     /\ Go(w, Finishing) /\ UNCHANGED <<queue, lost, events>>

(* A handler fails: the source, the database, a subscription without filters.  *)
(* What it had committed stays; the error is logged and the task is dropped.   *)
FailForgettingKey(t) ==
  /\ t \in Workers /\ At(t, "ask") /\ Go(t, Finishing) /\ Forget(t)
  /\ UNCHANGED <<db, lost, events>>
FailEndingWorker(t) ==
  /\ thread[t].at \in {"fetch", "find", "mark", "ask", "commit"}
  /\ Go(t, [Idle EXCEPT !.at = "ended"])
  /\ lost' = lost \cup ({MessageOf(t)} \cap Messages) /\ UNCHANGED <<queue, db, events>>
Fail(t) ==
  /\ \/ thread[t].at \in {"fetch", "find", "mark", "ask", "commit"}
     \/ At(t, "store") /\ thread[t].todo # {}
  /\ Go(t, Finishing)
  /\ lost' = IF t \in Workers /\ running[t].kind = "filter"
               THEN lost \cup {MessageOf(t)} ELSE lost
  /\ UNCHANGED <<queue, db, events>>

(* The handler returns: the worker forgets the key, a caller is done. *)
Finish(t) ==
  /\ At(t, "store") /\ thread[t].todo = {} /\ Go(t, Idle)
  /\ IF t \in Workers THEN Forget(t) ELSE UNCHANGED queue
  /\ UNCHANGED <<db, lost, events>>

(* The server stops and starts again. *)
Unfinished == {"unfiltered", "filtering"}
Restart ==
  /\ Event /\ QueueLost /\ thread' = [t \in Threads |-> Idle]
  /\ lost' = lost \cup {m \in Messages : row[m] \in Unfinished} /\ UNCHANGED db

ThreadStep(t) == Enqueue(t) \/ Deliver(t) \/ Store(t) \/ Fail(t) \/ Finish(t)
WorkerStep(w) == \/ ThreadStep(w) \/ Start(w) \/ Fetch(w) \/ Find(w) \/ Mark(w)
                 \/ Ask(w) \/ Commit(w)
CallerStep(c) == \/ ThreadStep(c) \/ GiveUp(c)
                 \/ \E s \in Subscriptions : QueueCollect(c, s)
                 \/ \E m \in Messages : Live(c, m) \/ Refilter(c, m)

Next == \/ \E w \in Workers : WorkerStep(w)
        \/ \E c \in Callers : CallerStep(c)
        \/ Restart

Spec == Init /\ [][Next]_vars

(* Go runs every goroutine that can run, and a channel serves its waiting      *)
(* senders in order.  Nothing makes a request come, or the process restart.    *)
FairSpec == Spec /\ \A w \in Workers : WF_vars(WorkerStep(w)) /\ SF_vars(Deliver(w))

-----------------------------------------------------------------------------
Statuses == {"absent", "unfiltered", "filtering", "filtered", "failed"}
Tasks == [kind : {"collect"}, of : Subscriptions, force : {FALSE}]
         \cup [kind : {"filter"}, of : Messages, force : BOOLEAN]

(* The shape of the state; a worker has a task exactly while it is not idle,   *)
(* and a thread holds a task it sends exactly while it waits to send it.       *)
TypeOK ==
  /\ row \in [Messages -> Statuses] /\ meetings \in [Messages -> 0..MaxMeetings]
  /\ seen \subseteq Tasks /\ Len(tasks) <= Buffer /\ lost \subseteq Messages
  /\ \A t \in Threads : sending[t] # NoTask <=> At(t, "send")
  /\ \A w \in Workers : running[w] # NoTask <=> ~At(w, "idle")
  /\ \A w \in Workers :
       thread[w].at \in {"find", "mark", "ask", "commit"}
       => running[w].kind = "filter" /\ row[MessageOf(w)] # "absent"

(* The task that will filter m is somewhere between its enqueue and its commit. *)
Pending(m) ==
  \/ \E t \in Threads : \/ At(t, "enqueue") /\ thread[t].next.kind = "filter"
                           /\ thread[t].next.of = m
                        \/ sending[t].kind = "filter" /\ sending[t].of = m
  \/ \E f \in BOOLEAN : FilterTask(m, f) \in Queued
  \/ \E w \in Workers : /\ running[w].kind = "filter" /\ MessageOf(w) = m
                        /\ thread[w].at \in {"find", "mark", "ask", "commit"}

(* A message that is stored and unfiltered, or marked as being filtered, has a  *)
(* filter task on its way.  The only ways to lose it: the sender's context ends *)
(* while the channel is full, the handler fails, the process stops, or a        *)
(* refilter request meets the key of a forced task that has committed and is    *)
(* not forgotten yet.                                                           *)
UnfilteredIsPending ==
  \A m \in Messages : row[m] \in Unfinished => m \in lost \/ Pending(m)

(* However often a message is filtered, and by two workers at once, it opens    *)
(* at most one meeting.  True where the filter transactions exclude each other. *)
OneMeeting == \A m \in Messages : meetings[m] <= 1

(* A task that reached the channel is taken by a worker, unless the process     *)
(* stops first: the workers never all wait to send.                             *)
AcceptedTasksRun == \A k \in Tasks : k \in Queued ~> k \notin Queued
=============================================================================
