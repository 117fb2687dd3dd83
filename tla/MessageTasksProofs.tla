------------------------- MODULE MessageTasksProofs -------------------------
(***************************************************************************)
(* Proofs about MessageTasks: the keys of the queue and its tasks stay in   *)
(* step, no stored message loses its filter task but in the ways the model  *)
(* names, and, where filter transactions exclude each other, no message     *)
(* opens two meetings.  And how many tasks it takes to block every worker.  *)
(***************************************************************************)
EXTENDS MessageTasks, FiniteSetTheorems, WellFoundedInduction, TLAPS

-----------------------------------------------------------------------------
(* The inductive invariant. *)

\* The queue: every place holds a task or nothing.
QueuePart ==
  /\ tasks \in Seq(Tasks) /\ Len(tasks) <= Buffer /\ seen \subseteq Tasks
  /\ sending \in [Threads -> Tasks \cup {NoTask}]
  /\ running \in [Workers -> Tasks \cup {NoTask}]

\* A task is in one place only, and its key is in the set exactly while it is
\* in some place.
KeyPart ==
  /\ \A i, j \in 1..Len(tasks) : tasks[i] = tasks[j] => i = j
  /\ \A t, u \in Threads : sending[t] = sending[u] /\ sending[t] # NoTask => t = u
  /\ \A w, v \in Workers : running[w] = running[v] /\ running[w] # NoTask => w = v
  /\ \A i \in 1..Len(tasks), t \in Threads : tasks[i] # sending[t]
  /\ \A i \in 1..Len(tasks), w \in Workers : tasks[i] # running[w]
  /\ \A t \in Threads, w \in Workers : sending[t] # NoTask => sending[t] # running[w]
  /\ \A k \in seen : \/ \E i \in 1..Len(tasks) : tasks[i] = k
                     \/ \E t \in Threads : sending[t] = k
                     \/ \E w \in Workers : running[w] = k
  /\ \A i \in 1..Len(tasks) : tasks[i] \in seen
  /\ \A t \in Threads : sending[t] # NoTask => sending[t] \in seen
  /\ \A w \in Workers : running[w] # NoTask => running[w] \in seen

\* Where a thread can be, and what it has in hand there.
Filtering == {"find", "mark", "ask", "commit"}
Frame == [at : {"idle", "enqueue", "send", "store", "fetch"} \cup Filtering,
          todo : SUBSET Messages, next : Tasks \cup {NoTask},
          to : {"", "failed", "filtered"}, open : BOOLEAN]
ThreadSound(t) ==
  /\ sending[t] # NoTask <=> thread[t].at = "send"
  /\ thread[t].at = "enqueue" => thread[t].next \in Tasks
WorkerSound(w) ==
  /\ running[w] # NoTask <=> thread[w].at # "idle"
  /\ thread[w].at \in Filtering => running[w].kind = "filter"
  /\ thread[w].at \in {"fetch", "enqueue", "send"} => running[w].kind = "collect"
  /\ thread[w].at = "store" /\ running[w].kind = "filter" => thread[w].todo = {}
  /\ thread[w].at = "commit" => thread[w].to # ""
CallerSound(c) == thread[c].at \in {"idle", "enqueue", "send", "store"}
ThreadPart ==
  /\ thread \in [Threads -> Frame] /\ \A t \in Threads : ThreadSound(t)
  /\ \A w \in Workers : WorkerSound(w)
  /\ \A c \in Callers : CallerSound(c)

\* A filter task, from the time it is to be enqueued, is about a stored message.
Stored(k) == k.kind = "filter" => row[k.of] # "absent"
RowPart ==
  /\ row \in [Messages -> Statuses] /\ meetings \in [Messages -> 0..MaxMeetings]
  /\ lost \subseteq Messages
  /\ \A k \in seen : Stored(k)
  /\ \A t \in Threads : thread[t].at = "enqueue" => Stored(thread[t].next)

\* Filter transactions of SQLite, one at a time: what one has read about the
\* meetings of its message stays true until it commits.
MeetingPart ==
  Isolation = "sqlite" =>
    /\ \A w, v \in Workers : InFilterTx(w) /\ InFilterTx(v) => w = v
    /\ \A w \in Workers : InFilterTx(w) /\ thread[w].open => meetings[MessageOf(w)] = 0
    /\ \A m \in Messages : meetings[m] <= 1

TasksInv == QueuePart /\ KeyPart /\ ThreadPart /\ RowPart /\ UnfilteredIsPending /\ MeetingPart

-----------------------------------------------------------------------------
(* Facts about tasks. *)

LEMMA TaskFacts ==
  /\ NoTask \notin Tasks
  /\ \A s \in Subscriptions : CollectTask(s) \in Tasks /\ CollectTask(s).kind = "collect"
  /\ \A m \in Messages, f \in BOOLEAN :
       /\ FilterTask(m, f) \in Tasks /\ FilterTask(m, f).kind = "filter"
       /\ FilterTask(m, f).of = m
  /\ \A k \in Tasks : k.kind = "filter" => k.of \in Messages
  /\ \A k \in Tasks : k.kind \in {"filter", "collect"}
  /\ \A k \in Tasks : k.kind = "filter" => \E f \in BOOLEAN : k = FilterTask(k.of, f)
  /\ NoTask.kind = "none"
  <1>1. NoTask \notin Tasks /\ NoTask.kind = "none"
    BY DEF NoTask, Tasks
  <1>2. /\ \A s \in Subscriptions : CollectTask(s) \in Tasks /\ CollectTask(s).kind = "collect"
        /\ \A m \in Messages, f \in BOOLEAN :
             /\ FilterTask(m, f) \in Tasks /\ FilterTask(m, f).kind = "filter"
             /\ FilterTask(m, f).of = m
    BY DEF Tasks, CollectTask, FilterTask
  <1>3. /\ \A k \in Tasks : k.kind = "filter" => k.of \in Messages
        /\ \A k \in Tasks : k.kind \in {"filter", "collect"}
    BY DEF Tasks
  <1>4. \A k \in Tasks : k.kind = "filter" => \E f \in BOOLEAN : k = FilterTask(k.of, f)
    <2>1. SUFFICES ASSUME NEW k \in Tasks, k.kind = "filter"
                   PROVE  k.force \in BOOLEAN /\ k = FilterTask(k.of, k.force)
      OBVIOUS
    <2>2. k \in [kind : {"filter"}, of : Messages, force : BOOLEAN]
      BY <2>1 DEF Tasks
    <2>3. QED
      BY <2>2 DEF FilterTask
  <1>5. QED
    BY <1>1, <1>2, <1>3, <1>4

\* Pending in terms of the kind and the message of a task.
IsFilter(k, m) == k.kind = "filter" /\ k.of = m
InSomePlace(m) ==
  \/ \E t \in Threads : thread[t].at = "enqueue" /\ IsFilter(thread[t].next, m)
  \/ \E t \in Threads : IsFilter(sending[t], m)
  \/ \E i \in 1..Len(tasks) : IsFilter(tasks[i], m)
  \/ \E w \in Workers : IsFilter(running[w], m) /\ thread[w].at \in Filtering

PlacesArePending ==
  tasks \in Seq(Tasks) => \A m \in Messages : Pending(m) <=> InSomePlace(m)

LEMMA PendingPlaces == PlacesArePending
  <1> SUFFICES ASSUME NEW m \in Messages, tasks \in Seq(Tasks)
               PROVE  Pending(m) <=> InSomePlace(m)
    BY DEF PlacesArePending
  <1>1. (\E f \in BOOLEAN : FilterTask(m, f) \in Queued)
        <=> \E i \in 1..Len(tasks) : IsFilter(tasks[i], m)
    <2>1. \A i \in 1..Len(tasks) : tasks[i] \in Tasks
      OBVIOUS
    <2>2. \A f \in BOOLEAN : FilterTask(m, f).kind = "filter" /\ FilterTask(m, f).of = m
      BY TaskFacts
    <2>3. \A k \in Tasks : IsFilter(k, m) => \E f \in BOOLEAN : k = FilterTask(m, f)
      BY TaskFacts DEF IsFilter
    <2>4. \A f \in BOOLEAN : IsFilter(FilterTask(m, f), m)
      BY <2>2 DEF IsFilter
    <2>5. QED
      BY <2>1, <2>3, <2>4 DEF Queued
  <1>2. QED
    BY <1>1 DEF Pending, InSomePlace, IsFilter, At, MessageOf, Filtering

-----------------------------------------------------------------------------
(* The steps of the queue keep its two parts. *)

QueueOK == QueuePart /\ KeyPart

LEMMA AcceptKeeps ==
  ASSUME QueueOK, NEW t \in Threads, NEW k \in Tasks \ seen, sending[t] = NoTask, Accept(t, k)
  PROVE  QueueOK'
  <1>1. k # NoTask /\ \A i \in 1..Len(tasks) : tasks[i] # k
    BY TaskFacts DEF QueueOK, KeyPart
  <1>2. /\ \A u \in Threads : sending[u] # k
        /\ \A w \in Workers : running[w] # k
    BY <1>1 DEF QueueOK, KeyPart
  <1>3. /\ sending' \in [Threads -> Tasks \cup {NoTask}] /\ sending'[t] = k
        /\ \A u \in Threads \ {t} : sending'[u] = sending[u]
        /\ seen' = seen \cup {k} /\ UNCHANGED <<tasks, running>>
    BY DEF Accept, QueueOK, QueuePart
  <1>4. QueuePart'
    BY <1>3 DEF QueueOK, QueuePart
  <1>5. KeyPart'
    <2>1. \A u, v \in Threads : sending'[u] = sending'[v] /\ sending'[u] # NoTask => u = v
      BY <1>2, <1>3 DEF QueueOK, KeyPart
    <2>2. /\ \A i \in 1..Len(tasks), u \in Threads : tasks[i] # sending'[u]
          /\ \A u \in Threads, w \in Workers : sending'[u] # NoTask => sending'[u] # running[w]
      BY <1>1, <1>2, <1>3 DEF QueueOK, KeyPart
    <2>3. \A x \in seen' : \/ \E i \in 1..Len(tasks) : tasks[i] = x
                           \/ \E u \in Threads : sending'[u] = x
                           \/ \E w \in Workers : running[w] = x
      <3>1. SUFFICES ASSUME NEW x \in seen
                     PROVE  \/ \E i \in 1..Len(tasks) : tasks[i] = x
                            \/ \E u \in Threads : sending'[u] = x
                            \/ \E w \in Workers : running[w] = x
        BY <1>3
      <3>2. CASE \E u \in Threads : sending[u] = x
        <4>1. PICK u \in Threads : sending[u] = x
          BY <3>2
        <4>2. u # t
          BY <4>1, TaskFacts DEF QueueOK, QueuePart
        <4>3. QED
          BY <4>1, <4>2, <1>3
      <3>3. QED
        BY <3>2 DEF QueueOK, KeyPart
    <2>4. /\ \A i \in 1..Len(tasks) : tasks[i] \in seen'
          /\ \A u \in Threads : sending'[u] # NoTask => sending'[u] \in seen'
          /\ \A w \in Workers : running[w] # NoTask => running[w] \in seen'
      BY <1>3 DEF QueueOK, KeyPart
    <2>5. QED
      BY <1>3, <2>1, <2>2, <2>3, <2>4 DEF QueueOK, KeyPart
  <1>6. QED
    BY <1>4, <1>5 DEF QueueOK

LEMMA SendKeeps ==
  ASSUME QueueOK, NEW t \in Threads, Send(t)
  PROVE  /\ QueueOK' /\ Len(tasks') = Len(tasks) + 1
         /\ tasks'[Len(tasks) + 1] = sending[t]
         /\ \A i \in 1..Len(tasks) : tasks'[i] = tasks[i]
         /\ Len(tasks) \in Nat
  <1>1. /\ sending' \in [Threads -> Tasks \cup {NoTask}] /\ sending'[t] = NoTask
        /\ \A u \in Threads \ {t} : sending'[u] = sending[u]
        /\ seen' = seen /\ running' = running /\ sending[t] \in Tasks
    BY DEF Send, QueueOK, QueuePart
  <1>2. /\ tasks' \in Seq(Tasks) /\ Len(tasks') = Len(tasks) + 1 /\ Len(tasks) \in Nat
        /\ \A i \in 1..Len(tasks) : tasks'[i] = tasks[i]
        /\ tasks'[Len(tasks) + 1] = sending[t] /\ Len(tasks') <= Buffer
    BY <1>1, QueueAssumption DEF Send, QueueOK, QueuePart
  <1>3. QueuePart'
    BY <1>1, <1>2 DEF QueueOK, QueuePart
  <1>4. \A i \in 1..Len(tasks') : i \in 1..Len(tasks) \/ i = Len(tasks) + 1
    BY <1>2
  <1>5. NoTask \notin Tasks
    BY TaskFacts
  <1>6. KeyPart'
    <2>1. \A i, j \in 1..Len(tasks') : tasks'[i] = tasks'[j] => i = j
      BY <1>2, <1>4 DEF QueueOK, KeyPart
    <2>2. \A u \in Threads, i \in 1..Len(tasks') : tasks'[i] # sending'[u]
      <3>1. SUFFICES ASSUME NEW u \in Threads, NEW i \in 1..Len(tasks') PROVE tasks'[i] # sending'[u]
        OBVIOUS
      <3>2. tasks'[i] \in Tasks
        BY <1>2
      <3>3. CASE u = t
        BY <3>2, <3>3, <1>1, <1>5
      <3>4. CASE u # t /\ i \in 1..Len(tasks)
        BY <3>4, <1>1, <1>2 DEF QueueOK, KeyPart
      <3>5. CASE u # t /\ i = Len(tasks) + 1
        BY <3>5, <1>1, <1>2, <1>5 DEF QueueOK, KeyPart
      <3>6. QED
        BY <3>3, <3>4, <3>5, <1>4
    <2>3. /\ \A u, v \in Threads : sending'[u] = sending'[v] /\ sending'[u] # NoTask => u = v
          /\ \A w, v \in Workers : running'[w] = running'[v] /\ running'[w] # NoTask => w = v
          /\ \A u \in Threads, w \in Workers : sending'[u] # NoTask => sending'[u] # running'[w]
          /\ \A u \in Threads : sending'[u] # NoTask => sending'[u] \in seen'
          /\ \A w \in Workers : running'[w] # NoTask => running'[w] \in seen'
      BY <1>1 DEF QueueOK, KeyPart
    <2>4. /\ \A i \in 1..Len(tasks'), w \in Workers : tasks'[i] # running'[w]
          /\ \A i \in 1..Len(tasks') : tasks'[i] \in seen'
      BY <1>1, <1>2, <1>4, <1>5 DEF QueueOK, KeyPart
    <2>5. Len(tasks) + 1 \in 1..Len(tasks') /\ 1..Len(tasks) \subseteq 1..Len(tasks')
      BY <1>2
    <2>6. \A k \in seen' : \/ \E i \in 1..Len(tasks') : tasks'[i] = k
                           \/ \E u \in Threads : sending'[u] = k
                           \/ \E w \in Workers : running'[w] = k
      BY <1>1, <1>2, <2>5 DEF QueueOK, KeyPart
    <2>7. QED
      BY <2>1, <2>2, <2>3, <2>4, <2>6 DEF KeyPart
  <1>7. QED
    BY <1>2, <1>3, <1>6 DEF QueueOK

LEMMA WithdrawKeeps ==
  ASSUME QueueOK, NEW t \in Threads, Withdraw(t)
  PROVE  QueueOK'
  <1>1. /\ sending' \in [Threads -> Tasks \cup {NoTask}] /\ sending'[t] = NoTask
        /\ \A u \in Threads \ {t} : sending'[u] = sending[u]
        /\ seen' = seen \ {sending[t]} /\ UNCHANGED <<tasks, running>> /\ sending[t] \in Tasks
    BY DEF Withdraw, QueueOK, QueuePart
  <1>2. QueuePart'
    BY <1>1 DEF QueueOK, QueuePart
  <1>3. NoTask \notin Tasks /\ \A i \in 1..Len(tasks) : tasks[i] \in Tasks
    BY TaskFacts DEF QueueOK, QueuePart
  <1>4. KeyPart'
    BY <1>1, <1>3 DEF QueueOK, KeyPart
  <1>5. QED
    BY <1>2, <1>4 DEF QueueOK

LEMMA ReceiveKeeps ==
  ASSUME QueueOK, NEW w \in Workers, Receive(w)
  PROVE  /\ QueueOK' /\ running'[w] = Head(tasks) /\ Head(tasks) = tasks[1]
         /\ 1 \in 1..Len(tasks) /\ Len(tasks') = Len(tasks) - 1 /\ Len(tasks) \in Nat
         /\ \A i \in 1..Len(tasks') : tasks'[i] = tasks[i + 1]
         /\ \A v \in Workers \ {w} : running'[v] = running[v]
         /\ UNCHANGED <<seen, sending>>
  <1>1. /\ tasks' \in Seq(Tasks) /\ Len(tasks') = Len(tasks) - 1 /\ Len(tasks) \in Nat
        /\ \A i \in 1..Len(tasks') : tasks'[i] = tasks[i + 1]
        /\ Len(tasks') <= Buffer /\ Head(tasks) \in Tasks
        /\ Head(tasks) = tasks[1] /\ 1 \in 1..Len(tasks)
    BY QueueAssumption DEF Receive, QueueOK, QueuePart
  <1>2. /\ running' \in [Workers -> Tasks \cup {NoTask}] /\ running'[w] = Head(tasks)
        /\ running[w] = NoTask /\ \A v \in Workers \ {w} : running'[v] = running[v]
        /\ UNCHANGED <<seen, sending>>
    BY <1>1 DEF Receive, QueueOK, QueuePart
  <1>3. QueuePart'
    BY <1>1, <1>2 DEF QueueOK, QueuePart
  <1>4. \A i \in 1..Len(tasks') : i + 1 \in 1..Len(tasks) /\ i + 1 # 1
    BY <1>1
  <1>5. \A i \in 1..Len(tasks) : i = 1 \/ \E j \in 1..Len(tasks') : i = j + 1
    <2>1. SUFFICES ASSUME NEW i \in 1..Len(tasks), i # 1
                   PROVE  \E j \in 1..Len(tasks') : i = j + 1
      OBVIOUS
    <2>2. i - 1 \in 1..Len(tasks') /\ i = (i - 1) + 1
      BY <1>1, <2>1
    <2>3. QED
      BY <2>2
  <1>6. NoTask \notin Tasks
    BY TaskFacts
  <1>7. KeyPart'
    <2>1. \A i, j \in 1..Len(tasks') : tasks'[i] = tasks'[j] => i = j
      <3>1. SUFFICES ASSUME NEW i \in 1..Len(tasks'), NEW j \in 1..Len(tasks'), tasks'[i] = tasks'[j]
                     PROVE  i = j
        OBVIOUS
      <3>2. tasks[i + 1] = tasks[j + 1]
        BY <1>1, <3>1
      <3>3. i + 1 = j + 1
        BY <1>4, <3>2 DEF QueueOK, KeyPart
      <3>4. QED
        BY <3>3
    <2>2. \A v, x \in Workers : running'[v] = running'[x] /\ running'[v] # NoTask => v = x
      BY <1>1, <1>2 DEF QueueOK, KeyPart
    <2>3. \A i \in 1..Len(tasks'), v \in Workers : tasks'[i] # running'[v]
      <3>1. SUFFICES ASSUME NEW i \in 1..Len(tasks'), NEW v \in Workers
                     PROVE  tasks[i + 1] # running'[v]
        BY <1>1
      <3>2. CASE v = w
        BY <3>2, <1>1, <1>2, <1>4 DEF QueueOK, KeyPart
      <3>3. CASE v # w
        BY <3>3, <1>2, <1>4 DEF QueueOK, KeyPart
      <3>4. QED
        BY <3>2, <3>3
    <2>4. /\ \A t, u \in Threads : sending'[t] = sending'[u] /\ sending'[t] # NoTask => t = u
          /\ \A i \in 1..Len(tasks'), t \in Threads : tasks'[i] # sending'[t]
          /\ \A t \in Threads, v \in Workers : sending'[t] # NoTask => sending'[t] # running'[v]
          /\ \A i \in 1..Len(tasks') : tasks'[i] \in seen'
          /\ \A t \in Threads : sending'[t] # NoTask => sending'[t] \in seen'
          /\ \A v \in Workers : running'[v] # NoTask => running'[v] \in seen'
      <3>1. /\ \A t, u \in Threads : sending'[t] = sending'[u] /\ sending'[t] # NoTask => t = u
            /\ \A t \in Threads : sending'[t] # NoTask => sending'[t] \in seen'
        BY <1>2 DEF QueueOK, KeyPart
      <3>2. /\ \A i \in 1..Len(tasks'), t \in Threads : tasks'[i] # sending'[t]
            /\ \A i \in 1..Len(tasks') : tasks'[i] \in seen'
        BY <1>1, <1>2, <1>4 DEF QueueOK, KeyPart
      <3>3. ASSUME NEW t \in Threads, NEW v \in Workers, sending[t] # NoTask
            PROVE  sending[t] # running'[v]
        <4>1. CASE v = w
          BY <4>1, <1>1, <1>2 DEF QueueOK, KeyPart
        <4>2. CASE v # w
          BY <3>3, <4>2, <1>2 DEF QueueOK, KeyPart
        <4>3. QED
          BY <4>1, <4>2
      <3>4. ASSUME NEW v \in Workers, running'[v] # NoTask
            PROVE  running'[v] \in seen
        <4>1. CASE v = w
          BY <4>1, <1>1, <1>2 DEF QueueOK, KeyPart
        <4>2. CASE v # w
          BY <3>4, <4>2, <1>2 DEF QueueOK, KeyPart
        <4>3. QED
          BY <4>1, <4>2
      <3>5. QED
        BY <1>2, <3>1, <3>2, <3>3, <3>4
    <2>5. \A k \in seen' : \/ \E i \in 1..Len(tasks') : tasks'[i] = k
                           \/ \E u \in Threads : sending'[u] = k
                           \/ \E v \in Workers : running'[v] = k
      <3>1. SUFFICES ASSUME NEW k \in seen
                     PROVE  \/ \E i \in 1..Len(tasks') : tasks'[i] = k
                            \/ \E u \in Threads : sending'[u] = k
                            \/ \E v \in Workers : running'[v] = k
        BY <1>2
      <3>2. CASE \E i \in 1..Len(tasks) : tasks[i] = k
        BY <3>2, <1>1, <1>2, <1>5, ZenonT(60)
      <3>3. CASE \E u \in Threads : sending[u] = k
        BY <3>3, <1>2
      <3>4. CASE \E v \in Workers : running[v] = k
        <4>1. PICK v \in Workers : running[v] = k
          BY <3>4
        <4>2. v # w
          BY <4>1, <1>2, <1>6 DEF QueueOK, QueuePart
        <4>3. QED
          BY <4>1, <4>2, <1>2
      <3>5. QED
        BY <3>2, <3>3, <3>4 DEF QueueOK, KeyPart
    <2>6. QED
      BY <2>1, <2>2, <2>3, <2>4, <2>5 DEF KeyPart
  <1>8. QED
    BY <1>1, <1>2, <1>3, <1>7 DEF QueueOK

LEMMA ForgetKeeps ==
  ASSUME QueueOK, NEW w \in Workers, Forget(w)
  PROVE  QueueOK'
  <1>1. /\ running' \in [Workers -> Tasks \cup {NoTask}] /\ running'[w] = NoTask
        /\ \A v \in Workers \ {w} : running'[v] = running[v]
        /\ seen' = seen \ {running[w]} /\ UNCHANGED <<tasks, sending>> /\ running[w] \in Tasks
    BY DEF Forget, QueueOK, QueuePart
  <1>2. QueuePart'
    BY <1>1 DEF QueueOK, QueuePart
  <1>3. NoTask \notin Tasks /\ \A i \in 1..Len(tasks) : tasks[i] \in Tasks
    BY TaskFacts DEF QueueOK, QueuePart
  <1>4. KeyPart'
    BY <1>1, <1>3 DEF QueueOK, KeyPart
  <1>5. QED
    BY <1>2, <1>4 DEF QueueOK

LEMMA QueueStarts ==
  ASSUME tasks' = <<>>, seen' = {}, sending' = [t \in Threads |-> NoTask],
         running' = [w \in Workers |-> NoTask]
  PROVE  QueueOK'
  BY QueueAssumption DEF QueueOK, QueuePart, KeyPart

LEMMA QueueStays ==
  ASSUME QueueOK, UNCHANGED queue
  PROVE  QueueOK'
  BY DEF QueueOK, QueuePart, KeyPart, queue

-----------------------------------------------------------------------------
(* A step of one thread: what it has to establish for the invariant. *)

OnlyThread(t) ==
  /\ thread' \in [Threads -> Frame]
  /\ \A u \in Threads \ {t} : thread'[u] = thread[u] /\ sending'[u] = sending[u]
  /\ \A w \in Workers \ {t} : running'[w] = running[w]

\* The handler's record of a thread after Idle, Finishing, Step and Go.
LEMMA Frames ==
  /\ Idle \in Frame /\ Idle.at = "idle" /\ Idle.todo = {}
  /\ Finishing \in Frame /\ Finishing.at = "store" /\ Finishing.todo = {}
  BY Zenon DEF Idle, Finishing, Frame

LEMMA GoFrame ==
  ASSUME thread \in [Threads -> Frame], NEW t \in Threads, NEW r \in Frame, Go(t, r)
  PROVE  /\ thread' \in [Threads -> Frame] /\ thread'[t] = r
         /\ \A u \in Threads \ {t} : thread'[u] = thread[u]
  BY DEF Go

Places == {"idle", "enqueue", "send", "store", "fetch"} \cup Filtering

LEMMA StepFrame ==
  ASSUME thread \in [Threads -> Frame], NEW t \in Threads, NEW a \in Places, Step(t, a)
  PROVE  /\ thread' \in [Threads -> Frame] /\ thread'[t].at = a
         /\ thread'[t].todo = thread[t].todo /\ thread'[t].next = thread[t].next
         /\ thread'[t].to = thread[t].to
         /\ \A u \in Threads \ {t} : thread'[u] = thread[u]
  <1>1. PICK r : r = [thread[t] EXCEPT !.at = a]
    OBVIOUS
  <1>2. thread[t] \in Frame
    OBVIOUS
  <1>3. /\ r \in Frame /\ r.at = a /\ r.todo = thread[t].todo
        /\ r.next = thread[t].next /\ r.to = thread[t].to
    BY <1>1, <1>2, Zenon DEF Frame, Places
  <1>4. Go(t, r)
    BY <1>1 DEF Step
  <1>5. QED
    BY <1>3, <1>4, GoFrame

LEMMA ThreadKeeps ==
  ASSUME TasksInv, NEW t \in Threads, OnlyThread(t), ThreadSound(t)',
         t \in Workers => WorkerSound(t)', t \in Callers => CallerSound(t)'
  PROVE  ThreadPart'
  <1>1. \A u \in Threads : ThreadSound(u)'
    BY DEF TasksInv, ThreadPart, OnlyThread, ThreadSound
  <1>2. \A w \in Workers : WorkerSound(w)'
    <2>1. SUFFICES ASSUME NEW w \in Workers, w # t PROVE WorkerSound(w)'
      OBVIOUS
    <2>2. thread'[w] = thread[w] /\ running'[w] = running[w] /\ WorkerSound(w)
      BY <2>1 DEF OnlyThread, Threads, TasksInv, ThreadPart
    <2>3. QED
      BY <2>2 DEF WorkerSound
  <1>3. \A c \in Callers : CallerSound(c)'
    <2>1. SUFFICES ASSUME NEW c \in Callers, c # t PROVE CallerSound(c)'
      OBVIOUS
    <2>2. thread'[c] = thread[c] /\ CallerSound(c)
      BY <2>1 DEF OnlyThread, Threads, TasksInv, ThreadPart
    <2>3. QED
      BY <2>2 DEF CallerSound
  <1>4. QED
    BY <1>1, <1>2, <1>3 DEF OnlyThread, ThreadPart

LEMMA RowKeeps ==
  ASSUME TasksInv, NEW t \in Threads, OnlyThread(t),
         row' \in [Messages -> Statuses], meetings' \in [Messages -> 0..MaxMeetings],
         lost' \subseteq Messages,
         \A m \in Messages : row[m] # "absent" => row'[m] # "absent",
         \A k \in seen' : k \in seen \/ (thread[t].at = "enqueue" /\ k = thread[t].next),
         thread'[t].at = "enqueue" /\ thread'[t].next.kind = "filter"
           => row'[thread'[t].next.of] # "absent"
  PROVE  RowPart'
  <1>1. \A k \in Tasks : Stored(k) => Stored(k)'
    BY TaskFacts DEF Stored
  <1>2. \A k \in seen' : Stored(k)'
    <2>1. SUFFICES ASSUME NEW k \in seen' PROVE Stored(k)'
      OBVIOUS
    <2>2. k \in Tasks
      BY DEF TasksInv, QueuePart, ThreadPart, ThreadSound
    <2>3. Stored(k)
      BY DEF TasksInv, RowPart
    <2>4. QED
      BY <1>1, <2>2, <2>3
  <1>3. \A u \in Threads : thread'[u].at = "enqueue" => Stored(thread[u].next)'
    <2>1. SUFFICES ASSUME NEW u \in Threads, u # t, thread'[u].at = "enqueue"
                   PROVE  Stored(thread[u].next)'
      BY DEF Stored
    <2>2. thread'[u] = thread[u] /\ thread[u].next \in Tasks /\ Stored(thread[u].next)
      BY <2>1 DEF OnlyThread, TasksInv, ThreadPart, ThreadSound, RowPart
    <2>3. QED
      BY <1>1, <2>2 DEF Stored
  <1>4. QED
    BY <1>2, <1>3 DEF RowPart

\* The places of a message's filter task that belong to one thread.
HasFilter(t, m) ==
  \/ thread[t].at = "enqueue" /\ IsFilter(thread[t].next, m)
  \/ IsFilter(sending[t], m)
  \/ t \in Workers /\ IsFilter(running[t], m) /\ thread[t].at \in Filtering

LEMMA OthersHave ==
  ASSUME NEW t \in Threads, OnlyThread(t), NEW m \in Messages, InSomePlace(m),
         \A i \in 1..Len(tasks) : \E j \in 1..Len(tasks') : tasks'[j] = tasks[i]
  PROVE  HasFilter(t, m) \/ InSomePlace(m)'
  <1>1. CASE \E u \in Threads : thread[u].at = "enqueue" /\ IsFilter(thread[u].next, m)
    BY <1>1 DEF OnlyThread, HasFilter, InSomePlace, IsFilter
  <1>2. CASE \E u \in Threads : IsFilter(sending[u], m)
    BY <1>2 DEF OnlyThread, HasFilter, InSomePlace, IsFilter
  <1>3. CASE \E i \in 1..Len(tasks) : IsFilter(tasks[i], m)
    BY <1>3 DEF InSomePlace, IsFilter
  <1>4. CASE \E w \in Workers : IsFilter(running[w], m) /\ thread[w].at \in Filtering
    BY <1>4 DEF OnlyThread, HasFilter, InSomePlace, IsFilter, Threads
  <1>5. QED
    BY <1>1, <1>2, <1>3, <1>4 DEF InSomePlace

LEMMA PendingKeeps ==
  ASSUME TasksInv, QueueOK', NEW t \in Threads, OnlyThread(t),
         \A i \in 1..Len(tasks) : \E j \in 1..Len(tasks') : tasks'[j] = tasks[i],
         \A m \in Messages : m \in lost => m \in lost' \/ InSomePlace(m)',
         \A m \in Messages : row'[m] \in Unfinished =>
            row[m] \in Unfinished \/ m \in lost' \/ InSomePlace(m)',
         \A m \in Messages : row'[m] \in Unfinished /\ HasFilter(t, m)
                              => m \in lost' \/ InSomePlace(m)'
  PROVE  UnfilteredIsPending'
  <1>1. SUFFICES ASSUME NEW m \in Messages, row'[m] \in Unfinished, m \notin lost'
                 PROVE  Pending(m)'
    BY DEF UnfilteredIsPending, Unfinished
  <1>2. tasks \in Seq(Tasks) /\ (tasks \in Seq(Tasks))'
    BY DEF TasksInv, QueuePart, QueueOK
  <1>3. InSomePlace(m)'
    <2>1. SUFFICES ASSUME row[m] \in Unfinished, m \notin lost PROVE InSomePlace(m)'
      BY <1>1
    <2>2. InSomePlace(m)
      BY <1>2, <2>1, PendingPlaces DEF TasksInv, UnfilteredIsPending, PlacesArePending
    <2>3. QED
      BY <1>1, <2>2, OthersHave
  <1>4. PlacesArePending'
    BY PendingPlaces, PTL
  <1>5. QED
    BY <1>2, <1>3, <1>4 DEF PlacesArePending

LEMMA MeetingKeeps ==
  ASSUME TasksInv, NEW t \in Threads, OnlyThread(t), meetings' = meetings,
         t \in Workers => thread'[t].at # "commit"
  PROVE  MeetingPart'
  BY DEF TasksInv, MeetingPart, OnlyThread, InFilterTx, At, MessageOf, Threads

-----------------------------------------------------------------------------
(* One lemma per action. *)

\* What the invariant says of one thread, and that a worker is no caller.
LEMMA ThreadFacts ==
  ASSUME TasksInv, NEW t \in Threads
  PROVE  /\ ThreadSound(t) /\ thread[t] \in Frame /\ thread \in [Threads -> Frame]
         /\ t \in Workers => WorkerSound(t) /\ t \notin Callers
         /\ t \in Callers => CallerSound(t) /\ t \notin Workers
  BY QueueAssumption DEF TasksInv, ThreadPart

\* A step that leaves the queue alone leaves every task where it is.
LEMMA QueueUnchanged ==
  ASSUME TasksInv, UNCHANGED queue
  PROVE  /\ QueueOK' /\ UNCHANGED <<tasks, seen, sending, running>>
         /\ \A i \in 1..Len(tasks) : \E j \in 1..Len(tasks') : tasks'[j] = tasks[i]
  BY QueueStays DEF TasksInv, QueueOK, queue

\* A request or the listener begins.
LEMMA CallerBegins ==
  ASSUME TasksInv, NEW c \in Callers, At(c, "idle"), UNCHANGED <<queue, meetings, lost>>,
         NEW r \in Frame, Go(c, r), r.at \in {"enqueue", "store"},
         r.at = "enqueue" => /\ r.next \in Tasks
                             /\ r.next.kind = "filter" => row'[r.next.of] # "absent",
         row' \in [Messages -> Statuses],
         \A m \in Messages : row[m] # "absent" => row'[m] # "absent",
         \A m \in Messages : row'[m] \in Unfinished =>
            row[m] \in Unfinished \/ (r.at = "enqueue" /\ IsFilter(r.next, m))
  PROVE  TasksInv'
  <1>1. c \in Threads /\ ThreadSound(c) /\ thread \in [Threads -> Frame] /\ c \notin Workers
    BY ThreadFacts DEF Threads
  <1>2. /\ QueueOK' /\ UNCHANGED <<tasks, seen, sending, running>>
        /\ \A i \in 1..Len(tasks) : \E j \in 1..Len(tasks') : tasks'[j] = tasks[i]
    BY QueueUnchanged
  <1>3. /\ thread' \in [Threads -> Frame] /\ thread'[c] = r
        /\ \A u \in Threads \ {c} : thread'[u] = thread[u]
    BY <1>1, GoFrame
  <1>4. OnlyThread(c)
    BY <1>2, <1>3 DEF OnlyThread
  <1>5. ThreadSound(c)' /\ CallerSound(c)'
    BY <1>1, <1>2, <1>3 DEF ThreadSound, CallerSound, At
  <1>6. ThreadPart'
    BY <1>1, <1>4, <1>5, ThreadKeeps
  <1>7. RowPart'
    <2>1. meetings' \in [Messages -> 0..MaxMeetings] /\ lost' \subseteq Messages
      BY DEF TasksInv, RowPart
    <2>2. thread'[c].at = "enqueue" /\ thread'[c].next.kind = "filter"
            => row'[thread'[c].next.of] # "absent"
      BY <1>3
    <2>3. QED
      BY <1>1, <1>2, <1>4, <2>1, <2>2, RowKeeps
  <1>8. UnfilteredIsPending'
    <2>1. \A m \in Messages : r.at = "enqueue" /\ IsFilter(r.next, m) => InSomePlace(m)'
      BY <1>1, <1>3 DEF InSomePlace, IsFilter
    <2>2. \A m \in Messages : ~HasFilter(c, m)
      BY <1>1, TaskFacts DEF HasFilter, IsFilter, ThreadSound, At
    <2>3. QED
      BY <1>1, <1>2, <1>4, <2>1, <2>2, PendingKeeps
  <1>9. MeetingPart'
    BY <1>1, <1>4, MeetingKeeps
  <1>10. QED
    BY <1>2, <1>6, <1>7, <1>8, <1>9 DEF TasksInv, QueueOK

LEMMA QueueCollectStep ==
  ASSUME TasksInv, NEW c \in Callers, NEW s \in Subscriptions, QueueCollect(c, s)
  PROVE  TasksInv'
  <1> DEFINE r == [Idle EXCEPT !.at = "enqueue", !.next = CollectTask(s)]
  <1>1. CollectTask(s) \in Tasks /\ CollectTask(s).kind = "collect"
    BY TaskFacts
  <1>2. r \in Frame /\ r.at = "enqueue" /\ r.next = CollectTask(s)
    BY <1>1, Zenon DEF Idle, Frame
  <1>3. Go(c, r) /\ At(c, "idle") /\ UNCHANGED <<queue, meetings, lost, row>>
    BY DEF QueueCollect, db
  <1> HIDE DEF r
  <1>4. r.next \in Tasks /\ r.next.kind # "filter"
    BY <1>1, <1>2
  <1>5. row' \in [Messages -> Statuses] /\ \A m \in Messages : row'[m] = row[m]
    BY <1>3 DEF TasksInv, RowPart
  <1>6. QED
    BY <1>2, <1>3, <1>4, <1>5, CallerBegins

LEMMA LiveStep ==
  ASSUME TasksInv, NEW c \in Callers, NEW m \in Messages, Live(c, m)
  PROVE  TasksInv'
  <1> DEFINE r == [Idle EXCEPT !.at = "store", !.todo = {m}]
  <1>1. r \in Frame /\ r.at = "store"
    BY Zenon DEF Idle, Frame
  <1>2. Go(c, r) /\ At(c, "idle") /\ UNCHANGED <<queue, meetings, lost, row>>
    BY DEF Live, db
  <1> HIDE DEF r
  <1>3. row' \in [Messages -> Statuses] /\ \A x \in Messages : row'[x] = row[x]
    BY <1>2 DEF TasksInv, RowPart
  <1>4. QED
    BY <1>1, <1>2, <1>3, CallerBegins

LEMMA RefilterStep ==
  ASSUME TasksInv, NEW c \in Callers, NEW m \in Messages, Refilter(c, m)
  PROVE  TasksInv'
  <1> DEFINE r == [Idle EXCEPT !.at = "enqueue", !.next = FilterTask(m, TRUE)]
  <1>1. /\ FilterTask(m, TRUE) \in Tasks /\ FilterTask(m, TRUE).kind = "filter"
        /\ FilterTask(m, TRUE).of = m
    BY TaskFacts
  <1>2. r \in Frame /\ r.at = "enqueue" /\ r.next = FilterTask(m, TRUE)
    BY <1>1, Zenon DEF Idle, Frame
  <1>3. Go(c, r) /\ At(c, "idle") /\ UNCHANGED <<queue, meetings, lost>>
    BY DEF Refilter
  <1>4. /\ row' \in [Messages -> Statuses] /\ row'[m] = "unfiltered"
        /\ \A x \in Messages \ {m} : row'[x] = row[x]
    BY DEF Refilter, TasksInv, RowPart, Statuses
  <1> HIDE DEF r
  <1>5. r.next \in Tasks /\ row'[r.next.of] # "absent" /\ IsFilter(r.next, m)
    BY <1>1, <1>2, <1>4 DEF IsFilter
  <1>6. /\ \A x \in Messages : row[x] # "absent" => row'[x] # "absent"
        /\ \A x \in Messages : row'[x] \in Unfinished =>
             row[x] \in Unfinished \/ (r.at = "enqueue" /\ IsFilter(r.next, x))
    BY <1>2, <1>4, <1>5
  <1>7. QED
    BY <1>2, <1>3, <1>4, <1>5, <1>6, CallerBegins

\* The mutex part of enqueue.
LEMMA EnqueueStep ==
  ASSUME TasksInv, NEW t \in Threads, Enqueue(t)
  PROVE  TasksInv'
  <1> DEFINE task == thread[t].next
             m == {task.of : x \in {task.kind} \ {"collect"}}
             past == \E w \in Workers : running[w] = task /\ At(w, "store")
  <1>1. /\ thread[t].at = "enqueue" /\ task \in Tasks /\ sending[t] = NoTask
        /\ thread \in [Threads -> Frame]
        /\ t \in Workers => WorkerSound(t) /\ t \notin Callers
        /\ t \in Callers => t \notin Workers
    BY ThreadFacts DEF Enqueue, At, ThreadSound
  <1>2. UNCHANGED <<row, meetings>>
    BY DEF Enqueue, db
  <1>3. m \subseteq Messages /\ \A x \in m : IsFilter(task, x)
    BY <1>1, TaskFacts DEF IsFilter
  <1>4. row' \in [Messages -> Statuses] /\ meetings' \in [Messages -> 0..MaxMeetings]
        /\ lost \subseteq Messages
    BY <1>2 DEF TasksInv, RowPart
  <1>5. CASE task \in seen
    <2>1. Step(t, "store") /\ UNCHANGED queue /\ lost' = IF past THEN lost \cup m ELSE lost
      BY <1>5 DEF Enqueue
    <2>2. /\ QueueOK' /\ UNCHANGED <<tasks, seen, sending, running>>
          /\ \A i \in 1..Len(tasks) : \E j \in 1..Len(tasks') : tasks'[j] = tasks[i]
      BY <2>1, QueueUnchanged
    <2>3. /\ thread' \in [Threads -> Frame] /\ thread'[t].at = "store"
          /\ \A u \in Threads \ {t} : thread'[u] = thread[u]
      BY <1>1, <2>1, StepFrame DEF Places
    <2>4. OnlyThread(t)
      BY <2>2, <2>3 DEF OnlyThread
    <2>5. /\ ThreadSound(t)'
          /\ t \in Workers => WorkerSound(t)'
          /\ t \in Callers => CallerSound(t)'
      BY <1>1, <2>2, <2>3 DEF ThreadSound, WorkerSound, CallerSound, Filtering
    <2>6. ThreadPart'
      BY <2>4, <2>5, ThreadKeeps
    <2>7. RowPart'
      BY <1>2, <1>3, <1>4, <2>1, <2>2, <2>3, <2>4, RowKeeps
    <2>8. \A x \in Messages : HasFilter(t, x) => x \in lost' \/ InSomePlace(x)'
      <3>1. SUFFICES ASSUME NEW x \in Messages, HasFilter(t, x) PROVE x \in lost' \/ InSomePlace(x)'
        OBVIOUS
      <3>2. IsFilter(task, x)
        BY <1>1, <3>1, TaskFacts DEF HasFilter, IsFilter, Filtering
      <3>3. CASE \E i \in 1..Len(tasks) : tasks[i] = task
        BY <3>2, <3>3, <2>2 DEF InSomePlace
      <3>4. CASE \E u \in Threads : sending[u] = task
        BY <3>2, <3>4, <2>2 DEF InSomePlace
      <3>5. CASE \E w \in Workers : running[w] = task
        <4>1. PICK w \in Workers : running[w] = task
          BY <3>5
        <4>2. running[w].kind = "filter" /\ running[w] # NoTask
          BY <4>1, <3>2, <1>1, TaskFacts DEF IsFilter
        <4>3. w \in Threads /\ WorkerSound(w) /\ thread[w] \in Frame
          BY ThreadFacts DEF Threads
        <4>4. thread[w].at \in Filtering \cup {"store"}
          BY <4>2, <4>3 DEF WorkerSound, Frame, Filtering
        <4>5. CASE thread[w].at = "store"
          <5>1. past
            BY <4>1, <4>5 DEF At
          <5>2. x \in m
            BY <3>2 DEF IsFilter
          <5>3. QED
            BY <5>1, <5>2, <2>1
        <4>6. CASE thread[w].at \in Filtering
          <5>1. w # t
            BY <1>1, <4>6 DEF Filtering
          <5>2. thread'[w] = thread[w] /\ running'[w] = task
            BY <4>1, <4>3, <5>1, <2>2, <2>3
          <5>3. QED
            BY <3>2, <4>6, <5>2 DEF InSomePlace
        <4>7. QED
          BY <4>4, <4>5, <4>6
      <3>6. QED
        BY <1>5, <3>3, <3>4, <3>5 DEF TasksInv, KeyPart
    <2>9. UnfilteredIsPending'
      <3>1. \A x \in Messages : x \in lost => x \in lost' \/ InSomePlace(x)'
        BY <2>1
      <3>2. QED
        BY <1>2, <2>2, <2>4, <2>8, <3>1, PendingKeeps
    <2>10. MeetingPart'
      BY <1>2, <2>3, <2>4, MeetingKeeps
    <2>11. QED
      BY <2>2, <2>6, <2>7, <2>9, <2>10 DEF TasksInv, QueueOK
  <1>6. CASE task \notin seen
    <2>1. Accept(t, task) /\ Step(t, "send") /\ lost' = lost \ m
      BY <1>6 DEF Enqueue
    <2>2. QueueOK'
      BY <1>1, <1>6, <2>1, AcceptKeeps DEF TasksInv, QueueOK
    <2>3. /\ sending'[t] = task /\ \A u \in Threads \ {t} : sending'[u] = sending[u]
          /\ seen' = seen \cup {task} /\ UNCHANGED <<tasks, running>>
      BY <2>1 DEF Accept, TasksInv, QueuePart
    <2>4. /\ thread' \in [Threads -> Frame] /\ thread'[t].at = "send"
          /\ \A u \in Threads \ {t} : thread'[u] = thread[u]
      BY <1>1, <2>1, StepFrame DEF Places
    <2>5. OnlyThread(t)
      BY <2>3, <2>4 DEF OnlyThread
    <2>6. /\ ThreadSound(t)'
          /\ t \in Workers => WorkerSound(t)'
          /\ t \in Callers => CallerSound(t)'
      BY <1>1, <2>3, <2>4, TaskFacts DEF ThreadSound, WorkerSound, CallerSound, Filtering
    <2>7. ThreadPart'
      BY <2>5, <2>6, ThreadKeeps
    <2>8. RowPart'
      BY <1>1, <1>2, <1>4, <2>1, <2>3, <2>4, <2>5, RowKeeps
    <2>9. \A x \in Messages : IsFilter(task, x) => InSomePlace(x)'
      BY <2>3 DEF InSomePlace
    <2>10. \A x \in Messages : HasFilter(t, x) => IsFilter(task, x)
      BY <1>1, TaskFacts DEF HasFilter, IsFilter, Filtering
    <2>11. UnfilteredIsPending'
      <3>1. \A x \in Messages : x \in lost => x \in lost' \/ InSomePlace(x)'
        BY <1>3, <2>1, <2>9
      <3>2. \A i \in 1..Len(tasks) : \E j \in 1..Len(tasks') : tasks'[j] = tasks[i]
        BY <2>3
      <3>3. \A x \in Messages : HasFilter(t, x) => x \in lost' \/ InSomePlace(x)'
        BY <2>9, <2>10
      <3>4. QED
        BY <1>2, <2>2, <2>5, <3>1, <3>2, <3>3, PendingKeeps
    <2>12. MeetingPart'
      BY <1>2, <2>4, <2>5, MeetingKeeps
    <2>13. QED
      BY <2>2, <2>7, <2>8, <2>11, <2>12 DEF TasksInv, QueueOK
  <1>7. QED
    BY <1>5, <1>6

\* The channel takes the task.
LEMMA DeliverStep ==
  ASSUME TasksInv, NEW t \in Threads, Deliver(t)
  PROVE  TasksInv'
  <1>1. /\ thread[t].at = "send" /\ thread \in [Threads -> Frame] /\ sending[t] # NoTask
        /\ t \in Workers => WorkerSound(t) /\ t \notin Callers
        /\ t \in Callers => t \notin Workers
    BY ThreadFacts DEF Deliver, At, ThreadSound
  <1>2. UNCHANGED <<row, meetings, lost>> /\ Send(t) /\ Step(t, "store")
    BY DEF Deliver, db
  <1>3. /\ QueueOK' /\ Len(tasks') = Len(tasks) + 1 /\ Len(tasks) \in Nat
        /\ tasks'[Len(tasks) + 1] = sending[t]
        /\ \A i \in 1..Len(tasks) : tasks'[i] = tasks[i]
    BY <1>2, SendKeeps DEF TasksInv, QueueOK
  <1>4. /\ sending'[t] = NoTask /\ \A u \in Threads \ {t} : sending'[u] = sending[u]
        /\ UNCHANGED <<seen, running>>
    BY <1>2 DEF Send, TasksInv, QueuePart
  <1>5. /\ thread' \in [Threads -> Frame] /\ thread'[t].at = "store"
        /\ \A u \in Threads \ {t} : thread'[u] = thread[u]
    BY <1>1, <1>2, StepFrame DEF Places
  <1>6. OnlyThread(t)
    BY <1>4, <1>5 DEF OnlyThread
  <1>7. /\ ThreadSound(t)'
        /\ t \in Workers => WorkerSound(t)'
        /\ t \in Callers => CallerSound(t)'
    BY <1>1, <1>4, <1>5, TaskFacts DEF ThreadSound, WorkerSound, CallerSound, Filtering
  <1>8. ThreadPart'
    BY <1>6, <1>7, ThreadKeeps
  <1>9. RowPart'
    <2>1. row' \in [Messages -> Statuses] /\ meetings' \in [Messages -> 0..MaxMeetings]
          /\ lost' \subseteq Messages
      BY <1>2 DEF TasksInv, RowPart
    <2>2. QED
      BY <1>2, <1>4, <1>5, <1>6, <2>1, RowKeeps
  <1>10. UnfilteredIsPending'
    <2>1. Len(tasks) + 1 \in 1..Len(tasks') /\ 1..Len(tasks) \subseteq 1..Len(tasks')
      BY <1>3
    <2>2. \A i \in 1..Len(tasks) : \E j \in 1..Len(tasks') : tasks'[j] = tasks[i]
      BY <1>3, <2>1
    <2>3. \A x \in Messages : HasFilter(t, x) => IsFilter(sending[t], x)
      BY <1>1, TaskFacts DEF HasFilter, IsFilter, Filtering
    <2>4. \A x \in Messages : IsFilter(sending[t], x) => InSomePlace(x)'
      BY <1>3, <2>1 DEF InSomePlace
    <2>5. QED
      BY <1>2, <1>3, <1>6, <2>2, <2>3, <2>4, PendingKeeps
  <1>11. MeetingPart'
    BY <1>2, <1>5, <1>6, MeetingKeeps
  <1>12. QED
    BY <1>3, <1>8, <1>9, <1>10, <1>11 DEF TasksInv, QueueOK

\* The context of a sender ends.
LEMMA GiveUpStep ==
  ASSUME TasksInv, NEW c \in Callers, GiveUp(c)
  PROVE  TasksInv'
  <1>1. /\ c \in Threads /\ thread[c].at = "send" /\ thread \in [Threads -> Frame]
        /\ c \notin Workers /\ sending[c] \in Tasks
    BY ThreadFacts DEF GiveUp, At, ThreadSound, Threads, TasksInv, QueuePart
  <1>2. /\ UNCHANGED <<row, meetings>> /\ Withdraw(c) /\ Go(c, Idle)
        /\ lost' = IF sending[c].kind = "filter" THEN lost \cup {sending[c].of} ELSE lost
    BY DEF GiveUp, db
  <1>3. QueueOK'
    BY <1>1, <1>2, WithdrawKeeps DEF TasksInv, QueueOK
  <1>4. /\ sending'[c] = NoTask /\ \A u \in Threads \ {c} : sending'[u] = sending[u]
        /\ UNCHANGED <<tasks, running>> /\ seen' = seen \ {sending[c]}
    BY <1>1, <1>2 DEF Withdraw, TasksInv, QueuePart
  <1>5. /\ thread' \in [Threads -> Frame] /\ thread'[c] = Idle
        /\ \A u \in Threads \ {c} : thread'[u] = thread[u]
    BY <1>1, <1>2, Frames, GoFrame
  <1>6. OnlyThread(c)
    BY <1>4, <1>5 DEF OnlyThread
  <1>7. ThreadSound(c)' /\ CallerSound(c)'
    BY <1>1, <1>4, <1>5, Frames DEF ThreadSound, CallerSound
  <1>8. ThreadPart'
    BY <1>1, <1>6, <1>7, ThreadKeeps
  <1>9. RowPart'
    <2>1. row' \in [Messages -> Statuses] /\ meetings' \in [Messages -> 0..MaxMeetings]
          /\ lost' \subseteq Messages
      BY <1>1, <1>2, TaskFacts DEF TasksInv, RowPart
    <2>2. QED
      BY <1>1, <1>2, <1>4, <1>5, <1>6, <2>1, Frames, RowKeeps
  <1>10. UnfilteredIsPending'
    <2>1. \A i \in 1..Len(tasks) : \E j \in 1..Len(tasks') : tasks'[j] = tasks[i]
      BY <1>4
    <2>2. \A x \in Messages : HasFilter(c, x) => x \in lost'
      BY <1>1, <1>2 DEF HasFilter, IsFilter
    <2>3. \A x \in Messages : x \in lost => x \in lost'
      BY <1>2
    <2>4. QED
      BY <1>1, <1>2, <1>3, <1>6, <2>1, <2>2, <2>3, PendingKeeps
  <1>11. MeetingPart'
    BY <1>1, <1>2, <1>6, MeetingKeeps
  <1>12. QED
    BY <1>3, <1>8, <1>9, <1>10, <1>11 DEF TasksInv, QueueOK

\* A thread goes on in its handler and leaves the queue alone.
LEMMA GoesOn ==
  ASSUME TasksInv, NEW t \in Threads, UNCHANGED queue, NEW r \in Frame, Go(t, r),
         thread[t].at # "send", thread[t].at # "idle",
         r.at \in {"enqueue", "store"} \cup Filtering,
         r.at = "enqueue" => r.next \in Tasks,
         t \in Workers =>
           /\ r.at \in Filtering => running[t].kind = "filter"
           /\ r.at = "enqueue" => running[t].kind = "collect"
           /\ r.at = "store" /\ running[t].kind = "filter" => r.todo = {}
           /\ r.at = "commit" => r.to # "",
         t \in Callers => r.at \in {"enqueue", "store"}
  PROVE  /\ QueueOK' /\ ThreadPart' /\ OnlyThread(t) /\ thread'[t] = r
         /\ UNCHANGED <<tasks, seen, sending, running>>
         /\ \A i \in 1..Len(tasks) : \E j \in 1..Len(tasks') : tasks'[j] = tasks[i]
  <1>1. /\ ThreadSound(t) /\ thread \in [Threads -> Frame]
        /\ t \in Workers => WorkerSound(t)
    BY ThreadFacts
  <1>2. /\ QueueOK' /\ UNCHANGED <<tasks, seen, sending, running>>
        /\ \A i \in 1..Len(tasks) : \E j \in 1..Len(tasks') : tasks'[j] = tasks[i]
    BY QueueUnchanged
  <1>3. /\ thread' \in [Threads -> Frame] /\ thread'[t] = r
        /\ \A u \in Threads \ {t} : thread'[u] = thread[u]
    BY <1>1, GoFrame
  <1>4. OnlyThread(t)
    BY <1>2, <1>3 DEF OnlyThread
  <1>5. ThreadSound(t)'
    BY <1>1, <1>2, <1>3 DEF ThreadSound, Filtering
  <1>6. ASSUME t \in Workers PROVE WorkerSound(t)'
    BY <1>1, <1>2, <1>3, <1>6 DEF WorkerSound, Filtering
  <1>7. t \in Callers => CallerSound(t)'
    BY <1>3 DEF CallerSound
  <1>8. QED
    BY <1>2, <1>3, <1>4, <1>5, <1>6, <1>7, ThreadKeeps

\* A worker takes a task: what was in the channel is in its hands.
LEMMA StartStep ==
  ASSUME TasksInv, NEW w \in Workers, Start(w)
  PROVE  TasksInv'
  <1> DEFINE r == [Idle EXCEPT !.at = IF Head(tasks).kind = "collect" THEN "fetch" ELSE "find"]
  <1>1. /\ w \in Threads /\ thread[w].at = "idle" /\ thread \in [Threads -> Frame]
        /\ ThreadSound(w) /\ sending[w] = NoTask /\ w \notin Callers
    BY ThreadFacts DEF Start, At, ThreadSound, Threads
  <1>2. UNCHANGED <<row, meetings, lost>> /\ Receive(w) /\ Go(w, r)
    BY DEF Start, db
  <1>3. /\ QueueOK' /\ running'[w] = Head(tasks) /\ Head(tasks) = tasks[1]
        /\ 1 \in 1..Len(tasks) /\ Len(tasks') = Len(tasks) - 1 /\ Len(tasks) \in Nat
        /\ \A i \in 1..Len(tasks') : tasks'[i] = tasks[i + 1]
        /\ \A v \in Workers \ {w} : running'[v] = running[v]
        /\ UNCHANGED <<seen, sending>>
    BY <1>2, ReceiveKeeps DEF TasksInv, QueueOK
  <1>4. Head(tasks) \in Tasks /\ Head(tasks) # NoTask /\ Head(tasks).kind \in {"filter", "collect"}
    BY <1>3, TaskFacts DEF TasksInv, QueuePart
  <1>5. /\ r \in Frame
        /\ r.at = IF Head(tasks).kind = "collect" THEN "fetch" ELSE "find"
    BY Zenon DEF Idle, Frame, Filtering
  <1> HIDE DEF r
  <1>6. /\ thread' \in [Threads -> Frame] /\ thread'[w] = r
        /\ \A u \in Threads \ {w} : thread'[u] = thread[u]
    <2>1. PICK x : x = r
      OBVIOUS
    <2>2. QED
      BY <1>1, <1>2, <1>5, <2>1, GoFrame
  <1>7. OnlyThread(w)
    BY <1>3, <1>6 DEF OnlyThread
  <1>8. ThreadPart'
    <2>1. ThreadSound(w)'
      BY <1>1, <1>3, <1>5, <1>6 DEF ThreadSound
    <2>2. WorkerSound(w)'
      BY <1>3, <1>4, <1>5, <1>6 DEF WorkerSound, Filtering
    <2>3. QED
      BY <1>1, <1>7, <2>1, <2>2, ThreadKeeps
  <1>9. RowPart'
    <2>1. row' \in [Messages -> Statuses] /\ meetings' \in [Messages -> 0..MaxMeetings]
          /\ lost' \subseteq Messages
      BY <1>2 DEF TasksInv, RowPart
    <2>2. QED
      BY <1>1, <1>2, <1>3, <1>5, <1>6, <1>7, <2>1, RowKeeps
  <1>10. UnfilteredIsPending'
    <2>1. SUFFICES ASSUME NEW m \in Messages, row[m] \in Unfinished, m \notin lost
                   PROVE  InSomePlace(m)'
      <3>1. PlacesArePending'
        BY PendingPlaces, PTL
      <3>2. (tasks \in Seq(Tasks))'
        BY <1>3 DEF QueueOK, QueuePart
      <3>3. QED
        BY <1>2, <3>1, <3>2 DEF UnfilteredIsPending, Unfinished, PlacesArePending
    <2>2. InSomePlace(m)
      BY <2>1, PendingPlaces DEF TasksInv, UnfilteredIsPending, PlacesArePending, QueuePart
    <2>3. CASE \E u \in Threads : thread[u].at = "enqueue" /\ IsFilter(thread[u].next, m)
      BY <2>3, <1>1, <1>6 DEF InSomePlace, IsFilter
    <2>4. CASE \E u \in Threads : IsFilter(sending[u], m)
      BY <2>4, <1>3 DEF InSomePlace, IsFilter
    <2>5. CASE \E i \in 1..Len(tasks) : IsFilter(tasks[i], m)
      <3>1. PICK i \in 1..Len(tasks) : IsFilter(tasks[i], m)
        BY <2>5
      <3>2. CASE i = 1
        BY <3>1, <3>2, <1>3, <1>5, <1>6 DEF InSomePlace, IsFilter, Filtering
      <3>3. CASE i # 1
        <4>1. i - 1 \in 1..Len(tasks') /\ (i - 1) + 1 = i
          BY <3>3, <1>3
        <4>2. tasks'[i - 1] = tasks[i]
          BY <4>1, <1>3
        <4>3. QED
          BY <3>1, <4>1, <4>2 DEF InSomePlace, IsFilter
      <3>4. QED
        BY <3>2, <3>3
    <2>6. CASE \E v \in Workers : IsFilter(running[v], m) /\ thread[v].at \in Filtering
      <3>1. PICK v \in Workers : IsFilter(running[v], m) /\ thread[v].at \in Filtering
        BY <2>6
      <3>2. v # w /\ v \in Threads
        BY <3>1, <1>1 DEF Filtering, Threads
      <3>3. QED
        BY <3>1, <3>2, <1>3, <1>6 DEF InSomePlace, IsFilter
    <2>7. QED
      BY <2>2, <2>3, <2>4, <2>5, <2>6 DEF InSomePlace
  <1>11. MeetingPart'
    BY <1>1, <1>2, <1>5, <1>6, <1>7, MeetingKeeps
  <1>12. QED
    BY <1>3, <1>8, <1>9, <1>10, <1>11 DEF TasksInv, QueueOK

\* The source answers a collect task.
LEMMA FetchStep ==
  ASSUME TasksInv, NEW w \in Workers, Fetch(w)
  PROVE  TasksInv'
  <1>1. /\ w \in Threads /\ thread[w].at = "fetch" /\ w \notin Callers
        /\ running[w].kind = "collect" /\ sending[w] = NoTask
    BY ThreadFacts DEF Fetch, At, ThreadSound, WorkerSound, Threads
  <1>2. UNCHANGED <<row, meetings, lost>> /\ UNCHANGED queue
    BY DEF Fetch, db
  <1>3. PICK new \in SUBSET Messages : Go(w, [Idle EXCEPT !.at = "store", !.todo = new])
    BY DEF Fetch
  <1>4. PICK r : r = [Idle EXCEPT !.at = "store", !.todo = new]
    OBVIOUS
  <1>5. r \in Frame /\ r.at = "store"
    BY <1>4, Zenon DEF Idle, Frame
  <1>6. Go(w, r)
    BY <1>3, <1>4
  <1>7. /\ QueueOK' /\ ThreadPart' /\ OnlyThread(w) /\ thread'[w] = r
        /\ UNCHANGED <<tasks, seen, sending, running>>
        /\ \A i \in 1..Len(tasks) : \E j \in 1..Len(tasks') : tasks'[j] = tasks[i]
    BY <1>1, <1>2, <1>5, <1>6, GoesOn DEF Filtering
  <1>8. RowPart'
    <2>1. row' \in [Messages -> Statuses] /\ meetings' \in [Messages -> 0..MaxMeetings]
          /\ lost' \subseteq Messages
      BY <1>2 DEF TasksInv, RowPart
    <2>2. QED
      BY <1>1, <1>2, <1>5, <1>7, <2>1, RowKeeps
  <1>9. UnfilteredIsPending'
    <2>1. \A x \in Messages : ~HasFilter(w, x)
      BY <1>1, TaskFacts DEF HasFilter, IsFilter
    <2>2. QED
      BY <1>1, <1>2, <1>7, <2>1, PendingKeeps
  <1>10. MeetingPart'
    BY <1>1, <1>2, <1>5, <1>7, MeetingKeeps
  <1>11. QED
    BY <1>7, <1>8, <1>9, <1>10 DEF TasksInv, QueueOK

\* A worker that filters has a stored message in hand and sends nothing.
LEMMA FilterFacts ==
  ASSUME TasksInv, NEW w \in Workers, thread[w].at \in Filtering
  PROVE  /\ w \in Threads /\ w \notin Callers /\ thread[w] \in Frame /\ WorkerSound(w)
         /\ sending[w] = NoTask /\ running[w].kind = "filter" /\ MessageOf(w) \in Messages
         /\ MessageOf(w) = running[w].of /\ row[MessageOf(w)] # "absent"
         /\ \A m \in Messages : HasFilter(w, m) <=> m = MessageOf(w)
         /\ thread[w].at # "send" /\ thread[w].at # "idle"
  <1>1. /\ w \in Threads /\ w \notin Callers /\ thread[w] \in Frame /\ WorkerSound(w)
        /\ ThreadSound(w)
    BY ThreadFacts DEF Threads
  <1>2. /\ sending[w] = NoTask /\ running[w].kind = "filter" /\ running[w] # NoTask
        /\ thread[w].at # "send" /\ thread[w].at # "idle" /\ thread[w].at # "enqueue"
    BY <1>1 DEF ThreadSound, WorkerSound, Filtering
  <1>3. running[w] \in seen /\ seen \subseteq Tasks
    BY <1>2 DEF TasksInv, KeyPart, QueuePart
  <1>4. MessageOf(w) \in Messages /\ MessageOf(w) = running[w].of /\ row[MessageOf(w)] # "absent"
    BY <1>2, <1>3, TaskFacts DEF TasksInv, RowPart, Stored, MessageOf
  <1>5. \A m \in Messages : HasFilter(w, m) <=> m = MessageOf(w)
    BY <1>2, <1>4, TaskFacts DEF HasFilter, IsFilter
  <1>6. QED
    BY <1>1, <1>2, <1>4, <1>5

LEMMA FindStep ==
  ASSUME TasksInv, NEW w \in Workers, Find(w)
  PROVE  TasksInv'
  <1>1. /\ thread[w].at = "find" /\ UNCHANGED <<row, meetings, lost>> /\ UNCHANGED queue
        /\ thread[w].at \in Filtering
    BY DEF Find, At, db, Filtering
  <1>2. /\ w \in Threads /\ w \notin Callers /\ thread[w] \in Frame
        /\ sending[w] = NoTask /\ running[w].kind = "filter" /\ MessageOf(w) = running[w].of
        /\ \A m \in Messages : HasFilter(w, m) <=> m = MessageOf(w)
    BY <1>1, FilterFacts
  <1>3. PICK r : r = IF row[MessageOf(w)] = "filtered" /\ ~running[w].force
                       THEN Finishing ELSE [thread[w] EXCEPT !.at = "mark"]
    OBVIOUS
  <1>4. /\ r \in Frame
        /\ \/ r.at = "store" /\ r.todo = {} /\ row[MessageOf(w)] = "filtered"
           \/ r.at = "mark"
    <2>1. CASE row[MessageOf(w)] = "filtered" /\ ~running[w].force
      BY <2>1, <1>3, Frames
    <2>2. CASE ~(row[MessageOf(w)] = "filtered" /\ ~running[w].force)
      <3>1. r = [thread[w] EXCEPT !.at = "mark"]
        BY <1>3, <2>2
      <3>2. r \in Frame /\ r.at = "mark"
        BY <3>1, <1>2, Zenon DEF Frame, Filtering
      <3>3. QED
        BY <3>2
    <2>3. QED
      BY <2>1, <2>2
  <1>5. Go(w, r)
    BY <1>3 DEF Find, Step
  <1>6. /\ QueueOK' /\ ThreadPart' /\ OnlyThread(w) /\ thread'[w] = r
        /\ UNCHANGED <<tasks, seen, sending, running>>
        /\ \A i \in 1..Len(tasks) : \E j \in 1..Len(tasks') : tasks'[j] = tasks[i]
    BY <1>1, <1>2, <1>4, <1>5, GoesOn DEF Filtering
  <1>7. RowPart'
    <2>1. row' \in [Messages -> Statuses] /\ meetings' \in [Messages -> 0..MaxMeetings]
          /\ lost' \subseteq Messages
      BY <1>1 DEF TasksInv, RowPart
    <2>2. QED
      BY <1>1, <1>2, <1>4, <1>6, <2>1, RowKeeps
  <1>8. UnfilteredIsPending'
    <2>1. \A m \in Messages : row'[m] \in Unfinished /\ HasFilter(w, m) => InSomePlace(m)'
      BY <1>1, <1>2, <1>4, <1>6 DEF InSomePlace, IsFilter, Unfinished, Filtering
    <2>2. QED
      BY <1>1, <1>2, <1>6, <2>1, PendingKeeps
  <1>9. MeetingPart'
    BY <1>1, <1>2, <1>4, <1>6, MeetingKeeps
  <1>10. QED
    BY <1>6, <1>7, <1>8, <1>9 DEF TasksInv, QueueOK

LEMMA MarkStep ==
  ASSUME TasksInv, NEW w \in Workers, Mark(w)
  PROVE  TasksInv'
  <1>1. /\ thread[w].at = "mark" /\ UNCHANGED <<meetings, lost>> /\ UNCHANGED queue
        /\ thread[w].at \in Filtering /\ row' = [row EXCEPT ![MessageOf(w)] = "filtering"]
    BY DEF Mark, At, Filtering
  <1>2. /\ w \in Threads /\ w \notin Callers /\ thread[w] \in Frame
        /\ sending[w] = NoTask /\ running[w].kind = "filter" /\ MessageOf(w) = running[w].of
        /\ \A m \in Messages : HasFilter(w, m) <=> m = MessageOf(w)
    BY <1>1, FilterFacts
  <1>3. PICK r : r = [thread[w] EXCEPT !.at = "ask"]
    OBVIOUS
  <1>4. r \in Frame /\ r.at = "ask"
    BY <1>2, <1>3, Zenon DEF Frame, Filtering
  <1>5. Go(w, r)
    BY <1>3 DEF Mark, Step
  <1>6. /\ QueueOK' /\ ThreadPart' /\ OnlyThread(w) /\ thread'[w] = r
        /\ UNCHANGED <<tasks, seen, sending, running>>
        /\ \A i \in 1..Len(tasks) : \E j \in 1..Len(tasks') : tasks'[j] = tasks[i]
    BY <1>1, <1>2, <1>4, <1>5, GoesOn DEF Filtering
  <1>7. /\ row' \in [Messages -> Statuses] /\ meetings' \in [Messages -> 0..MaxMeetings]
        /\ lost' \subseteq Messages
        /\ \A m \in Messages : row[m] # "absent" => row'[m] # "absent"
        /\ \A m \in Messages : m # MessageOf(w) => row'[m] = row[m]
    BY <1>1 DEF TasksInv, RowPart, Statuses
  <1>8. RowPart'
    BY <1>1, <1>2, <1>4, <1>6, <1>7, RowKeeps
  <1>9. UnfilteredIsPending'
    <2>1. \A m \in Messages : HasFilter(w, m) => InSomePlace(m)'
      BY <1>2, <1>4, <1>6 DEF InSomePlace, IsFilter, Filtering
    <2>2. \A m \in Messages : row'[m] \in Unfinished => row[m] \in Unfinished \/ InSomePlace(m)'
      BY <1>2, <1>7, <2>1
    <2>3. QED
      BY <1>1, <1>2, <1>6, <2>1, <2>2, PendingKeeps
  <1>10. MeetingPart'
    BY <1>1, <1>2, <1>4, <1>6, MeetingKeeps
  <1>11. QED
    BY <1>6, <1>8, <1>9, <1>10 DEF TasksInv, QueueOK

\* The filter transaction writes: on SQLite no other one is open.
LEMMA AskStep ==
  ASSUME TasksInv, NEW w \in Workers, Ask(w)
  PROVE  TasksInv'
  <1>1. /\ thread[w].at = "ask" /\ UNCHANGED <<row, meetings, lost>> /\ UNCHANGED queue
        /\ thread[w].at \in Filtering /\ MayWrite(w)
    BY DEF Ask, At, db, Filtering
  <1>2. /\ w \in Threads /\ w \notin Callers /\ thread[w] \in Frame
        /\ sending[w] = NoTask /\ running[w].kind = "filter" /\ MessageOf(w) = running[w].of
        /\ \A m \in Messages : HasFilter(w, m) <=> m = MessageOf(w)
        /\ MessageOf(w) \in Messages
    BY <1>1, FilterFacts
  <1>3. PICK answer \in {"failed", "ignore", "meeting"} :
          Go(w, [Idle EXCEPT !.at = "commit",
                             !.to = IF answer = "failed" THEN "failed" ELSE "filtered",
                             !.open = answer = "meeting" /\ NewMeeting(MessageOf(w))])
    BY DEF Ask
  <1>4. PICK r : r = [Idle EXCEPT !.at = "commit",
                        !.to = IF answer = "failed" THEN "failed" ELSE "filtered",
                        !.open = answer = "meeting" /\ NewMeeting(MessageOf(w))]
    OBVIOUS
  <1>5. /\ r \in Frame /\ r.at = "commit" /\ r.to \in {"failed", "filtered"}
        /\ r.open => NewMeeting(MessageOf(w))
    BY <1>4, Zenon DEF Idle, Frame, Filtering
  <1>6. Go(w, r)
    BY <1>3, <1>4
  <1>7. /\ QueueOK' /\ ThreadPart' /\ OnlyThread(w) /\ thread'[w] = r
        /\ UNCHANGED <<tasks, seen, sending, running>>
        /\ \A i \in 1..Len(tasks) : \E j \in 1..Len(tasks') : tasks'[j] = tasks[i]
    BY <1>1, <1>2, <1>5, <1>6, GoesOn DEF Filtering
  <1>8. RowPart'
    <2>1. row' \in [Messages -> Statuses] /\ meetings' \in [Messages -> 0..MaxMeetings]
          /\ lost' \subseteq Messages
      BY <1>1 DEF TasksInv, RowPart
    <2>2. QED
      BY <1>1, <1>2, <1>5, <1>7, <2>1, RowKeeps
  <1>9. UnfilteredIsPending'
    <2>1. \A m \in Messages : HasFilter(w, m) => InSomePlace(m)'
      BY <1>2, <1>5, <1>7 DEF InSomePlace, IsFilter, Filtering
    <2>2. QED
      BY <1>1, <1>2, <1>7, <2>1, PendingKeeps
  <1>10. MeetingPart'
    <2>1. SUFFICES ASSUME Isolation = "sqlite"
                   PROVE  /\ \A v, x \in Workers : thread'[v].at = "commit" /\ thread'[x].at = "commit" => v = x
                          /\ \A v \in Workers : thread'[v].at = "commit" /\ thread'[v].open
                                              => meetings[running'[v].of] = 0
                          /\ \A m \in Messages : meetings[m] <= 1
      BY <1>1 DEF MeetingPart, InFilterTx, At, MessageOf
    <2>2. \A v \in Workers \ {w} : thread[v].at # "commit" /\ thread'[v] = thread[v]
      BY <1>1, <1>7, <2>1 DEF MayWrite, InFilterTx, At, OnlyThread, Threads
    <2>3. r.open => meetings[running'[w].of] = 0
      BY <1>2, <1>5, <1>7 DEF NewMeeting
    <2>4. QED
      BY <1>7, <2>1, <2>2, <2>3 DEF TasksInv, MeetingPart
  <1>11. QED
    BY <1>7, <1>8, <1>9, <1>10 DEF TasksInv, QueueOK

LEMMA CommitStep ==
  ASSUME TasksInv, NEW w \in Workers, Commit(w)
  PROVE  TasksInv'
  <1> DEFINE m == MessageOf(w)
  <1>1. /\ thread[w].at = "commit" /\ UNCHANGED lost /\ UNCHANGED queue
        /\ thread[w].at \in Filtering
        /\ thread[w].open => meetings[m] < MaxMeetings
    BY DEF Commit, At, Filtering
  <1>2. /\ w \in Threads /\ w \notin Callers /\ thread[w] \in Frame /\ WorkerSound(w)
        /\ sending[w] = NoTask /\ running[w].kind = "filter" /\ m = running[w].of
        /\ \A x \in Messages : HasFilter(w, x) <=> x = m
        /\ m \in Messages
    BY <1>1, FilterFacts
  <1>3. thread[w].to \in {"failed", "filtered"} /\ thread[w].open \in BOOLEAN
    BY <1>1, <1>2 DEF WorkerSound, Frame
  <1>4. /\ row' = [row EXCEPT ![m] = thread[w].to]
        /\ meetings' = [meetings EXCEPT ![m] = IF thread[w].open THEN meetings[m] + 1 ELSE meetings[m]]
    BY DEF Commit
  <1>5. /\ row' \in [Messages -> Statuses] /\ lost' \subseteq Messages
        /\ \A x \in Messages : row[x] # "absent" => row'[x] # "absent"
        /\ row'[m] \in {"failed", "filtered"}
        /\ \A x \in Messages : x # m => row'[x] = row[x]
    BY <1>1, <1>2, <1>3, <1>4 DEF TasksInv, RowPart, Statuses
  <1>6. /\ meetings' \in [Messages -> 0..MaxMeetings]
        /\ \A x \in Messages : x # m => meetings'[x] = meetings[x]
        /\ meetings'[m] = IF thread[w].open THEN meetings[m] + 1 ELSE meetings[m]
    <2>1. meetings \in [Messages -> 0..MaxMeetings] /\ MaxMeetings \in Nat
      BY MessagesAssumption DEF TasksInv, RowPart
    <2>2. (IF thread[w].open THEN meetings[m] + 1 ELSE meetings[m]) \in 0..MaxMeetings
      BY <1>1, <1>2, <2>1
    <2>3. QED
      BY <1>2, <1>4, <2>1, <2>2
  <1>7. Go(w, Finishing)
    BY DEF Commit
  <1>8. /\ QueueOK' /\ ThreadPart' /\ OnlyThread(w) /\ thread'[w] = Finishing
        /\ UNCHANGED <<tasks, seen, sending, running>>
        /\ \A i \in 1..Len(tasks) : \E j \in 1..Len(tasks') : tasks'[j] = tasks[i]
    BY <1>1, <1>2, <1>7, Frames, GoesOn DEF Filtering
  <1>9. RowPart'
    BY <1>1, <1>2, <1>5, <1>6, <1>8, Frames, RowKeeps
  <1>10. UnfilteredIsPending'
    <2>1. \A x \in Messages : row'[x] \in Unfinished => row[x] \in Unfinished /\ x # m
      BY <1>5 DEF Unfinished
    <2>2. \A x \in Messages : ~(row'[x] \in Unfinished /\ HasFilter(w, x))
      BY <1>2, <2>1
    <2>3. QED
      BY <1>1, <1>2, <1>8, <2>1, <2>2, PendingKeeps
  <1>11. MeetingPart'
    <2>1. SUFFICES ASSUME Isolation = "sqlite"
                   PROVE  /\ \A v \in Workers : thread'[v].at # "commit"
                          /\ \A x \in Messages : meetings'[x] <= 1
      BY DEF MeetingPart, InFilterTx, At
    <2>2. \A v \in Workers \ {w} : thread[v].at # "commit" /\ thread'[v] = thread[v]
      BY <1>1, <1>8, <2>1 DEF TasksInv, MeetingPart, InFilterTx, At, OnlyThread, Threads
    <2>3. thread[w].open => meetings[m] = 0
      BY <1>1, <2>1 DEF TasksInv, MeetingPart, InFilterTx, At
    <2>4. \A x \in Messages : meetings[x] <= 1
      BY <2>1 DEF TasksInv, MeetingPart
    <2>5. \A x \in Messages : meetings'[x] <= 1
      BY <1>2, <1>6, <2>3, <2>4
    <2>6. QED
      BY <1>8, <2>2, <2>5, Frames
  <1>12. QED
    BY <1>8, <1>9, <1>10, <1>11 DEF TasksInv, QueueOK

Before == {ss \in Nat \X Nat : ss[1] < ss[2]}

\* The naturals are well-founded.
LEMMA BeforeWellFounded == IsWellFoundedOn(Before, Nat)
  BY NatLessThanWellFounded DEF OpToRel, Before

\* A set of naturals that has elements has a least one.
LEMMA MinMember ==
  ASSUME NEW S \in SUBSET Nat, S # {}
  PROVE  Min(S) \in S
  <1>1. PICK x \in S : \A y \in S : ~(<<y, x>> \in Before)
    BY BeforeWellFounded, WFMin
  <1>2. ASSUME NEW y \in S
        PROVE  x =< y
    <2>1. ~(y < x)
      <3>1. SUFFICES ASSUME y < x PROVE <<y, x>> \in Before
        BY <1>1
      <3>2. y \in Nat /\ x \in Nat
        OBVIOUS
      <3>3. QED
        BY <3>1, <3>2 DEF Before
    <2>2. y \in Nat /\ x \in Nat
      OBVIOUS
    <2>3. QED
      BY <2>1, <2>2, SMT
  <1>3. QED
    BY <1>2, Zenon DEF Min

\* A fetched message is stored, and its filter task comes next.
LEMMA StoreStep ==
  ASSUME TasksInv, NEW t \in Threads, Store(t)
  PROVE  TasksInv'
  <1>0. PICK m : m = Min(thread[t].todo)
    OBVIOUS
  <1>1. /\ thread[t].at = "store" /\ thread[t].todo # {} /\ thread[t] \in Frame
        /\ UNCHANGED <<meetings, lost>> /\ UNCHANGED queue
        /\ t \in Workers => WorkerSound(t) /\ t \notin Callers
        /\ ThreadSound(t)
    BY ThreadFacts DEF Store, At
  <1>2. m \in thread[t].todo /\ m \in Messages
    <2>1. thread[t].todo \subseteq Messages /\ Messages \subseteq Nat
      <3>1. thread[t].todo \subseteq Messages
        BY <1>1 DEF Frame
      <3>2. Messages \subseteq Nat
        BY MessagesAssumption DEF Messages
      <3>3. QED
        BY <3>1, <3>2
    <2>2. QED
      BY <1>0, <1>1, <2>1, MinMember
  <1>3. t \in Workers => running[t].kind = "collect"
    <2>1. SUFFICES ASSUME t \in Workers PROVE running[t].kind = "collect"
      OBVIOUS
    <2>2. running[t] # NoTask /\ running[t].kind # "filter"
      BY <1>1, <2>1 DEF WorkerSound
    <2>3. running[t] \in Tasks
      BY <2>1, <2>2 DEF TasksInv, QueuePart
    <2>4. QED
      BY <2>2, <2>3, TaskFacts
  <1>4. \A x \in Messages : ~HasFilter(t, x)
    BY <1>1, <1>3, TaskFacts DEF HasFilter, IsFilter, ThreadSound
  <1>5. /\ FilterTask(m, FALSE) \in Tasks /\ FilterTask(m, FALSE).kind = "filter"
        /\ FilterTask(m, FALSE).of = m
    BY <1>2, TaskFacts
  <1>6. meetings' \in [Messages -> 0..MaxMeetings] /\ lost' \subseteq Messages
    BY <1>1 DEF TasksInv, RowPart
  <1>7. PICK rest : rest = [thread[t] EXCEPT !.todo = thread[t].todo \ {m}]
    OBVIOUS
  <1>8. rest \in Frame /\ rest.at = "store"
    BY <1>1, <1>7, Zenon DEF Frame
  <1>9. CASE row[m] = "absent"
    <2>1. /\ row' = [row EXCEPT ![m] = "unfiltered"]
          /\ Go(t, [rest EXCEPT !.at = "enqueue", !.next = FilterTask(m, FALSE)])
      BY <1>0, <1>7, <1>9 DEF Store
    <2>2. PICK r : r = [rest EXCEPT !.at = "enqueue", !.next = FilterTask(m, FALSE)]
      OBVIOUS
    <2>3. r \in Frame /\ r.at = "enqueue" /\ r.next = FilterTask(m, FALSE)
      BY <1>5, <1>8, <2>2, Zenon DEF Frame
    <2>4. Go(t, r)
      BY <2>1, <2>2
    <2>5. /\ QueueOK' /\ ThreadPart' /\ OnlyThread(t) /\ thread'[t] = r
          /\ UNCHANGED <<tasks, seen, sending, running>>
          /\ \A i \in 1..Len(tasks) : \E j \in 1..Len(tasks') : tasks'[j] = tasks[i]
      BY <1>1, <1>3, <1>5, <2>3, <2>4, GoesOn DEF Filtering
    <2>6. /\ row' \in [Messages -> Statuses] /\ row'[m] = "unfiltered"
          /\ \A x \in Messages : row[x] # "absent" => row'[x] # "absent"
          /\ \A x \in Messages : x # m => row'[x] = row[x]
      BY <1>2, <2>1 DEF TasksInv, RowPart, Statuses
    <2>7. RowPart'
      BY <1>5, <1>6, <2>3, <2>5, <2>6, RowKeeps
    <2>8. UnfilteredIsPending'
      <3>1. InSomePlace(m)'
        BY <1>5, <2>3, <2>5 DEF InSomePlace, IsFilter
      <3>2. \A x \in Messages : row'[x] \in Unfinished => row[x] \in Unfinished \/ InSomePlace(x)'
        BY <2>6, <3>1
      <3>3. QED
        BY <1>1, <1>4, <2>5, <3>2, PendingKeeps
    <2>9. MeetingPart'
      BY <1>1, <2>3, <2>5, MeetingKeeps
    <2>10. QED
      BY <2>5, <2>7, <2>8, <2>9 DEF TasksInv, QueueOK
  <1>10. CASE row[m] # "absent"
    <2>1. Go(t, rest) /\ UNCHANGED row
      BY <1>0, <1>7, <1>10 DEF Store
    <2>2. /\ QueueOK' /\ ThreadPart' /\ OnlyThread(t) /\ thread'[t] = rest
          /\ UNCHANGED <<tasks, seen, sending, running>>
          /\ \A i \in 1..Len(tasks) : \E j \in 1..Len(tasks') : tasks'[j] = tasks[i]
      BY <1>1, <1>3, <1>8, <2>1, GoesOn DEF Filtering
    <2>3. RowPart'
      <3>1. row' \in [Messages -> Statuses]
        BY <2>1 DEF TasksInv, RowPart
      <3>2. QED
        BY <1>6, <1>8, <2>1, <2>2, <3>1, RowKeeps
    <2>4. UnfilteredIsPending'
      BY <1>1, <1>4, <2>1, <2>2, PendingKeeps
    <2>5. MeetingPart'
      BY <1>1, <1>8, <2>2, MeetingKeeps
    <2>6. QED
      BY <2>2, <2>3, <2>4, <2>5 DEF TasksInv, QueueOK
  <1>11. QED
    BY <1>9, <1>10

\* A handler fails: the message it was to filter is lost.
LEMMA FailStep ==
  ASSUME TasksInv, NEW t \in Threads, Fail(t)
  PROVE  TasksInv'
  <1>1. /\ thread[t].at \in {"fetch", "find", "mark", "ask", "commit", "store"}
        /\ UNCHANGED <<row, meetings>> /\ UNCHANGED queue /\ Go(t, Finishing)
        /\ lost' = IF t \in Workers /\ running[t].kind = "filter"
                      THEN lost \cup {running[t].of} ELSE lost
    BY DEF Fail, At, db, MessageOf
  <1>2. /\ t \in Workers => WorkerSound(t) /\ t \notin Callers
        /\ ThreadSound(t)
    BY ThreadFacts
  <1>3. t \in Workers /\ running[t].kind = "filter" => running[t].of \in Messages
    <2>1. SUFFICES ASSUME t \in Workers, running[t].kind = "filter"
                   PROVE  running[t].of \in Messages
      OBVIOUS
    <2>2. running[t] \in Tasks
      BY <1>1, <1>2, <2>1 DEF WorkerSound, TasksInv, QueuePart
    <2>3. QED
      BY <2>1, <2>2, TaskFacts
  <1>4. /\ QueueOK' /\ ThreadPart' /\ OnlyThread(t) /\ thread'[t] = Finishing
        /\ UNCHANGED <<tasks, seen, sending, running>>
        /\ \A i \in 1..Len(tasks) : \E j \in 1..Len(tasks') : tasks'[j] = tasks[i]
    BY <1>1, Frames, GoesOn DEF Filtering
  <1>5. RowPart'
    <2>1. row' \in [Messages -> Statuses] /\ meetings' \in [Messages -> 0..MaxMeetings]
          /\ lost' \subseteq Messages
      BY <1>1, <1>3 DEF TasksInv, RowPart
    <2>2. QED
      BY <1>1, <1>4, <2>1, Frames, RowKeeps
  <1>6. UnfilteredIsPending'
    <2>1. \A x \in Messages : HasFilter(t, x) => x \in lost'
      BY <1>1, <1>2, TaskFacts DEF HasFilter, IsFilter, ThreadSound
    <2>2. \A x \in Messages : x \in lost => x \in lost'
      BY <1>1
    <2>3. QED
      BY <1>1, <1>4, <2>1, <2>2, PendingKeeps
  <1>7. MeetingPart'
    BY <1>1, <1>4, Frames, MeetingKeeps
  <1>8. QED
    BY <1>4, <1>5, <1>6, <1>7 DEF TasksInv, QueueOK

\* A handler returns and, in a worker, its key is forgotten.
LEMMA FinishStep ==
  ASSUME TasksInv, NEW t \in Threads, Finish(t)
  PROVE  TasksInv'
  <1>1. /\ thread[t].at = "store" /\ UNCHANGED <<row, meetings, lost>> /\ Go(t, Idle)
        /\ t \in Workers => Forget(t)
        /\ t \notin Workers => UNCHANGED queue
    BY DEF Finish, At, db
  <1>2. /\ ThreadSound(t) /\ thread \in [Threads -> Frame] /\ sending[t] = NoTask
        /\ t \in Callers => t \notin Workers
    BY <1>1, ThreadFacts DEF ThreadSound
  <1>3. /\ QueueOK' /\ UNCHANGED <<tasks, sending>> /\ seen' \subseteq seen
        /\ t \in Workers => running'[t] = NoTask
        /\ \A w \in Workers \ {t} : running'[w] = running[w]
    <2>1. CASE t \in Workers
      <3>1. QueueOK'
        BY <1>1, <2>1, ForgetKeeps DEF TasksInv, QueueOK
      <3>2. QED
        BY <1>1, <2>1, <3>1 DEF Forget, TasksInv, QueuePart
    <2>2. CASE t \notin Workers
      BY <1>1, <2>2, QueueUnchanged
    <2>3. QED
      BY <2>1, <2>2
  <1>4. /\ thread' \in [Threads -> Frame] /\ thread'[t] = Idle
        /\ \A u \in Threads \ {t} : thread'[u] = thread[u]
    BY <1>1, <1>2, Frames, GoFrame
  <1>5. OnlyThread(t)
    BY <1>3, <1>4 DEF OnlyThread
  <1>6. /\ ThreadSound(t)'
        /\ t \in Workers => WorkerSound(t)'
        /\ t \in Callers => CallerSound(t)'
    BY <1>2, <1>3, <1>4, Frames DEF ThreadSound, WorkerSound, CallerSound, Filtering
  <1>7. ThreadPart'
    BY <1>5, <1>6, ThreadKeeps
  <1>8. RowPart'
    <2>1. row' \in [Messages -> Statuses] /\ meetings' \in [Messages -> 0..MaxMeetings]
          /\ lost' \subseteq Messages
      BY <1>1 DEF TasksInv, RowPart
    <2>2. QED
      BY <1>1, <1>3, <1>4, <1>5, <2>1, Frames, RowKeeps
  <1>9. UnfilteredIsPending'
    <2>1. \A x \in Messages : ~HasFilter(t, x)
      BY <1>1, <1>2, TaskFacts DEF HasFilter, IsFilter, Filtering
    <2>2. \A i \in 1..Len(tasks) : \E j \in 1..Len(tasks') : tasks'[j] = tasks[i]
      BY <1>3
    <2>3. QED
      BY <1>1, <1>3, <1>5, <2>1, <2>2, PendingKeeps
  <1>10. MeetingPart'
    BY <1>1, <1>4, <1>5, Frames, MeetingKeeps
  <1>11. QED
    BY <1>3, <1>7, <1>8, <1>9, <1>10 DEF TasksInv, QueueOK

\* With empty threads and an empty queue, all that matters is the rows.
LEMMA EmptyQueue ==
  ASSUME QueueOK', thread' = [t \in Threads |-> Idle],
         seen' = {}, sending' = [t \in Threads |-> NoTask], running' = [w \in Workers |-> NoTask]
  PROVE  ThreadPart'
  BY Frames DEF ThreadPart, ThreadSound, WorkerSound, CallerSound, Filtering, Threads

LEMMA RestartStep ==
  ASSUME TasksInv, Restart
  PROVE  TasksInv'
  <1>1. /\ UNCHANGED <<row, meetings>> /\ thread' = [t \in Threads |-> Idle]
        /\ seen' = {} /\ sending' = [t \in Threads |-> NoTask]
        /\ running' = [w \in Workers |-> NoTask] /\ tasks' = <<>>
        /\ lost' = lost \cup {m \in Messages : row[m] \in Unfinished}
    BY DEF Restart, QueueLost, db
  <1>2. QueueOK'
    BY <1>1, QueueStarts
  <1>3. ThreadPart'
    BY <1>1, <1>2, EmptyQueue
  <1>4. RowPart'
    BY <1>1, Frames DEF TasksInv, RowPart
  <1>5. UnfilteredIsPending'
    BY <1>1 DEF UnfilteredIsPending, Unfinished
  <1>6. MeetingPart'
    BY <1>1, Frames DEF TasksInv, MeetingPart, InFilterTx, At, Threads
  <1>7. QED
    BY <1>2, <1>3, <1>4, <1>5, <1>6 DEF TasksInv, QueueOK

-----------------------------------------------------------------------------
(* The invariant. *)

LEMMA TasksInit ==
  ASSUME Init
  PROVE  TasksInv
  <1>1. QueueOK
    BY QueueAssumption DEF Init, QueueInit, QueueOK, QueuePart, KeyPart
  <1>2. ThreadPart
    BY Frames DEF Init, QueueInit, ThreadPart, ThreadSound, WorkerSound, CallerSound, Filtering,
              Threads
  <1>3. RowPart /\ UnfilteredIsPending
    BY Frames, MessagesAssumption
    DEF Init, QueueInit, RowPart, Statuses, UnfilteredIsPending, Unfinished
  <1>4. MeetingPart
    BY Frames DEF Init, MeetingPart, InFilterTx, At, Threads
  <1>5. QED
    BY <1>1, <1>2, <1>3, <1>4 DEF TasksInv, QueueOK

LEMMA TasksStays ==
  ASSUME TasksInv, UNCHANGED vars
  PROVE  TasksInv'
  <1>1. QueueOK'
    BY QueueStays DEF vars, queue, TasksInv, QueueOK
  <1>2. ThreadPart' /\ RowPart' /\ MeetingPart'
    BY DEF vars, TasksInv, ThreadPart, ThreadSound, WorkerSound, CallerSound, RowPart, Stored,
           MeetingPart, InFilterTx, At, MessageOf
  <1>3. UnfilteredIsPending'
    BY DEF vars, TasksInv, UnfilteredIsPending, Pending, At, MessageOf, Queued
  <1>4. QED
    BY <1>1, <1>2, <1>3 DEF TasksInv, QueueOK

\* The invariant holds in every reachable state.
LEMMA TasksInvariant == Spec => []TasksInv
  <1>1. Init => TasksInv
    BY TasksInit
  <1>2. TasksInv /\ [Next]_vars => TasksInv'
    <2>1. SUFFICES ASSUME TasksInv, Next PROVE TasksInv'
      BY TasksStays
    <2>2. ASSUME NEW t \in Threads, ThreadStep(t) PROVE TasksInv'
      BY <2>1, <2>2, EnqueueStep, DeliverStep, StoreStep, FailStep, FinishStep DEF ThreadStep
    <2>3. ASSUME NEW w \in Workers, WorkerStep(w) PROVE TasksInv'
      <3>1. w \in Threads
        BY DEF Threads
      <3>2. QED
        BY <2>1, <2>2, <2>3, <3>1, StartStep, FetchStep, FindStep, MarkStep, AskStep, CommitStep
        DEF WorkerStep
    <2>4. ASSUME NEW c \in Callers, CallerStep(c) PROVE TasksInv'
      <3>1. c \in Threads
        BY DEF Threads
      <3>2. QED
        BY <2>1, <2>2, <2>4, <3>1, GiveUpStep, QueueCollectStep, LiveStep, RefilterStep
        DEF CallerStep
    <2>5. QED
      BY <2>1, <2>3, <2>4, RestartStep DEF Next
  <1>3. QED
    BY <1>1, <1>2, PTL DEF Spec

-----------------------------------------------------------------------------
(* The theorems. *)

\* Rows, channel and threads stay within their types; a worker has a task exactly
\* while it is not idle, and filters stored messages only.
THEOREM TasksTypes == Spec => []TypeOK
  <1>1. TasksInv => TypeOK
    <2>1. SUFFICES ASSUME TasksInv PROVE TypeOK
      OBVIOUS
    <2>2. \A w \in Workers : thread[w].at \in Filtering
            => running[w].kind = "filter" /\ row[MessageOf(w)] # "absent"
      BY <2>1, FilterFacts
    <2>3. QED
      BY <2>1, <2>2 DEF TypeOK, TasksInv, QueuePart, RowPart, ThreadPart, ThreadSound,
                        WorkerSound, At, Filtering
  <1>2. QED
    BY <1>1, TasksInvariant, PTL

\* A key is in the set exactly while one sender, one place of the channel or one
\* worker holds its task, on either database.
THEOREM TaskKeysHeldOnce == Spec => []KeysHeldOnce
  <1>1. TasksInv => KeysHeldOnce
    <2>1. SUFFICES ASSUME TasksInv PROVE KeysHeldOnce
      OBVIOUS
    <2>2. \A k \in seen : k # NoTask
      BY <2>1, TaskFacts DEF TasksInv, QueuePart
    <2>3. ASSUME NEW k \in seen, NEW t \in Threads, sending[t] = k
          PROVE  SendingNow(k) = {t} /\ k \notin Queued /\ RunningNow(k) = {}
      BY <2>1, <2>2, <2>3 DEF TasksInv, KeyPart, SendingNow, RunningNow, Queued
    <2>4. ASSUME NEW k \in seen, NEW i \in 1..Len(tasks), tasks[i] = k
          PROVE  /\ {j \in 1..Len(tasks) : tasks[j] = k} = {i}
                 /\ SendingNow(k) = {} /\ RunningNow(k) = {}
      BY <2>1, <2>2, <2>4 DEF TasksInv, KeyPart, SendingNow, RunningNow
    <2>5. ASSUME NEW k \in seen, NEW w \in Workers, running[w] = k
          PROVE  RunningNow(k) = {w} /\ SendingNow(k) = {} /\ k \notin Queued
      BY <2>1, <2>2, <2>5 DEF TasksInv, KeyPart, SendingNow, RunningNow, Queued
    <2>6. Queued \cup {sending[t] : t \in Threads} \cup {running[w] : w \in Workers}
            \subseteq seen \cup {NoTask}
      BY <2>1 DEF TasksInv, KeyPart, Queued
    <2>7. \A k \in seen : \/ \E t \in Threads : sending[t] = k
                          \/ \E i \in 1..Len(tasks) : tasks[i] = k
                          \/ \E w \in Workers : running[w] = k
      BY <2>1 DEF TasksInv, KeyPart
    <2>8. QED
      BY <2>3, <2>4, <2>5, <2>6, <2>7 DEF KeysHeldOnce
  <1>2. QED
    BY <1>1, TasksInvariant, PTL

\* No stored message loses its filter task but in the ways the model names, for
\* any number of messages, workers and places, on either database.
THEOREM TasksStayPending == Spec => []UnfilteredIsPending
  BY TasksInvariant, PTL DEF TasksInv

\* Where filter transactions exclude each other, a message opens one meeting at most.
THEOREM OneMeetingEach ==
  ASSUME Isolation = "sqlite"
  PROVE  Spec => []OneMeeting
  <1>1. TasksInv => OneMeeting
    BY DEF TasksInv, MeetingPart, OneMeeting
  <1>2. QED
    BY <1>1, TasksInvariant, PTL
-----------------------------------------------------------------------------
(* How many keys there are, and what it takes to bring the workers to a       *)
(* standstill.                                                                *)

Senders == {t \in Threads : sending[t] # NoTask}
Runners == {w \in Workers : running[w] # NoTask}

\* Every key is in the channel, with a sender or with a worker, and is counted once.
KeysCounted ==
  /\ IsFiniteSet(seen)
  /\ Cardinality(seen) = Len(tasks) + Cardinality(Senders) + Cardinality(Runners)

\* The channel is full and every worker waits to send: nothing is taken any more.
Standstill == Len(tasks) = Buffer /\ \A w \in Workers : sending[w] # NoTask

\* Only collect tasks wait to send, each of a subscription of its own, and the
\* standstill takes a task in each place of the channel and two at each worker.
StandstillNeedsTasks ==
  Standstill =>
    /\ \A w \in Workers : running[w] \in seen /\ running[w].kind = "collect"
    /\ \A w, v \in Workers : running[w].of = running[v].of => w = v
    /\ Cardinality(seen) >= Buffer + 2 * Cardinality(Workers)

OneToOne(f, D, T) ==
  /\ IsFiniteSet(D) /\ f \in [D -> T]
  /\ \A x, y \in D : f[x] = f[y] => x = y
  /\ \A k \in T : \E x \in D : f[x] = k

LEMMA SameSize ==
  ASSUME NEW D, NEW T, NEW f, OneToOne(f, D, T)
  PROVE  IsFiniteSet(T) /\ Cardinality(T) = Cardinality(D)
  <1>1. f \in Bijection(D, T)
    BY DEF OneToOne, Bijection, Injection, Surjection, IsInjective
  <1>2. QED
    BY <1>1, FS_Bijection DEF OneToOne, ExistsBijection

LEMMA DisjointSize ==
  ASSUME NEW S, NEW T, IsFiniteSet(S), IsFiniteSet(T), S \cap T = {}
  PROVE  /\ IsFiniteSet(S \cup T)
         /\ Cardinality(S \cup T) = Cardinality(S) + Cardinality(T)
  <1>1. /\ IsFiniteSet(S \cup T)
        /\ Cardinality(S \cup T) = Cardinality(S) + Cardinality(T) - Cardinality(S \cap T)
    BY FS_Union
  <1>2. Cardinality(S \cap T) = 0
    BY FS_EmptySet
  <1>3. Cardinality(S) \in Nat /\ Cardinality(T) \in Nat
    BY FS_CardinalityType
  <1>4. QED
    BY <1>1, <1>2, <1>3

LEMMA KeysAreCounted ==
  ASSUME TasksInv, IsFiniteSet(Threads)
  PROVE  KeysCounted
  <1> DEFINE InChannel == {tasks[i] : i \in 1..Len(tasks)}
             AtSenders == {sending[t] : t \in Senders}
             AtWorkers == {running[w] : w \in Runners}
  <1>1. QueuePart /\ KeyPart
    BY DEF TasksInv
  <1>2. IsFiniteSet(Senders) /\ IsFiniteSet(Runners)
    BY FS_Subset DEF Senders, Runners, Threads
  <1>3. Cardinality(Senders) \in Nat /\ Cardinality(Runners) \in Nat /\ Len(tasks) \in Nat
    BY <1>1, <1>2, FS_CardinalityType DEF QueuePart
  <1>4. IsFiniteSet(InChannel) /\ Cardinality(InChannel) = Len(tasks)
    <2>1. PICK n \in Nat : n = Len(tasks)
      BY <1>3
    <2>2. IsFiniteSet(1..n) /\ Cardinality(1..n) = IF 1 > n THEN 0 ELSE n - 1 + 1
      BY FS_Interval
    <2>3. Cardinality(1..n) = n
      BY <2>2
    <2>4. OneToOne(tasks, 1..n, InChannel)
      BY <1>1, <2>1, <2>2 DEF QueuePart, KeyPart, OneToOne
    <2>5. QED
      BY <2>1, <2>3, <2>4, SameSize
  <1>5. IsFiniteSet(AtSenders) /\ Cardinality(AtSenders) = Cardinality(Senders)
    <2>1. PICK f : f = [t \in Senders |-> sending[t]]
      OBVIOUS
    <2>2. \A t, u \in Senders : f[t] = f[u] => t = u
      BY <1>1, <2>1 DEF QueuePart, KeyPart, Senders
    <2>3. OneToOne(f, Senders, AtSenders)
      BY <1>2, <2>1, <2>2 DEF OneToOne
    <2>4. QED
      BY <2>3, SameSize
  <1>6. IsFiniteSet(AtWorkers) /\ Cardinality(AtWorkers) = Cardinality(Runners)
    <2>1. PICK f : f = [w \in Runners |-> running[w]]
      OBVIOUS
    <2>2. \A w, v \in Runners : f[w] = f[v] => w = v
      BY <1>1, <2>1 DEF QueuePart, KeyPart, Runners
    <2>3. OneToOne(f, Runners, AtWorkers)
      BY <1>2, <2>1, <2>2 DEF OneToOne
    <2>4. QED
      BY <2>3, SameSize
  <1>7. InChannel \cap AtSenders = {} /\ (InChannel \cup AtSenders) \cap AtWorkers = {}
    BY <1>1 DEF KeyPart, Senders, Runners
  <1>8. seen = (InChannel \cup AtSenders) \cup AtWorkers
    <2>1. \A k \in seen : k # NoTask
      BY <1>1, TaskFacts DEF QueuePart
    <2>2. seen \subseteq (InChannel \cup AtSenders) \cup AtWorkers
      BY <1>1, <2>1 DEF KeyPart, Senders, Runners
    <2>3. (InChannel \cup AtSenders) \cup AtWorkers \subseteq seen
      BY <1>1 DEF KeyPart, Senders, Runners
    <2>4. QED
      BY <2>2, <2>3
  <1> HIDE DEF InChannel, AtSenders, AtWorkers
  <1>9. /\ IsFiniteSet(InChannel \cup AtSenders)
        /\ Cardinality(InChannel \cup AtSenders) = Len(tasks) + Cardinality(Senders)
    BY <1>4, <1>5, <1>7, DisjointSize
  <1>10. /\ IsFiniteSet(seen)
         /\ Cardinality(seen) = Cardinality(InChannel \cup AtSenders) + Cardinality(AtWorkers)
    BY <1>6, <1>7, <1>8, <1>9, DisjointSize
  <1>11. QED
    BY <1>3, <1>6, <1>9, <1>10 DEF KeysCounted

LEMMA StandstillCounted ==
  ASSUME TasksInv, KeysCounted, IsFiniteSet(Threads)
  PROVE  StandstillNeedsTasks
  <1> SUFFICES ASSUME Standstill
               PROVE  /\ \A w \in Workers : running[w] \in seen /\ running[w].kind = "collect"
                      /\ \A w, v \in Workers : running[w].of = running[v].of => w = v
                      /\ Cardinality(seen) >= Buffer + 2 * Cardinality(Workers)
    BY DEF StandstillNeedsTasks
  <1>1. QueuePart /\ KeyPart /\ ThreadPart
    BY DEF TasksInv
  <1>2. \A w \in Workers : running[w] # NoTask /\ running[w].kind = "collect"
    BY <1>1, TaskFacts DEF Standstill, ThreadPart, ThreadSound, WorkerSound, Threads
  <1>3. \A w \in Workers : running[w] \in seen /\ running[w] \in Tasks
    BY <1>1, <1>2 DEF KeyPart, QueuePart
  <1>4. ASSUME NEW w \in Workers, NEW v \in Workers, running[w].of = running[v].of
        PROVE  w = v
    <2>1. ASSUME NEW k \in Tasks, k.kind = "collect" PROVE k = CollectTask(k.of)
      <3>1. k \in [kind : {"collect"}, of : Subscriptions, force : {FALSE}]
        BY <2>1 DEF Tasks
      <3>2. QED
        BY <3>1 DEF CollectTask
    <2>2. running[w] = running[v]
      BY <1>2, <1>3, <1>4, <2>1
    <2>3. QED
      BY <1>1, <1>2, <2>2 DEF KeyPart
  <1>5. Runners = Workers /\ Workers \subseteq Senders
    BY <1>2 DEF Runners, Senders, Standstill, Threads
  <1>6. IsFiniteSet(Senders) /\ IsFiniteSet(Workers)
    BY FS_Subset DEF Senders, Threads
  <1>7. /\ Cardinality(Workers) \in Nat /\ Cardinality(Senders) \in Nat
        /\ Cardinality(Workers) <= Cardinality(Senders)
    BY <1>5, <1>6, FS_Subset, FS_CardinalityType
  <1>8. Cardinality(seen) >= Buffer + 2 * Cardinality(Workers)
    BY <1>5, <1>7, QueueAssumption DEF KeysCounted, Standstill
  <1>9. QED
    BY <1>2, <1>3, <1>4, <1>8

\* The keys are exactly the tasks in hand: none is counted twice, none is left over.
THEOREM TaskKeysCounted == IsFiniteSet(Threads) => (Spec => []KeysCounted)
  <1> SUFFICES ASSUME IsFiniteSet(Threads) PROVE Spec => []KeysCounted
    OBVIOUS
  <1>1. TasksInv => KeysCounted
    BY KeysAreCounted
  <1>2. QED
    BY <1>1, TasksInvariant, PTL

\* The workers come to the standstill that refutes AcceptedTasksRun only when each
\* runs a collect task of a subscription of its own and the messages these have
\* stored fill the channel and both hands of every worker.
THEOREM StandstillTakesTasks == IsFiniteSet(Threads) => (Spec => []StandstillNeedsTasks)
  <1> SUFFICES ASSUME IsFiniteSet(Threads) PROVE Spec => []StandstillNeedsTasks
    OBVIOUS
  <1>1. TasksInv => StandstillNeedsTasks
    BY KeysAreCounted, StandstillCounted
  <1>2. QED
    BY <1>1, TasksInvariant, PTL
=============================================================================
