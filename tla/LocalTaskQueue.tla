--------------------------- MODULE LocalTaskQueue ---------------------------
(***************************************************************************)
(* LocalMessageTaskQueue of infra/queue: the in-memory queue of message     *)
(* tasks that serve runs in local mode.  It is a buffered Go channel beside *)
(* a set of keys under a mutex.  A key is added before its task is sent and *)
(* removed after the task has run, so a task whose key is there is skipped. *)
(* A sender waits while the channel is full.                                *)
(*                                                                          *)
(* The module has the state of the queue and the steps on it; MessageTasks  *)
(* has the threads that take them.                                          *)
(***************************************************************************)
EXTENDS Integers, Sequences

CONSTANTS
  Workers,   \* goroutines of Run
  Callers,   \* other goroutines that enqueue: requests, the listener
  Buffer     \* capacity of the channel

Threads == Workers \cup Callers

ASSUME QueueAssumption == Workers \cap Callers = {} /\ Buffer \in Nat \ {0}

VARIABLES
  tasks,     \* the channel
  seen,      \* the keys; a task is its key
  sending,   \* of each thread: the task it is sending, or NoTask
  running    \* of each worker: the task it runs, or NoTask

queue == <<tasks, seen, sending, running>>

NoTask           == [kind |-> "none", of |-> 0, force |-> FALSE]
CollectTask(s)   == [kind |-> "collect", of |-> s, force |-> FALSE]
FilterTask(m, f) == [kind |-> "filter", of |-> m, force |-> f]

QueueInit ==
  /\ tasks = <<>> /\ seen = {}
  /\ sending = [t \in Threads |-> NoTask] /\ running = [w \in Workers |-> NoTask]

(* enqueue, under the mutex: a key that is there is skipped. *)
Accept(t, task) ==
  /\ seen' = seen \cup {task} /\ sending' = [sending EXCEPT ![t] = task]
  /\ UNCHANGED <<tasks, running>>

(* enqueue, the select: the send, or the end of the caller's context. *)
Send(t) ==
  /\ sending[t] # NoTask /\ Len(tasks) < Buffer
  /\ tasks' = Append(tasks, sending[t]) /\ sending' = [sending EXCEPT ![t] = NoTask]
  /\ UNCHANGED <<seen, running>>

WithdrawKeepingKey(t) ==
  /\ sending[t] # NoTask
  /\ sending' = [sending EXCEPT ![t] = NoTask] /\ UNCHANGED <<tasks, seen, running>>
Withdraw(t) ==
  /\ sending[t] # NoTask
  /\ seen' = seen \ {sending[t]} /\ sending' = [sending EXCEPT ![t] = NoTask]
  /\ UNCHANGED <<tasks, running>>

(* Run: a worker takes a task, runs it and forgets its key. *)
Receive(w) ==
  /\ running[w] = NoTask /\ tasks # <<>>
  /\ running' = [running EXCEPT ![w] = Head(tasks)] /\ tasks' = Tail(tasks)
  /\ UNCHANGED <<seen, sending>>

Forget(w) ==
  /\ running[w] # NoTask
  /\ seen' = seen \ {running[w]} /\ running' = [running EXCEPT ![w] = NoTask]
  /\ UNCHANGED <<tasks, sending>>

(* The process ends: the queue was in its memory only. *)
QueueLost ==
  /\ tasks' = <<>> /\ seen' = {}
  /\ sending' = [t \in Threads |-> NoTask] /\ running' = [w \in Workers |-> NoTask]

-----------------------------------------------------------------------------
Queued == {tasks[i] : i \in 1..Len(tasks)}
SendingNow(k) == {t \in Threads : sending[t] = k}
RunningNow(k) == {w \in Workers : running[w] = k}

(* A key is in the set exactly while one sender, one place of the channel or *)
(* one worker holds its task: a message is never in two tasks of a key at    *)
(* once, and no key stays behind to swallow every later task.                *)
KeysHeldOnce ==
  /\ \A k \in seen :
       \/ /\ \E t \in Threads : SendingNow(k) = {t}
          /\ k \notin Queued /\ RunningNow(k) = {}
       \/ /\ \E i \in 1..Len(tasks) : {j \in 1..Len(tasks) : tasks[j] = k} = {i}
          /\ SendingNow(k) = {} /\ RunningNow(k) = {}
       \/ /\ \E w \in Workers : RunningNow(k) = {w}
          /\ SendingNow(k) = {} /\ k \notin Queued
  /\ Queued \cup {sending[t] : t \in Threads} \cup {running[w] : w \in Workers}
       \subseteq seen \cup {NoTask}
=============================================================================
