------------------------------- MODULE OwnerThread -------------------------------
(***************************************************************************)
(* One pp::OwnerThread (src/runtime/OwnerThread.cpp): a deque under a      *)
(* mutex, a condition variable, and in Dedicated mode a thread of its own. *)
(* In Manual mode any thread drains it with RunPending, also from inside   *)
(* one of its tasks.                                                       *)
(*                                                                         *)
(* A critical section is one step.  Notifications come after the unlock    *)
(* and are steps of their own; a waiter that is notified, or wakes for no  *)
(* reason, evaluates the wait's predicate again under the lock.            *)
(***************************************************************************)
EXTENDS SequencesExt, Integers, FiniteSets

CONSTANTS
  Tasks,
  Clients,   \* threads that post, start, stop, and drain a Manual owner
  Own,       \* the dedicated thread
  None

ASSUME TasksAssumption == IsFiniteSet(Tasks)
ASSUME ThreadsAssumption == Own \notin Clients /\ None \notin Clients \cup {Own}

Threads == Clients \cup {Own}

VARIABLES
  mode,      \* mode_
  tasks,     \* tasks_
  started,   \* started_
  stopped,   \* stopped_
  loop,      \* the dedicated thread: none, check, asleep, run, exited
  fate,      \* what has become of each task
  host,      \* the thread that runs it
  level,     \* its depth in that thread's nested drains
  call,      \* what a thread has still to do in Post or Stop
  dropped,   \* the stopping call's local deque
  returned   \* history: how a thread's Stop call returned

queueVars == <<tasks, started, stopped>>
taskVars == <<fate, host, level>>
vars == <<mode, queueVars, loop, taskVars, call, dropped, returned>>

Running == {k \in Tasks : fate[k] = "running"}
Depth(t) == Cardinality({k \in Running : host[k] = t})

\* Thread t executes code outside OwnerThread, its own or a task's.
InCode(t) == call[t] = "none" /\ (t = Own => loop = "run")

Init ==
  /\ mode \in {"Dedicated", "Manual"}
  /\ tasks = <<>> /\ started = FALSE /\ stopped = FALSE
  /\ loop = "none"
  /\ fate = [k \in Tasks |-> "new"]
  /\ host = [k \in Tasks |-> None]
  /\ level = [k \in Tasks |-> 0]
  /\ call = [t \in Threads |-> "none"]
  /\ dropped = <<>>
  /\ returned = [t \in Threads |-> "no"]

--------------------------------------------------------------------------------
Start(t) ==
  /\ InCode(t)
  /\ ~started /\ ~stopped
  /\ started' = TRUE
  /\ loop' = IF mode = "Dedicated" THEN "check" ELSE "none"
  /\ UNCHANGED <<mode, tasks, stopped, taskVars, call, dropped, returned>>

\* Mutant for ImplementsMailbox: a stopped owner still queues.
PushStopped(t, k, newTasks) ==
  /\ InCode(t) /\ fate[k] = "new"
  /\ tasks' = newTasks
  /\ fate' = [fate EXCEPT ![k] = "queued"]
  /\ call' = [call EXCEPT ![t] = "notify"]
  /\ UNCHANGED <<mode, started, stopped, loop, host, level, dropped, returned>>

\* Post and PostFront: newTasks is tasks_ with the task at the back or front.
Push(t, k, newTasks) ==
  /\ InCode(t) /\ fate[k] = "new" /\ ~stopped
  /\ tasks' = newTasks
  /\ fate' = [fate EXCEPT ![k] = "queued"]
  /\ call' = [call EXCEPT ![t] = "notify"]
  /\ UNCHANGED <<mode, started, stopped, loop, host, level, dropped, returned>>

Post(t, k) == Push(t, k, Append(tasks, k))

PostFront(t, k) == Push(t, k, Cons(k, tasks))

\* A post to a stopped owner: the task is destroyed unrun.
PostStopped(t, k) ==
  /\ InCode(t) /\ fate[k] = "new" /\ stopped
  /\ fate' = [fate EXCEPT ![k] = "dropped"]
  /\ UNCHANGED <<mode, queueVars, loop, host, level, call, dropped, returned>>

\* notify_one and notify_all: the dedicated thread is the only waiter.
Woken == IF loop = "asleep" THEN "check" ELSE loop

\* Mutant for EverythingHappens: the post does not notify the thread.
NotifyNobody(t) ==
  /\ call[t] = "notify"
  /\ call' = [call EXCEPT ![t] = "none"]
  /\ UNCHANGED <<mode, queueVars, loop, taskVars, dropped, returned>>

Notify(t) ==
  /\ call[t] = "notify"
  /\ loop' = Woken
  /\ call' = [call EXCEPT ![t] = "none"]
  /\ UNCHANGED <<mode, queueVars, taskVars, dropped, returned>>

--------------------------------------------------------------------------------
\* ThreadMain's wait, or a wake-up for no reason.
Sleep ==
  /\ loop = "check" /\ ~stopped /\ tasks = <<>>
  /\ loop' = "asleep"
  /\ UNCHANGED <<mode, queueVars, taskVars, call, dropped, returned>>

SpuriousWake ==
  /\ loop = "asleep" /\ loop' = "check"
  /\ UNCHANGED <<mode, queueVars, taskVars, call, dropped, returned>>

Exit ==
  /\ loop = "check" /\ stopped
  /\ loop' = "exited"
  /\ UNCHANGED <<mode, queueVars, taskVars, call, dropped, returned>>

\* The front task leaves the deque and starts on thread t.
Take(t) ==
  /\ ~stopped /\ tasks # <<>>
  /\ tasks' = Tail(tasks)
  /\ fate' = [fate EXCEPT ![Head(tasks)] = "running"]
  /\ host' = [host EXCEPT ![Head(tasks)] = t]
  /\ level' = [level EXCEPT ![Head(tasks)] = Depth(t) + 1]
  /\ UNCHANGED <<mode, started, stopped, call, dropped, returned>>

ThreadTakes == loop = "check" /\ loop' = "run" /\ Take(Own)

\* RunPending's loop, on a thread that may be inside another task.
RunPending(t) == InCode(t) /\ Take(t) /\ UNCHANGED loop

\* AppRuntime::RunOwnerTasks asks for the mode, as all that call RunPending do.
RunOwnerTasks(t) == mode = "Manual" /\ RunPending(t)

\* RunTask returns; a task that throws ends the same way.
EndTask(t, k) ==
  /\ InCode(t)
  /\ fate[k] = "running" /\ host[k] = t /\ level[k] = Depth(t)
  /\ fate' = [fate EXCEPT ![k] = "ran"]
  /\ host' = [host EXCEPT ![k] = None]
  /\ level' = [level EXCEPT ![k] = 0]
  /\ loop' = IF t = Own THEN "check" ELSE loop
  /\ UNCHANGED <<mode, queueVars, call, dropped, returned>>

--------------------------------------------------------------------------------
\* Stop (and the destructor): the call that stops the owner.
Stop(t) ==
  /\ InCode(t) /\ ~stopped
  /\ stopped' = TRUE
  /\ dropped' = tasks /\ tasks' = <<>>
  /\ call' = [call EXCEPT ![t] = "stopping"]
  /\ UNCHANGED <<mode, started, loop, taskVars, returned>>

\* Stop when the owner is stopped already.
StopAgain(t) ==
  /\ InCode(t) /\ stopped
  /\ returned' = [returned EXCEPT ![t] = IF @ = "no" THEN "again" ELSE @]
  /\ UNCHANGED <<mode, queueVars, loop, taskVars, call, dropped>>

\* Mutant for StopLeavesNothing: Stop detaches the thread instead of joining it.
StopNoJoin(t) ==
  /\ call[t] = "stopping"
  /\ loop' = Woken
  /\ call' = [call EXCEPT ![t] = "dropping"]
  /\ UNCHANGED <<mode, queueVars, taskVars, dropped, returned>>

\* notify_all; then join the thread, or detach it when it is this one.
StopNotify(t) ==
  /\ call[t] = "stopping"
  /\ loop' = Woken
  /\ call' = [call EXCEPT ![t] = IF loop = "none" \/ t = Own THEN "dropping" ELSE "join"]
  /\ UNCHANGED <<mode, queueVars, taskVars, dropped, returned>>

Join(t) ==
  /\ call[t] = "join" /\ loop = "exited"
  /\ call' = [call EXCEPT ![t] = "dropping"]
  /\ UNCHANGED <<mode, queueVars, loop, taskVars, dropped, returned>>

\* The local deque is destroyed, task by task, outside the lock.
DropTask(t) ==
  /\ call[t] = "dropping" /\ dropped # <<>>
  /\ dropped' = Tail(dropped)
  /\ fate' = [fate EXCEPT ![Head(dropped)] = "dropped"]
  /\ UNCHANGED <<mode, queueVars, loop, host, level, call, returned>>

StopReturns(t) ==
  /\ call[t] = "dropping" /\ dropped = <<>>
  /\ call' = [call EXCEPT ![t] = "none"]
  /\ returned' = [returned EXCEPT ![t] = "stopped"]
  /\ UNCHANGED <<mode, queueVars, loop, taskVars, dropped>>

--------------------------------------------------------------------------------
Next ==
  \/ \E t \in Threads, k \in Tasks :
       Post(t, k) \/ PostFront(t, k) \/ PostStopped(t, k) \/ EndTask(t, k)
  \/ \E t \in Threads :
       \/ Start(t) \/ Notify(t) \/ RunOwnerTasks(t)
       \/ Stop(t) \/ StopAgain(t) \/ StopNotify(t) \/ Join(t)
       \/ DropTask(t) \/ StopReturns(t)
  \/ Sleep \/ SpuriousWake \/ Exit \/ ThreadTakes

Spec == Init /\ [][Next]_vars

\* The dedicated thread is scheduled, calls go on, and task bodies end.  A
\* wake-up for no reason is never counted on.
Fairness ==
  /\ WF_vars(Sleep \/ Exit \/ ThreadTakes)
  /\ \A t \in Threads :
       /\ WF_vars(Notify(t) \/ StopNotify(t) \/ Join(t) \/ DropTask(t) \/ StopReturns(t))
       /\ WF_vars(\E k \in Tasks : EndTask(t, k))

FairSpec == Spec /\ Fairness

--------------------------------------------------------------------------------
TypeOK ==
  /\ mode \in {"Dedicated", "Manual"}
  /\ tasks \in Seq(Tasks) /\ dropped \in Seq(Tasks)
  /\ started \in BOOLEAN /\ stopped \in BOOLEAN
  /\ loop \in {"none", "check", "asleep", "run", "exited"}
  /\ fate \in [Tasks -> {"new", "queued", "running", "ran", "dropped"}]
  /\ host \in [Tasks -> Threads \cup {None}]
  /\ level \in [Tasks -> Nat]
  /\ call \in [Threads -> {"none", "notify", "stopping", "join", "dropping"}]
  /\ returned \in [Threads -> {"no", "stopped", "again"}]

\* The owner is a serial mailbox: FIFO but for PostFront, each task once, one at
\* a time in Dedicated mode, none after the stop, refused and leftover tasks
\* destroyed unrun.
Mailbox == INSTANCE SerialMailbox WITH
  Jumps <- TRUE,
  serial <- mode = "Dedicated",
  open <- ~stopped,
  queue <- tasks \o dropped,
  running <- Running
ImplementsMailbox == Mailbox!Spec

\* When the call that stopped a dedicated owner has returned, no task is running
\* or queued any more, unless it was made by one of the owner's own tasks: then
\* that task is the only one left, and its thread takes no other.
StopLeavesNothing ==
  \A t \in Threads : returned[t] = "stopped" =>
    /\ dropped = <<>> /\ tasks = <<>>
    /\ mode = "Dedicated" /\ t # Own => loop \in {"none", "exited"}
    /\ mode = "Dedicated" => \A k \in Running : host[k] = Own /\ t = Own

\* A dedicated owner that was started runs or destroys every task it accepted:
\* no wake-up is lost between a push, a stop and the thread's wait. And Stop
\* returns to its caller, from outside or from a task of the owner, as long as the
\* running task returns.
EverythingHappens ==
  /\ \A k \in Tasks :
       mode = "Dedicated" /\ started /\ fate[k] = "queued" ~> fate[k] \in {"ran", "dropped"}
  /\ \A t \in Threads : call[t] = "stopping" ~> returned[t] = "stopped"
================================================================================
