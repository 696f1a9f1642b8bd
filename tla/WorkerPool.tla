------------------------------- MODULE WorkerPool -------------------------------
(***************************************************************************)
(* pp::WorkerPool (src/WorkerPool.cpp): a fixed set of workers over three  *)
(* priority lanes under one mutex, with one condition variable that the    *)
(* workers and a shutting-down caller all wait on.                         *)
(*                                                                         *)
(* A critical section is one step; a notification after the unlock is a    *)
(* step of its own.  A waiter that is woken evaluates its predicate again. *)
(***************************************************************************)
EXTENDS Sequences, Integers, FiniteSets

CONSTANTS
  Workers,   \* threads_
  Clients,   \* other threads that use the pool
  Tasks,
  LaneOf,    \* the lane each task is posted to
  None

Lanes == {"Critical", "Normal", "Background"}

ASSUME TasksAssumption == IsFiniteSet(Tasks) /\ LaneOf \in [Tasks -> Lanes]
ASSUME WorkersAssumption ==
  IsFiniteSet(Workers) /\ Workers \cap Clients = {} /\ None \notin Workers

Threads == Workers \cup Clients

VARIABLES
  queues,    \* the three queues, by lane
  stopped, paused,
  live,      \* live_workers
  at,        \* a worker: check, asleep, run or exited
  fate, host,    \* of a task; the worker that runs it
  call,      \* what a thread has still to do in a call
  joinable,  \* threads_ still holds the threads
  answer     \* what a thread's Shutdown call returned

poolVars == <<queues, stopped, paused, live>>
taskVars == <<fate, host>>
vars == <<poolVars, at, taskVars, call, joinable, answer>>

Running == {k \in Tasks : fate[k] = "running"}
HasWork == \E l \in Lanes : queues[l] # <<>>

\* Thread t executes code outside the pool, its own or a task's.
InCode(t) == call[t] = "none" /\ (t \in Workers => at[t] = "run")

Init ==
  /\ queues = [l \in Lanes |-> <<>>]
  /\ stopped = FALSE /\ paused = FALSE
  /\ live = Cardinality(Workers)
  /\ at = [w \in Workers |-> "check"]
  /\ fate = [k \in Tasks |-> "new"]
  /\ host = [k \in Tasks |-> None]
  /\ call = [t \in Threads |-> "none"]
  /\ joinable = TRUE
  /\ answer = [t \in Threads |-> "none"]

--------------------------------------------------------------------------------
Post(t, k) ==
  /\ InCode(t) /\ fate[k] = "new" /\ ~stopped
  /\ queues' = [queues EXCEPT ![LaneOf[k]] = Append(@, k)]
  /\ fate' = [fate EXCEPT ![k] = "queued"]
  /\ call' = [call EXCEPT ![t] = "notifyOne"]
  /\ UNCHANGED <<stopped, paused, live, at, host, joinable, answer>>

PostStopped(t, k) ==
  /\ InCode(t) /\ fate[k] = "new" /\ stopped
  /\ fate' = [fate EXCEPT ![k] = "dropped"]
  /\ UNCHANGED <<poolVars, at, host, call, joinable, answer>>

Pause(t) ==
  /\ InCode(t) /\ ~paused
  /\ paused' = TRUE
  /\ UNCHANGED <<queues, stopped, live, at, taskVars, call, joinable, answer>>

\* Mutant for EveryTaskSettles: resuming notifies nobody.
ResumeSilently(t) ==
  /\ InCode(t)
  /\ paused' = FALSE
  /\ UNCHANGED <<queues, stopped, live, at, taskVars, call, joinable, answer>>

Resume(t) ==
  /\ InCode(t)
  /\ paused' = FALSE
  /\ call' = [call EXCEPT ![t] = "notifyAll"]
  /\ UNCHANGED <<queues, stopped, live, at, taskVars, joinable, answer>>

\* What a woken waiter is to do next: evaluate its predicate.
Woken(state) == CASE state = "asleep" -> "check" [] state = "waiting" -> "wait"
                  [] OTHER -> state

\* notify_one wakes any one waiter, a worker or the shutting-down caller.
NotifyOne(t) ==
  /\ call[t] = "notifyOne"
  /\ \/ \E w \in Workers :
          /\ at[w] = "asleep"
          /\ at' = [at EXCEPT ![w] = "check"]
          /\ call' = [call EXCEPT ![t] = "none"]
     \/ \E u \in Threads :
          /\ call[u] = "waiting"
          /\ call' = [call EXCEPT ![t] = "none", ![u] = "wait"]
          /\ UNCHANGED at
     \/ /\ \A w \in Workers : at[w] # "asleep"
        /\ \A u \in Threads : call[u] # "waiting"
        /\ call' = [call EXCEPT ![t] = "none"]
        /\ UNCHANGED at
  /\ UNCHANGED <<poolVars, taskVars, joinable, answer>>

NotifyAll(t) ==
  /\ call[t] \in {"notifyAll", "stopNotify"}
  /\ at' = [w \in Workers |-> Woken(at[w])]
  /\ call' = [u \in Threads |->
                IF u # t THEN Woken(call[u])
                ELSE IF call[t] = "stopNotify" THEN "wait" ELSE "none"]
  /\ UNCHANGED <<poolVars, taskVars, joinable, answer>>

--------------------------------------------------------------------------------
(* WorkerMain. *)

Sleep(w) ==
  /\ at[w] = "check" /\ ~stopped /\ (paused \/ ~HasWork)
  /\ at' = [at EXCEPT ![w] = "asleep"]
  /\ UNCHANGED <<poolVars, taskVars, call, joinable, answer>>

\* DequeueOneLocked: the first task of the highest lane that has one.
Dequeue(w) ==
  /\ at[w] = "check" /\ ~stopped /\ ~paused
  /\ \E l \in Lanes :
       /\ queues[l] # <<>>
       /\ queues["Critical"] # <<>> => l = "Critical"
       /\ queues["Normal"] # <<>> => l # "Background"
       /\ queues' = [queues EXCEPT ![l] = Tail(@)]
       /\ fate' = [fate EXCEPT ![Head(queues[l])] = "running"]
       /\ host' = [host EXCEPT ![Head(queues[l])] = w]
  /\ at' = [at EXCEPT ![w] = "run"]
  /\ UNCHANGED <<stopped, paused, live, call, joinable, answer>>

\* RunTaskSafely returns, whether the task did or threw.
EndTask(w, k) ==
  /\ InCode(w)
  /\ fate[k] = "running" /\ host[k] = w
  /\ fate' = [fate EXCEPT ![k] = "ran"]
  /\ host' = [host EXCEPT ![k] = None]
  /\ at' = [at EXCEPT ![w] = "check"]
  /\ UNCHANGED <<poolVars, call, joinable, answer>>

\* The worker leaves: it counts itself out and notifies all under the lock.
Exit(w) ==
  /\ at[w] = "check" /\ stopped
  /\ live' = live - 1
  /\ at' = [v \in Workers |-> IF v = w THEN "exited" ELSE Woken(at[v])]
  /\ call' = [u \in Threads |-> Woken(call[u])]
  /\ UNCHANGED <<queues, stopped, paused, taskVars, joinable, answer>>

--------------------------------------------------------------------------------
(* Shutdown. *)

\* Mutant for ImplementsMailbox: the shutdown forgets one of the queues.
ShutdownKeepsBackground(t) ==
  /\ InCode(t) /\ ~stopped
  /\ stopped' = TRUE
  /\ queues' = [l \in Lanes |-> IF l = "Background" THEN queues[l] ELSE <<>>]
  /\ fate' = [k \in Tasks |-> IF fate[k] = "queued" /\ LaneOf[k] # "Background"
                                THEN "dropped" ELSE fate[k]]
  /\ call' = [call EXCEPT ![t] = "stopNotify"]
  /\ UNCHANGED <<paused, live, at, host, joinable, answer>>

Shutdown(t) ==
  /\ InCode(t) /\ ~stopped
  /\ stopped' = TRUE
  /\ queues' = [l \in Lanes |-> <<>>]
  /\ fate' = [k \in Tasks |-> IF fate[k] = "queued" THEN "dropped" ELSE fate[k]]
  /\ call' = [call EXCEPT ![t] = "stopNotify"]
  /\ UNCHANGED <<paused, live, at, host, joinable, answer>>

\* Mutant for QuietAfterShutdown: a second shutdown returns true at once.
ShutdownAgainTrue(t) ==
  /\ InCode(t) /\ stopped
  /\ answer' = [answer EXCEPT ![t] = "true"]
  /\ UNCHANGED <<poolVars, at, taskVars, call, joinable>>

ShutdownAgain(t) ==
  /\ InCode(t) /\ stopped
  /\ answer' = [answer EXCEPT ![t] = IF live = 0 /\ ~joinable THEN "true" ELSE "false"]
  /\ UNCHANGED <<poolVars, at, taskVars, call, joinable>>

\* wait_until: the predicate, checked under the lock.
WaitForWorkers(t) ==
  /\ call[t] = "wait"
  /\ call' = [call EXCEPT ![t] = IF live = 0 THEN "reap" ELSE "waiting"]
  /\ UNCHANGED <<poolVars, at, taskVars, joinable, answer>>

BudgetOver(t) ==
  /\ call[t] = "waiting"
  /\ call' = [call EXCEPT ![t] = "reap"]
  /\ UNCHANGED <<poolVars, at, taskVars, joinable, answer>>

\* all_exited is read once more: join every thread, or detach every thread.
Reap(t) ==
  /\ call[t] = "reap"
  /\ answer' = [answer EXCEPT ![t] = IF live = 0 THEN "true" ELSE "false"]
  /\ joinable' = FALSE
  /\ call' = [call EXCEPT ![t] = "none"]
  /\ UNCHANGED <<poolVars, at, taskVars>>

--------------------------------------------------------------------------------
WorkerStep(w) == Sleep(w) \/ Dequeue(w) \/ Exit(w)
CallStep(t) == NotifyOne(t) \/ NotifyAll(t) \/ WaitForWorkers(t) \/ Reap(t)

Next ==
  \/ \E t \in Threads, k \in Tasks : Post(t, k) \/ PostStopped(t, k)
  \/ \E t \in Threads :
       Pause(t) \/ Resume(t) \/ Shutdown(t) \/ ShutdownAgain(t) \/ BudgetOver(t)
       \/ CallStep(t)
  \/ \E w \in Workers : WorkerStep(w) \/ \E k \in Tasks : EndTask(w, k)

Spec == Init /\ [][Next]_vars

\* Threads are scheduled, calls go on, and tasks end, whatever calls to the
\* pool they make on the way.  The budget of a shutdown is relied on only when a
\* pool task made it: its own worker cannot leave before.
Fairness ==
  /\ \A w \in Workers :
       WF_vars(WorkerStep(w)) /\ SF_vars(\E k \in Tasks : EndTask(w, k))
  /\ \A t \in Threads : WF_vars(CallStep(t))
  /\ \A w \in Workers : SF_vars(BudgetOver(w))

FairSpec == Spec /\ Fairness

--------------------------------------------------------------------------------
TypeOK ==
  /\ queues \in [Lanes -> Seq(Tasks)]
  /\ stopped \in BOOLEAN /\ paused \in BOOLEAN /\ joinable \in BOOLEAN
  /\ live \in 0..Cardinality(Workers)
  /\ at \in [Workers -> {"check", "asleep", "run", "exited"}]
  /\ fate \in [Tasks -> {"new", "queued", "running", "ran", "dropped"}]
  /\ host \in [Tasks -> Workers \cup {None}]
  /\ call \in [Threads -> {"none", "notifyOne", "notifyAll", "stopNotify", "wait",
                           "waiting", "reap"}]
  /\ answer \in [Threads -> {"none", "true", "false"}]

\* A Shutdown that returned true left no worker in a task and no task to run: the
\* pool, and what its tasks refer to, may be freed.
QuietAfterShutdown ==
  \A t \in Threads : answer[t] = "true" =>
    Running = {} /\ ~HasWork /\ \A w \in Workers : at[w] = "exited"

\* The pool is a priority mailbox: each accepted task runs once, lanes in order,
\* or is dropped by the shutdown, after which none starts.
Mailbox == INSTANCE PriorityMailbox WITH
  serial <- FALSE, open <- ~stopped, running <- Running
ImplementsMailbox == Mailbox!Spec

\* No wake-up is lost: an accepted task runs or is dropped, and a shutdown
\* returns, unless the pool is paused.
EveryTaskSettles ==
  /\ \A k \in Tasks : fate[k] = "queued" ~> fate[k] \in {"ran", "dropped"} \/ paused
  /\ \A t \in Threads : call[t] = "stopNotify" ~> call[t] = "none"
================================================================================
