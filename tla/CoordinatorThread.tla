---------------------------- MODULE CoordinatorThread ----------------------------
(***************************************************************************)
(* pp::CoordinatorThread (src/runtime/CoordinatorThread.cpp): one thread   *)
(* that runs a priority mailbox and fires timers, all under one mutex that *)
(* it releases only to run a task or a callback, and to wait.              *)
(*                                                                         *)
(* A step of the thread is a stretch of ThreadMain between two releases of *)
(* the mutex.  Posts, resumes and shutdowns notify after their unlock, in  *)
(* a step of their own; the Schedule calls notify under the lock.          *)
(***************************************************************************)
EXTENDS SequencesExt, Integers, FiniteSets, SeqFilter

CONSTANTS
  Clients,        \* threads that call the coordinator
  Own,            \* its thread
  Tasks, LaneOf,  \* what is posted, and to which queue
  Timers,         \* Schedule calls, each made once
  Repeating,      \* those of them made with ScheduleRepeating
  IntervalOf,     \* the interval or delay of each
  MaxTime         \* bound on the clock

Lanes == {"Critical", "Normal", "Background"}

ASSUME TasksAssumption == IsFiniteSet(Tasks) /\ LaneOf \in [Tasks -> Lanes]
ASSUME TimersAssumption ==
  /\ Repeating \subseteq Timers /\ IntervalOf \in [Timers -> Nat]
  /\ \A k \in Repeating : IntervalOf[k] > 0
  /\ MaxTime \in Nat /\ Own \notin Clients

Threads == Clients \cup {Own}
Never == -1    \* time_point::max()

VARIABLES
  now,         \* the clock
  started, stopped, paused, exited,   \* exited is thread_exited_
  loop,        \* what the thread does at its next step
  until,       \* the deadline of its wait, Never for none
  looked,      \* the clock it read before it fired timers
  queues,      \* the three queues
  fate,        \* of each task
  timers,      \* timers_, in order
  nextFire,    \* their next_fire, Never before the Schedule call
  entry,       \* "live", or what set its cancelled: "spent" or "cancelled"
  due,         \* FireDueTimersLocked's callbacks still to run
  firing,      \* history: timers whose callback was ever started
  call         \* what a thread has still to do in a call

flagVars == <<started, stopped, paused, exited>>
threadVars == <<loop, until, looked, due>>
boxVars == <<queues, fate>>
timerVars == <<timers, nextFire, entry, firing>>
vars == <<now, flagVars, threadVars, boxVars, timerVars, call>>

Running == {k \in Tasks : fate[k] = "running"}
HasWork == \E l \in Lanes : queues[l] # <<>>

Live == {k \in ToSet(timers) : entry[k] = "live"}
\* NextTimerDeadlineLocked
NextDeadline(live, fire) ==
  IF live = {} THEN Never
  ELSE CHOOSE d \in {fire[k] : k \in live} : \A k \in live : d <= fire[k]
\* Mutant for NoOversleep: the wait's predicate looks at the queues only, as it once did.
BeforeIgnored(d, e) == FALSE

Before(d, e) == d # Never /\ (e = Never \/ d < e)

InCode(t) == call[t] = "none" /\ (t = Own => loop \in {"task", "callback"})

Init ==
  /\ now = 0
  /\ started = FALSE /\ stopped = FALSE /\ paused = FALSE /\ exited = FALSE
  /\ loop = "none" /\ until = Never /\ looked = 0 /\ due = <<>>
  /\ queues = [l \in Lanes |-> <<>>]
  /\ fate = [k \in Tasks |-> "new"]
  /\ timers = <<>>
  /\ nextFire = [k \in Timers |-> Never]
  /\ entry = [k \in Timers |-> "live"]
  /\ firing = {}
  /\ call = [t \in Threads |-> "none"]

Tick ==
  /\ now < MaxTime /\ now' = now + 1
  /\ UNCHANGED <<flagVars, threadVars, boxVars, timerVars, call>>

--------------------------------------------------------------------------------
(* Calls. *)

Start(t) ==
  /\ InCode(t) /\ ~started /\ ~stopped
  /\ started' = TRUE /\ exited' = FALSE /\ loop' = "top"
  /\ UNCHANGED <<now, stopped, paused, until, looked, due, boxVars, timerVars, call>>

Post(t, k) ==
  /\ InCode(t) /\ fate[k] = "new" /\ ~stopped
  /\ queues' = [queues EXCEPT ![LaneOf[k]] = Append(@, k)]
  /\ fate' = [fate EXCEPT ![k] = "queued"]
  /\ call' = [call EXCEPT ![t] = "notifyOne"]
  /\ UNCHANGED <<now, flagVars, threadVars, timerVars>>

PostStopped(t, k) ==
  /\ InCode(t) /\ fate[k] = "new" /\ stopped
  /\ fate' = [fate EXCEPT ![k] = "dropped"]
  /\ UNCHANGED <<now, flagVars, threadVars, queues, timerVars, call>>

\* The thread's waits, notified: it will evaluate the predicate.
Woken == CASE loop = "asleep" -> "woken" [] loop = "resting" -> "rested"
           [] OTHER -> loop

\* ScheduleRepeating and ScheduleOneShot.
Schedule(t, k) ==
  /\ InCode(t) /\ nextFire[k] = Never /\ ~stopped
  /\ timers' = Append(timers, k)
  /\ nextFire' = [nextFire EXCEPT ![k] = now + IntervalOf[k]]
  /\ loop' = Woken
  /\ UNCHANGED <<now, flagVars, until, looked, due, boxVars, entry, firing, call>>

CancelTimer(t, k) ==
  /\ InCode(t) /\ k \in Live
  /\ entry' = [entry EXCEPT ![k] = "cancelled"]
  /\ UNCHANGED <<now, flagVars, threadVars, boxVars, timers, nextFire, firing, call>>

Pause(t) ==
  /\ InCode(t) /\ ~paused /\ paused' = TRUE
  /\ UNCHANGED <<now, started, stopped, exited, threadVars, boxVars, timerVars, call>>

Resume(t) ==
  /\ InCode(t) /\ paused /\ paused' = FALSE
  /\ call' = [call EXCEPT ![t] = "notifyAll"]
  /\ UNCHANGED <<now, started, stopped, exited, threadVars, boxVars, timerVars>>

\* The waiters are the thread and a shutting-down caller; notify_one wakes one.
Notify(t) ==
  /\ call[t] \in {"notifyOne", "notifyAll", "stopNotify"}
  /\ LET next == IF call[t] = "stopNotify" THEN "wait" ELSE "none"
         woken == [u \in Threads |-> IF u = t THEN next
                                     ELSE IF call[u] = "waiting" THEN "wait" ELSE call[u]]
         alone == [call EXCEPT ![t] = next]
     IN  \/ loop' = Woken /\ call' = woken /\ call[t] # "notifyOne"
         \/ loop' = Woken /\ call' = alone /\ (Woken # loop \/ woken = alone)
            /\ call[t] = "notifyOne"
         \/ loop' = loop /\ call' = woken /\ woken # alone /\ call[t] = "notifyOne"
  /\ UNCHANGED <<now, flagVars, until, looked, due, boxVars, timerVars>>

--------------------------------------------------------------------------------
(* ThreadMain. *)

Exit ==
  /\ loop' = "exited" /\ exited' = TRUE
  /\ call' = [u \in Threads |-> IF call[u] = "waiting" THEN "wait" ELSE call[u]]

\* The top of the loop, when stopped or paused; the inner loop sees only stopped.
Leave ==
  /\ stopped /\ loop \in {"top", "drain", "fired"}
  /\ Exit /\ due' = <<>> /\ looked' = 0
  /\ timers' = IF loop = "drain" THEN <<>> ELSE timers
  /\ UNCHANGED <<now, started, stopped, paused, until, boxVars, nextFire, entry,
                 firing>>

Rest ==
  /\ ~stopped /\ paused /\ loop \in {"top", "rested"}
  /\ loop' = "resting"
  /\ UNCHANGED <<now, flagVars, until, looked, due, boxVars, timerVars, call>>

\* Mutant for ImplementsMailbox: the lanes are not served in order.
DequeueAnyLane ==
  /\ ~stopped /\ ((loop = "top" /\ ~paused) \/ loop = "drain")
  /\ \E l \in Lanes :
       /\ queues[l] # <<>>
       /\ queues' = [queues EXCEPT ![l] = Tail(@)]
       /\ fate' = [fate EXCEPT ![Head(queues[l])] = "running"]
  /\ loop' = "task"
  /\ UNCHANGED <<now, flagVars, until, looked, due, timerVars, call>>

\* The next task of the mailbox, at the top of the loop or after another task.
Dequeue ==
  /\ ~stopped /\ ((loop = "top" /\ ~paused) \/ loop = "drain")
  /\ \E l \in Lanes :
       /\ queues[l] # <<>>
       /\ queues["Critical"] # <<>> => l = "Critical"
       /\ queues["Normal"] # <<>> => l # "Background"
       /\ queues' = [queues EXCEPT ![l] = Tail(@)]
       /\ fate' = [fate EXCEPT ![Head(queues[l])] = "running"]
  /\ loop' = "task"
  /\ UNCHANGED <<now, flagVars, until, looked, due, timerVars, call>>

EndTask(k) ==
  /\ InCode(Own) /\ loop = "task" /\ fate[k] = "running"
  /\ fate' = [fate EXCEPT ![k] = "ran"]
  /\ loop' = "drain"
  /\ UNCHANGED <<now, flagVars, until, looked, due, queues, timerVars, call>>

\* What follows FireDueTimersLocked: cancelled entries go, and the thread waits
\* for the next deadline, unless that has come or the wait's predicate holds.
WaitOrTurn(clock, entries, fire) ==
  LET left == Kept(timers, {k \in Timers : entries[k] = "live"})
      deadline == NextDeadline(ToSet(left), fire)
  IN  /\ timers' = left
      /\ loop' = IF HasWork \/ (deadline # Never /\ deadline <= clock) THEN "top"
                 ELSE "asleep"
      /\ until' = IF loop' = "asleep" THEN deadline ELSE Never

\* Mutant for CancelHolds: the collection does not skip cancelled entries.
DueAnyway(k) == nextFire[k] # Never /\ nextFire[k] <= now

Due(k) == entry[k] = "live" /\ nextFire[k] <= now

\* FireDueTimersLocked collects what is due and runs the first callback, if any.
Collect ==
  /\ ~stopped /\ ((loop = "top" /\ ~paused) \/ loop = "drain")
  /\ ~HasWork
  /\ LET collected == Kept(timers, {k \in Timers : Due(k)})
         fire == [k \in Timers |->
                    IF k \in ToSet(collected) /\ k \in Repeating THEN now + IntervalOf[k]
                    ELSE nextFire[k]]
     IN  /\ nextFire' = fire
         /\ entry' = [k \in Timers |->
                        IF k \in ToSet(collected) \ Repeating /\ entry[k] = "live"
                          THEN "spent" ELSE entry[k]]
         /\ IF collected = <<>>
              THEN WaitOrTurn(now, entry, nextFire) /\ UNCHANGED <<looked, due,
                                                                   firing>>
              ELSE /\ due' = collected /\ loop' = "callback" /\ looked' = now
                   /\ firing' = firing \cup {Head(collected)}
                   /\ UNCHANGED <<until, timers>>
  /\ UNCHANGED <<now, flagVars, boxVars, call>>

EndCallback ==
  /\ InCode(Own) /\ loop = "callback"
  /\ loop' = "fired" /\ due' = Tail(due)
  /\ UNCHANGED <<now, flagVars, until, looked, boxVars, timerVars, call>>

\* Mutant for EverythingHappens: only the first callback of a batch runs.
AfterFirstCallback ==
  /\ loop = "fired" /\ ~stopped
  /\ WaitOrTurn(looked, entry, nextFire)
  /\ looked' = 0 /\ due' = <<>>
  /\ UNCHANGED <<now, flagVars, boxVars, nextFire, entry, firing, call>>

\* Relocked after a callback: the next one, or on.
AfterCallback ==
  /\ loop = "fired" /\ ~stopped
  /\ IF due = <<>>
       THEN WaitOrTurn(looked, entry, nextFire) /\ looked' = 0 /\ UNCHANGED firing
       ELSE /\ loop' = "callback" /\ firing' = firing \cup {Head(due)}
            /\ UNCHANGED <<until, looked, timers>>
  /\ UNCHANGED <<now, flagVars, due, boxVars, nextFire, entry, call>>

\* A wait ends when its predicate holds after a notification, or on its deadline.
Wake ==
  /\ \/ loop = "woken" /\ (stopped \/ HasWork \/ Before(NextDeadline(Live, nextFire), until))
     \/ loop \in {"asleep", "woken"} /\ until # Never /\ until <= now
     \/ loop = "rested" /\ (stopped \/ ~paused)
  /\ loop' = "top" /\ until' = Never
  /\ UNCHANGED <<now, flagVars, looked, due, boxVars, timerVars, call>>

SpuriousWake ==
  /\ loop # Woken /\ loop' = Woken
  /\ UNCHANGED <<now, flagVars, until, looked, due, boxVars, timerVars, call>>

SleepAgain ==
  /\ loop = "woken" /\ ~stopped /\ ~HasWork /\ (until = Never \/ now < until)
  /\ ~Before(NextDeadline(Live, nextFire), until)
  /\ loop' = "asleep"
  /\ UNCHANGED <<now, flagVars, until, looked, due, boxVars, timerVars, call>>

--------------------------------------------------------------------------------
(* Shutdown.  A call that finds the thread not started, or stopped already,   *)
(* changes nothing.                                                          *)

Shutdown(t) ==
  /\ InCode(t) /\ started /\ ~stopped
  /\ stopped' = TRUE
  /\ queues' = [l \in Lanes |-> <<>>]
  /\ fate' = [k \in Tasks |-> IF fate[k] = "queued" THEN "dropped" ELSE fate[k]]
  /\ entry' = [k \in Timers |-> IF k \in Live THEN "cancelled" ELSE entry[k]]
  /\ call' = [call EXCEPT ![t] = "stopNotify"]
  /\ UNCHANGED <<now, started, paused, exited, threadVars, timers, nextFire, firing>>

\* wait_until: the predicate, checked under the lock.
WaitForExit(t) ==
  /\ call[t] = "wait"
  /\ call' = [call EXCEPT ![t] = IF exited THEN "reap" ELSE "waiting"]
  /\ UNCHANGED <<now, flagVars, threadVars, boxVars, timerVars>>

BudgetOver(t) ==
  /\ call[t] = "waiting"
  /\ call' = [call EXCEPT ![t] = "reap"]
  /\ UNCHANGED <<now, flagVars, threadVars, boxVars, timerVars>>

\* Joined: ready to be started again.
Join(t) ==
  /\ call[t] = "reap" /\ exited
  /\ started' = FALSE /\ stopped' = FALSE
  /\ loop' = "none" /\ timers' = <<>>
  /\ call' = [call EXCEPT ![t] = "none"]
  /\ UNCHANGED <<now, paused, exited, until, looked, due, boxVars, nextFire, entry,
                 firing>>

Detach(t) ==
  /\ call[t] = "reap" /\ ~exited
  /\ call' = [call EXCEPT ![t] = "none"]
  /\ UNCHANGED <<now, flagVars, threadVars, boxVars, timerVars>>

--------------------------------------------------------------------------------
Runs == \E k \in Tasks : EndTask(k)
ThreadStep == Leave \/ Rest \/ Dequeue \/ Collect \/ AfterCallback \/ Wake \/ SleepAgain
CallStep(t) == Notify(t) \/ WaitForExit(t) \/ Join(t) \/ Detach(t)

Next ==
  \/ \E t \in Threads :
       \/ \E k \in Tasks : Post(t, k) \/ PostStopped(t, k)
       \/ \E k \in Timers : Schedule(t, k) \/ CancelTimer(t, k)
       \/ Start(t) \/ Pause(t) \/ Resume(t) \/ Shutdown(t)
       \/ BudgetOver(t) \/ CallStep(t)
  \/ ThreadStep \/ Runs \/ EndCallback \/ SpuriousWake \/ Tick

Spec == Init /\ [][Next]_vars

\* The thread is scheduled, tasks and callbacks end whatever calls they make on
\* the way, and calls go on.  The clock is not relied on, nor the budget but for a
\* shutdown from the thread's own task.
Fairness ==
  /\ WF_vars(ThreadStep) /\ SF_vars(Runs \/ EndCallback)
  /\ \A t \in Threads : WF_vars(CallStep(t))
  /\ SF_vars(BudgetOver(Own))

FairSpec == Spec /\ Fairness

--------------------------------------------------------------------------------
TypeOK ==
  /\ now \in 0..MaxTime /\ looked \in 0..MaxTime
  /\ {started, stopped, paused, exited} \subseteq BOOLEAN
  /\ loop \in {"none", "top", "task", "drain", "callback", "fired", "asleep", "woken",
               "resting", "rested", "exited"}
  /\ started <=> loop # "none"
  /\ until \in Nat \cup {Never}
  /\ queues \in [Lanes -> Seq(Tasks)]
  /\ fate \in [Tasks -> {"new", "queued", "running", "ran", "dropped"}]
  /\ timers \in Seq(Timers) /\ due \in Seq(Timers) /\ firing \subseteq Timers
  /\ nextFire \in [Timers -> Nat \cup {Never}]
  /\ entry \in [Timers -> {"live", "spent", "cancelled"}]
  /\ call \in [Threads -> {"none", "notifyOne", "notifyAll", "stopNotify", "wait",
                           "waiting", "reap"}]

Notifying == \E t \in Threads : call[t] \in {"notifyOne", "notifyAll", "stopNotify"}

\* The thread never waits past something it has to do: no timer is due before the
\* deadline it waits for, also none armed during the wait, and no post, resume or
\* shutdown waits for it without a notification on its way.
NoOversleep ==
  /\ loop = "asleep" =>
       /\ \A k \in Live : until # Never /\ until <= nextFire[k]
       /\ HasWork \/ stopped => Notifying
  /\ loop = "resting" /\ (stopped \/ ~paused) => Notifying

\* A one-shot cancelled before it was collected never calls back, nor does one of a
\* coordinator that was shut down before.
CancelHolds ==
  \A k \in Timers \ Repeating :
    entry[k] = "cancelled" => k \notin firing \cup ToSet(due)

\* The mailbox half is a serial priority mailbox, which may be started again.
Mailbox == INSTANCE PriorityMailbox WITH
  serial <- TRUE, open <- ~stopped, running <- Running
ImplementsMailbox == Mailbox!Spec

\* What was posted runs or is dropped, and a timer that is due fires or is
\* cancelled, unless the coordinator is paused or stopped.
EverythingHappens ==
  /\ \A k \in Tasks :
       fate[k] = "queued" /\ started ~> fate[k] \in {"ran", "dropped"} \/ paused
  /\ \A k \in Timers :
       k \in ToSet(timers) /\ Due(k) /\ started ~>
         k \in firing \/ entry[k] = "cancelled" \/ paused \/ stopped \/ ~started
================================================================================
