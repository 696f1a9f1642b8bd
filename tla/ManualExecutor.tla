--------------------------- MODULE ManualExecutor ---------------------------
(***************************************************************************)
(* ManualExecutor (ManualExecutor.cpp): a test drives it with RunPending,  *)
(* AdvanceBy and RunAndWait, and the clock is its own. A task may drive it *)
(* again, which nests; other threads post and cancel between any two steps *)
(* of the driver. A task that throws ends all the drives it runs under.    *)
(***************************************************************************)
EXTENDS Integers, Sequences, SequencesExt

CONSTANTS MaxItems,   \* bound: tasks and clockTimers
          MaxNow,     \* bound: the time a drive may aim at
          MaxNested   \* bound: drives nested in tasks

VARIABLES tasks,     \* tasks_: a queue of items
          clockTimers,    \* timers_ and deadlines_: [id, due], the ones not cancelled
          now,       \* now_ms_
          next,      \* next_timer_, and the number of the next task
          drives,    \* the driver's stack: [kind, end, state, item]
          waits,     \* items posted by a RunAndWait that has not returned
          started    \* items that ran, in order

manualVars == <<tasks, clockTimers, now, next, drives, waits, started>>

NoItem == 0
Top == Last(drives)
InTask == drives # <<>> /\ Top.state = "task"
SetTop(f) == [drives EXCEPT ![Len(drives)] = f]
Before(t, u) == t.due < u.due \/ (t.due = u.due /\ t.id < u.id)
Frame(kind, end) == [kind |-> kind, end |-> end, state |-> "pop", item |-> NoItem]

ManualInit == /\ tasks = <<>> /\ clockTimers = {} /\ now = 0 /\ next = 1
              /\ drives = <<>> /\ waits = {} /\ started = <<>>

----------------------------------------------------------------------------
\* By any thread, tasks of the executor among them

Post == /\ next <= MaxItems
        /\ tasks' = Append(tasks, next) /\ next' = next + 1
        /\ UNCHANGED <<clockTimers, now, drives, waits, started>>

PostAfter(delay) == /\ next <= MaxItems
                    /\ clockTimers' = clockTimers \cup {[id |-> next, due |-> now + delay]}
                    /\ next' = next + 1
                    /\ UNCHANGED <<tasks, now, drives, waits, started>>

CancelArmed(id) == /\ \E t \in clockTimers : t.id = id
                   /\ clockTimers' = {t \in clockTimers : t.id # id}
                   /\ UNCHANGED <<tasks, now, next, drives, waits, started>>

----------------------------------------------------------------------------
\* The driving thread

\* The test, or a task, drives
MayDrive == (drives = <<>> \/ InTask) /\ Len(drives) < MaxNested

RunPending == /\ MayDrive
              /\ drives' = Append(drives, Frame("pending", 0))
              /\ UNCHANGED <<tasks, clockTimers, now, next, waits, started>>

\* AdvanceBy takes its end after the first RunPending; -1 until then
AdvanceBy(by) == /\ MayDrive
                 /\ drives' = Append(drives, [Frame("advance", by) EXCEPT !.state = "drain"])
                 /\ UNCHANGED <<tasks, clockTimers, now, next, waits, started>>

\* RunAndWait from outside posts a reference to its task and runs what is queued;
\* from a task it just calls, which changes nothing here
RunAndWait == /\ drives = <<>> /\ next <= MaxItems
              /\ tasks' = Append(tasks, next) /\ next' = next + 1
              /\ waits' = waits \cup {next}
              /\ drives' = Append(drives, [Frame("pending", 0) EXCEPT !.item = next])
              /\ UNCHANGED <<clockTimers, now, started>>

Driving(states) == drives # <<>> /\ Top.state \in states

\* PopTask and RunOne
StartTask ==
    /\ Driving({"pop", "drain"}) /\ tasks # <<>>
    /\ tasks' = Tail(tasks)
    /\ started' = Append(started, Head(tasks))
    /\ drives' = Append(SetTop(Top),
                        [kind |-> "run", end |-> 0, state |-> "task", item |-> Head(tasks)])
    /\ UNCHANGED <<clockTimers, now, next, waits>>

\* The queue is empty: a RunPending returns, an AdvanceBy takes its end and goes on
EndDrain ==
    /\ Driving({"pop", "drain"}) /\ tasks = <<>>
    /\ \/ /\ Top.kind = "pending"
          /\ drives' = Front(drives)
          /\ waits' = waits \ {Top.item}
       \/ /\ Top.kind = "advance" /\ Top.state = "drain"
          /\ now + Top.end <= MaxNow
          /\ drives' = SetTop([Top EXCEPT !.state = "timer", !.end = now + Top.end])
          /\ UNCHANGED waits
       \/ /\ Top.kind = "advance" /\ Top.state = "pop"
          /\ drives' = SetTop([Top EXCEPT !.state = "timer"])
          /\ UNCHANGED waits
    /\ UNCHANGED <<tasks, clockTimers, now, next, started>>

\* Mutant for ManualOrder: the due timer that was set first.
StartTimerById ==
    /\ Driving({"timer"})
    /\ \E t \in clockTimers :
         /\ t.due <= Top.end
         /\ \A u \in clockTimers : u.due <= Top.end => t.id <= u.id
         /\ now' = IF t.due > now THEN t.due ELSE now
         /\ clockTimers' = clockTimers \ {t}
         /\ started' = Append(started, t.id)
         /\ drives' = Append(SetTop([Top EXCEPT !.state = "pop"]),
                             [kind |-> "run", end |-> 0, state |-> "task", item |-> t.id])
    /\ UNCHANGED <<tasks, next, waits>>

\* The earliest timer that is due by the end, at its own time
StartTimer ==
    /\ Driving({"timer"})
    /\ \E t \in clockTimers :
         /\ \A u \in clockTimers \ {t} : Before(t, u)
         /\ t.due <= Top.end
         /\ now' = IF t.due > now THEN t.due ELSE now
         /\ clockTimers' = clockTimers \ {t}
         /\ started' = Append(started, t.id)
         /\ drives' = Append(SetTop([Top EXCEPT !.state = "pop"]),
                             [kind |-> "run", end |-> 0, state |-> "task", item |-> t.id])
    /\ UNCHANGED <<tasks, next, waits>>

\* No timer is due any more; a last RunPending follows
EndAdvance ==
    /\ Driving({"timer"}) /\ \A t \in clockTimers : t.due > Top.end
    /\ now' = Top.end
    /\ drives' = SetTop([Frame("pending", 0) EXCEPT !.state = "pop"])
    /\ UNCHANGED <<tasks, clockTimers, next, waits, started>>

TaskReturns == /\ InTask
               /\ drives' = Front(drives)
               /\ UNCHANGED <<tasks, clockTimers, now, next, waits, started>>

\* No drive catches what a task throws: the whole stack goes, RunAndWait with it
TaskThrows == /\ InTask
              /\ drives' = <<>>
              /\ UNCHANGED <<tasks, clockTimers, now, next, waits, started>>

ManualNext ==
    \/ Post \/ (\E d \in 0 .. MaxNow : PostAfter(d)) \/ (\E id \in 1 .. MaxItems : CancelArmed(id))
    \/ RunPending \/ (\E by \in 0 .. MaxNow : AdvanceBy(by)) \/ RunAndWait
    \/ StartTask \/ EndDrain \/ StartTimer \/ EndAdvance \/ TaskReturns \/ TaskThrows

ManualSpec == ManualInit /\ [][ManualNext]_manualVars

----------------------------------------------------------------------------
\* What a step may do: a timer that runs does so at its own time, before the others
\* that are set, and a RunAndWait that returns has run its task.
RunsInOrder ==
    /\ \A t \in clockTimers : started' = Append(started, t.id) =>
         now' = t.due /\ \A u \in clockTimers' : Before(t, u)
    /\ \A i \in waits \ waits' : \E n \in 1 .. Len(started) : started[n] = i

\* Timers run in the order of their deadlines, each at its deadline by the
\* executor's clock, under whatever nesting of drives and with posts and cancels
\* from elsewhere; and a RunAndWait that returns has run its task
\* (ManualExecutor.h:36-45).
ManualOrder == [][RunsInOrder]_manualVars

\* ManualExecutor.h:42 "Move time forward by `by`": time moves by AdvanceBy, and
\* forward only.
ClockForward == [][now' >= now]_manualVars
=============================================================================
