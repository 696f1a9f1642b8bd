----------------------------- MODULE TeardownGate ------------------------------
(***************************************************************************)
(* The teardown gate of src/runtime/AppRuntime.cpp: one mutex-protected    *)
(* record that every runtime mailbox (UI, workers, coordinator, owners)    *)
(* consults.  GateTask wraps each post and each timer;                     *)
(* QuiesceForTeardown refuses new posts, waits until the accepted ones     *)
(* have run, and closes the gate; ReopenAfterTeardown starts a new epoch.  *)
(*                                                                         *)
(* Mailboxes are abstracted to "a queued task may be reached by any        *)
(* thread that pumps": what the gate promises must not depend on them.     *)
(* Every critical section of the gate's mutex is one action.               *)
(***************************************************************************)
EXTENDS GateRules, Integers, FiniteSets

CONSTANTS
  Threads,      \* threads that post, run tasks, or tear down
  NoThread,     \* not a thread
  Posts,        \* callables given to PostUI / PostWorker / PostTo / ...
  OneShots,     \* callables given to ScheduleCoordinatorOneShot
  Repeaters,    \* callables given to ScheduleCoordinatorRepeating
  MaxEpoch      \* bound on ReopenAfterTeardown, named for TLC

ASSUME ThreadsAssumption == NoThread \notin Threads
ASSUME TasksAssumption ==
  /\ IsFiniteSet(Posts) /\ IsFiniteSet(OneShots) /\ IsFiniteSet(Repeaters)
  /\ Posts \cap OneShots = {} /\ Posts \cap Repeaters = {}
  /\ OneShots \cap Repeaters = {}
ASSUME BoundsAssumption == MaxEpoch \in Nat

Tasks == Posts \cup OneShots \cup Repeaters

KindOf(k) == IF k \in Posts THEN Posted
             ELSE IF k \in OneShots THEN OneShotTimer ELSE RepeatingTimer

VARIABLES
  gstate,    \* TeardownGate::state
  epoch,     \* TeardownGate::epoch
  pending,   \* TeardownGate::pending
  running,   \* TeardownGate::running
  depth,     \* t_gated_depth of each thread
  status,    \* where the callable is
  stamp,     \* the epoch its wrapper captured
  host,      \* the thread whose stack runs it
  level,     \* its nesting level on that stack
  settled,   \* PendingPost::settled of a post's wrapper
  phase,     \* each thread's position in a QuiesceForTeardown it made
  ownDepth,  \* its own_depth
  drained,   \* its local drained
  overtaken, \* history: the gate was reopened since that call began
  answer,    \* the true that a thread's last QuiesceForTeardown returned, or none
  born,      \* history: teardowns ended when the callable was wrapped
  closings,  \* history: teardowns ended, by a close or by a reopening
  lastLate   \* history: the last of them that had not drained, 0 if none

gateVars == <<gstate, epoch, pending, running>>
taskVars == <<depth, status, stamp, host, level, settled, born>>
localVars == <<phase, ownDepth, drained, overtaken>>
quiesceVars == <<localVars, answer, closings, lastLate>>
vars == <<gateVars, taskVars, quiesceVars>>

--------------------------------------------------------------------------------
Running == {k \in Tasks : status[k] = "running"}
RunningOn(t) == {k \in Running : host[k] = t}
Unsettled == {k \in Posts : status[k] = "queued"}

\* A thread's code runs unless it is inside a quiesce and in no task it pumps.
InOwnCode(t) == phase[t] # "none" => phase[t] = "draining" /\ depth[t] > ownDepth[t]
\* A thread can reach a wrapper: the drain loop pumps mailboxes of posts, and
\* none is pumped between the loop and Closed.
MayPump(t, k) == phase[t] # "none" => phase[t] = "draining" /\ k \in Posts

Init ==
  /\ gstate = "Open" /\ epoch = 0 /\ pending = 0 /\ running = 0
  /\ depth = [t \in Threads |-> 0]
  /\ status = [k \in Tasks |-> "idle"]
  /\ stamp = [k \in Tasks |-> 0]
  /\ host = [k \in Tasks |-> NoThread]
  /\ level = [k \in Tasks |-> 0]
  /\ born = [k \in Tasks |-> 0]
  /\ settled = [k \in Posts |-> FALSE]
  /\ phase = [t \in Threads |-> "none"]
  /\ ownDepth = [t \in Threads |-> 0]
  /\ drained = [t \in Threads |-> FALSE]
  /\ overtaken = [t \in Threads |-> FALSE]
  /\ answer = [t \in Threads |-> "none"]
  /\ closings = 0 /\ lastLate = 0

--------------------------------------------------------------------------------
\* GateTask(Posted): counted and stamped, then handed to a mailbox.
Post(t, k) ==
  /\ InOwnCode(t)
  /\ k \in Posts /\ status[k] = "idle"
  /\ AcceptsPost(gstate, depth[t])
  /\ pending' = pending + 1
  /\ status' = [status EXCEPT ![k] = "queued"]
  /\ stamp' = [stamp EXCEPT ![k] = epoch]
  /\ born' = [born EXCEPT ![k] = closings]
  /\ UNCHANGED <<gstate, epoch, running, depth, host, level, settled, quiesceVars>>

\* GateTask for a timer: never refused, never counted.
Schedule(t, k) ==
  /\ InOwnCode(t)
  /\ k \in OneShots \cup Repeaters /\ status[k] = "idle"
  /\ status' = [status EXCEPT ![k] = "queued"]
  /\ stamp' = [stamp EXCEPT ![k] = epoch]
  /\ born' = [born EXCEPT ![k] = closings]
  /\ UNCHANGED <<gateVars, depth, host, level, settled, quiesceVars>>

\* PendingPost::Settle, which timers do not have: counts the post out once.
Settle(k) ==
  \/ /\ k \in Posts /\ ~settled[k]
     /\ pending' = pending - 1
     /\ settled' = [settled EXCEPT ![k] = TRUE]
  \/ (k \in Posts => settled[k]) /\ UNCHANGED <<pending, settled>>

\* The wrapper reached on thread t, and let through.
Begin(t, k) ==
  /\ MayPump(t, k)
  /\ status[k] = "queued"
  /\ MayRun(KindOf(k), gstate, epoch, stamp[k])
  /\ Settle(k)
  /\ running' = running + 1
  /\ depth' = [depth EXCEPT ![t] = @ + 1]
  /\ status' = [status EXCEPT ![k] = "running"]
  /\ host' = [host EXCEPT ![k] = t]
  /\ level' = [level EXCEPT ![k] = depth[t] + 1]
  /\ UNCHANGED <<gstate, epoch, stamp, born, quiesceVars>>

\* The callable may be posted or scheduled again, with a new wrapper.
Forget(k) ==
  /\ status' = [status EXCEPT ![k] = "idle"]
  /\ stamp' = [stamp EXCEPT ![k] = 0]
  /\ born' = [born EXCEPT ![k] = 0]

\* A wrapper has been called.  A post's is still to be destroyed; a repeating timer
\* stays armed, with the epoch it captured; a one-shot's end has no effect.
Called(k) ==
  \/ /\ k \in Posts \cup Repeaters
     /\ status' = [status EXCEPT ![k] = IF k \in Posts THEN "over" ELSE "queued"]
     /\ UNCHANGED <<stamp, born>>
  \/ k \in OneShots /\ Forget(k)

\* The wrapper reached on thread t, and refused.
Skip(t, k) ==
  /\ MayPump(t, k)
  /\ status[k] = "queued"
  /\ ~MayRun(KindOf(k), gstate, epoch, stamp[k])
  /\ Settle(k)
  /\ Called(k)
  /\ UNCHANGED <<gstate, epoch, running, depth, host, level, quiesceVars>>

\* The task body returns (or throws): Leave's destructor.  Only the innermost
\* gated task of a thread can.
End(t, k) ==
  /\ InOwnCode(t)
  /\ status[k] = "running" /\ host[k] = t /\ level[k] = depth[t]
  /\ depth' = [depth EXCEPT ![t] = @ - 1]
  /\ running' = running - 1
  /\ host' = [host EXCEPT ![k] = NoThread]
  /\ level' = [level EXCEPT ![k] = 0]
  /\ Called(k)
  /\ UNCHANGED <<gstate, epoch, pending, settled, quiesceVars>>

\* Mutant for AccountingExact: ~PendingPost does not look at settled.
DropCountsAgain(k) ==
  /\ status[k] \in {"queued", "over"}
  /\ IF k \in Posts
     THEN pending' = pending - 1 /\ settled' = [settled EXCEPT ![k] = FALSE]
     ELSE UNCHANGED <<pending, settled>>
  /\ Forget(k)
  /\ UNCHANGED <<gstate, epoch, running, depth, host, level, quiesceVars>>

\* The wrapper is destroyed: after its call, or unrun by its mailbox (a stopped
\* pool or owner, a cancelled timer).  ~PendingPost settles what is not settled.
Drop(k) ==
  /\ status[k] \in {"queued", "over"}
  /\ IF k \in Posts
     THEN /\ pending' = IF settled[k] THEN pending ELSE pending - 1
          /\ settled' = [settled EXCEPT ![k] = FALSE]
     ELSE UNCHANGED <<pending, settled>>
  /\ Forget(k)
  /\ UNCHANGED <<gstate, epoch, running, depth, host, level, quiesceVars>>

--------------------------------------------------------------------------------
\* QuiesceForTeardown on an open gate, up to the drain loop.  A thread makes one
\* such call at a time: a task that its drain loop pumps makes no second one.
QuiesceEnter(t) ==
  /\ phase[t] = "none"
  /\ gstate = "Open"
  /\ gstate' = "Draining"
  /\ phase' = [phase EXCEPT ![t] = "draining"]
  /\ ownDepth' = [ownDepth EXCEPT ![t] = depth[t]]
  /\ UNCHANGED <<epoch, pending, running, taskVars, drained, overtaken, answer,
                 closings, lastLate>>

\* QuiesceForTeardown when the gate is no longer open.
QuiesceAgain(t) ==
  /\ InOwnCode(t)
  /\ gstate # "Open"
  /\ answer' = [answer EXCEPT ![t] = IF running <= depth[t] THEN "yes" ELSE "none"]
  /\ UNCHANGED <<gateVars, taskVars, localVars, closings, lastLate>>

\* The drain loop at its test: nothing that it pumped is on its stack.
AtTest(t) == phase[t] = "draining" /\ depth[t] = ownDepth[t]
\* Leaving the loop.
LeaveLoop(t, d) ==
  /\ phase' = [phase EXCEPT ![t] = "closing"]
  /\ drained' = [drained EXCEPT ![t] = d]
  /\ UNCHANGED <<gateVars, taskVars, ownDepth, overtaken, answer, closings, lastLate>>

\* Mutant for DrainedMeansQuiet: the drain ignores running tasks.
PendingOnlyDrained(t) == AtTest(t) /\ pending = 0 /\ LeaveLoop(t, TRUE)

\* Mutant for DiscardsOnlyWhenLate: the drain ignores queued posts.
RunningOnlyDrained(t) == AtTest(t) /\ running <= ownDepth[t] /\ LeaveLoop(t, TRUE)

\* The drain loop's test.  The enclosing gated tasks of the caller count as
\* running, so it compares with own_depth.
QuiesceDrained(t) ==
  /\ AtTest(t)
  /\ pending = 0 /\ running <= ownDepth[t]
  /\ LeaveLoop(t, TRUE)

\* Mutant for QuiesceReturns: the deadline counts only once nothing is queued.
EmptyTimeout(t) ==
  /\ AtTest(t)
  /\ pending = 0 /\ running > ownDepth[t]
  /\ LeaveLoop(t, FALSE)

\* The test fails at the drain loop's deadline.
QuiesceTimeout(t) ==
  /\ AtTest(t)
  /\ ~(pending = 0 /\ running <= ownDepth[t])
  /\ LeaveLoop(t, FALSE)

\* The second critical section, and the return.  The code returns drained; the
\* answer also keeps whether the gate was reopened over the call.
QuiesceClose(t) ==
  /\ phase[t] = "closing"
  /\ gstate' = "Closed"
  /\ answer' = [answer EXCEPT ![t] = IF ~drained[t] THEN "none"
                                     ELSE IF overtaken[t] THEN "overtaken" ELSE "drained"]
  /\ phase' = [phase EXCEPT ![t] = "none"]
  /\ ownDepth' = [ownDepth EXCEPT ![t] = 0]
  /\ drained' = [drained EXCEPT ![t] = FALSE]
  /\ overtaken' = [overtaken EXCEPT ![t] = FALSE]
  /\ closings' = closings + 1
  /\ lastLate' = IF drained[t] /\ ~overtaken[t] THEN lastLate ELSE closings + 1
  /\ UNCHANGED <<epoch, pending, running, taskVars>>

\* Reopening ends the teardowns under way: their calls go on and close the gate
\* over posts of the new epoch, and a drain that is cut short counts as late.
EndTeardowns ==
  /\ overtaken' = [t \in Threads |-> phase[t] # "none"]
  /\ closings' = IF gstate = "Draining" THEN closings + 1 ELSE closings
  /\ lastLate' = IF gstate = "Draining" THEN closings + 1 ELSE lastLate
  /\ answer' = [t \in Threads |-> "none"]

\* Mutant for StaleStaysDead: reopening keeps the epoch.
ReopenSameEpoch ==
  /\ gstate # "Open"
  /\ closings <= MaxEpoch
  /\ gstate' = "Open"
  /\ EndTeardowns
  /\ UNCHANGED <<epoch, pending, running, taskVars, phase, ownDepth, drained>>

\* ReopenAfterTeardown, by whoever calls it and whenever.
Reopen ==
  /\ gstate # "Open"
  /\ epoch < MaxEpoch
  /\ epoch' = epoch + 1 /\ gstate' = "Open"
  /\ EndTeardowns
  /\ UNCHANGED <<pending, running, taskVars, phase, ownDepth, drained>>

--------------------------------------------------------------------------------
Next ==
  \/ \E t \in Threads, k \in Tasks :
       Post(t, k) \/ Schedule(t, k) \/ Begin(t, k) \/ Skip(t, k) \/ End(t, k)
  \/ \E k \in Tasks : Drop(k)
  \/ \E t \in Threads : QuiesceEnter(t) \/ QuiesceAgain(t)
  \/ \E t \in Threads : QuiesceDrained(t) \/ QuiesceTimeout(t) \/ QuiesceClose(t)
  \/ Reopen

Spec == Init /\ [][Next]_vars

(***************************************************************************)
(* Fairness.  A thread in the drain loop re-tests every 5 ms at the latest *)
(* and its deadline, on the steady clock, strikes.  A task that it pumps   *)
(* on its own stack ends.  Nothing is assumed of other threads, nor that a *)
(* queued task is ever reached: a quiesce called from a dedicated owner's  *)
(* or the coordinator's task is behind what that mailbox still holds.      *)
(***************************************************************************)
Fairness ==
  \A t \in Threads :
    /\ WF_vars(QuiesceDrained(t) \/ QuiesceTimeout(t))
    /\ WF_vars(QuiesceClose(t))
    /\ WF_vars(\E k \in Tasks : phase[t] = "draining" /\ End(t, k))

FairSpec == Spec /\ Fairness

--------------------------------------------------------------------------------
\* Types.  The counters are int64_t in the code and never go below zero.
TypeOK ==
  /\ gstate \in GateStates
  /\ epoch \in 0..MaxEpoch
  /\ pending \in Nat /\ running \in Nat
  /\ depth \in [Threads -> Nat]
  /\ status \in [Tasks -> {"idle", "queued", "running", "over"}]
  /\ stamp \in [Tasks -> 0..MaxEpoch]
  /\ host \in [Tasks -> Threads \cup {NoThread}]
  /\ level \in [Tasks -> Nat]
  /\ born \in [Tasks -> Nat] /\ closings \in Nat /\ lastLate \in Nat
  /\ settled \in [Posts -> BOOLEAN]
  /\ phase \in [Threads -> {"none", "draining", "closing"}]
  /\ ownDepth \in [Threads -> Nat]
  /\ drained \in [Threads -> BOOLEAN]
  /\ overtaken \in [Threads -> BOOLEAN]
  /\ answer \in [Threads -> {"none", "drained", "overtaken", "yes"}]

\* The two counters are exact at every moment: pending counts the accepted posts
\* still in some mailbox, running counts the frames on all stacks, and each
\* thread's t_gated_depth counts its own.  A wrapper settles in one of three
\* places (run, refused at run time, destroyed unrun) and is destroyed after each:
\* a missing or second settle, on whatever thread lets go of it last, would break it.
AccountingExact ==
  /\ pending = Cardinality(Unsettled)
  /\ running = Cardinality(Running)
  /\ \A t \in Threads : depth[t] = Cardinality(RunningOn(t))

\* No accepted work is left, and only t's own enclosing tasks are executing.
Quiet(t) == Unsettled = {} /\ \A k \in Running : host[k] = t

\* After QuiesceForTeardown returned true to the caller that drained the gate, and
\* until the gate is reopened, nothing gated is queued or executes on any other
\* thread: the caller may free what that work touches.  A call that the gate was
\* reopened under also returns true (overtaken), and this is not so for it.
DrainedMeansQuiet == \A t \in Threads : answer[t] = "drained" => Quiet(t)

\* The same promise for a call that found the gate already draining or closed.
\* AppRuntime.h documents one return value for both; the code answers this call
\* from running alone.
AgainMeansQuiet == \A t \in Threads : answer[t] = "yes" => Quiet(t)

\* A post or one-shot timer wrapped before a teardown never starts after it,
\* although the gate is open again and its mailbox still holds it.
StaleStaysDead ==
  [][\A k \in Posts \cup OneShots :
       status[k] = "queued" /\ status'[k] = "running" => born[k] = closings]_vars

\* The gate discards a post it accepted only if a teardown that ended after the
\* post ran out of its budget or was cut short by a reopening: one that drained
\* loses nothing.
DiscardsOnlyWhenLate ==
  [][\A t \in Threads, k \in Posts : Skip(t, k) => lastLate > born[k]]_vars

\* Unless tasks keep posting continuations, QuiesceForTeardown returns, at its
\* deadline at the latest: also with a post that no thread will ever reach, a task
\* elsewhere that never ends, tasks pumped on its own stack, which have to end
\* first and may themselves quiesce, and a gate reopened or closed meanwhile.
PostingStops == <>[][\A t \in Threads, k \in Posts : ~Post(t, k)]_vars
QuiesceReturns ==
  PostingStops => \A t \in Threads : phase[t] # "none" ~> phase[t] = "none"
================================================================================
