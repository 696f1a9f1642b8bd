------------------------------- MODULE RunAndWait -------------------------------
(***************************************************************************)
(* AppRuntime::RunAndWait (src/runtime/AppRuntime.cpp): a caller runs a    *)
(* task on an owner and waits for it, while the teardown gate drains,      *)
(* closes and reopens and while StopOwnerThreads takes the owner away.     *)
(* When the post is dropped the caller runs the task itself, standing in   *)
(* for the owner.                                                          *)
(*                                                                         *)
(* A Dedicated owner has a thread.  A Manual one is drained by callers, in *)
(* RunAndWait, and by whatever thread quiesces, drains or pumps (Servers), *)
(* each in passes of RunPending that may overlap (see OwnerThread).  The   *)
(* gate decides by GateRules.  A caller posts a reference to its task, so  *)
(* the posted wrapper must not run after the caller has returned.          *)
(***************************************************************************)
EXTENDS GateRules, SequencesExt, FiniteSets

CONSTANTS
  Callers,    \* threads that call RunAndWait
  Gated,      \* those of them that do it from inside a gated task
  Servers,    \* threads that run the owner's tasks outside RunAndWait
  Loop,       \* the one that a Dedicated owner has
  Others,     \* other tasks posted to the owner
  None,
  MayThrow,   \* whether a caller's task may throw
  MaxEpoch,   \* bound on reopenings, named for TLC
  MaxPosts    \* bound on calls and posts together: a manual drain of an owner to
              \* which others post on and on does not return (RunPending,
              \* OwnerThread.cpp)

ASSUME ConstantsAssumption ==
  /\ Gated \subseteq Callers /\ Loop \in Servers /\ Callers \cap Servers = {}
  /\ Callers \cap Others = {} /\ None \notin Callers \cup Others
  /\ MayThrow \in BOOLEAN /\ MaxEpoch \in Nat /\ MaxPosts \in Nat

Items == Callers \cup Others    \* what the owner's queue can hold
Runners == Callers \cup Servers \* whose stack may run it

VARIABLES
  mode,        \* Mode() of the owner
  gstate, epoch, stamp,   \* the gate, and the epoch each wrapper captured
  late,        \* the gate was closed by a quiesce that ran out of its budget
  registered,  \* the owner's slot of g_owners
  stopAt,      \* how far StopOwnerThreads is with it
  queue, dropped,         \* OwnerThread::tasks_ and Stop's local deque
  hand, handAt,  \* the item each thread has taken, and how far it is
  pass,        \* RunPending of a Manual owner: "out", "in", or "ran" something
  exited,      \* the dedicated thread has left its loop
  posts,       \* how many calls and posts were made
  at,          \* where each caller is
  settled,     \* RunAndWaitState: "no", "ran" or "dropped"
  runs,        \* history: how often the caller's task was started
  threw,       \* history: whether it threw
  stolen       \* history: another thread's pass took the caller's wrapper

gateVars == <<gstate, epoch, stamp, late>>
stopVars == <<mode, registered, stopAt, dropped, exited>>
runVars == <<hand, handAt, pass>>
workVars == <<queue, posts, runVars>>
ownerVars == <<stopVars, workVars>>
waitVars == <<at, settled>>
callVars == <<waitVars, runs, threw, stolen>>
vars == <<gateVars, ownerVars, callVars>>

Init ==
  /\ mode \in {"Dedicated", "Manual"}
  /\ gstate = "Open" /\ epoch = 0 /\ late = FALSE
  /\ stamp = [i \in Items |-> 0]
  /\ registered = TRUE /\ stopAt = "none" /\ posts = 0
  /\ queue = <<>> /\ dropped = <<>>
  /\ hand = [r \in Runners |-> None] /\ handAt = [r \in Runners |-> "none"]
  /\ pass = [r \in Runners |-> "out"] /\ exited = FALSE
  /\ at = [c \in Callers |-> "idle"]
  /\ settled = [c \in Callers |-> "no"]
  /\ runs = [c \in Callers |-> 0]
  /\ threw = [c \in Callers |-> FALSE]
  /\ stolen = [c \in Callers |-> FALSE]

Outside == {"idle", "returned"}    \* a caller outside RunAndWait
Stopped == stopAt \in {"stopping", "dropping", "done"}

\* What threads hold at one of these stages.
HandsAt(stages) == {hand[r] : r \in {q \in Runners : handAt[q] \in stages}}

\* Wrappers that were accepted and have not run or been destroyed.
Accepted == ToSet(queue) \cup ToSet(dropped)
            \cup {c \in Callers : at[c] = "push"} \cup HandsAt({"popped"})
\* Gated tasks executing: the owner's, and those that callers are inside.
Executing == HandsAt({"body", "leaving"}) \cup {c \in Gated : at[c] \notin Outside}
\* A wrapper of i is somewhere.
Alive(i) == i \in Accepted \cup HandsAt({"body", "leaving"})

Settle(c, how) == [settled EXCEPT ![c] = IF @ = "no" THEN how ELSE @]
\* Mutant for CallReturns: a post that is destroyed unrun does not settle its wait.
DropUnsettled(i) == settled

DropItem(i) == IF i \in Callers THEN Settle(i, "dropped") ELSE settled

--------------------------------------------------------------------------------
(* The caller. *)

\* RunAndWait from another thread: the owner is looked up.  A gated caller's
\* enclosing task started before the gate closed.  A caller has one wrapper at a
\* time: it calls again when the one of its last call is gone.
Call(c) ==
  /\ at[c] \in Outside /\ posts < MaxPosts
  /\ c \in Gated => gstate # "Closed"
  /\ ~Alive(c)
  /\ posts' = posts + 1
  /\ IF registered
       THEN at' = [at EXCEPT ![c] = "target"] /\ runs' = [runs EXCEPT ![c] = 0]
       ELSE at' = [at EXCEPT ![c] = "standin"] /\ runs' = [runs EXCEPT ![c] = 1]
  /\ settled' = [settled EXCEPT ![c] = "no"]
  /\ threw' = [threw EXCEPT ![c] = FALSE]
  /\ stolen' = [stolen EXCEPT ![c] = FALSE]
  /\ UNCHANGED <<gateVars, stopVars, queue, runVars>>

WaitAt == IF mode = "Manual" THEN "draining" ELSE "wait"

\* PostTo up to GateTask's decision; a refused post is destroyed here.
PostTo(c) ==
  /\ at[c] = "target"
  /\ IF registered /\ AcceptsPost(gstate, IF c \in Gated THEN 1 ELSE 0)
       THEN /\ at' = [at EXCEPT ![c] = "push"]
            /\ stamp' = [stamp EXCEPT ![c] = epoch]
            /\ UNCHANGED settled
       ELSE /\ at' = [at EXCEPT ![c] = WaitAt]
            /\ settled' = Settle(c, "dropped")
            /\ UNCHANGED stamp
  /\ UNCHANGED <<gstate, epoch, late, ownerVars, runs, threw, stolen>>

\* OwnerThread::Post: queued, or destroyed unrun by a stopped owner.
Push(c) ==
  /\ at[c] = "push"
  /\ at' = [at EXCEPT ![c] = WaitAt]
  /\ IF Stopped
       THEN settled' = Settle(c, "dropped") /\ UNCHANGED queue
       ELSE queue' = Append(queue, c) /\ UNCHANGED settled
  /\ UNCHANGED <<gateVars, stopVars, runVars, posts, runs, threw, stolen>>

GoesOn(c, from, to) ==
  /\ at[c] = from
  /\ at' = [at EXCEPT ![c] = to]
  /\ UNCHANGED <<gateVars, ownerVars, settled, runs, threw, stolen>>

\* Mutant for NoDanglingTask: the wait gives up after its first five seconds.
WaitedOnce(c) == GoesOn(c, "wait", "check")

\* The wait on the condition variable ends.
Waited(c) == settled[c] # "no" /\ GoesOn(c, "wait", "check")

\* Manual: the loop over RunOwnerTasks ends, settled or without an owner to run.
DrainOver(c) ==
  /\ pass[c] = "out" /\ (settled[c] # "no" \/ ~registered)
  /\ GoesOn(c, "draining", "check")

\* Mutant for RanOnce: a dropped post counts as run.
CheckSettled(c) ==
  /\ at[c] = "check"
  /\ IF settled[c] # "no"
       THEN at' = [at EXCEPT ![c] = "returned"] /\ UNCHANGED runs
       ELSE /\ at' = [at EXCEPT ![c] = "standin"]
            /\ runs' = [runs EXCEPT ![c] = @ + 1]
  /\ UNCHANGED <<gateVars, ownerVars, settled, threw, stolen>>

\* Ran(): done, or run the task here.
CheckRan(c) ==
  /\ at[c] = "check"
  /\ IF settled[c] = "ran"
       THEN at' = [at EXCEPT ![c] = "returned"] /\ UNCHANGED runs
       ELSE /\ at' = [at EXCEPT ![c] = "standin"]
            /\ runs' = [runs EXCEPT ![c] = @ + 1]
  /\ UNCHANGED <<gateVars, ownerVars, settled, threw, stolen>>

\* RunStandingIn's task returns or throws.
StandInEnds(c) == GoesOn(c, "standin", "returned")

--------------------------------------------------------------------------------
(* The owner. *)

\* Another post to the owner, from outside or as a continuation of its task.
PostOther(k) ==
  /\ registered /\ ~Stopped /\ posts < MaxPosts
  /\ ~Alive(k)
  /\ \E depth \in {0, 1} :
       /\ depth = 1 => HandsAt({"body"}) # {}
       /\ AcceptsPost(gstate, depth)
  /\ queue' = Append(queue, k)
  /\ stamp' = [stamp EXCEPT ![k] = epoch]
  /\ posts' = posts + 1
  /\ UNCHANGED <<gstate, epoch, late, stopVars, runVars, callVars>>

\* RunOwnerTasks of a Manual owner that is still registered: a pass of RunPending
\* begins, of a caller in its loop or of any thread that serves.
StartPass(r) ==
  /\ mode = "Manual" /\ registered /\ pass[r] = "out"
  /\ r \in Callers => at[r] = "draining" /\ settled[r] = "no"
  /\ pass' = [pass EXCEPT ![r] = "in"]
  /\ UNCHANGED <<gateVars, stopVars, queue, hand, handAt, posts, callVars>>

\* The next item is taken: by the dedicated thread, or in somebody's pass.
Pop(r) ==
  /\ ~Stopped /\ queue # <<>> /\ hand[r] = None
  /\ IF mode = "Manual" THEN pass[r] # "out" ELSE r = Loop
  /\ hand' = [hand EXCEPT ![r] = Head(queue)]
  /\ handAt' = [handAt EXCEPT ![r] = "popped"]
  /\ queue' = Tail(queue)
  /\ pass' = [pass EXCEPT ![r] = IF mode = "Manual" THEN "ran" ELSE @]
  /\ stolen' = [c \in Callers |->
       stolen[c] \/ (mode = "Manual" /\ Head(queue) = c /\ r # c)]
  /\ UNCHANGED <<gateVars, stopVars, posts, waitVars, runs, threw>>

\* RunPending returns: the queue is empty, or the owner stopped.  A caller whose
\* pass ran nothing leaves its loop.
EndPass(r) ==
  /\ pass[r] # "out" /\ hand[r] = None /\ (Stopped \/ queue = <<>>)
  /\ pass' = [pass EXCEPT ![r] = "out"]
  /\ at' = [c \in Callers |-> IF c = r /\ pass[r] = "in" THEN "check" ELSE at[c]]
  /\ UNCHANGED <<gateVars, stopVars, queue, hand, handAt, posts, settled, runs, threw,
                 stolen>>

\* The gate's wrapper: the task starts, or is skipped and destroyed.
RunWrapper(r) ==
  /\ handAt[r] = "popped"
  /\ MayRun(Posted, gstate, epoch, stamp[hand[r]])
  /\ handAt' = [handAt EXCEPT ![r] = "body"]
  /\ runs' = IF hand[r] \in Callers THEN [runs EXCEPT ![hand[r]] = @ + 1] ELSE runs
  /\ UNCHANGED <<gateVars, stopVars, queue, hand, pass, posts, waitVars, threw, stolen>>

\* RunTask destroys the wrapper: what is not settled by now settles as dropped.
LetGo(r) ==
  /\ hand' = [hand EXCEPT ![r] = None] /\ handAt' = [handAt EXCEPT ![r] = "none"]
  /\ settled' = DropItem(hand[r])
  /\ UNCHANGED <<gateVars, stopVars, queue, pass, posts, at, runs, threw, stolen>>

SkipWrapper(r) ==
  /\ handAt[r] = "popped"
  /\ ~MayRun(Posted, gstate, epoch, stamp[hand[r]])
  /\ LetGo(r)

\* The task returns, and RunAndWait's wrapper settles as run.
BodyReturns(r) ==
  /\ handAt[r] = "body"
  /\ handAt' = [handAt EXCEPT ![r] = "leaving"]
  /\ settled' = IF hand[r] \in Callers THEN Settle(hand[r], "ran") ELSE settled
  /\ UNCHANGED <<gateVars, stopVars, queue, hand, pass, posts, at, runs, threw, stolen>>

\* The task throws past the wrapper's Settle(true).
BodyThrows(r) ==
  /\ handAt[r] = "body" /\ MayThrow /\ hand[r] \in Callers
  /\ handAt' = [handAt EXCEPT ![r] = "leaving"]
  /\ threw' = [threw EXCEPT ![hand[r]] = TRUE]
  /\ UNCHANGED <<gateVars, stopVars, queue, hand, pass, posts, waitVars, runs, stolen>>

\* The gate's Leave.
Leave(r) == handAt[r] = "leaving" /\ LetGo(r)

--------------------------------------------------------------------------------
(* StopOwnerThreads. *)

Unregister ==
  /\ stopAt = "none"
  /\ registered' = FALSE /\ stopAt' = "unregistered"
  /\ UNCHANGED <<gateVars, mode, dropped, exited, workVars, callVars>>

StopOwner ==
  /\ stopAt = "unregistered"
  /\ stopAt' = "stopping"
  /\ dropped' = queue /\ queue' = <<>>
  /\ UNCHANGED <<gateVars, mode, registered, exited, runVars, posts, callVars>>

ExitLoop ==
  /\ mode = "Dedicated" /\ Stopped /\ hand[Loop] = None /\ ~exited
  /\ exited' = TRUE
  /\ UNCHANGED <<gateVars, mode, registered, stopAt, dropped, workVars, callVars>>

\* Mutant for StandInAlone: Stop detaches the thread, then drops the queue.
Detached ==
  /\ stopAt = "stopping"
  /\ stopAt' = "dropping"
  /\ UNCHANGED <<gateVars, mode, registered, dropped, exited, workVars, callVars>>

\* Joined; a manual owner has no thread to join.
Joined ==
  /\ stopAt = "stopping"
  /\ mode = "Dedicated" => exited
  /\ stopAt' = "dropping"
  /\ UNCHANGED <<gateVars, mode, registered, dropped, exited, workVars, callVars>>

DropQueued ==
  /\ stopAt = "dropping"
  /\ IF dropped = <<>>
       THEN stopAt' = "done" /\ UNCHANGED <<dropped, settled>>
       ELSE /\ dropped' = Tail(dropped)
            /\ settled' = DropItem(Head(dropped))
            /\ UNCHANGED stopAt
  /\ UNCHANGED <<gateVars, mode, registered, exited, workVars, at, runs, threw, stolen>>

--------------------------------------------------------------------------------
(* The gate (see TeardownGate).  The thread that quiesces is none of the       *)
(* callers; with a Manual owner it is one of the servers, whose drain loop     *)
(* pumps the owner in between and closes outside a pass.                       *)

Drain ==
  /\ gstate = "Open" /\ gstate' = "Draining"
  /\ UNCHANGED <<epoch, stamp, late, ownerVars, callVars>>

CloseGate ==
  /\ gstate = "Draining" /\ gstate' = "Closed"
  /\ mode = "Manual" => \E r \in Servers : pass[r] = "out"
  /\ late' = ~(Accepted = {} /\ Executing = {})
  /\ UNCHANGED <<epoch, stamp, ownerVars, callVars>>

Reopen ==
  /\ gstate = "Closed" /\ epoch < MaxEpoch
  /\ gstate' = "Open" /\ epoch' = epoch + 1 /\ late' = FALSE
  /\ UNCHANGED <<stamp, ownerVars, callVars>>

--------------------------------------------------------------------------------
CallStep(c) ==
  PostTo(c) \/ Push(c) \/ Waited(c) \/ DrainOver(c) \/ CheckRan(c) \/ StandInEnds(c)
  \/ StartPass(c)
RunStep(r) ==
  Pop(r) \/ EndPass(r) \/ RunWrapper(r) \/ SkipWrapper(r) \/ BodyReturns(r)
  \/ BodyThrows(r) \/ Leave(r)
StopStep == StopOwner \/ Joined \/ DropQueued

Next ==
  \/ \E c \in Callers : Call(c) \/ CallStep(c)
  \/ \E k \in Others : PostOther(k)
  \/ \E r \in Runners : RunStep(r)
  \/ \E r \in Servers : StartPass(r)
  \/ ExitLoop \/ StopStep \/ Unregister
  \/ Drain \/ CloseGate \/ Reopen

Spec == Init /\ [][Next]_vars

\* Threads run on and tasks end; nobody need ever call, serve, tear down or shut
\* down, but a pass or a shutdown that began goes on.
Fairness ==
  /\ \A c \in Callers : WF_vars(CallStep(c))
  /\ \A r \in Runners : WF_vars(RunStep(r))
  /\ WF_vars(ExitLoop) /\ WF_vars(StopStep)

FairSpec == Spec /\ Fairness

--------------------------------------------------------------------------------
TypeOK ==
  /\ mode \in {"Dedicated", "Manual"}
  /\ gstate \in GateStates /\ epoch \in 0..MaxEpoch /\ late \in BOOLEAN
  /\ stamp \in [Items -> 0..MaxEpoch]
  /\ registered \in BOOLEAN /\ exited \in BOOLEAN /\ posts \in 0..MaxPosts
  /\ stopAt \in {"none", "unregistered", "stopping", "dropping", "done"}
  /\ queue \in Seq(Items) /\ dropped \in Seq(Items)
  /\ hand \in [Runners -> Items \cup {None}]
  /\ handAt \in [Runners -> {"none", "popped", "body", "leaving"}]
  /\ pass \in [Runners -> {"out", "in", "ran"}]
  /\ at \in [Callers -> {"idle", "target", "push", "wait", "draining", "check",
                         "standin", "returned"}]
  /\ settled \in [Callers -> {"no", "ran", "dropped"}]
  /\ runs \in [Callers -> 0..2] /\ threw \in [Callers -> BOOLEAN]
  /\ stolen \in [Callers -> BOOLEAN]

\* RunAndWait returns after its task has run, whatever the gate and the shutdown
\* did in between, and has run it once unless the task threw or, with a Manual
\* owner, another thread's pass had taken the wrapper: the caller's own pass then
\* runs nothing, and it does not wait for the other thread.
RanOnce ==
  \A c \in Callers : at[c] = "returned" =>
    /\ runs[c] >= 1
    /\ runs[c] > 1 => threw[c] \/ stolen[c]

\* The posted wrapper holds a reference into the caller's frame: it is never
\* called once the caller has left the wait, again unless another thread took it
\* from a Manual owner.
NoDanglingTask ==
  \A c \in Callers, r \in Runners :
    hand[r] = c /\ handAt[r] = "body" /\ ~stolen[c] => at[c] \in {"wait", "draining"}

\* The same for every caller of a Manual owner, which the code does not keep.
ManualWaits ==
  \A c \in Callers, r \in Runners :
    mode = "Manual" /\ hand[r] = c /\ handAt[r] = "body" => at[c] = "draining"

\* What makes a stand-in sound: once a teardown has drained and closed the gate, or
\* a Dedicated owner has been joined, no task of the owner runs beside it.  Nothing
\* joins the threads that drain a Manual owner.
OwnerAtRest ==
  \/ gstate = "Closed" /\ ~late
  \/ mode = "Dedicated" /\ stopAt \in {"dropping", "done"}

StandInAlone ==
  \A c \in Callers : at[c] = "standin" /\ OwnerAtRest => HandsAt({"body"}) = {}

\* RunAndWait returns: its post runs, or is dropped and settles the wait.
CallReturns == \A c \in Callers : at[c] \notin Outside ~> at[c] = "returned"

\* What the comment on RunAndWait's last branch says of a caller whose post was
\* dropped: nobody else runs the owner's state.
OwnerExclusive ==
  \A c \in Callers : 
    at[c] = "standin" /\ settled[c] = "dropped" => HandsAt({"body"}) = {}

\* The caller runs the task only if the owner does not: AppRuntime.h allows the
\* inline run when there is no owner or the post was dropped.  (A task whose wrapper
\* another thread took may also run twice, for another reason: see RanOnce.)
NeverTwice == \A c \in Callers : runs[c] > 1 => stolen[c]
================================================================================
