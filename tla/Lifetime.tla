-------------------------------- MODULE Lifetime --------------------------------
(***************************************************************************)
(* One pp::Lifetime (include/common/Lifetime.h): the generation that an    *)
(* owner bumps to kill what it bound, the count of bound calls in progress,*)
(* and InvalidateAndWait's wait on that count (std::atomic::wait).         *)
(*                                                                         *)
(* Each access to one of the two atomics is a step of its own; all are     *)
(* seq_cst, so the steps interleave.  A call is one invocation of a bound  *)
(* callable; calls nest on a thread's stack.                               *)
(***************************************************************************)
EXTENDS Integers, FiniteSets

CONSTANTS
  Threads, NoThread,
  Calls,           \* invocations of bound callables, any number at a time
  MaxGeneration    \* bound on invalidations, named for TLC

ASSUME ThreadsAssumption == NoThread \notin Threads
ASSUME CallsAssumption == IsFiniteSet(Calls)
ASSUME GenerationAssumption == MaxGeneration \in Nat

VARIABLES
  generation,  \* State::generation
  inside,      \* State::inside
  at,          \* how far each call is
  snapshot,    \* the generation it was bound in
  host,        \* the thread it runs on
  level,       \* its depth among the calls of that thread
  waitAt,      \* where a thread is in InvalidateAndWait
  mine,        \* its mine
  now,         \* its now
  target,      \* the generation its own Invalidate produced
  assured      \* history: the target of its last InvalidateAndWait to return

stateVars == <<generation, inside>>
callVars == <<at, snapshot, host, level>>
waitVars == <<waitAt, mine, now, target, assured>>
vars == <<stateVars, callVars, waitVars>>

\* The calls that are counted in inside, and those on a thread's stack (the
\* thread-local Entered list, and a call about to notify).
Inside == {c \in Calls : at[c] \in {"counted", "body", "leaving"}}
Stack(t) == {c \in Calls : at[c] \notin {"unbound", "bound"} /\ host[c] = t}
Entered(t) == {c \in Inside : host[c] = t}
Innermost(t, c) == host[c] = t /\ level[c] = Cardinality(Stack(t))

\* Thread t executes the owner's or a callable's own code.
InCode(t) ==
  /\ waitAt[t] = "none"
  /\ \A c \in Stack(t) : at[c] = "body"

Init ==
  /\ generation = 0 /\ inside = 0
  /\ at = [c \in Calls |-> "unbound"]
  /\ snapshot = [c \in Calls |-> 0]
  /\ host = [c \in Calls |-> NoThread]
  /\ level = [c \in Calls |-> 0]
  /\ waitAt = [t \in Threads |-> "none"]
  /\ mine = [t \in Threads |-> 0] /\ now = [t \in Threads |-> 0]
  /\ target = [t \in Threads |-> 0] /\ assured = [t \in Threads |-> 0]

--------------------------------------------------------------------------------
Bind(t, c) ==
  /\ InCode(t) /\ at[c] = "unbound"
  /\ at' = [at EXCEPT ![c] = "bound"]
  /\ snapshot' = [snapshot EXCEPT ![c] = generation]
  /\ UNCHANGED <<stateVars, host, level, waitVars>>

\* The bound callable is invoked: counted before the check.
Enter(t, c) ==
  /\ InCode(t) /\ at[c] = "bound"
  /\ inside' = inside + 1
  /\ at' = [at EXCEPT ![c] = "counted"]
  /\ host' = [host EXCEPT ![c] = t]
  /\ level' = [level EXCEPT ![c] = Cardinality(Stack(t)) + 1]
  /\ UNCHANGED <<generation, snapshot, waitVars>>

Check(t, c) ==
  /\ at[c] = "counted" /\ host[c] = t
  /\ at' = [at EXCEPT ![c] = IF generation = snapshot[c] THEN "body" ELSE "leaving"]
  /\ UNCHANGED <<stateVars, snapshot, host, level, waitVars>>

\* The callable returns or throws.
Finish(t, c) ==
  /\ at[c] = "body" /\ Innermost(t, c) /\ InCode(t)
  /\ at' = [at EXCEPT ![c] = "leaving"]
  /\ UNCHANGED <<stateVars, snapshot, host, level, waitVars>>

\* ~Inside: first the count, then the notification.
Leave(t, c) ==
  /\ at[c] = "leaving" /\ host[c] = t
  /\ inside' = inside - 1
  /\ at' = [at EXCEPT ![c] = "notifying"]
  /\ UNCHANGED <<generation, snapshot, host, level, waitVars>>

\* notify_all.  The callable may be invoked again, or is gone.
Notify(t, c) ==
  /\ at[c] = "notifying" /\ host[c] = t
  /\ waitAt' = [u \in Threads |-> IF waitAt[u] = "asleep" THEN "block" ELSE waitAt[u]]
  /\ \/ at' = [at EXCEPT ![c] = "bound"] /\ UNCHANGED snapshot
     \/ /\ at' = [at EXCEPT ![c] = "unbound"]
        /\ snapshot' = [snapshot EXCEPT ![c] = 0]
  /\ host' = [host EXCEPT ![c] = NoThread]
  /\ level' = [level EXCEPT ![c] = 0]
  /\ UNCHANGED <<stateVars, mine, now, target, assured>>

Invalidate(t) ==
  /\ InCode(t) /\ generation < MaxGeneration
  /\ generation' = generation + 1
  /\ UNCHANGED <<inside, callVars, waitVars>>

--------------------------------------------------------------------------------
\* Mutant for NoneRunsAfterReturn: InvalidateAndWait forgets to invalidate.
WaitWithoutBump(t) ==
  /\ InCode(t) /\ generation < MaxGeneration
  /\ target' = [target EXCEPT ![t] = generation + 1]
  /\ mine' = [mine EXCEPT ![t] = Cardinality(Entered(t))]
  /\ waitAt' = [waitAt EXCEPT ![t] = "load"]
  /\ UNCHANGED <<stateVars, callVars, now, assured>>

\* Mutant for InvalidateReturns: the caller waits for its own calls too.
WaitForAll(t) ==
  /\ InCode(t) /\ generation < MaxGeneration
  /\ generation' = generation + 1
  /\ target' = [target EXCEPT ![t] = generation + 1]
  /\ mine' = [mine EXCEPT ![t] = 0]
  /\ waitAt' = [waitAt EXCEPT ![t] = "load"]
  /\ UNCHANGED <<inside, callVars, now, assured>>

\* InvalidateAndWait: the bump, and the calls of this thread itself.
InvalidateAndWait(t) ==
  /\ InCode(t) /\ generation < MaxGeneration
  /\ generation' = generation + 1
  /\ target' = [target EXCEPT ![t] = generation + 1]
  /\ mine' = [mine EXCEPT ![t] = Cardinality(Entered(t))]
  /\ waitAt' = [waitAt EXCEPT ![t] = "load"]
  /\ UNCHANGED <<inside, callVars, now, assured>>

\* The load that returns: nothing but this thread's own calls is counted.
LoadQuiet(t) ==
  /\ waitAt[t] = "load" /\ inside <= mine[t]
  /\ waitAt' = [waitAt EXCEPT ![t] = "none"]
  /\ assured' = [assured EXCEPT ![t] = target[t]]
  /\ target' = [target EXCEPT ![t] = 0] /\ mine' = [mine EXCEPT ![t] = 0]
  /\ UNCHANGED <<stateVars, callVars, now>>

LoadBusy(t) ==
  /\ waitAt[t] = "load" /\ inside > mine[t]
  /\ now' = [now EXCEPT ![t] = inside]
  /\ waitAt' = [waitAt EXCEPT ![t] = "block"]
  /\ UNCHANGED <<stateVars, callVars, mine, target, assured>>

\* atomic::wait(now): compares and sleeps in one step; a notified thread
\* compares again.
Block(t) ==
  /\ waitAt[t] = "block"
  /\ \/ inside = now[t] /\ waitAt' = [waitAt EXCEPT ![t] = "asleep"] /\ UNCHANGED now
     \/ /\ inside # now[t] /\ waitAt' = [waitAt EXCEPT ![t] = "load"]
        /\ now' = [now EXCEPT ![t] = 0]
  /\ UNCHANGED <<stateVars, callVars, mine, target, assured>>

--------------------------------------------------------------------------------
Next ==
  \/ \E t \in Threads, c \in Calls :
       \/ Bind(t, c) \/ Enter(t, c) \/ Check(t, c)
       \/ Finish(t, c) \/ Leave(t, c) \/ Notify(t, c)
  \/ \E t \in Threads :
       \/ Invalidate(t) \/ InvalidateAndWait(t)
       \/ LoadQuiet(t) \/ LoadBusy(t) \/ Block(t)

Spec == Init /\ [][Next]_vars

\* A running thread runs on, and a bound callable that is not blocked returns.
Fairness ==
  /\ \A t \in Threads, c \in Calls :
       WF_vars(Check(t, c) \/ Finish(t, c) \/ Leave(t, c) \/ Notify(t, c))
  /\ \A t \in Threads : WF_vars(LoadQuiet(t) \/ LoadBusy(t) \/ Block(t))

FairSpec == Spec /\ Fairness

--------------------------------------------------------------------------------
TypeOK ==
  /\ generation \in 0..MaxGeneration /\ inside \in Nat
  /\ at \in [Calls -> {"unbound", "bound", "counted", "body", "leaving", "notifying"}]
  /\ snapshot \in [Calls -> 0..MaxGeneration]
  /\ host \in [Calls -> Threads \cup {NoThread}]
  /\ level \in [Calls -> Nat]
  /\ waitAt \in [Threads -> {"none", "load", "block", "asleep"}]
  /\ mine \in [Threads -> Nat] /\ now \in [Threads -> Nat]
  /\ target \in [Threads -> 0..MaxGeneration]
  /\ assured \in [Threads -> 0..MaxGeneration]

\* inside counts the bound calls between their entry and their exit, dead ones
\* included, however they nest and leave.
InsideExact == inside = Cardinality(Inside)

\* Once InvalidateAndWait has returned to t, no call bound before it runs on
\* another thread, then or ever: a call that was counted was waited for, and a
\* call counted later sees the new generation.
NoneRunsAfterReturn ==
  \A t \in Threads, c \in Calls :
    at[c] = "body" /\ host[c] # t => snapshot[c] >= assured[t]

\* Two bound calls that wait for each other's end.
Standoff ==
  \E t, u \in Threads :
    t # u /\ waitAt[t] # "none" /\ waitAt[u] # "none" /\ mine[t] > 0 /\ mine[u] > 0

\* InvalidateAndWait returns once callers stop coming (each passing call may
\* keep the count from being seen at zero), except in a standoff: no wake-up is
\* lost between its load and its sleep.
CallersStop == <>[][\A t \in Threads, c \in Calls : ~Enter(t, c)]_vars
InvalidateReturns ==
  CallersStop =>
    \A t \in Threads : waitAt[t] # "none" ~> (waitAt[t] = "none" \/ Standoff)
================================================================================
