----------------------------- MODULE OwnerTasks -----------------------------
(***************************************************************************)
(* One object's work on an owner thread: OwnerTasks and its shared Handle  *)
(* (OwnerTasks.cpp), over RuntimeOwnerExecutor (RuntimeOwnerExecutor.cpp), *)
(* which sends the work to the owner, or to the UI thread once the runtime *)
(* has no such owner, and its timers through the coordinator.              *)
(*                                                                         *)
(* The object lives on the thread that serves it: the owner, or after its  *)
(* join the UI thread, which is the one that shuts the owners down. Other  *)
(* threads reach it through the handle only; an outbox (OwnerOutbox.h) is  *)
(* three such calls. Lifetime is taken at its word: a bound call checks    *)
(* its generation once, on entry (module Lifetime).                        *)
(***************************************************************************)
EXTENDS Integers, Sequences, SequencesExt

CONSTANTS Callers,  \* threads that hold the handle
          Server,   \* the thread that serves the object
          Posts,    \* tasks given to Post and PostFront, each at most once
          Timers,   \* tasks given to After; a task stands for its timer id, too
          Nothing,
          MaxGen    \* bound on the generations, named for TLC

ASSUME AgentsAssumption == Server \notin Callers /\ Nothing \notin Callers \cup {Server}
ASSUME OwnTasksAssumption == Posts \cap Timers = {} /\ Nothing \notin Posts \cup Timers

VARIABLES
  host,      \* who runs posted work: "owner", "stopping" (its slot is empty,
             \* Stop is under way), "ui", or "closed" (the teardown gate is)
  queue,     \* the mailboxes: host -> sequence of tasks
  cur, curAt,\* the task the server took, and how far it is
  gen,       \* the Lifetime's generation
  bind,      \* the generation each task was bound in
  stage,     \* where each task is outside the mailbox
  timers,    \* timers_
  muFree,    \* nobody holds mu_
  open,      \* handle_->tasks_ is set
  door,      \* the thread inside the handle's mutex
  op,        \* what each thread is doing to the object
  doomed,    \* DropPending's local set
  alive,     \* the object exists
  cancelled  \* history: timers whose Cancel returned before their task began

taskVars == <<gen, bind, stage, timers, muFree>>
doorVars == <<open, door, alive>>
serverVars == <<host, queue, cur, curAt>>
ownerTasksVars == <<taskVars, doorVars, serverVars, op, doomed, cancelled>>

Tasks == Posts \cup Timers
Agents == Callers \cup {Server}
Idle == [kind |-> "idle", task |-> Nothing]
Doing(kind, t) == [kind |-> kind, task |-> t]

\* A thread at rest; the server is, between tasks and inside one.
AtRest(a) == op[a] = Idle /\ (a = Server => curAt \in {"none", "body"})

OwnerTasksInit ==
  /\ host \in {"owner", "ui"}
  /\ queue = [h \in {"owner", "ui"} |-> <<>>]
  /\ cur = Nothing /\ curAt = "none"
  /\ gen = 0 /\ bind = [t \in Tasks |-> 0] /\ stage = [t \in Tasks |-> "new"]
  /\ timers = {} /\ muFree = TRUE
  /\ open = TRUE /\ door = Nothing /\ alive = TRUE
  /\ op = [a \in Agents |-> Idle] /\ doomed = {} /\ cancelled = {}

--------------------------------------------------------------------------------
(* Calls. A caller's go through the handle, whose mutex it keeps to the end. *)

\* Handle::Post, After and Cancel: nothing once closed.
Call(a, kind, t) ==
  /\ AtRest(a) /\ \A b \in Agents : op[b].task # t
  /\ CASE kind = "post"   -> t \in Posts /\ stage[t] = "new"
       [] kind = "after"  -> t \in Timers /\ stage[t] = "new"
       [] kind = "cancel" -> t \in Timers /\ stage[t] # "new"
  /\ IF a = Server THEN alive /\ UNCHANGED door ELSE open /\ door = Nothing /\ door' = a
  /\ op' = [op EXCEPT ![a] = Doing(kind, t)]
  /\ UNCHANGED <<taskVars, open, alive, serverVars, doomed, cancelled>>

Done(a) == /\ op' = [op EXCEPT ![a] = Idle]
           /\ door' = IF door = a THEN Nothing ELSE door

\* HasOwner
Target == IF host = "owner" THEN "owner" ELSE "ui"

\* Post, first half: bound, and the owner looked up.
BindPost(a) ==
  /\ op[a].kind = "post"
  /\ bind' = [bind EXCEPT ![op[a].task] = gen]
  /\ op' = [op EXCEPT ![a].kind = Target]
  /\ UNCHANGED <<gen, stage, timers, muFree, doorVars, serverVars, doomed, cancelled>>

\* PostTo or PostUI: in the mailbox, at either end, or destroyed when the owner
\* has gone meanwhile or the gate refuses.
Put(t, h, front) ==
  IF host = "closed" \/ (h = "owner" /\ host # "owner")
  THEN stage' = [stage EXCEPT ![t] = "refused"] /\ UNCHANGED queue
  ELSE /\ stage' = [stage EXCEPT ![t] = "queued"]
       /\ queue' = [queue EXCEPT ![h] = IF front THEN <<t>> \o @ ELSE Append(@, t)]

PutPost(a) ==
  /\ op[a].kind \in {"owner", "ui"}
  /\ \E front \in BOOLEAN : Put(op[a].task, op[a].kind, front)
  /\ Done(a)
  /\ UNCHANGED <<gen, bind, timers, muFree, open, alive, host, cur, curAt, doomed, cancelled>>

\* Mutant for TimersExact: the task is bound before mu_ is taken.
LockAfterBound(a) ==
  /\ op[a].kind = "after"
  /\ \/ /\ stage[op[a].task] = "new"
        /\ bind' = [bind EXCEPT ![op[a].task] = gen]
        /\ stage' = [stage EXCEPT ![op[a].task] = "armed"]
        /\ UNCHANGED <<op, muFree>>
     \/ /\ stage[op[a].task] # "new" /\ muFree
        /\ muFree' = FALSE /\ op' = [op EXCEPT ![a].kind = "record"]
        /\ UNCHANGED <<bind, stage>>
  /\ UNCHANGED <<gen, timers, doorVars, serverVars, doomed, cancelled>>

\* After: mu_ is taken, ...
LockAfter(a) ==
  /\ op[a].kind = "after" /\ muFree
  /\ muFree' = FALSE
  /\ op' = [op EXCEPT ![a].kind = "schedule"]
  /\ UNCHANGED <<gen, bind, stage, timers, doorVars, serverVars, doomed, cancelled>>

\* ... the task is bound and the coordinator's timer armed, or 0 returned, ...
Schedule(a) ==
  /\ op[a].kind = "schedule"
  /\ bind' = [bind EXCEPT ![op[a].task] = gen]
  /\ IF host = "closed"
     THEN stage' = [stage EXCEPT ![op[a].task] = "refused"] /\ Done(a) /\ muFree' = TRUE
     ELSE /\ stage' = [stage EXCEPT ![op[a].task] = "armed"]
          /\ op' = [op EXCEPT ![a].kind = "record"]
          /\ UNCHANGED <<door, muFree>>
  /\ UNCHANGED <<gen, timers, open, alive, serverVars, doomed, cancelled>>

\* ... the id is recorded and mu_ given back.
Record(a) ==
  /\ op[a].kind = "record"
  /\ timers' = timers \cup {op[a].task}
  /\ muFree' = TRUE
  /\ Done(a)
  /\ UNCHANGED <<gen, bind, stage, open, alive, serverVars, doomed, cancelled>>

\* CancelCoordinatorTimer: a timer that has fired is not found.
Disarm(t) == stage' = [stage EXCEPT ![t] = IF @ = "armed" THEN "disarmed" ELSE @]

\* Cancel: the coordinator's timer, ...
CancelTimer(a) ==
  /\ op[a].kind = "cancel"
  /\ Disarm(op[a].task)
  /\ op' = [op EXCEPT ![a].kind = "erase"]
  /\ UNCHANGED <<gen, bind, timers, muFree, doorVars, serverVars, doomed, cancelled>>

\* The task began: its fired call has taken the id out of timers_.
Began(t) == stage[t] = "begun"

\* ... and the id.
Erase(a) ==
  /\ op[a].kind = "erase" /\ muFree
  /\ timers' = timers \ {op[a].task}
  /\ cancelled' = IF Began(op[a].task) THEN cancelled ELSE cancelled \cup {op[a].task}
  /\ Done(a)
  /\ UNCHANGED <<gen, bind, stage, muFree, open, alive, serverVars, doomed>>

--------------------------------------------------------------------------------
(* DropPending and Close, on the thread that serves the object. *)

Invalidate ==
  /\ AtRest(Server) /\ alive /\ gen < MaxGen
  /\ gen' = gen + 1
  /\ op' = [op EXCEPT ![Server] = Doing("swap", Nothing)]
  /\ UNCHANGED <<bind, stage, timers, muFree, doorVars, serverVars, doomed, cancelled>>

SwapTimers ==
  /\ op[Server].kind = "swap" /\ muFree
  /\ doomed' = timers /\ timers' = {}
  /\ op' = [op EXCEPT ![Server].kind = "disarm"]
  /\ UNCHANGED <<gen, bind, stage, muFree, doorVars, serverVars, cancelled>>

\* The last step: what is left of them is the destructor's end, if it called Close
\* and none of the object's tasks is on the stack.
CancelDropped ==
  /\ op[Server].kind = "disarm"
  /\ IF doomed = {}
     THEN /\ op' = [op EXCEPT ![Server] = Idle]
          /\ alive' \in IF open \/ curAt # "none" THEN {TRUE} ELSE {TRUE, FALSE}
          /\ UNCHANGED <<stage, doomed>>
     ELSE \E t \in doomed : Disarm(t) /\ doomed' = doomed \ {t} /\ UNCHANGED <<op, alive>>
  /\ UNCHANGED <<gen, bind, timers, muFree, open, door, serverVars, cancelled>>

\* Mutant for DoorHolds: Close does not wait for a handle call in flight.
CloseAtOnce ==
  /\ AtRest(Server) /\ alive /\ gen < MaxGen
  /\ open' = FALSE /\ gen' = gen + 1
  /\ op' = [op EXCEPT ![Server] = Doing("swap", Nothing)]
  /\ UNCHANGED <<bind, stage, timers, muFree, door, alive, serverVars, doomed, cancelled>>

\* Close, which the destructor calls once more, waits for the handle's mutex.
Close ==
  /\ AtRest(Server) /\ alive /\ door = Nothing /\ gen < MaxGen
  /\ open' = FALSE /\ gen' = gen + 1
  /\ op' = [op EXCEPT ![Server] = Doing("swap", Nothing)]
  /\ UNCHANGED <<bind, stage, timers, muFree, door, alive, serverVars, doomed, cancelled>>

--------------------------------------------------------------------------------
(* The coordinator. *)

\* A timer is due: its one-shot is gone, and its callback looks the owner up.
Fire(t) ==
  /\ stage[t] = "armed"
  /\ stage' = [stage EXCEPT ![t] = IF host = "closed" THEN "refused" ELSE Target]
  /\ UNCHANGED <<gen, bind, timers, muFree, doorVars, serverVars, op, doomed, cancelled>>

\* It posts the fired call.
PutFired(t) ==
  /\ stage[t] \in {"owner", "ui"}
  /\ Put(t, stage[t], FALSE)
  /\ UNCHANGED <<gen, bind, timers, muFree, doorVars, host, cur, curAt, op, doomed, cancelled>>

--------------------------------------------------------------------------------
(* The serving thread, and the end of the owner. *)

Serving == IF host \in {"owner", "stopping"} THEN "owner" ELSE "ui"

Pop ==
  /\ curAt = "none" /\ op[Server] = Idle /\ queue[Serving] # <<>>
  /\ cur' = Head(queue[Serving]) /\ curAt' = "popped"
  /\ queue' = [queue EXCEPT ![Serving] = Tail(@)]
  /\ UNCHANGED <<taskVars, doorVars, host, op, doomed, cancelled>>

Ended(how) == /\ cur' = Nothing /\ curAt' = "none"
              /\ stage' = [stage EXCEPT ![cur] = how]

\* The gate's wrapper and the bound call's check of the generation.
Enter ==
  /\ curAt = "popped"
  /\ IF host = "closed" THEN Ended("refused")
     ELSE IF bind[cur] # gen THEN Ended("stale")
     ELSE IF cur \in Timers THEN curAt' = "entered" /\ UNCHANGED <<cur, stage>>
     ELSE curAt' = "body" /\ stage' = [stage EXCEPT ![cur] = "begun"] /\ UNCHANGED cur
  /\ UNCHANGED <<gen, bind, timers, muFree, doorVars, host, queue, op, doomed, cancelled>>

\* Mutant for CancelIsFinal: a fired timer does not ask whether its id is there.
LookUpNot ==
  /\ curAt = "entered" /\ muFree
  /\ timers' = timers \ {cur}
  /\ curAt' = "body" /\ stage' = [stage EXCEPT ![cur] = "begun"] /\ UNCHANGED cur
  /\ UNCHANGED <<gen, bind, muFree, doorVars, host, queue, op, doomed, cancelled>>

\* A fired timer takes its id out of timers_, or was cancelled.
LookUp ==
  /\ curAt = "entered" /\ muFree
  /\ timers' = timers \ {cur}
  /\ IF cur \in timers
     THEN curAt' = "body" /\ stage' = [stage EXCEPT ![cur] = "begun"] /\ UNCHANGED cur
     ELSE Ended("cancelled")
  /\ UNCHANGED <<gen, bind, muFree, doorVars, host, queue, op, doomed, cancelled>>

Leave ==
  /\ curAt = "body" /\ op[Server] = Idle
  /\ cur' = Nothing /\ curAt' = "none"
  /\ UNCHANGED <<taskVars, doorVars, host, queue, op, doomed, cancelled>>

\* StopOwnerThreads empties the slot, ...
Unregister ==
  /\ host = "owner" /\ host' = "stopping"
  /\ UNCHANGED <<taskVars, doorVars, queue, cur, curAt, op, doomed, cancelled>>

\* ... and Stop drops the owner's queue and joins it: the UI thread is back.
StopOwner ==
  /\ host = "stopping" /\ curAt = "none" /\ op[Server] = Idle
  /\ host' = "ui"
  /\ stage' = [t \in Tasks |-> IF Contains(queue["owner"], t) THEN "refused" ELSE stage[t]]
  /\ queue' = [queue EXCEPT !["owner"] = <<>>]
  /\ UNCHANGED <<gen, bind, timers, muFree, doorVars, cur, curAt, op, doomed, cancelled>>

\* QuiesceForTeardown closes the gate (module TeardownGate).
CloseGate ==
  /\ host \in {"owner", "ui"} /\ host' = "closed"
  /\ stage' = [t \in Tasks |-> IF stage[t] = "queued" THEN "refused" ELSE stage[t]]
  /\ queue' = [h \in DOMAIN queue |-> <<>>]
  /\ UNCHANGED <<gen, bind, timers, muFree, doorVars, cur, curAt, op, doomed, cancelled>>

--------------------------------------------------------------------------------
CallStep(a) ==
  BindPost(a) \/ PutPost(a) \/ LockAfter(a) \/ Schedule(a) \/ Record(a) \/ CancelTimer(a)
  \/ Erase(a)
DropStep == SwapTimers \/ CancelDropped
ServerStep == Pop \/ Enter \/ LookUp \/ Leave

OwnerTasksNext ==
  \/ \E a \in Agents, kind \in {"post", "after", "cancel"}, t \in Tasks : Call(a, kind, t)
  \/ \E a \in Agents : CallStep(a)
  \/ Invalidate \/ DropStep \/ Close
  \/ \E t \in Timers : Fire(t) \/ PutFired(t)
  \/ ServerStep \/ Unregister \/ StopOwner \/ CloseGate

OwnerTasksSpec == OwnerTasksInit /\ [][OwnerTasksNext]_ownerTasksVars

--------------------------------------------------------------------------------
\* The fired call of a timer is still to come.
Awaited(t) == stage[t] \in {"armed", "owner", "ui", "queued"}

\* timers_ holds exactly the ids DropPending must cancel. Outside a DropPending
\* each id is of the present generation, and its fired call is still to come unless
\* the runtime refused it; and an armed timer has its id there. Only an After or a
\* Cancel of the very timer may be in between. This is what mu_, held across the
\* scheduling, is for (OwnerTasks.cpp:59-75, 90-99).
Dropping == op[Server].kind \in {"swap", "disarm"}
TimersExact ==
  ~Dropping =>
    \A t \in Timers : (\A a \in Agents : op[a].task # t) =>
      /\ t \in timers => bind[t] = gen /\ (Awaited(t) \/ stage[t] = "refused")
      /\ stage[t] = "armed" => t \in timers

\* Once Cancel has returned for a timer whose task had not begun, it never begins,
\* whoever cancelled and wherever the fired call was (OwnerTasks.cpp:65, 78-88).
CancelIsFinal == [][\A t \in cancelled : Began(t)' => Began(t)]_ownerTasksVars

\* Once the object is gone nobody touches it: no handle call is inside, and no
\* fired call is between its generation's check and mu_ (OwnerTasks.cpp:16-41).
DoorHolds ==
  ~alive => /\ \A a \in Agents : op[a] = Idle
            /\ curAt \notin {"entered", "body"}
=============================================================================
