---------------------------- MODULE PartsProofs ----------------------------
(***************************************************************************)
(* Proofs about the components that keep to themselves and share no state: *)
(* OwnerTasks, SettledWait, AtomicFileWrite, FiFoMap, Results, Metrics,    *)
(* ManualExecutor, Drain and Logger, a section each.                       *)
(***************************************************************************)
EXTENDS OwnerTasks, SettledWait, AtomicFileWrite, FiFoMap, Results, Metrics,
        ManualExecutor, Drain, Logger, SequenceTheorems, FiniteSetTheorems,
        WellFoundedInduction, TLAPS

----------------------------------------------------------------------------
(***************************************************************************)
(* The promises of OwnerTasks for any number of callers, posts, timers and *)
(* generations.                                                            *)
(*                                                                         *)
(* The argument: mu_ has one holder, so between the arming of a timer and  *)
(* the recording of its id nobody swaps timers_ or looks the id up, and    *)
(* an id that has left timers_ never comes back. A caller's work is done   *)
(* inside the handle's mutex, so once Close has taken it nobody is bound   *)
(* but by the object's own thread; and each end of the object follows a    *)
(* step of the generation past everything bound until then.                *)
(***************************************************************************)

Stages == {"new", "armed", "disarmed", "owner", "ui", "queued", "refused", "stale",
           "cancelled", "begun"}
PostKinds == {"post", "owner", "ui"}
TimerKinds == {"after", "schedule", "record", "cancel", "erase"}
DropKinds == {"swap", "disarm"}
Kinds == {"idle"} \cup PostKinds \cup TimerKinds \cup DropKinds

TasksTypeOK ==
    /\ host \in {"owner", "stopping", "ui", "closed"}
    /\ queue \in [{"owner", "ui"} -> Seq(Tasks)]
    /\ cur \in Tasks \cup {Nothing} /\ curAt \in {"none", "popped", "entered", "body"}
    /\ gen \in Nat /\ bind \in [Tasks -> Nat] /\ stage \in [Tasks -> Stages]
    /\ timers \subseteq Timers /\ doomed \subseteq Timers /\ cancelled \subseteq Timers
    /\ muFree \in BOOLEAN /\ open \in BOOLEAN /\ alive \in BOOLEAN
    /\ door \in Callers \cup {Nothing}
    /\ op \in [Agents -> [kind : Kinds, task : Tasks \cup {Nothing}]]

\* A thread works on one task, and two threads never on the same.
OneEach ==
    /\ \A a \in Agents :
         /\ op[a].kind = "idle" => op[a] = Idle
         /\ op[a].kind \in PostKinds => op[a].task \in Posts
         /\ op[a].kind \in TimerKinds => op[a].task \in Timers
         /\ op[a].kind \in DropKinds => a = Server /\ op[a].task = Nothing
    /\ \A a, b \in Agents : op[a].task = op[b].task /\ op[a].task \in Tasks => a = b
    /\ curAt # "none" => cur \in Tasks
    /\ curAt \in {"popped", "entered"} => op[Server] = Idle
    /\ curAt = "entered" => cur \in Timers

InQueue(t) == \E h \in {"owner", "ui"} : \E i \in 1 .. Len(queue[h]) : queue[h][i] = t

\* A timer is new until its After schedules it; no task becomes new again.
NewOnce ==
    /\ \A a \in Agents :
         /\ op[a].kind \in {"after", "schedule"} => stage[op[a].task] = "new"
         /\ op[a].kind \in {"record", "cancel", "erase"} => stage[op[a].task] # "new"
         /\ op[a].kind = "erase" => stage[op[a].task] # "armed"
    /\ \A t \in Tasks : InQueue(t) => stage[t] # "new"
    /\ curAt \in {"popped", "entered"} => stage[cur] # "new"

\* A step makes no task new, and records only what was scheduled.
NothingNew ==
    /\ \A t \in Tasks : stage'[t] = "new" => stage[t] = "new"
    /\ \A a \in Agents : op'[a].kind = "record" =>
         op[a].kind \in {"schedule", "record"} /\ op'[a].task = op[a].task

\* A timer's id is recorded once; one that was cancelled is not there again.
Recording(t) == \E a \in Agents : op[a].kind = "record" /\ op[a].task = t
RecordedOnce ==
    /\ \A t \in timers \cup doomed \cup cancelled : stage[t] # "new" /\ ~Recording(t)
    /\ timers \cap (doomed \cup cancelled) = {}

\* mu_ has one holder.
MuHeld ==
    /\ \A a \in Agents : op[a].kind \in {"schedule", "record"} => muFree = FALSE
    /\ \A a, b \in Agents : /\ op[a].kind \in {"schedule", "record"}
                            /\ op[b].kind \in {"schedule", "record"}
                            => a = b

\* Every id is in timers_ from its scheduling until its task runs, its Cancel or the
\* DropPending that invalidated it, which finds it in the set it swapped out.
Promised == {"armed", "owner", "ui", "queued", "refused"}
Erasing(t) == \E a \in Agents : op[a].kind = "erase" /\ op[a].task = t
TimersKept ==
    /\ op[Server].kind # "disarm" => doomed = {}
    /\ \A a \in Agents : op[a].kind = "record" =>
         /\ stage[op[a].task] \in Promised
         /\ bind[op[a].task] = gen \/ op[Server].kind = "swap"
    /\ op[Server].kind # "swap" =>
         \A t \in timers : bind[t] = gen /\ (stage[t] \in Promised \/ Erasing(t))
    /\ \A t \in Timers : stage[t] = "armed" => t \in timers \cup doomed \/ Recording(t)

\* A caller at work is inside the handle's mutex; once the handle is closed nobody is,
\* and the object ends after the generation has moved past everything bound.
DoorKept ==
    /\ \A a \in Callers : op[a] # Idle => door = a
    /\ ~open => door = Nothing
    /\ \A t \in Tasks : bind[t] <= gen
    /\ ~open /\ (op[Server].kind \in DropKinds \/ ~alive) => \A t \in Tasks : bind[t] < gen
    /\ ~alive => ~open /\ op[Server] = Idle /\ curAt \notin {"entered", "body"}

\* The thread at rest.
LEMMA IdleType == /\ Idle \in [kind : Kinds, task : Tasks \cup {Nothing}]
                  /\ Idle.kind = "idle" /\ Idle.task = Nothing /\ Nothing \notin Tasks
  BY OwnTasksAssumption DEF Idle, Kinds, Tasks

\* A task that was put is in the mailbox, at one end of it, or refused.
LEMMA PutEffect ==
    ASSUME TasksTypeOK, NEW t \in Tasks, NEW h \in {"owner", "ui"}, NEW front \in BOOLEAN,
           Put(t, h, front)
    PROVE  /\ queue' \in [{"owner", "ui"} -> Seq(Tasks)]
           /\ \/ stage' = [stage EXCEPT ![t] = "refused"]
              \/ stage' = [stage EXCEPT ![t] = "queued"]
           /\ \A u \in Tasks : InQueue(u)' => u = t \/ InQueue(u)
<1> USE DEF TasksTypeOK
<1>1. CASE UNCHANGED queue
  BY <1>1 DEF Put, InQueue
<1>2. CASE queue' = [queue EXCEPT ![h] = <<t>> \o queue[h]]
  <2>1. queue' \in [{"owner", "ui"} -> Seq(Tasks)]
    BY <1>2
  <2>2. ASSUME NEW u \in Tasks, InQueue(u)', u # t PROVE InQueue(u)
    <3>1. PICK g \in {"owner", "ui"} : \E i \in 1 .. Len(queue'[g]) : queue'[g][i] = u
      BY <2>2 DEF InQueue
    <3>2. CASE g # h
      BY <1>2, <3>1, <3>2 DEF InQueue
    <3>3. CASE g = h
      <4>1. PICK i \in 1 .. Len(<<t>> \o queue[h]) : (<<t>> \o queue[h])[i] = u
        BY <1>2, <3>1, <3>3
      <4>2. i # 1 /\ i - 1 \in 1 .. Len(queue[h]) /\ queue[h][i - 1] = u
        BY <2>2, <4>1
      <4> QED  BY <4>2 DEF InQueue
    <3> QED  BY <3>2, <3>3
  <2> QED  BY <1>2, <2>1, <2>2 DEF Put
<1>3. CASE queue' = [queue EXCEPT ![h] = Append(queue[h], t)]
  <2>1. queue' \in [{"owner", "ui"} -> Seq(Tasks)]
    BY <1>3
  <2>2. ASSUME NEW u \in Tasks, InQueue(u)', u # t PROVE InQueue(u)
    <3>1. PICK g \in {"owner", "ui"} : \E i \in 1 .. Len(queue'[g]) : queue'[g][i] = u
      BY <2>2 DEF InQueue
    <3>2. CASE g # h
      BY <1>3, <3>1, <3>2 DEF InQueue
    <3>3. CASE g = h
      <4>1. PICK i \in 1 .. Len(Append(queue[h], t)) : Append(queue[h], t)[i] = u
        BY <1>3, <3>1, <3>3
      <4>2. i \in 1 .. Len(queue[h]) /\ queue[h][i] = u
        BY <2>2, <4>1
      <4> QED  BY <4>2 DEF InQueue
    <3> QED  BY <3>2, <3>3
  <2> QED  BY <1>3, <2>1, <2>2 DEF Put
<1> QED  BY <1>1, <1>2, <1>3 DEF Put

LEMMA PutFiredEffect ==
    ASSUME TasksTypeOK, NEW t \in Timers, PutFired(t)
    PROVE  /\ \/ stage' = [stage EXCEPT ![t] = "refused"]
              \/ stage' = [stage EXCEPT ![t] = "queued"]
           /\ \A u \in Tasks : InQueue(u)' => u = t \/ InQueue(u)
<1>1. PICK h \in {"owner", "ui"} : Put(t, h, FALSE)
  BY DEF PutFired
<1>2. t \in Tasks
  BY DEF Tasks
<1> QED  BY <1>1, <1>2, PutEffect

\* A thread that is done is at rest, and out of the handle.
LEMMA DoneEffect ==
    ASSUME TasksTypeOK, NEW a \in Agents, Done(a)
    PROVE  /\ op' = [op EXCEPT ![a] = Idle]
           /\ op' \in [Agents -> [kind : Kinds, task : Tasks \cup {Nothing}]]
           /\ door' \in Callers \cup {Nothing}
           /\ door' = door \/ (door' = Nothing /\ door = a)
  BY IdleType DEF Done, TasksTypeOK

\* A step keeps the types.
LEMMA TypeStep ==
    ASSUME TasksTypeOK, OneEach, [OwnerTasksNext]_ownerTasksVars
    PROVE  TasksTypeOK'
<1> USE DEF taskVars, doorVars, serverVars, TasksTypeOK, Kinds, PostKinds, TimerKinds,
         DropKinds, Stages
<1>1. ASSUME NEW a \in Agents, NEW kind \in {"post", "after", "cancel"}, NEW t \in Tasks,
              Call(a, kind, t)
       PROVE  TasksTypeOK'
  <2>1. op' \in [Agents -> [kind : Kinds, task : Tasks \cup {Nothing}]]
    BY <1>1 DEF Call, Doing
  <2>2. door' \in Callers \cup {Nothing}
    BY <1>1 DEF Call, Agents
  <2> QED  BY <1>1, <2>1, <2>2 DEF Call
<1>2. ASSUME NEW a \in Agents, BindPost(a) PROVE TasksTypeOK'
  <2>1. op' = [op EXCEPT ![a].kind = Target] /\ Target \in Kinds
    BY <1>2 DEF BindPost, Target
  <2>2. op' \in [Agents -> [kind : Kinds, task : Tasks \cup {Nothing}]]
    BY <2>1
  <2>3. bind' \in [Tasks -> Nat]
    BY <1>2 DEF BindPost
  <2> QED  BY <1>2, <2>2, <2>3 DEF BindPost
<1>3. ASSUME NEW a \in Agents, PutPost(a) PROVE TasksTypeOK'
  <2>1. op[a].task \in Tasks
    BY <1>3 DEF PutPost, OneEach, Tasks
  <2>2. PICK front \in BOOLEAN : Put(op[a].task, op[a].kind, front)
    BY <1>3 DEF PutPost
  <2>3. queue' \in [{"owner", "ui"} -> Seq(Tasks)] /\ stage' \in [Tasks -> Stages]
    BY <1>3, <2>1, <2>2, PutEffect DEF PutPost
  <2> QED  BY <1>3, <2>3, DoneEffect DEF PutPost
<1>4. ASSUME NEW a \in Agents, LockAfter(a) PROVE TasksTypeOK'
  BY <1>4 DEF LockAfter
<1>5. ASSUME NEW a \in Agents, Schedule(a) PROVE TasksTypeOK'
  <2>1. CASE host = "closed"
    BY <1>5, <2>1, DoneEffect DEF Schedule
  <2>2. CASE host # "closed"
    <3>1. op' = [op EXCEPT ![a].kind = "record"] /\ stage' = [stage EXCEPT ![op[a].task] = "armed"]
      BY <1>5, <2>2 DEF Schedule
    <3> QED  BY <1>5, <2>2, <3>1 DEF Schedule
  <2> QED  BY <2>1, <2>2
<1>6. ASSUME NEW a \in Agents, Record(a) PROVE TasksTypeOK'
  <2>1. op[a].task \in Timers
    BY <1>6 DEF Record, OneEach
  <2> QED  BY <1>6, <2>1, DoneEffect DEF Record
<1>7. ASSUME NEW a \in Agents, CancelTimer(a) PROVE TasksTypeOK'
  BY <1>7 DEF CancelTimer, Disarm
<1>8. ASSUME NEW a \in Agents, Erase(a) PROVE TasksTypeOK'
  <2>1. op[a].task \in Timers
    BY <1>8 DEF Erase, OneEach
  <2> QED  BY <1>8, <2>1, DoneEffect DEF Erase, Began
<1>9. CASE Invalidate
  <2>1. op' \in [Agents -> [kind : Kinds, task : Tasks \cup {Nothing}]]
    BY <1>9 DEF Invalidate, Doing
  <2> QED  BY <1>9, <2>1 DEF Invalidate
<1>10. CASE SwapTimers
  BY <1>10 DEF SwapTimers
<1>11. CASE CancelDropped
  <2>1. CASE doomed = {}
    <3>1. op' \in [Agents -> [kind : Kinds, task : Tasks \cup {Nothing}]]
      BY <1>11, <2>1, IdleType DEF CancelDropped
    <3> QED  BY <1>11, <2>1, <3>1 DEF CancelDropped
  <2>2. CASE doomed # {}
    BY <1>11, <2>2 DEF CancelDropped, Disarm
  <2> QED  BY <2>1, <2>2
<1>12. CASE Close
  <2>1. op' \in [Agents -> [kind : Kinds, task : Tasks \cup {Nothing}]]
    BY <1>12 DEF Close, Doing
  <2>2. gen' \in Nat /\ open' = FALSE
    BY <1>12 DEF Close
  <2>3. /\ UNCHANGED <<host, queue, cur, curAt, bind, stage, timers, muFree>>
        /\ UNCHANGED <<door, alive, doomed, cancelled>>
    BY <1>12 DEF Close
  <2> QED  BY <2>1, <2>2, <2>3
<1>13. ASSUME NEW t \in Timers, Fire(t) PROVE TasksTypeOK'
  BY <1>13 DEF Fire, Target
<1>14. ASSUME NEW t \in Timers, PutFired(t) PROVE TasksTypeOK'
  <2>1. queue' \in [{"owner", "ui"} -> Seq(Tasks)] /\ stage' \in [Tasks -> Stages]
    BY <1>14, PutEffect DEF PutFired, Tasks
  <2> QED  BY <1>14, <2>1 DEF PutFired
<1>15. CASE Pop
  BY <1>15 DEF Pop, Serving
<1>16. CASE Enter
  <2>1. stage' \in [Tasks -> Stages]
    BY <1>16 DEF Enter, Ended
  <2> QED  BY <1>16, <2>1 DEF Enter, Ended
<1>17. CASE LookUp
  <2>1. stage' \in [Tasks -> Stages]
    BY <1>17 DEF LookUp, Ended
  <2> QED  BY <1>17, <2>1 DEF LookUp, Ended
<1>18. CASE Leave
  BY <1>18 DEF Leave
<1>19. CASE Unregister
  BY <1>19 DEF Unregister
<1>20. CASE StopOwner
  BY <1>20 DEF StopOwner, Contains
<1>21. CASE CloseGate
  BY <1>21 DEF CloseGate
<1>22. CASE UNCHANGED ownerTasksVars
  BY <1>22 DEF ownerTasksVars
<1> HIDE DEF TasksTypeOK
<1> QED
  BY <1>1, <1>2, <1>3, <1>4, <1>5, <1>6, <1>7, <1>8, <1>9, <1>10, <1>11, <1>12,
     <1>13, <1>14, <1>15, <1>16, <1>17, <1>18, <1>19, <1>20, <1>21, <1>22
  DEF OwnerTasksNext, CallStep, DropStep, ServerStep

\* A call takes a task that no other thread works on.
LEMMA OneEachStep ==
    ASSUME TasksTypeOK, OneEach, [OwnerTasksNext]_ownerTasksVars
    PROVE  OneEach'
<1> USE IdleType, AgentsAssumption DEF taskVars, doorVars, serverVars, TasksTypeOK,
         Kinds, PostKinds, TimerKinds, DropKinds, OneEach, Tasks, Agents
<1>1. ASSUME NEW a \in Agents, NEW kind \in {"post", "after", "cancel"}, NEW t \in Tasks,
              Call(a, kind, t)
       PROVE  OneEach'
  BY <1>1 DEF Call, AtRest, Doing
<1>2. ASSUME NEW a \in Agents, BindPost(a) PROVE OneEach'
  BY <1>2 DEF BindPost, Target
<1>3. ASSUME NEW a \in Agents, PutPost(a) PROVE OneEach'
  <2>1. op' = [op EXCEPT ![a] = Idle]
    BY <1>3 DEF PutPost, Done
  <2> QED  BY <1>3, <2>1 DEF PutPost
<1>4. ASSUME NEW a \in Agents, LockAfter(a) PROVE OneEach'
  BY <1>4 DEF LockAfter
<1>5. ASSUME NEW a \in Agents, Schedule(a) PROVE OneEach'
  <2>1. CASE host = "closed"
    <3>1. op' = [op EXCEPT ![a] = Idle]
      BY <1>5, <2>1 DEF Schedule, Done
    <3> QED  BY <1>5, <2>1, <3>1 DEF Schedule
  <2>2. CASE host # "closed"
    BY <1>5, <2>2 DEF Schedule
  <2> QED  BY <2>1, <2>2
<1>6. ASSUME NEW a \in Agents, Record(a) PROVE OneEach'
  <2>1. op' = [op EXCEPT ![a] = Idle]
    BY <1>6 DEF Record, Done
  <2> QED  BY <1>6, <2>1 DEF Record
<1>7. ASSUME NEW a \in Agents, CancelTimer(a) PROVE OneEach'
  BY <1>7 DEF CancelTimer, Disarm
<1>8. ASSUME NEW a \in Agents, Erase(a) PROVE OneEach'
  BY <1>8, DoneEffect DEF Erase, Began
<1>9. CASE Invalidate
  BY <1>9 DEF Invalidate, AtRest, Doing
<1>10. CASE SwapTimers
  BY <1>10 DEF SwapTimers
<1>11. CASE CancelDropped
  <2>1. CASE doomed = {}
    BY <1>11, <2>1 DEF CancelDropped
  <2>2. CASE doomed # {}
    BY <1>11, <2>2 DEF CancelDropped, Disarm
  <2> QED  BY <2>1, <2>2
<1>12. CASE Close
  BY <1>12 DEF Close, AtRest, Doing
<1>13. ASSUME NEW t \in Timers, Fire(t) PROVE OneEach'
  BY <1>13 DEF Fire, Target
<1>14. ASSUME NEW t \in Timers, PutFired(t) PROVE OneEach'
  BY <1>14 DEF PutFired
<1>15. CASE Pop
  BY <1>15 DEF Pop, Serving
<1>16. CASE Enter
  BY <1>16 DEF Enter, Ended
<1>17. CASE LookUp
  BY <1>17 DEF LookUp, Ended
<1>18. CASE Leave
  BY <1>18 DEF Leave
<1>19. CASE Unregister
  BY <1>19 DEF Unregister
<1>20. CASE StopOwner
  BY <1>20 DEF StopOwner, Contains
<1>21. CASE CloseGate
  BY <1>21 DEF CloseGate
<1>22. CASE UNCHANGED ownerTasksVars
  BY <1>22 DEF ownerTasksVars
<1> HIDE DEF OneEach
<1> QED
  BY <1>1, <1>2, <1>3, <1>4, <1>5, <1>6, <1>7, <1>8, <1>9, <1>10, <1>11, <1>12,
     <1>13, <1>14, <1>15, <1>16, <1>17, <1>18, <1>19, <1>20, <1>21, <1>22
  DEF OwnerTasksNext, CallStep, DropStep, ServerStep

\* The task taken from a mailbox was in it.
LEMMA PopEffect ==
    ASSUME TasksTypeOK, Pop
    PROVE  /\ InQueue(cur') /\ cur' \in Tasks
           /\ \A u \in Tasks : InQueue(u)' => InQueue(u)
<1> USE DEF TasksTypeOK
<1> DEFINE h == Serving
<1>1. /\ h \in {"owner", "ui"} /\ queue[h] # <<>>
      /\ cur' = Head(queue[h]) /\ queue' = [queue EXCEPT ![h] = Tail(queue[h])]
  BY DEF Pop, Serving
<1> HIDE DEF h
<1>2. /\ queue[h] \in Seq(Tasks) /\ 1 \in 1 .. Len(queue[h]) /\ queue[h][1] = cur'
      /\ Len(Tail(queue[h])) = Len(queue[h]) - 1
      /\ \A i \in 1 .. Len(Tail(queue[h])) :
           i + 1 \in 1 .. Len(queue[h]) /\ Tail(queue[h])[i] = queue[h][i + 1]
  BY <1>1
<1>3. InQueue(cur') /\ cur' \in Tasks
  BY <1>1, <1>2 DEF InQueue
<1>4. ASSUME NEW u \in Tasks, InQueue(u)' PROVE InQueue(u)
  <2>1. PICK g \in {"owner", "ui"} : \E i \in 1 .. Len(queue'[g]) : queue'[g][i] = u
    BY <1>4 DEF InQueue
  <2>2. CASE g # h
    BY <1>1, <2>1, <2>2 DEF InQueue
  <2>3. CASE g = h
    <3>1. PICK i \in 1 .. Len(Tail(queue[h])) : Tail(queue[h])[i] = u
      BY <1>1, <2>1, <2>3
    <3> QED  BY <1>1, <1>2, <3>1 DEF InQueue
  <2> QED  BY <2>2, <2>3
<1> QED  BY <1>3, <1>4

\* Only the After of a timer finds it new, and leaves it otherwise.
LEMMA NewOnceStep ==
    ASSUME TasksTypeOK, OneEach, NewOnce, [OwnerTasksNext]_ownerTasksVars
    PROVE  NewOnce'
<1> USE IdleType, AgentsAssumption DEF taskVars, doorVars, serverVars, TasksTypeOK,
         Kinds, PostKinds, TimerKinds, DropKinds, OneEach, Tasks, Agents, NewOnce
<1>0. UNCHANGED queue => \A t : InQueue(t)' = InQueue(t)
  BY DEF InQueue
<1>1. ASSUME NEW a \in Agents, NEW kind \in {"post", "after", "cancel"}, NEW t \in Tasks,
              Call(a, kind, t)
       PROVE  NewOnce'
  <2>1. op' = [op EXCEPT ![a] = [kind |-> kind, task |-> t]]
    BY <1>1 DEF Call, Doing
  <2>2. kind = "after" => stage[t] = "new"
    BY <1>1 DEF Call
  <2>3. kind = "cancel" => stage[t] # "new"
    BY <1>1 DEF Call
  <2>4. UNCHANGED <<queue, cur, curAt, stage>>
    BY <1>1 DEF Call
  <2> QED  BY <2>1, <2>2, <2>3, <2>4, <1>0
<1>2. ASSUME NEW a \in Agents, BindPost(a) PROVE NewOnce'
  BY <1>2, <1>0 DEF BindPost, Target
<1>3. ASSUME NEW a \in Agents, PutPost(a) PROVE NewOnce'
  <2>1. op' = [op EXCEPT ![a] = Idle]
    BY <1>3 DEF PutPost, Done
  <2>2. op[a].task \in Posts /\ op[a].kind \in {"owner", "ui"}
    BY <1>3 DEF PutPost
  <2>3. PICK front \in BOOLEAN : Put(op[a].task, op[a].kind, front)
    BY <1>3 DEF PutPost
  <2>4. /\ \/ stage' = [stage EXCEPT ![op[a].task] = "refused"]
           \/ stage' = [stage EXCEPT ![op[a].task] = "queued"]
        /\ \A u \in Tasks : InQueue(u)' => u = op[a].task \/ InQueue(u)
    BY <2>2, <2>3, PutEffect, SMTT(30) DEF Tasks
  <2>5. UNCHANGED <<cur, curAt>> /\ \A t \in Timers : stage'[t] = stage[t]
    BY <1>3, <2>2, <2>4, OwnTasksAssumption DEF PutPost
  <2>6. \A t \in Tasks : stage'[t] = "new" => stage[t] = "new" /\ t # op[a].task
    BY <2>2, <2>4
  <2> QED  BY <2>1, <2>4, <2>5, <2>6
<1>4. ASSUME NEW a \in Agents, LockAfter(a) PROVE NewOnce'
  BY <1>4, <1>0 DEF LockAfter
<1>5. ASSUME NEW a \in Agents, Schedule(a) PROVE NewOnce'
  <2>1. /\ stage' = [stage EXCEPT ![op[a].task] = stage'[op[a].task]]
        /\ stage'[op[a].task] \in {"refused", "armed"}
    BY <1>5 DEF Schedule
  <2>2. op' = [op EXCEPT ![a] = Idle] \/ op' = [op EXCEPT ![a].kind = "record"]
    BY <1>5 DEF Schedule, Done
  <2>3. op[a].kind = "schedule" /\ UNCHANGED <<queue, cur, curAt>>
    BY <1>5 DEF Schedule
  <2>4. \A t \in Tasks : stage'[t] = "new" => stage[t] = "new" /\ t # op[a].task
    BY <2>1, <2>3
  <2>5. \A b \in Agents : b # a =>
          op'[b] = op[b] /\ (op[b].kind \in TimerKinds => op[b].task # op[a].task)
    BY <2>2, <2>3
  <2>6. ASSUME NEW b \in Agents
        PROVE  /\ op'[b].kind \in {"after", "schedule"} => stage'[op'[b].task] = "new"
               /\ op'[b].kind \in {"record", "cancel", "erase"} => stage'[op'[b].task] # "new"
               /\ op'[b].kind = "erase" => stage'[op'[b].task] # "armed"
    <3>1. CASE b = a
      <4>1. /\ op'[a].kind \in {"idle", "record"}
            /\ op'[a].kind = "record" => op'[a].task = op[a].task
        BY <2>2
      <4>2. stage'[op[a].task] \in {"refused", "armed"}
        BY <2>1, <2>3
      <4> QED  BY <3>1, <4>1, <4>2
    <3>2. CASE b # a
      <4>1. op[b].kind \in TimerKinds => stage'[op[b].task] = stage[op[b].task]
        BY <2>1, <2>5, <3>2
      <4> QED  BY <2>5, <3>2, <4>1
    <3> QED  BY <3>1, <3>2
  <2> QED  BY <2>3, <2>4, <2>6, <1>0
<1>6. ASSUME NEW a \in Agents, Record(a) PROVE NewOnce'
  <2>1. op' = [op EXCEPT ![a] = Idle]
    BY <1>6 DEF Record, Done
  <2> QED  BY <1>6, <2>1, <1>0 DEF Record
<1>7. ASSUME NEW a \in Agents, CancelTimer(a) PROVE NewOnce'
  BY <1>7, <1>0 DEF CancelTimer, Disarm
<1>8. ASSUME NEW a \in Agents, Erase(a) PROVE NewOnce'
  <2>1. op' = [op EXCEPT ![a] = Idle]
    BY <1>8 DEF Erase, Done
  <2> QED  BY <1>8, <2>1, <1>0 DEF Erase, Began
<1>9. CASE Invalidate
  <2>1. op' = [op EXCEPT ![Server] = [kind |-> "swap", task |-> Nothing]]
    BY <1>9 DEF Invalidate, Doing
  <2> QED  BY <1>9, <2>1, <1>0 DEF Invalidate
<1>10. CASE SwapTimers
  BY <1>10, <1>0 DEF SwapTimers
<1>11. CASE CancelDropped
  <2>1. op' = [op EXCEPT ![Server] = Idle] \/ op' = op
    BY <1>11 DEF CancelDropped
  <2>2. \A t \in Tasks : stage'[t] = stage[t] \/ (stage[t] = "armed" /\ stage'[t] = "disarmed")
    <3>1. CASE doomed = {}
      BY <1>11, <3>1 DEF CancelDropped
    <3>2. CASE doomed # {}
      <4>1. PICK t \in doomed : Disarm(t)
        BY <1>11, <3>2 DEF CancelDropped
      <4> QED  BY <4>1 DEF Disarm
    <3> QED  BY <3>1, <3>2
  <2>3. UNCHANGED <<queue, cur, curAt>>
    BY <1>11 DEF CancelDropped
  <2>4. \A b \in Agents : op'[b].kind # "idle" => op'[b] = op[b]
    BY <2>1
  <2>5. \A b \in Agents : op[b].kind \in TimerKinds => op[b].task \in Tasks
    OBVIOUS
  <2>6. ASSUME NEW b \in Agents
        PROVE  /\ op'[b].kind \in {"after", "schedule"} => stage'[op'[b].task] = "new"
               /\ op'[b].kind \in {"record", "cancel", "erase"} => stage'[op'[b].task] # "new"
               /\ op'[b].kind = "erase" => stage'[op'[b].task] # "armed"
    <3>1. CASE op'[b].kind = "idle"
      BY <3>1
    <3>2. CASE op'[b].kind \in TimerKinds
      <4>1. op'[b] = op[b] /\ op[b].task \in Tasks
        BY <2>4, <2>5, <3>2
      <4> QED  BY <2>2, <4>1
    <3>3. CASE op'[b].kind \notin TimerKinds
      BY <3>3
    <3> QED  BY <3>1, <3>2, <3>3
  <2> QED  BY <2>2, <2>3, <2>6, <1>0
<1>12. CASE Close
  BY <1>12, <1>0 DEF Close, AtRest, Doing
<1>13. ASSUME NEW t \in Timers, Fire(t) PROVE NewOnce'
  BY <1>13, <1>0 DEF Fire, Target
<1>14. ASSUME NEW t \in Timers, PutFired(t) PROVE NewOnce'
  <2>1. /\ \/ stage' = [stage EXCEPT ![t] = "refused"]
           \/ stage' = [stage EXCEPT ![t] = "queued"]
        /\ \A u \in Tasks : InQueue(u)' => u = t \/ InQueue(u)
    <3>1. TasksTypeOK
      OBVIOUS
    <3> HIDE DEF TasksTypeOK, Tasks
    <3> QED  BY <1>14, <3>1, PutFiredEffect
  <2>2. UNCHANGED <<cur, curAt, op>> /\ stage[t] \in {"owner", "ui"}
    BY <1>14 DEF PutFired
  <2> QED  BY <2>1, <2>2
<1>15. CASE Pop
  <2> QED  BY <1>15, PopEffect DEF Pop
<1>16. CASE Enter
  BY <1>16, <1>0 DEF Enter, Ended
<1>17. CASE LookUp
  BY <1>17, <1>0 DEF LookUp, Ended
<1>18. CASE Leave
  BY <1>18, <1>0 DEF Leave
<1>19. CASE Unregister
  BY <1>19, <1>0 DEF Unregister
<1>20. CASE StopOwner
  <2>1. \A u \in Tasks : InQueue(u)' => InQueue(u)
    BY <1>20 DEF StopOwner, InQueue
  <2>2. \A u \in Tasks : stage'[u] \in {"refused", stage[u]} /\ (stage'[u] = stage[u] \/ InQueue(u))
    BY <1>20 DEF StopOwner, InQueue, Contains
  <2> QED  BY <1>20, <2>1, <2>2 DEF StopOwner
<1>21. CASE CloseGate
  <2>1. \A u \in Tasks : InQueue(u)' => InQueue(u)
    BY <1>21 DEF CloseGate, InQueue
  <2> QED  BY <1>21, <2>1 DEF CloseGate
<1>22. CASE UNCHANGED ownerTasksVars
  BY <1>22, <1>0 DEF ownerTasksVars
<1> HIDE DEF NewOnce
<1> QED
  BY <1>1, <1>2, <1>3, <1>4, <1>5, <1>6, <1>7, <1>8, <1>9, <1>10, <1>11, <1>12,
     <1>13, <1>14, <1>15, <1>16, <1>17, <1>18, <1>19, <1>20, <1>21, <1>22
  DEF OwnerTasksNext, CallStep, DropStep, ServerStep

\* Every stage but the first is later, and an id is recorded after its scheduling.
LEMMA NothingNewStep ==
    ASSUME TasksTypeOK, OneEach, NewOnce, [OwnerTasksNext]_ownerTasksVars
    PROVE  NothingNew
<1> USE IdleType, AgentsAssumption DEF taskVars, doorVars, serverVars, TasksTypeOK,
         Kinds, PostKinds, TimerKinds, DropKinds, OneEach, Tasks, Agents, NewOnce,
         NothingNew
<1>1. ASSUME NEW a \in Agents, NEW kind \in {"post", "after", "cancel"}, NEW t \in Tasks,
              Call(a, kind, t)
       PROVE  NothingNew
  <2>1. op' = [op EXCEPT ![a] = [kind |-> kind, task |-> t]] /\ UNCHANGED stage
    BY <1>1 DEF Call, Doing
  <2> QED  BY <2>1
<1>2. ASSUME NEW a \in Agents, BindPost(a) PROVE NothingNew
  BY <1>2 DEF BindPost, Target
<1>3. ASSUME NEW a \in Agents, PutPost(a) PROVE NothingNew
  <2>1. op' = [op EXCEPT ![a] = Idle]
    BY <1>3 DEF PutPost, Done
  <2>2. stage' \in {[stage EXCEPT ![op[a].task] = "refused"],
                    [stage EXCEPT ![op[a].task] = "queued"]}
    BY <1>3 DEF PutPost, Put
  <2> QED  BY <2>1, <2>2
<1>4. ASSUME NEW a \in Agents, LockAfter(a) PROVE NothingNew
  BY <1>4 DEF LockAfter
<1>5. ASSUME NEW a \in Agents, Schedule(a) PROVE NothingNew
  <2>1. /\ stage' = [stage EXCEPT ![op[a].task] = stage'[op[a].task]]
        /\ stage'[op[a].task] \in {"refused", "armed"}
    BY <1>5 DEF Schedule
  <2>2. op' = [op EXCEPT ![a] = Idle] \/ op' = [op EXCEPT ![a].kind = "record"]
    BY <1>5 DEF Schedule, Done
  <2>3. op[a].kind = "schedule"
    BY <1>5 DEF Schedule
  <2>4. \A t \in Tasks : stage'[t] = "new" => stage[t] = "new"
    BY <2>1
  <2>5. \A b \in Agents : op'[b].kind = "record" =>
          op[b].kind \in {"schedule", "record"} /\ op'[b].task = op[b].task
    <3>1. CASE op' = [op EXCEPT ![a] = Idle]
      BY <3>1
    <3>2. CASE op' = [op EXCEPT ![a].kind = "record"]
      BY <2>3, <3>2
    <3> QED  BY <2>2, <3>1, <3>2
  <2> QED  BY <2>4, <2>5
<1>6. ASSUME NEW a \in Agents, Record(a) PROVE NothingNew
  <2>1. op' = [op EXCEPT ![a] = Idle]
    BY <1>6 DEF Record, Done
  <2> QED  BY <1>6, <2>1 DEF Record
<1>7. ASSUME NEW a \in Agents, CancelTimer(a) PROVE NothingNew
  BY <1>7 DEF CancelTimer, Disarm
<1>8. ASSUME NEW a \in Agents, Erase(a) PROVE NothingNew
  <2>1. op' = [op EXCEPT ![a] = Idle]
    BY <1>8 DEF Erase, Done
  <2> QED  BY <1>8, <2>1 DEF Erase, Began
<1>9. CASE Invalidate
  BY <1>9 DEF Invalidate, AtRest, Doing
<1>10. CASE SwapTimers
  BY <1>10 DEF SwapTimers
<1>11. CASE CancelDropped
  <2>1. op' = [op EXCEPT ![Server] = Idle] \/ op' = op
    BY <1>11 DEF CancelDropped
  <2>2. \A t \in Tasks : stage'[t] = stage[t] \/ stage'[t] = "disarmed"
    <3>1. CASE doomed = {}
      BY <1>11, <3>1 DEF CancelDropped
    <3>2. CASE doomed # {}
      <4>1. PICK t \in doomed : Disarm(t)
        BY <1>11, <3>2 DEF CancelDropped
      <4> QED  BY <4>1 DEF Disarm
    <3> QED  BY <3>1, <3>2
  <2> QED  BY <2>1, <2>2
<1>12. CASE Close
  BY <1>12 DEF Close, AtRest, Doing
<1>13. ASSUME NEW t \in Timers, Fire(t) PROVE NothingNew
  BY <1>13 DEF Fire, Target
<1>14. ASSUME NEW t \in Timers, PutFired(t) PROVE NothingNew
  <2>1. stage' \in {[stage EXCEPT ![t] = "refused"], [stage EXCEPT ![t] = "queued"]}
    BY <1>14 DEF PutFired, Put
  <2> QED  BY <1>14, <2>1 DEF PutFired
<1>15. CASE Pop
  BY <1>15 DEF Pop, Serving
<1>16. CASE Enter
  BY <1>16 DEF Enter, Ended
<1>17. CASE LookUp
  BY <1>17 DEF LookUp, Ended
<1>18. CASE Leave
  BY <1>18 DEF Leave
<1>19. CASE Unregister
  BY <1>19 DEF Unregister
<1>20. CASE StopOwner
  <2>1. UNCHANGED op /\ \A u \in Tasks : stage'[u] \in {"refused", stage[u]}
    BY <1>20 DEF StopOwner
  <2> QED  BY <2>1
<1>21. CASE CloseGate
  BY <1>21 DEF CloseGate
<1>22. CASE UNCHANGED ownerTasksVars
  BY <1>22 DEF ownerTasksVars
<1> HIDE DEF NothingNew
<1> QED
  BY <1>1, <1>2, <1>3, <1>4, <1>5, <1>6, <1>7, <1>8, <1>9, <1>10, <1>11, <1>12,
     <1>13, <1>14, <1>15, <1>16, <1>17, <1>18, <1>19, <1>20, <1>21, <1>22
  DEF OwnerTasksNext, CallStep, DropStep, ServerStep

\* A timer that has its id recorded, dropped or cancelled has no other id to come.
LEMMA RecordedOnceStep ==
    ASSUME TasksTypeOK, OneEach, NewOnce, RecordedOnce, [OwnerTasksNext]_ownerTasksVars
    PROVE  RecordedOnce'
<1> USE IdleType DEF taskVars, doorVars, serverVars
<1>1. ASSUME NEW t \in Timers, stage[t] # "new", ~Recording(t)
      PROVE  stage'[t] # "new" /\ ~Recording(t)'
  <2>1. \A a \in Agents : op[a].kind = "schedule" => stage[op[a].task] = "new"
    BY DEF NewOnce
  <2> QED  BY <1>1, <2>1, NothingNewStep DEF NothingNew, Recording, Tasks
<1>2. ASSUME NEW a \in Agents, NEW t \in Tasks, op[a].task = t,
             op[a].kind \in {"record", "erase"}, op' = [op EXCEPT ![a] = Idle]
      PROVE  stage'[t] # "new" /\ ~Recording(t)' /\ t \in Timers
  <2>1. t \in Timers /\ stage[t] # "new"
    BY <1>2 DEF OneEach, NewOnce, TimerKinds
  <2>2. ASSUME NEW b \in Agents, op'[b].kind = "record" PROVE op'[b].task # t
    BY <1>2, <2>1, <2>2 DEF OneEach, TasksTypeOK, Tasks
  <2>3. stage'[t] # "new"
    BY <2>1, NothingNewStep DEF NothingNew, Tasks
  <2>4. ~Recording(t)'
    BY <2>2 DEF Recording
  <2> QED  BY <2>1, <2>3, <2>4
<1>3. timers \subseteq Timers /\ doomed \subseteq Timers /\ cancelled \subseteq Timers
  BY DEF TasksTypeOK
<1>4. CASE timers' \subseteq timers /\ doomed' \subseteq doomed /\ cancelled' = cancelled
  BY <1>1, <1>3, <1>4 DEF RecordedOnce
<1>5. ASSUME NEW a \in Agents, Record(a) PROVE RecordedOnce'
  <2>1. op' = [op EXCEPT ![a] = Idle] /\ op[a].kind = "record"
    BY <1>5 DEF Record, Done
  <2>2. PICK u \in Tasks : u = op[a].task
    BY <2>1 DEF OneEach, TimerKinds, Tasks
  <2>3. timers' = timers \cup {u} /\ UNCHANGED <<doomed, cancelled>>
    BY <1>5, <2>2 DEF Record
  <2>4. u \notin doomed \cup cancelled
    BY <2>1, <2>2 DEF RecordedOnce, Recording
  <2>5. /\ stage'[u] # "new" /\ ~Recording(u)'
        /\ \A v \in timers \cup doomed \cup cancelled : stage'[v] # "new" /\ ~Recording(v)'
    BY <1>1, <1>2, <1>3, <2>1, <2>2 DEF RecordedOnce
  <2>6. timers' \cap (doomed' \cup cancelled') = {}
    BY <2>3, <2>4 DEF RecordedOnce
  <2> QED  BY <2>3, <2>5, <2>6 DEF RecordedOnce
<1>6. ASSUME NEW a \in Agents, Erase(a) PROVE RecordedOnce'
  <2>1. op' = [op EXCEPT ![a] = Idle] /\ op[a].kind = "erase"
    BY <1>6 DEF Erase, Done
  <2>2. PICK u \in Tasks : u = op[a].task
    BY <2>1 DEF OneEach, TimerKinds, Tasks
  <2>3. /\ timers' = timers \ {u} /\ UNCHANGED doomed
        /\ cancelled' \subseteq cancelled \cup {u}
    BY <1>6, <2>2 DEF Erase
  <2>4. /\ stage'[u] # "new" /\ ~Recording(u)'
        /\ \A v \in timers \cup doomed \cup cancelled : stage'[v] # "new" /\ ~Recording(v)'
    BY <1>1, <1>2, <1>3, <2>1, <2>2 DEF RecordedOnce
  <2>5. timers' \cap (doomed' \cup cancelled') = {}
    BY <2>3 DEF RecordedOnce
  <2> QED  BY <2>3, <2>4, <2>5 DEF RecordedOnce
<1>7. CASE SwapTimers
  <2>1. doomed' = timers /\ timers' = {} /\ UNCHANGED cancelled
    BY <1>7 DEF SwapTimers
  <2> QED  BY <1>1, <1>3, <2>1 DEF RecordedOnce
<1>8. \/ \E a \in Agents : Record(a) \/ Erase(a)
      \/ SwapTimers
      \/ timers' \subseteq timers /\ doomed' \subseteq doomed /\ cancelled' = cancelled
  BY DEF OwnerTasksNext, CallStep, DropStep, ServerStep, Call, BindPost, PutPost, LockAfter,
     Schedule, CancelTimer, Invalidate, CancelDropped, Close, Fire, PutFired, Pop, Enter,
     LookUp, Leave, Unregister, StopOwner, CloseGate, ownerTasksVars
<1> QED  BY <1>4, <1>5, <1>6, <1>7, <1>8

\* mu_ is taken when it is free, and held until the id is recorded.
LEMMA MuStep ==
    ASSUME TasksTypeOK, MuHeld, [OwnerTasksNext]_ownerTasksVars
    PROVE  MuHeld'
<1> USE IdleType, AgentsAssumption DEF taskVars, doorVars, serverVars, TasksTypeOK,
         Kinds, PostKinds, TimerKinds, DropKinds, Agents, MuHeld
<1>1. ASSUME NEW a \in Agents, NEW kind \in {"post", "after", "cancel"}, NEW t \in Tasks,
              Call(a, kind, t)
       PROVE  MuHeld'
  <2>1. op' = [op EXCEPT ![a] = [kind |-> kind, task |-> t]] /\ UNCHANGED muFree
    BY <1>1 DEF Call, Doing
  <2> QED  BY <2>1
<1>2. ASSUME NEW a \in Agents, BindPost(a) PROVE MuHeld'
  BY <1>2 DEF BindPost, Target
<1>3. ASSUME NEW a \in Agents, PutPost(a) PROVE MuHeld'
  <2>1. op' = [op EXCEPT ![a] = Idle]
    BY <1>3 DEF PutPost, Done
  <2> QED  BY <1>3, <2>1 DEF PutPost
<1>4. ASSUME NEW a \in Agents, LockAfter(a) PROVE MuHeld'
  BY <1>4 DEF LockAfter
<1>5. ASSUME NEW a \in Agents, Schedule(a) PROVE MuHeld'
  <2>1. \/ op' = [op EXCEPT ![a] = Idle]
        \/ op' = [op EXCEPT ![a].kind = "record"] /\ UNCHANGED muFree
    BY <1>5 DEF Schedule, Done
  <2>2. op[a].kind = "schedule" /\ muFree' \in BOOLEAN
    BY <1>5 DEF Schedule
  <2> QED  BY <2>1, <2>2
<1>6. ASSUME NEW a \in Agents, Record(a) PROVE MuHeld'
  <2>1. op' = [op EXCEPT ![a] = Idle]
    BY <1>6 DEF Record, Done
  <2> QED  BY <1>6, <2>1 DEF Record
<1>7. ASSUME NEW a \in Agents, CancelTimer(a) PROVE MuHeld'
  BY <1>7 DEF CancelTimer, Disarm
<1>8. ASSUME NEW a \in Agents, Erase(a) PROVE MuHeld'
  <2>1. op' = [op EXCEPT ![a] = Idle]
    BY <1>8 DEF Erase, Done
  <2> QED  BY <1>8, <2>1 DEF Erase, Began
<1>9. CASE Invalidate
  BY <1>9 DEF Invalidate, AtRest, Doing
<1>10. CASE SwapTimers
  BY <1>10 DEF SwapTimers
<1>11. CASE CancelDropped
  <2>1. op' = [op EXCEPT ![Server] = Idle] \/ op' = op
    BY <1>11 DEF CancelDropped
  <2>2. UNCHANGED muFree
    BY <1>11 DEF CancelDropped
  <2> QED  BY <2>1, <2>2
<1>12. CASE Close
  BY <1>12 DEF Close, AtRest, Doing
<1>13. ASSUME NEW t \in Timers, Fire(t) PROVE MuHeld'
  BY <1>13 DEF Fire, Target
<1>14. ASSUME NEW t \in Timers, PutFired(t) PROVE MuHeld'
  BY <1>14 DEF PutFired
<1>15. CASE Pop
  BY <1>15 DEF Pop, Serving
<1>16. CASE Enter
  BY <1>16 DEF Enter, Ended
<1>17. CASE LookUp
  BY <1>17 DEF LookUp, Ended
<1>18. CASE Leave
  BY <1>18 DEF Leave
<1>19. CASE Unregister
  BY <1>19 DEF Unregister
<1>20. CASE StopOwner
  BY <1>20 DEF StopOwner, Contains
<1>21. CASE CloseGate
  BY <1>21 DEF CloseGate
<1>22. CASE UNCHANGED ownerTasksVars
  BY <1>22 DEF ownerTasksVars
<1> HIDE DEF MuHeld
<1> QED
  BY <1>1, <1>2, <1>3, <1>4, <1>5, <1>6, <1>7, <1>8, <1>9, <1>10, <1>11, <1>12,
     <1>13, <1>14, <1>15, <1>16, <1>17, <1>18, <1>19, <1>20, <1>21, <1>22
  DEF OwnerTasksNext, CallStep, DropStep, ServerStep

\* An id joins timers_ before anyone can look for it.
LEMMA TimersKeptStep ==
    ASSUME TasksTypeOK, OneEach, NewOnce, RecordedOnce, MuHeld, TimersKept,
           [OwnerTasksNext]_ownerTasksVars
    PROVE  TimersKept'
<1> USE IdleType, AgentsAssumption DEF taskVars, doorVars, serverVars, TasksTypeOK,
         PostKinds, TimerKinds, DropKinds, OneEach, Tasks, Agents, Promised, TimersKept,
         Recording, Erasing
<1>1. ASSUME NEW a \in Agents, NEW kind \in {"post", "after", "cancel"}, NEW t \in Tasks,
              Call(a, kind, t)
       PROVE  TimersKept'
  BY <1>1 DEF Call, AtRest, Doing
<1>2. ASSUME NEW a \in Agents, BindPost(a) PROVE TimersKept'
  BY <1>2 DEF BindPost, Target
<1>3. ASSUME NEW a \in Agents, PutPost(a) PROVE TimersKept'
  <2>1. op' = [op EXCEPT ![a] = Idle] /\ op[a].task \in Posts
    BY <1>3 DEF PutPost, Done
  <2>2. stage' \in {[stage EXCEPT ![op[a].task] = "refused"],
                    [stage EXCEPT ![op[a].task] = "queued"]}
    BY <1>3 DEF PutPost, Put
  <2>3. \A t \in Timers : stage'[t] = stage[t]
    BY <2>1, <2>2, OwnTasksAssumption
  <2>4. UNCHANGED <<gen, bind, timers, doomed>> /\ op[a].kind \in {"owner", "ui"}
    BY <1>3 DEF PutPost
  <2> QED  BY <2>1, <2>3, <2>4
<1>4. ASSUME NEW a \in Agents, LockAfter(a) PROVE TimersKept'
  BY <1>4 DEF LockAfter
<1>5. ASSUME NEW a \in Agents, Schedule(a) PROVE TimersKept'
  <2>1. PICK t \in Timers : t = op[a].task
    BY <1>5 DEF Schedule
  <2>2. op[a].kind = "schedule" /\ stage[t] = "new" /\ t \notin timers \cup doomed
    BY <1>5, <2>1 DEF Schedule, NewOnce, RecordedOnce
  <2>3. /\ bind' = [bind EXCEPT ![t] = gen] /\ UNCHANGED <<gen, timers, doomed>>
        /\ \A b \in Agents : op[b].task = t => b = a
    BY <1>5, <2>1 DEF Schedule
  <2>4. CASE host = "closed"
    <3>1. op' = [op EXCEPT ![a] = Idle] /\ stage' = [stage EXCEPT ![t] = "refused"]
      BY <1>5, <2>1, <2>4 DEF Schedule, Done
    <3> QED  BY <2>1, <2>2, <2>3, <3>1
  <2>5. CASE host # "closed"
    <3>1. op' = [op EXCEPT ![a].kind = "record"] /\ stage' = [stage EXCEPT ![t] = "armed"]
      BY <1>5, <2>1, <2>5 DEF Schedule
    <3>2. op'[a].kind = "record" /\ op'[a].task = t /\ \A b \in Agents \ {a} : op'[b] = op[b]
      BY <2>1, <3>1
    <3>3. stage'[t] = "armed" /\ \A u \in Tasks \ {t} : stage'[u] = stage[u] /\ bind'[u] = bind[u]
      BY <2>1, <2>3, <3>1
    <3>4. \A b \in Agents : op'[b].kind = "record" =>
            /\ stage'[op'[b].task] \in Promised
            /\ bind'[op'[b].task] = gen' \/ op'[Server].kind = "swap"
      <4> TAKE b \in Agents
      <4>1. CASE b = a
        BY <2>1, <2>3, <3>2, <3>3, <4>1
      <4>2. CASE b # a
        BY <2>2, <4>2, <3>2 DEF MuHeld
      <4> QED  BY <4>1, <4>2
    <3>5. op'[Server].kind # "disarm" => doomed' = {}
      BY <2>2, <2>3, <3>2
    <3>6. op'[Server].kind # "swap" =>
            \A u \in timers' : bind'[u] = gen' /\ (stage'[u] \in Promised \/ Erasing(u)')
      <4> SUFFICES ASSUME op'[Server].kind # "swap", NEW u \in timers
                   PROVE  bind'[u] = gen /\ (stage'[u] \in Promised \/ Erasing(u)')
        BY <2>3
      <4>1. op[Server].kind # "swap"
        BY <2>2, <3>2
      <4>2. u # t /\ bind'[u] = bind[u] /\ stage'[u] = stage[u]
        BY <2>2, <3>3
      <4>3. ASSUME Erasing(u) PROVE Erasing(u)'
        <5>1. PICK b \in Agents : op[b].kind = "erase" /\ op[b].task = u
          BY <4>3
        <5>2. op'[b].kind = "erase" /\ op'[b].task = u
          BY <2>2, <3>2, <5>1
        <5> QED  BY <5>2
      <4> QED  BY <4>1, <4>2, <4>3
    <3>7. \A u \in Timers : stage'[u] = "armed" => u \in timers' \cup doomed' \/ Recording(u)'
      <4> TAKE u \in Timers
      <4>1. CASE u = t
        BY <3>2, <4>1
      <4>2. CASE u # t
        <5>1. \A b \in Agents : op[b].kind = "record" => op'[b] = op[b]
          BY <2>2, <3>2
        <5>2. ASSUME Recording(u) PROVE Recording(u)'
          <6>1. PICK b \in Agents : op[b].kind = "record" /\ op[b].task = u
            BY <5>2
          <6>2. op'[b].kind = "record" /\ op'[b].task = u
            BY <5>1, <6>1
          <6> QED  BY <6>2
        <5> QED  BY <2>3, <3>3, <4>2, <5>2
      <4> QED  BY <4>1, <4>2
    <3> QED  BY <3>4, <3>5, <3>6, <3>7
  <2> QED  BY <2>4, <2>5
<1>6. ASSUME NEW a \in Agents, Record(a) PROVE TimersKept'
  <2>1. op' = [op EXCEPT ![a] = Idle]
    BY <1>6 DEF Record, Done
  <2> QED  BY <1>6, <2>1 DEF Record
<1>7. ASSUME NEW a \in Agents, CancelTimer(a) PROVE TimersKept'
  BY <1>7 DEF CancelTimer, Disarm
<1>8. ASSUME NEW a \in Agents, Erase(a) PROVE TimersKept'
  <2>1. PICK t \in Timers : t = op[a].task
    BY <1>8 DEF Erase
  <2>2. op' = [op EXCEPT ![a] = Idle] /\ op[a].kind = "erase" /\ stage[t] # "armed"
    BY <1>8, <2>1 DEF Erase, Done, NewOnce
  <2>3. timers' = timers \ {t} /\ UNCHANGED <<gen, bind, stage, doomed>>
    BY <1>8, <2>1 DEF Erase
  <2>4. \A u \in Timers : /\ Recording(u)' <=> Recording(u)
                          /\ u # t => (Erasing(u)' <=> Erasing(u))
    BY <2>1, <2>2
  <2>5. \A b \in Agents : op'[b] = op[b]
          \/ {op[b].kind, op'[b].kind} \cap {"record", "swap", "disarm"} = {}
    BY <2>2
  <2> HIDE DEF Recording, Erasing
  <2> QED  BY <2>1, <2>2, <2>3, <2>4, <2>5
<1>9. CASE Invalidate
  BY <1>9 DEF Invalidate, AtRest, Doing
<1>10. CASE SwapTimers
  <2>1. /\ op[Server].kind = "swap" /\ muFree
        /\ doomed' = timers /\ timers' = {}
        /\ op' = [op EXCEPT ![Server].kind = "disarm"] /\ UNCHANGED <<gen, bind, stage>>
    BY <1>10 DEF SwapTimers
  <2>2. \A b \in Agents : op[b].kind # "record"
    BY <2>1 DEF MuHeld
  <2>3. \A b \in Agents : op'[b].kind # "record" /\ op'[Server].kind = "disarm"
    BY <2>1, <2>2
  <2> QED  BY <2>1, <2>2, <2>3
<1>11. CASE CancelDropped
  <2>1. UNCHANGED <<gen, bind, timers>> /\ op[Server].kind = "disarm"
    BY <1>11 DEF CancelDropped
  <2>2. CASE doomed = {}
    <3>1. op' = [op EXCEPT ![Server] = Idle] /\ UNCHANGED <<stage, doomed>>
      BY <1>11, <2>2 DEF CancelDropped
    <3>2. \A u \in Timers : (Recording(u)' <=> Recording(u)) /\ (Erasing(u)' <=> Erasing(u))
      BY <2>1, <3>1
    <3>3. \A b \in Agents : op'[b].kind = "record" => op'[b] = op[b]
      BY <3>1
    <3> HIDE DEF Recording, Erasing
    <3> QED  BY <2>1, <2>2, <3>1, <3>2, <3>3
  <2>3. CASE doomed # {}
    <3>1. PICK t \in doomed : Disarm(t) /\ doomed' = doomed \ {t} /\ UNCHANGED op
      BY <1>11, <2>3 DEF CancelDropped
    <3>2. t \in Timers /\ t \notin timers /\ ~Recording(t)
      BY <3>1 DEF RecordedOnce
    <3>3. stage'[t] # "armed" /\ \A u \in Tasks \ {t} : stage'[u] = stage[u]
      BY <3>1, <3>2 DEF Disarm
    <3>4. \A b \in Agents : op'[b].kind = "record" =>
            /\ stage'[op'[b].task] \in Promised
            /\ bind'[op'[b].task] = gen' \/ op'[Server].kind = "swap"
      BY <2>1, <3>1, <3>2, <3>3
    <3>5. \A u \in timers : stage'[u] = stage[u] /\ (Erasing(u)' <=> Erasing(u))
      BY <3>1, <3>2, <3>3
    <3>6. \A u \in Timers : (Recording(u)' <=> Recording(u)) /\ stage'[u] \in {"disarmed", stage[u]}
      BY <3>1, <3>2, <3>3 DEF Disarm
    <3> HIDE DEF Recording, Erasing
    <3> QED  BY <2>1, <3>1, <3>3, <3>4, <3>5, <3>6
  <2> QED  BY <2>2, <2>3
<1>12. CASE Close
  BY <1>12 DEF Close, AtRest, Doing
<1>13. ASSUME NEW t \in Timers, Fire(t) PROVE TimersKept'
  BY <1>13 DEF Fire, Target
<1>14. ASSUME NEW t \in Timers, PutFired(t) PROVE TimersKept'
  <2>1. stage' \in {[stage EXCEPT ![t] = "refused"], [stage EXCEPT ![t] = "queued"]}
    BY <1>14 DEF PutFired, Put
  <2>2. UNCHANGED <<gen, bind, timers, doomed, op>>
    BY <1>14 DEF PutFired
  <2>3. \A u \in Timers : \/ stage'[u] = stage[u]
                          \/ stage[u] \in {"owner", "ui"} /\ stage'[u] \in {"refused", "queued"}
    BY <1>14, <2>1 DEF PutFired
  <2>4. \A u \in Timers : (Recording(u)' <=> Recording(u)) /\ (Erasing(u)' <=> Erasing(u))
    BY <2>2
  <2> HIDE DEF Recording, Erasing
  <2> QED  BY <2>2, <2>3, <2>4
<1>15. CASE Pop
  BY <1>15 DEF Pop, Serving
<1>16. CASE Enter
  BY <1>16 DEF Enter, Ended
<1>17. CASE LookUp
  <2>1. timers' = timers \ {cur} /\ muFree /\ cur \in Timers /\ UNCHANGED <<gen, bind, doomed, op>>
    BY <1>17 DEF LookUp
  <2>2. stage' \in {[stage EXCEPT ![cur] = "begun"], [stage EXCEPT ![cur] = "cancelled"]}
    BY <1>17 DEF LookUp, Ended
  <2>3. \A b \in Agents : op[b].kind # "record"
    BY <2>1 DEF MuHeld
  <2> QED  BY <2>1, <2>2, <2>3
<1>18. CASE Leave
  BY <1>18 DEF Leave
<1>19. CASE Unregister
  BY <1>19 DEF Unregister
<1>20. CASE StopOwner
  BY <1>20 DEF StopOwner, Contains
<1>21. CASE CloseGate
  BY <1>21 DEF CloseGate
<1>22. CASE UNCHANGED ownerTasksVars
  BY <1>22 DEF ownerTasksVars
<1> HIDE DEF TimersKept
<1> QED
  BY <1>1, <1>2, <1>3, <1>4, <1>5, <1>6, <1>7, <1>8, <1>9, <1>10, <1>11, <1>12,
     <1>13, <1>14, <1>15, <1>16, <1>17, <1>18, <1>19, <1>20, <1>21, <1>22
  DEF OwnerTasksNext, CallStep, DropStep, ServerStep

\* A thread that ends its call leaves the handle.
LEMMA DoorDone ==
    ASSUME TasksTypeOK, DoorKept, NEW a \in Agents, Done(a),
           op[a].kind \notin DropKinds,
           UNCHANGED <<open, alive, gen, bind, curAt>>
    PROVE  DoorKept'
<1> USE IdleType, AgentsAssumption DEF Agents
<1>1. /\ op' = [op EXCEPT ![a] = Idle]
      /\ door' = IF door = a THEN Nothing ELSE door
  BY DEF Done
<1>2. op'[a] = Idle /\ \A b \in Agents \ {a} : op'[b] = op[b]
  BY <1>1 DEF TasksTypeOK
<1>3. ASSUME NEW b \in Callers, op'[b] # Idle PROVE door' = b
  BY <1>1, <1>2, <1>3 DEF DoorKept
<1>4. op'[Server].kind \in DropKinds => op[Server].kind \in DropKinds
  BY <1>2 DEF DropKinds
<1>5. ~alive => op'[Server] = Idle
  BY <1>2 DEF DoorKept
<1>6. ~open => door' = Nothing
  BY <1>1 DEF DoorKept
<1> QED  BY <1>3, <1>4, <1>5, <1>6 DEF DoorKept

\* Close waits for the caller inside, and moves the generation on.
LEMMA DoorStep ==
    ASSUME TasksTypeOK, OneEach, DoorKept, [OwnerTasksNext]_ownerTasksVars
    PROVE  DoorKept'
<1> USE IdleType, AgentsAssumption DEF taskVars, doorVars, serverVars, TasksTypeOK,
         Kinds, PostKinds, TimerKinds, DropKinds, OneEach, Tasks, Agents, DoorKept
<1>1. ASSUME NEW a \in Agents, NEW kind \in {"post", "after", "cancel"}, NEW t \in Tasks,
              Call(a, kind, t)
       PROVE  DoorKept'
  BY <1>1 DEF Call, AtRest, Doing
<1>2. ASSUME NEW a \in Agents, BindPost(a) PROVE DoorKept'
  BY <1>2 DEF BindPost, Target
<1>3. ASSUME NEW a \in Agents, PutPost(a) PROVE DoorKept'
  <2>1. Done(a) /\ op[a].kind \notin DropKinds /\ UNCHANGED <<open, alive, gen, bind, curAt>>
    BY <1>3 DEF PutPost
  <2> QED  BY <2>1, DoorDone
<1>4. ASSUME NEW a \in Agents, LockAfter(a) PROVE DoorKept'
  BY <1>4 DEF LockAfter
<1>5. ASSUME NEW a \in Agents, Schedule(a) PROVE DoorKept'
  <2>1. /\ op[a].kind = "schedule" /\ op[a].task \in Tasks
        /\ bind' = [bind EXCEPT ![op[a].task] = gen] /\ UNCHANGED <<gen, open, alive, curAt>>
    BY <1>5 DEF Schedule
  <2>2. op[a] # Idle
    BY <2>1
  <2>3. alive /\ (op[Server].kind \in DropKinds => open)
    BY <2>1, <2>2
  <2>4. \/ op' = [op EXCEPT ![a] = Idle] /\ (door' = IF door = a THEN Nothing ELSE door)
        \/ op' = [op EXCEPT ![a].kind = "record"] /\ UNCHANGED door
    BY <1>5 DEF Schedule, Done
  <2>5. \A b \in Callers : op'[b] # Idle => door' = b
    BY <2>2, <2>4
  <2>6. /\ ~open' => door' = Nothing
        /\ op'[Server].kind \in DropKinds => op[Server].kind \in DropKinds
    BY <2>1, <2>4
  <2>7. \A t \in Tasks : bind'[t] <= gen'
    BY <2>1
  <2> QED  BY <2>1, <2>3, <2>5, <2>6, <2>7
<1>6. ASSUME NEW a \in Agents, Record(a) PROVE DoorKept'
  <2>1. Done(a) /\ op[a].kind \notin DropKinds /\ UNCHANGED <<open, alive, gen, bind, curAt>>
    BY <1>6 DEF Record
  <2> QED  BY <2>1, DoorDone
<1>7. ASSUME NEW a \in Agents, CancelTimer(a) PROVE DoorKept'
  BY <1>7 DEF CancelTimer, Disarm
<1>8. ASSUME NEW a \in Agents, Erase(a) PROVE DoorKept'
  <2>1. Done(a) /\ op[a].kind \notin DropKinds /\ UNCHANGED <<open, alive, gen, bind, curAt>>
    BY <1>8 DEF Erase
  <2> QED  BY <2>1, DoorDone
<1>9. CASE Invalidate
  BY <1>9 DEF Invalidate, AtRest, Doing
<1>10. CASE SwapTimers
  BY <1>10 DEF SwapTimers
<1>11. CASE CancelDropped
  <2>1. /\ op[Server].kind = "disarm" /\ UNCHANGED <<gen, bind, open, door, curAt>>
    BY <1>11 DEF CancelDropped
  <2>2. CASE doomed = {}
    <3>1. op' = [op EXCEPT ![Server] = Idle] /\ (alive' = FALSE => ~open /\ curAt = "none")
      BY <1>11, <2>2 DEF CancelDropped
    <3>2. alive /\ (~open => \A t \in Tasks : bind[t] < gen)
      BY <2>1
    <3>3. op'[Server] = Idle /\ \A b \in Callers : op'[b] = op[b]
      BY <3>1
    <3>4. alive' \in BOOLEAN
      BY <1>11, <2>2, <3>2 DEF CancelDropped
    <3> QED  BY <2>1, <3>1, <3>2, <3>3, <3>4
  <2>3. CASE doomed # {}
    BY <1>11, <2>3 DEF CancelDropped
  <2> QED  BY <2>2, <2>3
<1>12. CASE Close
  BY <1>12 DEF Close, AtRest, Doing
<1>13. ASSUME NEW t \in Timers, Fire(t) PROVE DoorKept'
  BY <1>13 DEF Fire, Target
<1>14. ASSUME NEW t \in Timers, PutFired(t) PROVE DoorKept'
  BY <1>14 DEF PutFired
<1>15. CASE Pop
  BY <1>15 DEF Pop, Serving
<1>16. CASE Enter
  BY <1>16 DEF Enter, Ended
<1>17. CASE LookUp
  BY <1>17 DEF LookUp, Ended
<1>18. CASE Leave
  BY <1>18 DEF Leave
<1>19. CASE Unregister
  BY <1>19 DEF Unregister
<1>20. CASE StopOwner
  BY <1>20 DEF StopOwner, Contains
<1>21. CASE CloseGate
  BY <1>21 DEF CloseGate
<1>22. CASE UNCHANGED ownerTasksVars
  BY <1>22 DEF ownerTasksVars
<1> HIDE DEF DoorKept
<1> QED
  BY <1>1, <1>2, <1>3, <1>4, <1>5, <1>6, <1>7, <1>8, <1>9, <1>10, <1>11, <1>12,
     <1>13, <1>14, <1>15, <1>16, <1>17, <1>18, <1>19, <1>20, <1>21, <1>22
  DEF OwnerTasksNext, CallStep, DropStep, ServerStep

----------------------------------------------------------------------------
TasksInv == /\ TasksTypeOK /\ OneEach /\ NewOnce /\ RecordedOnce
            /\ MuHeld /\ TimersKept /\ DoorKept

LEMMA TasksInvInit == OwnerTasksInit => TasksInv
<1> SUFFICES ASSUME OwnerTasksInit PROVE TasksInv
  OBVIOUS
<1>1. \A a \in Agents : op[a] = Idle
  BY DEF OwnerTasksInit
<1>2. Server \in Agents
  BY DEF Agents
<1>3. TasksTypeOK
  BY IdleType DEF OwnerTasksInit, TasksTypeOK, Stages
<1>4. OneEach /\ NewOnce
  BY <1>1, <1>2, IdleType
  DEF OwnerTasksInit, OneEach, NewOnce, PostKinds, TimerKinds, DropKinds, InQueue
<1>5. RecordedOnce /\ MuHeld
  BY <1>1, IdleType DEF OwnerTasksInit, RecordedOnce, MuHeld
<1>6. TimersKept
  BY <1>1, <1>2, IdleType DEF OwnerTasksInit, TimersKept, Tasks
<1>7. DoorKept
  BY <1>1, <1>2, IdleType DEF OwnerTasksInit, DoorKept, DropKinds, Agents
<1> QED  BY <1>3, <1>4, <1>5, <1>6, <1>7 DEF TasksInv

LEMMA TasksInvariant == OwnerTasksSpec => []TasksInv
<1>1. TasksInv /\ [OwnerTasksNext]_ownerTasksVars => TasksInv'
  BY TypeStep, OneEachStep, NewOnceStep, RecordedOnceStep, MuStep, TimersKeptStep, DoorStep
  DEF TasksInv
<1> QED  BY TasksInvInit, <1>1, PTL DEF OwnerTasksSpec

\* Outside a DropPending timers_ names exactly the timers that may still come, all of
\* the present generation (OwnerTasks.cpp:59-75, 90-99).
THEOREM IdsExact == OwnerTasksSpec => []TimersExact
<1>1. TasksInv => TimersExact
  <2> SUFFICES ASSUME TasksInv, ~Dropping, NEW t \in Timers,
                      \A a \in Agents : op[a].task # t
               PROVE  /\ t \in timers => bind[t] = gen /\ (Awaited(t) \/ stage[t] = "refused")
                      /\ stage[t] = "armed" => t \in timers
    BY DEF TimersExact
  <2>1. op[Server].kind \notin {"swap", "disarm"}
    BY DEF Dropping
  <2>2. ~Recording(t) /\ ~Erasing(t)
    BY DEF Recording, Erasing
  <2> QED  BY <2>1, <2>2 DEF TasksInv, TimersKept, Promised, Awaited
<1> QED  BY TasksInvariant, <1>1, PTL

\* A Cancel that came back before the task began is never followed by its beginning
\* (OwnerTasks.cpp:65, 78-88).
THEOREM CancelHolds == OwnerTasksSpec => CancelIsFinal
<1>1. TasksInv /\ [OwnerTasksNext]_ownerTasksVars
        => [\A t \in cancelled : Began(t)' => Began(t)]_ownerTasksVars
  <2> SUFFICES ASSUME TasksInv, OwnerTasksNext, NEW t \in cancelled, stage'[t] = "begun"
               PROVE  stage[t] = "begun"
    BY DEF Began
  <2>1. t \in Timers /\ t \in Tasks /\ t \notin timers
    BY DEF TasksInv, TasksTypeOK, RecordedOnce, Tasks
  <2>2. stage \in [Tasks -> Stages]
    BY DEF TasksInv, TasksTypeOK
  <2>3. CASE LookUp
    <3>1. CASE cur \in timers
      BY <2>1, <2>2, <2>3, <3>1 DEF LookUp
    <3>2. CASE cur \notin timers
      BY <2>1, <2>2, <2>3, <3>2 DEF LookUp, Ended
    <3> QED  BY <3>1, <3>2
  <2>4. CASE Enter
    BY <2>1, <2>2, <2>4 DEF Enter, Ended, taskVars
  <2>5. ASSUME NEW a \in Agents, CallStep(a) PROVE stage[t] = "begun"
    BY <2>1, <2>2, <2>5
    DEF CallStep, BindPost, PutPost, Put, LockAfter, Schedule, Record, CancelTimer, Disarm,
        Erase, taskVars
  <2>6. CASE CancelDropped
    <3>1. CASE doomed = {}
      BY <2>6, <3>1 DEF CancelDropped
    <3>2. CASE doomed # {}
      BY <2>1, <2>2, <2>6, <3>2 DEF CancelDropped, Disarm
    <3> QED  BY <3>1, <3>2
  <2>7. ASSUME NEW u \in Timers, Fire(u) \/ PutFired(u) PROVE stage[t] = "begun"
    BY <2>1, <2>2, <2>7 DEF Fire, PutFired, Put, Target, Tasks
  <2>8. CASE StopOwner \/ CloseGate
    BY <2>1, <2>2, <2>8 DEF StopOwner, CloseGate
  <2>9. ASSUME UNCHANGED stage PROVE stage[t] = "begun"
    BY <2>9
  <2> QED
    BY <2>3, <2>4, <2>5, <2>6, <2>7, <2>8, <2>9
    DEF OwnerTasksNext, DropStep, ServerStep, Call, Invalidate, SwapTimers, Close, Pop,
        Leave, Unregister, taskVars
<1> QED  BY TasksInvariant, <1>1, PTL DEF OwnerTasksSpec, CancelIsFinal

\* Nobody touches the object after its end: no call of its handle is inside, and none of
\* its tasks runs (OwnerTasks.cpp:16-41).
THEOREM EndIsQuiet == OwnerTasksSpec => []DoorHolds
<1>1. TasksInv => DoorHolds
  <2> SUFFICES ASSUME TasksInv, ~alive
               PROVE  (\A a \in Agents : op[a] = Idle) /\ curAt \notin {"entered", "body"}
    BY DEF DoorHolds
  <2>1. ~open /\ op[Server] = Idle /\ curAt \notin {"entered", "body"} /\ door = Nothing
    BY DEF TasksInv, DoorKept
  <2>2. \A a \in Callers : op[a] = Idle
    BY <2>1, AgentsAssumption DEF TasksInv, DoorKept
  <2> QED  BY <2>1, <2>2 DEF Agents
<1> QED  BY TasksInvariant, <1>1, PTL

----------------------------------------------------------------------------
(***************************************************************************)
(* A settled wait returns what was accepted, for any number of callbacks.  *)
(* The flag is what makes the promise safe: whoever took it is alone with  *)
(* the promise until it is set, and nobody sets it again.                  *)
(***************************************************************************)

WaitTypeOK ==
    /\ settled \in BOOLEAN
    /\ promise \in Threads \cup {Nobody}
    /\ at \in [Threads -> {"idle", "waiting", "finishing", "setting", "getting", "back"}]
    /\ DOMAIN answer = Threads

\* Nothing has happened before the flag is taken.
Untouched == ~settled => /\ promise = Nobody
                         /\ \A t \in Threads : at[t] # "setting" /\ answer[t] # "accepted"

\* One thread at most has taken the flag and not set the promise.
OneSetter == \A t \in Threads : at[t] = "setting" =>
                 /\ promise = Nobody
                 /\ \A u \in Threads \ {t} : at[u] # "setting"

\* An answer that was given is about the promise as it stays.
Answered == /\ \A c \in Callbacks : answer[c] = "accepted" => promise = c
            /\ answer[Waiter] # "none" => answer[Waiter] = promise /\ promise # Nobody

WaitInv == WaitTypeOK /\ Untouched /\ OneSetter /\ Answered

----------------------------------------------------------------------------
LEMMA WaiterInit == SettledInit => WaitInv
  BY SettledAssumption
  DEF SettledInit, WaitInv, WaitTypeOK, Untouched, OneSetter, Answered, Threads, Nobody

\* Taking the flag: the first one goes on to the promise, the others do not.
LEMMA ExchangeKeeps ==
    ASSUME WaitInv, NEW t \in Threads, Exchange(t)
    PROVE  WaitInv'
<1> USE SettledAssumption DEF Threads, Nobody
<1>1. WaitTypeOK'
  BY DEF WaitInv, WaitTypeOK, Exchange
<1>2. Untouched' /\ OneSetter'
  BY DEF WaitInv, WaitTypeOK, Untouched, OneSetter, Exchange
<1>3. Answered'
  BY DEF WaitInv, WaitTypeOK, Answered, Exchange
<1> QED  BY <1>1, <1>2, <1>3 DEF WaitInv

\* Setting the promise: it was empty, so nobody has an answer about it yet.
LEMMA SetKeeps ==
    ASSUME WaitInv, NEW t \in Threads, SetValue(t)
    PROVE  WaitInv'
<1> USE SettledAssumption DEF Threads, Nobody
<1>1. promise = Nobody /\ promise' = t /\ settled
  BY DEF WaitInv, WaitTypeOK, Untouched, OneSetter, SetValue
<1>2. WaitTypeOK'
  BY <1>1 DEF WaitInv, WaitTypeOK, SetValue
<1>3. Untouched' /\ OneSetter'
  BY <1>1 DEF WaitInv, WaitTypeOK, Untouched, OneSetter, SetValue
<1>4. Answered'
  BY <1>1 DEF WaitInv, WaitTypeOK, Answered, SetValue
<1> QED  BY <1>2, <1>3, <1>4 DEF WaitInv

LEMMA WaitInvariant == SettledSpec => []WaitInv
<1>1. WaitInv /\ [SettledNext]_waitVars => WaitInv'
  <2> SUFFICES ASSUME WaitInv, [SettledNext]_waitVars PROVE WaitInv'
    OBVIOUS
  <2> USE SettledAssumption DEF Threads, Nobody
  <2>1. CASE Ready \/ TimeOut
    BY <2>1 DEF Ready, TimeOut, WaitInv, WaitTypeOK, Untouched, OneSetter, Answered
  <2>2. ASSUME NEW t \in Callbacks, FinishCall(t) PROVE WaitInv'
    BY <2>2 DEF FinishCall, WaitInv, WaitTypeOK, Untouched, OneSetter, Answered
  <2>3. CASE Get
    BY <2>3 DEF Get, WaitInv, WaitTypeOK, Untouched, OneSetter, Answered
  <2>4. ASSUME NEW t \in Threads, SettledStep(t) PROVE WaitInv'
    BY <2>4, ExchangeKeeps, SetKeeps DEF SettledStep
  <2>5. CASE UNCHANGED waitVars
    BY <2>5 DEF waitVars, WaitInv, WaitTypeOK, Untouched, OneSetter, Answered
  <2> QED  BY <2>1, <2>2, <2>3, <2>4, <2>5 DEF SettledNext
<1> QED  BY WaiterInit, <1>1, PTL DEF SettledSpec

\* Whatever the callbacks and the timeout do, the accepted result is the one that
\* Wait returns, and one at most is accepted (SettledWait.h:29-50).
THEOREM AcceptedWins == SettledSpec => []AcceptedIsReturned
<1>1. WaitInv => AcceptedIsReturned
  BY DEF WaitInv, Answered, AcceptedIsReturned
<1> QED  BY WaitInvariant, <1>1, PTL

----------------------------------------------------------------------------
(***************************************************************************)
(* AtomicFileWrite implements AtomicCell, for any number of writers, parts *)
(* of a file and retries: every step of the code is a step of the cell or  *)
(* changes nothing a reader or a caller could notice.                      *)
(*                                                                         *)
(* The argument: a file is given the path's name once and when it is       *)
(* whole, and a durable one is on disk by then. So what a power cut leaves *)
(* of the named files is the files, but for the loose ones. A directory    *)
(* that is on disk stays; one that was made may go, with all its names:    *)
(* till the end of it no writer there is told that its write is durable.   *)
(***************************************************************************)

Points == {"start", "create", "write", "fsync", "rename", "fsyncdir", "ok", "fail", "error", "gone"}

FileTypeOK ==
    /\ pc \in [Writers -> Points]
    /\ written \in [Writers -> 0 .. Parts] /\ synced \in [Writers -> 0 .. Parts]
    /\ \A w \in Writers : synced[w] <= written[w]
    /\ names \in Seq(Writers \cup {Old}) /\ disk \in 1 .. Len(names)
    /\ dir \in {"missing", "made", "safe"}

\* Named files are those of writers past the rename, each named once.
NamedOnce ==
    /\ \A i \in 1 .. Len(names) :
         names[i] \in Writers => pc[names[i]] \in {"fsyncdir", "ok", "gone"}
    /\ \A i, j \in 1 .. Len(names) : names[i] = names[j] /\ names[i] \in Writers => i = j

\* A durable file is whole, on disk, when it gets its name.
Whole ==
    /\ \A w \in Writers : pc[w] \in {"fsync", "rename", "fsyncdir"} => written[w] = Parts
    /\ \A w \in Writers : pc[w] \in {"rename", "fsyncdir"} /\ Durable(w) => synced[w] = Parts
    /\ \A i \in 1 .. Len(names) :
         names[i] \in Writers /\ Durable(names[i]) => synced[names[i]] = Parts

\* A durable write that has returned, of which nothing is in doubt, is named in the
\* directory on disk, and the directory is there, too.
OnDisk ==
    /\ \A w \in Writers : pc[w] = "fsyncdir" =>
         Durable(w) /\ \E i \in 1 .. Len(names) : names[i] = w
    /\ \A w \in Writers \ (Loose \cup unsynced) : pc[w] = "ok" =>
         dir = "safe" /\ \E i \in 1 .. disk : names[i] = w

FileInv == FileTypeOK /\ NamedOnce /\ Whole /\ OnDisk

\* The refinement mapping, by name
Puts == [i \in 1 .. Len(names) |-> ContentOf(names[i])]
Told == {w \in Writers \ (Loose \cup unsynced) : pc[w] = "ok"}
Failed == {w \in Writers : pc[w] = "error"}

----------------------------------------------------------------------------
(* The invariant. *)

LEMMA FileInvInit == FileInit => FileInv
<1> SUFFICES ASSUME FileInit PROVE FileInv
  OBVIOUS
<1>1. names = <<Old>> /\ Len(names) = 1 /\ names[1] = Old
  BY DEF FileInit
<1>2. Old \notin Writers
  BY FileAssumption DEF Old
<1> QED
  BY <1>1, <1>2, FileAssumption
  DEF FileInit, FileInv, FileTypeOK, NamedOnce, Whole, OnDisk, Points

\* A writer that goes on without touching the names.
LEMMA FileInvQuiet ==
    ASSUME FileInv, NEW w \in Writers,
           \/ CreateDirectories(w) \/ CreateTemp(w) \/ WritePart(w) \/ CloseTemp(w)
           \/ FsyncFile(w) \/ RemoveTemp(w)
    PROVE  FileInv'
<1> USE FileAssumption DEF FileInv, FileTypeOK, Go, Points
<1>1. /\ UNCHANGED <<names, disk, unsynced>>
      /\ dir' = dir \/ (dir = "missing" /\ dir' = "made")
  <2>1. CASE CreateDirectories(w)
    BY <2>1 DEF CreateDirectories
  <2>2. CASE ~CreateDirectories(w)
    BY <2>2 DEF CreateTemp, WritePart, CloseTemp, FsyncFile, RemoveTemp
  <2> QED  BY <2>1, <2>2
<1>2. /\ pc[w] \in {"start", "create", "write", "fsync", "fail"}
      /\ pc' = [pc EXCEPT ![w] = pc'[w]]
      /\ pc'[w] \in {"create", "write", "fsync", "rename", "fail", "error"}
  <2>1. CASE CreateDirectories(w) \/ CreateTemp(w)
    BY <2>1 DEF CreateDirectories, CreateTemp
  <2>2. CASE WritePart(w) \/ CloseTemp(w)
    BY <2>2 DEF WritePart, CloseTemp
  <2>3. CASE FsyncFile(w) \/ RemoveTemp(w)
    BY <2>3 DEF FsyncFile, RemoveTemp
  <2> QED  BY <2>1, <2>2, <2>3
<1>3. /\ written' \in [Writers -> 0 .. Parts] /\ synced' \in [Writers -> 0 .. Parts]
      /\ \A v \in Writers \ {w} : written'[v] = written[v] /\ synced'[v] = synced[v]
      /\ synced'[w] <= written'[w]
  <2>1. CASE CreateDirectories(w) \/ CreateTemp(w) \/ CloseTemp(w) \/ RemoveTemp(w)
    BY <2>1 DEF CreateDirectories, CreateTemp, CloseTemp, RemoveTemp
  <2>2. CASE WritePart(w)
    <3>1. synced' = synced /\ \/ written' = written
                              \/ /\ written[w] < Parts
                                 /\ written' = [written EXCEPT ![w] = written[w] + 1]
      BY <2>2 DEF WritePart
    <3>2. CASE written' = written
      BY <3>1, <3>2
    <3>3. CASE written[w] < Parts /\ written' = [written EXCEPT ![w] = written[w] + 1]
      <4>1. written[w] + 1 \in 0 .. Parts
        BY <3>3
      <4> QED  BY <3>1, <3>3, <4>1
    <3> QED  BY <3>1, <3>2, <3>3
  <2>3. CASE FsyncFile(w)
    BY <2>3 DEF FsyncFile
  <2> QED  BY <2>1, <2>2, <2>3
<1>4. \A i \in 1 .. Len(names) : names[i] # w
  BY <1>2 DEF NamedOnce
<1>5. /\ pc'[w] \in {"fsync", "rename"} => written'[w] = Parts
      /\ pc'[w] = "rename" /\ Durable(w) => synced'[w] = Parts
  BY DEF CreateDirectories, CreateTemp, WritePart, CloseTemp, FsyncFile, RemoveTemp, Whole
<1>6. FileTypeOK'
  BY <1>1, <1>2, <1>3
<1>7. NamedOnce'
  BY <1>1, <1>2, <1>4 DEF NamedOnce
<1>8. Whole'
  BY <1>1, <1>2, <1>3, <1>4, <1>5 DEF Whole, Durable
<1>9. OnDisk'
  BY <1>1, <1>2 DEF OnDisk, Durable
<1> QED  BY <1>6, <1>7, <1>8, <1>9

LEMMA FileInvRename ==
    ASSUME FileInv, NEW w \in Writers, RenameOver(w)
    PROVE  FileInv'
<1> USE FileAssumption DEF FileInv, FileTypeOK, Go, Points
<1>1. UNCHANGED <<written, synced, disk, unsynced, dir>>
  BY DEF RenameOver
<1>2. CASE names' = names
  <2>1. pc' = [pc EXCEPT ![w] = pc'[w]] /\ pc'[w] \in {"rename", "fail"} /\ pc[w] = "rename"
    BY <1>2 DEF RenameOver
  <2>2. \A i \in 1 .. Len(names) : names[i] # w
    <3>1. \A i \in 1 .. Len(names) : names[i] = w => pc[w] \in {"fsyncdir", "ok", "gone"}
      BY DEF NamedOnce
    <3> QED  BY <2>1, <3>1
  <2>3. \A v \in Writers : pc'[v] = pc[v] \/ v = w
    BY <2>1
  <2>4. FileTypeOK'
    BY <1>1, <1>2, <2>1
  <2>5. NamedOnce'
    BY <1>2, <2>2, <2>3 DEF NamedOnce
  <2>6. Whole'
    BY <1>1, <1>2, <2>1, <2>2, <2>3 DEF Whole, Durable
  <2>7. OnDisk'
    BY <1>1, <1>2, <2>1, <2>2, <2>3 DEF OnDisk, Durable
  <2> QED  BY <2>4, <2>5, <2>6, <2>7
<1>3. CASE names' = Append(names, w)
  <2> DEFINE n == Len(names)
  <2>1. /\ pc[w] = "rename"
        /\ pc' = [pc EXCEPT ![w] = IF Durable(w) THEN "fsyncdir" ELSE "ok"]
    BY <1>3 DEF RenameOver
  <2>2. /\ n \in Nat /\ names' \in Seq(Writers \cup {Old}) /\ Len(names') = n + 1
        /\ names'[n + 1] = w /\ \A i \in 1 .. n : names'[i] = names[i]
    BY <1>3
  <2>3. \A i \in 1 .. n : names[i] # w
    BY <2>1 DEF NamedOnce
  <2>4. \A k \in 1 .. n + 1 : k # n + 1 => k \in 1 .. n
    <3>1. n \in Nat
      BY <2>2
    <3> HIDE DEF n
    <3> QED  BY <3>1
  <2>5. FileTypeOK'
    BY <1>1, <2>1, <2>2
  <2>6. NamedOnce'
    <3>1. ASSUME NEW i \in 1 .. n + 1, names'[i] \in Writers
          PROVE  pc'[names'[i]] \in {"fsyncdir", "ok", "gone"}
      <4>1. CASE i = n + 1
        BY <2>1, <2>2, <4>1
      <4>2. CASE i # n + 1
        <5>1. i \in 1 .. n /\ names'[i] = names[i] /\ names[i] # w
          BY <2>2, <2>3, <2>4, <4>2
        <5>2. pc[names[i]] \in {"fsyncdir", "ok", "gone"}
          BY <3>1, <5>1 DEF NamedOnce
        <5> QED  BY <2>1, <3>1, <5>1, <5>2
      <4> QED  BY <4>1, <4>2
    <3>2. ASSUME NEW i \in 1 .. n + 1, NEW j \in 1 .. n + 1,
                 names'[i] = names'[j], names'[i] \in Writers
          PROVE  i = j
      <4>1. CASE i = n + 1 \/ j = n + 1
        <5>1. \A k \in 1 .. n + 1 : names'[k] = w => k = n + 1
          BY <2>2, <2>3, <2>4
        <5>2. names'[i] = w /\ names'[j] = w
          BY <2>2, <3>2, <4>1
        <5> QED  BY <5>1, <5>2
      <4>2. CASE i # n + 1 /\ j # n + 1
        <5>1. i \in 1 .. n /\ j \in 1 .. n
          BY <2>2, <2>4, <4>2
        <5> QED  BY <2>2, <3>2, <5>1 DEF NamedOnce
      <4> QED  BY <4>1, <4>2
    <3> QED  BY <2>2, <3>1, <3>2 DEF NamedOnce
  <2>7. Whole'
    <3>1. \A v \in Writers : pc'[v] \in {"fsync", "rename", "fsyncdir"} => written[v] = Parts
      BY <2>1 DEF Whole
    <3>2. \A v \in Writers : pc'[v] \in {"rename", "fsyncdir"} /\ Durable(v) => synced[v] = Parts
      BY <2>1 DEF Whole
    <3>3. ASSUME NEW i \in 1 .. n + 1, names'[i] \in Writers, Durable(names'[i])
          PROVE  synced[names'[i]] = Parts
      <4>1. CASE i = n + 1
        BY <2>1, <2>2, <3>3, <4>1 DEF Whole
      <4>2. CASE i # n + 1
        <5>1. i \in 1 .. n /\ names'[i] = names[i]
          BY <2>2, <2>4, <4>2
        <5> QED  BY <3>3, <5>1 DEF Whole
      <4> QED  BY <4>1, <4>2
    <3> QED  BY <1>1, <2>2, <3>1, <3>2, <3>3 DEF Whole, Durable
  <2>8. OnDisk'
    <3>1. \A v \in Writers : pc'[v] = "fsyncdir" =>
            Durable(v) /\ \E i \in 1 .. Len(names') : names'[i] = v
      <4> SUFFICES ASSUME NEW v \in Writers, pc'[v] = "fsyncdir"
                   PROVE  Durable(v) /\ \E i \in 1 .. n + 1 : names'[i] = v
        BY <2>2
      <4>1. CASE v = w
        BY <2>1, <2>2, <4>1
      <4>2. CASE v # w
        <5>1. pc[v] = "fsyncdir"
          BY <2>1, <4>2
        <5>2. Durable(v) /\ \E i \in 1 .. n : names[i] = v
          BY <5>1 DEF OnDisk
        <5> QED  BY <2>2, <5>2
      <4> QED  BY <4>1, <4>2
    <3>2. \A v \in Writers \ (Loose \cup unsynced) : pc'[v] = "ok" => pc[v] = "ok"
      BY <2>1 DEF Durable
    <3>3. \A i \in 1 .. disk : i \in 1 .. n
      BY <2>2
    <3>4. ASSUME NEW v \in Writers \ (Loose \cup unsynced), pc'[v] = "ok"
          PROVE  dir = "safe" /\ \E i \in 1 .. disk : names'[i] = v
      <4>1. dir = "safe"
        BY <3>2, <3>4 DEF OnDisk
      <4>2. PICK i \in 1 .. disk : names[i] = v
        BY <3>2, <3>4 DEF OnDisk
      <4> QED  BY <2>2, <3>3, <4>1, <4>2
    <3>5. \A v \in Writers : Durable(v) <=> Durable(v)'
      BY DEF Durable
    <3> QED  BY <1>1, <3>1, <3>4, <3>5 DEF OnDisk
  <2> QED  BY <2>5, <2>6, <2>7, <2>8
<1> QED  BY <1>2, <1>3 DEF RenameOver

LEMMA FileInvDirectory ==
    ASSUME FileInv, NEW w \in Writers, FsyncDirectory(w)
    PROVE  FileInv'
<1> USE FileAssumption DEF FileInv, FileTypeOK, Go, Points
<1>1. /\ UNCHANGED <<written, synced, names, dir>>
      /\ pc[w] = "fsyncdir" /\ pc' = [pc EXCEPT ![w] = "ok"]
  BY DEF FsyncDirectory
<1>2. /\ disk' \in disk .. Len(names) /\ unsynced \subseteq unsynced'
      /\ w \in unsynced' \/ (disk' = Len(names) /\ dir = "safe")
  <2>1. CASE disk' = disk /\ unsynced' = unsynced \cup {w}
    BY <2>1
  <2>2. CASE disk' = Len(names) /\ unsynced' = IF dir = "safe" THEN unsynced ELSE unsynced \cup {w}
    BY <2>2
  <2> QED  BY <2>1, <2>2 DEF FsyncDirectory
<1>3. FileTypeOK'
  BY <1>1, <1>2
<1>4. NamedOnce' /\ Whole'
  BY <1>1 DEF NamedOnce, Whole, Durable
<1>5. OnDisk'
  <2>1. \A v \in Writers : pc'[v] = "fsyncdir" => pc[v] = "fsyncdir"
    BY <1>1
  <2>2. ASSUME NEW v \in Writers \ (Loose \cup unsynced'), pc'[v] = "ok"
        PROVE  dir = "safe" /\ \E i \in 1 .. disk' : names'[i] = v
    <3>1. CASE v = w
      BY <1>1, <1>2, <2>2, <3>1 DEF OnDisk
    <3>2. CASE v # w
      <4>1. dir = "safe" /\ \E i \in 1 .. disk : names[i] = v
        BY <1>1, <1>2, <2>2, <3>2 DEF OnDisk
      <4> QED  BY <1>1, <1>2, <4>1
    <3> QED  BY <3>1, <3>2
  <2> QED  BY <1>1, <2>1, <2>2 DEF OnDisk
<1> QED  BY <1>3, <1>4, <1>5

\* What a power cut leaves.
LEMMA CutNames ==
    ASSUME FileInv, NEW n \in 1 .. Len(names), names' = SubSeq(names, 1, n)
    PROVE  /\ n \in Nat /\ n >= 1 /\ n <= Len(names)
           /\ names' \in Seq(Writers \cup {Old}) /\ Len(names') = n
           /\ \A i \in 1 .. n : names'[i] = names[i]
<1>1. n \in Nat /\ n >= 1 /\ n <= Len(names) /\ names \in Seq(Writers \cup {Old})
  BY DEF FileInv, FileTypeOK
<1> QED  BY <1>1

LEMMA FileInvCut ==
    ASSUME FileInv, PowerCut
    PROVE  FileInv'
<1> USE FileAssumption DEF FileInv, FileTypeOK, Points
<1>1. PICK n \in 1 .. Len(names) :
        /\ dir' \in {"missing", "safe"} /\ (dir = "safe" => dir' = "safe" /\ n >= disk)
        /\ names' = SubSeq(names, 1, n) /\ disk' = n
        /\ written' \in [Writers -> 0 .. Parts]
        /\ \A w \in Writers : written'[w] \in synced[w] .. written[w]
        /\ synced' = written'
        /\ pc' = [w \in Writers |-> IF pc[w] \in {"start", "ok", "error"} THEN pc[w]
                                    ELSE "gone"]
        /\ unsynced' = unsynced
  <2>1. 1 \in 1 .. Len(names) /\ disk .. Len(names) \subseteq 1 .. Len(names)
    OBVIOUS
  <2> QED  BY <2>1 DEF PowerCut
<1>2. /\ n \in Nat /\ n >= 1 /\ n <= Len(names)
      /\ names' \in Seq(Writers \cup {Old}) /\ Len(names') = n
      /\ \A i \in 1 .. n : names'[i] = names[i]
  BY <1>1, CutNames
<1>3. FileTypeOK'
  BY <1>1, <1>2
<1>4. NamedOnce'
  <2>1. \A i \in 1 .. n : i \in 1 .. Len(names) /\ names'[i] = names[i]
    BY <1>2
  <2>2. ASSUME NEW i \in 1 .. n, names'[i] \in Writers
        PROVE  pc'[names'[i]] \in {"fsyncdir", "ok", "gone"}
    <3>1. pc[names[i]] \in {"fsyncdir", "ok", "gone"} /\ names[i] \in Writers
      BY <2>1, <2>2 DEF NamedOnce
    <3>2. \A w \in Writers : pc'[w] \in {pc[w], "gone"}
      BY <1>1
    <3> QED  BY <2>1, <3>1, <3>2
  <2>3. \A i, j \in 1 .. n : names'[i] = names'[j] /\ names'[i] \in Writers => i = j
    BY <2>1 DEF NamedOnce
  <2> QED  BY <1>2, <2>2, <2>3 DEF NamedOnce
<1>5. Whole'
  <2>1. \A w \in Writers : pc'[w] \notin {"fsync", "rename", "fsyncdir"}
    BY <1>1
  <2>2. \A i \in 1 .. n : names[i] \in Writers /\ Durable(names[i]) => synced'[names[i]] = Parts
    BY <1>1, <1>2 DEF Whole, Durable
  <2> QED  BY <1>2, <2>1, <2>2 DEF Whole, Durable
<1>6. OnDisk'
  <2>1. \A w \in Writers : pc'[w] # "fsyncdir" /\ (pc'[w] = "ok" => pc[w] = "ok")
    BY <1>1
  <2>2. dir = "safe" => \A i \in 1 .. disk : i \in 1 .. n
    BY <1>1, <1>2
  <2>3. ASSUME NEW w \in Writers \ (Loose \cup unsynced), pc'[w] = "ok"
        PROVE  dir' = "safe" /\ \E i \in 1 .. n : names'[i] = w
    <3>1. dir = "safe" /\ \E i \in 1 .. disk : names[i] = w
      BY <2>1, <2>3 DEF OnDisk
    <3> QED  BY <1>1, <1>2, <2>2, <3>1
  <2> QED  BY <1>1, <2>1, <2>3 DEF OnDisk
<1> QED  BY <1>3, <1>4, <1>5, <1>6

LEMMA FileInvariant == FileSpec => []FileInv
<1>1. FileInv /\ [FileNext]_fileVars => FileInv'
  <2> SUFFICES ASSUME FileInv, [FileNext]_fileVars PROVE FileInv'
    OBVIOUS
  <2>1. CASE PowerCut
    BY <2>1, FileInvCut
  <2>2. ASSUME NEW w \in Writers,
               \/ CreateDirectories(w) \/ CreateTemp(w) \/ WritePart(w) \/ CloseTemp(w)
               \/ FsyncFile(w) \/ RemoveTemp(w)
        PROVE  FileInv'
    BY <2>2, FileInvQuiet
  <2>3. ASSUME NEW w \in Writers, RenameOver(w) PROVE FileInv'
    BY <2>3, FileInvRename
  <2>4. ASSUME NEW w \in Writers, FsyncDirectory(w) PROVE FileInv'
    BY <2>4, FileInvDirectory
  <2>5. CASE UNCHANGED fileVars
    BY <2>5 DEF fileVars, FileInv, FileTypeOK, NamedOnce, Whole, OnDisk, Durable
  <2> QED  BY <2>1, <2>2, <2>3, <2>4, <2>5 DEF FileNext
<1> QED  BY FileInvInit, <1>1, PTL DEF FileSpec

----------------------------------------------------------------------------
(* The refinement. *)

cellVars == <<Puts, Lasting, Told, Failed>>

Contents == Writers \cup {Old, Torn}

\* A function on 1 .. n is a sequence of that length.
LEMMA FunctionAsSeq ==
    ASSUME NEW S, NEW n \in Nat, NEW f \in [1 .. n -> S]
    PROVE  f \in Seq(S) /\ Len(f) = n
<1>1. f \in Seq(S)
  BY SeqDef
<1> QED  BY <1>1, LenProperties

\* What the path has named, as contents: a sequence.
LEMMA PutsType ==
    ASSUME FileInv
    PROVE  /\ Puts \in Seq(Contents) /\ Len(Puts) = Len(names)
           /\ \A i \in 1 .. Len(names) : Puts[i] = ContentOf(names[i])
<1> DEFINE n == Len(names)
<1>1. n \in Nat /\ \A i \in 1 .. n : names[i] \in Writers \cup {Old}
  BY DEF FileInv, FileTypeOK
<1>2. \A i \in 1 .. n : ContentOf(names[i]) \in Contents
  BY <1>1 DEF ContentOf, Contents
<1>3. Puts \in [1 .. n -> Contents]
  BY <1>2 DEF Puts
<1>4. Puts \in Seq(Contents) /\ Len(Puts) = n
  BY <1>1, <1>3, FunctionAsSeq
<1> QED  BY <1>4 DEF Puts

\* A writer whose file has not been named has not been seen.
LEMMA NotSeen ==
    ASSUME FileInv, NEW w \in Writers, pc[w] \notin {"fsyncdir", "ok", "gone"}
    PROVE  ~Cell!Seen(w, Len(Puts))
<1>1. w # Torn
  BY FileAssumption DEF Torn
<1>2. \A i \in 1 .. Len(names) : names[i] # w
  BY DEF FileInv, NamedOnce
<1>3. \A i \in 1 .. Len(names) : Puts[i] # w
  BY <1>1, <1>2, PutsType DEF ContentOf
<1> QED  BY <1>3, PutsType DEF Cell!Seen, Puts

\* The contents stay when the named files and their contents do.
LEMMA PutsKept ==
    ASSUME FileInv, UNCHANGED names,
           \A v \in Writers : pc[v] \in {"fsyncdir", "ok", "gone"} => written'[v] = written[v]
    PROVE  UNCHANGED Puts
<1>1. \A i \in 1 .. Len(names) : ContentOf(names[i])' = ContentOf(names[i])
  <2> TAKE i \in 1 .. Len(names)
  <2>1. names[i] \in Writers => written'[names[i]] = written[names[i]]
    BY DEF FileInv, NamedOnce
  <2>2. names[i] \in Writers \/ names[i] = Old
    BY DEF FileInv, FileTypeOK
  <2> QED  BY <2>1, <2>2 DEF ContentOf
<1> QED  BY <1>1 DEF Puts

\* Writing the temporary file shows nobody anything.
LEMMA QuietStutters ==
    ASSUME FileInv, NEW w \in Writers,
           \/ CreateDirectories(w) \/ CreateTemp(w) \/ WritePart(w) \/ CloseTemp(w)
           \/ FsyncFile(w)
    PROVE  UNCHANGED cellVars
<1>1. /\ UNCHANGED <<names, disk, unsynced>> /\ (dir' = "safe" <=> dir = "safe")
      /\ pc[w] \in {"start", "create", "write", "fsync"}
      /\ pc' = [pc EXCEPT ![w] = pc'[w]]
      /\ pc'[w] \in {"create", "write", "fsync", "rename", "fail"}
  BY DEF CreateDirectories, CreateTemp, WritePart, CloseTemp, FsyncFile, Go, FileInv, FileTypeOK
<1>2. \A v \in Writers \ {w} : written'[v] = written[v]
  <2>1. CASE UNCHANGED written
    BY <2>1
  <2>2. CASE written' = [written EXCEPT ![w] = written[w] + 1]
    BY <2>2 DEF FileInv, FileTypeOK
  <2> QED  BY <2>1, <2>2 DEF CreateDirectories, CreateTemp, WritePart, CloseTemp, FsyncFile
<1>3. UNCHANGED Puts
  BY <1>1, <1>2, PutsKept
<1>4. \A v \in Writers : (pc'[v] = "ok" <=> pc[v] = "ok") /\ (pc'[v] = "error" <=> pc[v] = "error")
  BY <1>1 DEF FileInv, FileTypeOK
<1> QED  BY <1>1, <1>3, <1>4 DEF cellVars, Told, Failed, Lasting

\* The rename is the write.
LEMMA RenamePuts ==
    ASSUME FileInv, FileInv', NEW w \in Writers, RenameOver(w)
    PROVE  Cell!Put(w) \/ UNCHANGED cellVars
<1>1. /\ UNCHANGED <<written, disk, unsynced, dir>> /\ UNCHANGED Lasting
      /\ pc[w] = "rename" /\ pc' = [pc EXCEPT ![w] = pc'[w]]
      /\ pc'[w] # "error" /\ (pc'[w] = "ok" => w \in Loose)
  BY DEF RenameOver, Go, Durable, FileInv, FileTypeOK, Lasting
<1>2. UNCHANGED <<Told, Failed>>
  BY <1>1 DEF Told, Failed, FileInv, FileTypeOK
<1>3. CASE names' = names
  BY <1>1, <1>2, <1>3, PutsKept DEF cellVars
<1>4. CASE names' = Append(names, w)
  <2> DEFINE n == Len(names)
  <2>1. ContentOf(w)' = w
    BY <1>1 DEF ContentOf, FileInv, Whole
  <2>2. /\ n \in Nat /\ Len(names') = n + 1
        /\ names'[n + 1] = w /\ \A i \in 1 .. n : names'[i] = names[i]
    BY <1>4 DEF FileInv, FileTypeOK
  <2>3. \A i \in 1 .. n : ContentOf(names[i])' = ContentOf(names[i])
    BY <1>1, <2>2 DEF ContentOf
  <2>4. /\ Puts \in Seq(Contents) /\ Len(Puts) = n
        /\ \A i \in 1 .. n : Puts[i] = ContentOf(names[i])
        /\ Puts' \in Seq(Contents) /\ Len(Puts') = n + 1
        /\ \A i \in 1 .. n + 1 : Puts'[i] = ContentOf(names[i])'
    <3>1. \A i \in 1 .. n + 1 : names'[i] \in Writers \cup {Old}
      BY <2>2 DEF FileInv, FileTypeOK
    <3>2. \A i \in 1 .. n + 1 : ContentOf(names[i])' \in Contents
      BY <3>1 DEF ContentOf, Contents
    <3>3. Puts' \in [1 .. n + 1 -> Contents]
      BY <2>2, <3>2 DEF Puts
    <3>4. n + 1 \in Nat
      BY <2>2
    <3>5. Puts' \in Seq(Contents) /\ Len(Puts') = n + 1
      BY <3>3, <3>4, FunctionAsSeq
    <3> QED  BY <2>2, <3>5, PutsType DEF Puts
  <2>5. w \in Contents
    BY DEF Contents
  <2>6. Puts' = Append(Puts, w)
    BY <2>1, <2>2, <2>3, <2>4, <2>5
  <2>7. ~Cell!Seen(w, Len(Puts)) /\ w \notin Failed
    BY <1>1, NotSeen DEF Failed
  <2> QED  BY <1>1, <1>2, <2>6, <2>7 DEF Cell!Put, Puts, Told, Failed
<1> QED  BY <1>3, <1>4 DEF RenameOver

\* The directory's sync makes the write last, and lets the writer say so.
LEMMA DirectoryKeeps ==
    ASSUME FileInv, FileInv', NEW w \in Writers, FsyncDirectory(w)
    PROVE  Cell!Keep \/ UNCHANGED cellVars
<1>1. /\ UNCHANGED <<written, names, dir>>
      /\ pc[w] = "fsyncdir" /\ pc' = [pc EXCEPT ![w] = "ok"]
  BY DEF FsyncDirectory, Go
<1>2. UNCHANGED <<Puts, Failed>>
  BY <1>1, PutsKept DEF Failed, FileInv, FileTypeOK
<1>3. CASE unsynced' = unsynced \cup {w} /\ (dir # "safe" \/ disk' = disk)
  <2>1. UNCHANGED Told
    BY <1>1, <1>3 DEF Told, FileInv, FileTypeOK
  <2>2. UNCHANGED Lasting
    BY <1>1, <1>3 DEF Lasting
  <2> QED  BY <1>2, <2>1, <2>2 DEF cellVars
<1>4. CASE dir = "safe" /\ disk' = Len(names) /\ UNCHANGED unsynced
  <2>1. Lasting' = disk' /\ Lasting' \in Lasting .. Len(Puts)
    BY <1>1, <1>4, PutsType DEF FileInv, FileTypeOK, Lasting
  <2>2. CASE w \in unsynced
    <3>1. UNCHANGED Told
      BY <1>1, <1>4, <2>2 DEF Told, FileInv, FileTypeOK
    <3> QED  BY <1>2, <2>1, <3>1 DEF Cell!Keep, Puts, Told, Failed
  <2>3. CASE w \notin unsynced
    <3>1. w \notin Loose /\ written[w] = Parts
      BY <1>1 DEF FileInv, OnDisk, Whole, Durable
    <3>2. Told' = Told \cup {w}
      BY <1>1, <1>4, <2>3, <3>1 DEF Told, FileInv, FileTypeOK
    <3>3. PICK i \in 1 .. Len(names) : names[i] = w
      BY <1>1 DEF FileInv, OnDisk
    <3>4. Puts[i] = w
      BY <3>1, <3>3, PutsType DEF ContentOf
    <3>5. Cell!Seen(w, disk')
      BY <1>4, <3>3, <3>4 DEF Cell!Seen, Puts
    <3> QED  BY <1>2, <2>1, <3>1, <3>2, <3>5 DEF Cell!Keep, Puts, Told, Failed
  <2> QED  BY <2>2, <2>3
<1> QED  BY <1>3, <1>4 DEF FsyncDirectory

\* A write that failed was not seen.
LEMMA RemoveFails ==
    ASSUME FileInv, NEW w \in Writers, RemoveTemp(w)
    PROVE  Cell!Fail(w)
<1>1. /\ UNCHANGED <<written, names, disk, unsynced, dir>> /\ UNCHANGED Lasting
      /\ pc[w] = "fail" /\ pc' = [pc EXCEPT ![w] = "error"]
  BY DEF RemoveTemp, Go, Lasting
<1>2. UNCHANGED Puts
  BY <1>1, PutsKept
<1>3. UNCHANGED Told /\ Failed' = Failed \cup {w}
  BY <1>1 DEF Told, Failed, FileInv, FileTypeOK
<1>4. ~Cell!Seen(w, Len(Puts))
  BY <1>1, NotSeen
<1> QED  BY <1>1, <1>2, <1>3, <1>4 DEF Cell!Fail, Puts, Told, Failed

\* A power cut takes back the last writes that were not kept.
LEMMA CutCuts ==
    ASSUME FileInv, FileInv', PowerCut
    PROVE  Cell!PowerCut
<1>1. PICK n \in 1 .. Len(names) :
        /\ n >= Lasting /\ Lasting' = n
        /\ names' = SubSeq(names, 1, n) /\ disk' = n
        /\ \A w \in Writers : written'[w] \in synced[w] .. written[w]
        /\ pc' = [w \in Writers |-> IF pc[w] \in {"start", "ok", "error"} THEN pc[w]
                                    ELSE "gone"]
        /\ unsynced' = unsynced
  <2>1. /\ 1 \in 1 .. Len(names) /\ disk .. Len(names) \subseteq 1 .. Len(names)
        /\ \A n \in disk .. Len(names) : n >= disk /\ n >= 1
    BY DEF FileInv, FileTypeOK
  <2> QED  BY <2>1 DEF PowerCut, Lasting
<1>2. /\ n \in Nat /\ n <= Len(names) /\ Len(names') = n
      /\ \A i \in 1 .. n : names'[i] = names[i]
  BY <1>1, CutNames
<1>3. UNCHANGED <<Told, Failed>>
  BY <1>1 DEF Told, Failed
<1>4. n \in Lasting .. Len(Puts)
  BY <1>1, PutsType DEF FileInv, FileTypeOK, Lasting
<1>5. /\ Puts' \in [1 .. n -> Contents]
      /\ \A i \in 1 .. n : Puts'[i] = ContentOf(names[i])'
  <2>1. \A i \in 1 .. n : names'[i] \in Writers \cup {Old}
    BY <1>2 DEF FileInv, FileTypeOK
  <2>2. \A i \in 1 .. n : ContentOf(names[i])' \in Contents
    BY <2>1 DEF ContentOf, Contents
  <2> QED  BY <1>2, <2>2 DEF Puts, ContentOf
<1>6. ASSUME NEW i \in 1 .. n
      PROVE  Puts'[i] = Puts[i] \/ (Puts'[i] = Torn /\ Puts[i] \in Loose)
  <2>1. /\ names[i] \in Writers \cup {Old} /\ names'[i] = names[i]
        /\ Puts[i] = ContentOf(names[i]) /\ i \in 1 .. Len(names)
    BY <1>2, PutsType DEF FileInv, FileTypeOK
  <2>2. CASE names[i] = Old
    BY <1>5, <2>1, <2>2 DEF ContentOf, Old, Torn
  <2>3. CASE names[i] \in Writers /\ Durable(names[i])
    <3>1. synced[names[i]] = Parts
      BY <2>1, <2>3 DEF FileInv, Whole
    <3>2. written'[names[i]] = Parts /\ written[names[i]] = Parts
      BY <1>1, <2>3, <3>1, FileAssumption DEF FileInv, FileTypeOK
    <3> QED  BY <1>5, <2>1, <2>3, <3>2 DEF ContentOf, Old, Torn
  <2>4. CASE names[i] \in Writers /\ names[i] \in Loose
    <3>1. written'[names[i]] = Parts => written[names[i]] = Parts
      BY <1>1, <2>4, FileAssumption DEF FileInv, FileTypeOK
    <3> QED  BY <1>5, <2>1, <2>4, <3>1 DEF ContentOf, Old, Torn
  <2> QED  BY <2>1, <2>2, <2>3, <2>4 DEF Durable
<1>7. Puts' \in {p \in [1 .. n -> Contents] :
                   \A i \in 1 .. n : p[i] = Puts[i] \/ (p[i] = Torn /\ Puts[i] \in Loose)}
  BY <1>5, <1>6
<1> QED  BY <1>1, <1>3, <1>4, <1>7 DEF Cell!PowerCut, Puts, Told, Failed, Contents

\* At every moment the file is a cell: a step of a writer, and a power cut, is a step
\* of the cell or nothing a reader sees. For every number of writers, parts and retries.
THEOREM FileIsCell == FileSpec => ImplementsCell
<1>1. FileInit => Cell!CellInit
  <2> SUFFICES ASSUME FileInit PROVE Cell!CellInit
    OBVIOUS
  <2>1. names = <<Old>> /\ Len(names) = 1 /\ names[1] = Old
    BY DEF FileInit
  <2>2. Puts \in Seq(Contents) /\ Len(Puts) = 1 /\ Puts[1] = Old
    BY <2>1, PutsType, FileInvInit DEF ContentOf
  <2>3. Puts = <<Old>>
    BY <2>2
  <2>4. Lasting = 1
    BY DEF FileInit, Lasting
  <2> QED  BY <2>3, <2>4 DEF FileInit, Cell!CellInit, Puts
<1>2. FileInv /\ FileInv' /\ [FileNext]_fileVars => [Cell!CellNext]_cellVars
  <2> SUFFICES ASSUME FileInv, FileInv', [FileNext]_fileVars
               PROVE  Cell!CellNext \/ UNCHANGED cellVars
    OBVIOUS
  <2>1. CASE PowerCut
    BY <2>1, CutCuts DEF Cell!CellNext
  <2>2. ASSUME NEW w \in Writers,
               \/ CreateDirectories(w) \/ CreateTemp(w) \/ WritePart(w) \/ CloseTemp(w)
               \/ FsyncFile(w)
        PROVE  UNCHANGED cellVars
    BY <2>2, QuietStutters
  <2>3. ASSUME NEW w \in Writers, RenameOver(w)
        PROVE  Cell!CellNext \/ UNCHANGED cellVars
    BY <2>3, RenamePuts DEF Cell!CellNext
  <2>4. ASSUME NEW w \in Writers, FsyncDirectory(w)
        PROVE  Cell!CellNext \/ UNCHANGED cellVars
    BY <2>4, DirectoryKeeps DEF Cell!CellNext
  <2>5. ASSUME NEW w \in Writers, RemoveTemp(w)
        PROVE  Cell!CellNext
    BY <2>5, RemoveFails DEF Cell!CellNext
  <2>6. CASE UNCHANGED fileVars
    BY <2>6 DEF fileVars, cellVars, Puts, Told, Failed, ContentOf, Lasting
  <2> QED  BY <2>1, <2>2, <2>3, <2>4, <2>5, <2>6 DEF FileNext
<1> QED
  BY FileInvariant, <1>1, <1>2, PTL
  DEF FileSpec, ImplementsCell, Cell!CellSpec, cellVars, Puts, Told, Failed

----------------------------------------------------------------------------
(***************************************************************************)
(* The index of a FiFoMap is exact, and the order of iteration is that of  *)
(* first insertion, for all sets of keys and values and any size.          *)
(***************************************************************************)

\* Typing and exactness together are inductive: the index is used to erase, so
\* exactness before the step is what keeps it after.
FifoInv == FifoTypeOK /\ IndexExact

\* Erasing a position leaves a sequence, one shorter, of the other entries.
LEMMA WithoutType ==
    ASSUME NEW S, NEW s \in Seq(S), NEW n \in 1 .. Len(s)
    PROVE  /\ Without(s, n) \in Seq(S)
           /\ Len(Without(s, n)) = Len(s) - 1
           /\ \A i \in 1 .. Len(s) - 1 :
                 Without(s, n)[i] = IF i < n THEN s[i] ELSE s[i + 1]
  BY DEF Without

\* A set keeps the invariant.
LEMMA SetKeyKeeps ==
    ASSUME FifoInv, NEW k \in Keys, NEW v \in Vals, SetKey(k, v)
    PROVE  FifoInv'
<1>1. CASE Present(k)
  <2>1. entries' = [entries EXCEPT ![index[k]].val = v] /\ index' = index
    BY <1>1 DEF SetKey
  <2>2. index[k] \in 1 .. Len(entries) /\ entries[index[k]] \in EntryType
    BY <1>1 DEF Present, FifoInv, FifoTypeOK, IndexExact
  <2>3. /\ entries' \in Seq(EntryType) /\ Len(entries') = Len(entries)
        /\ \A i \in 1 .. Len(entries) : entries'[i].key = entries[i].key
    BY <2>1, <2>2 DEF FifoInv, FifoTypeOK, EntryType
  <2> QED  BY <2>1, <2>3 DEF FifoInv, FifoTypeOK, IndexExact
<1>2. CASE ~Present(k)
  <2> DEFINE e == [key |-> k, val |-> v]
  <2>1. entries' = Append(entries, e)
    BY <1>2 DEF SetKey
  <2>2. index' = [q \in DOMAIN index \cup {k} |->
                    IF q = k THEN Len(entries) + 1 ELSE index[q]]
    BY <1>2 DEF SetKey
  <2>3. e \in EntryType /\ e.key = k
    BY DEF EntryType
  <2>4. /\ entries' \in Seq(EntryType) /\ Len(entries') = Len(entries) + 1
        /\ \A i \in 1 .. Len(entries) : entries'[i] = entries[i]
        /\ entries'[Len(entries) + 1] = e
    BY <2>1, <2>3 DEF FifoInv, FifoTypeOK
  <2>5. Len(entries) \in Nat
    BY DEF FifoInv, FifoTypeOK
  <2>6. FifoTypeOK'
    BY <2>2, <2>4, <2>5 DEF FifoInv, FifoTypeOK
  <2>7. \A q \in DOMAIN index' : entries'[index'[q]].key = q
    BY <2>2, <2>3, <2>4, <2>5 DEF FifoInv, FifoTypeOK, IndexExact
  <2>8. \A i \in 1 .. Len(entries') :
           entries'[i].key \in DOMAIN index' /\ index'[entries'[i].key] = i
    BY <1>2, <2>2, <2>3, <2>4, <2>5, SMTT(30) DEF FifoInv, FifoTypeOK, IndexExact, Present
  <2> QED  BY <2>6, <2>7, <2>8 DEF FifoInv, FifoTypeOK, IndexExact
<1> QED  BY <1>1, <1>2

\* An erase keeps the invariant: renumbering matches the move of the entries.
LEMMA EraseKeeps ==
    ASSUME FifoInv, NEW k \in Keys, EraseKey(k)
    PROVE  FifoInv'
<1> DEFINE n == index[k]
<1>1. n \in 1 .. Len(entries) /\ entries \in Seq(EntryType)
  BY DEF EraseKey, Present, FifoInv, FifoTypeOK
<1>2. /\ entries' \in Seq(EntryType) /\ Len(entries') = Len(entries) - 1
      /\ \A i \in 1 .. Len(entries) - 1 :
            entries'[i] = IF i < n THEN entries[i] ELSE entries[i + 1]
  BY <1>1, WithoutType DEF EraseKey
<1>3. index' = [q \in DOMAIN index \ {k} |->
                  IF index[q] > n THEN index[q] - 1 ELSE index[q]]
  BY DEF EraseKey
<1>4. \A q \in DOMAIN index \ {k} :
         index[q] \in 1 .. Len(entries) /\ index[q] # n /\ entries[index[q]].key = q
  BY <1>1 DEF FifoInv, FifoTypeOK, IndexExact, EraseKey, Present
<1>5. Len(entries) \in Nat
  BY <1>1
<1>6. FifoTypeOK'
  BY <1>1, <1>2, <1>3, <1>4, <1>5 DEF FifoInv, FifoTypeOK
<1>7. \A q \in DOMAIN index' : entries'[index'[q]].key = q
  BY <1>1, <1>2, <1>3, <1>4, <1>5, SMTT(30)
<1>8. \A i \in 1 .. Len(entries') :
         entries'[i].key \in DOMAIN index' /\ index'[entries'[i].key] = i
  <2> TAKE i \in 1 .. Len(entries')
  <2> DEFINE j == IF i < n THEN i ELSE i + 1
  <2>1. j \in 1 .. Len(entries) /\ j # n /\ entries'[i] = entries[j]
    BY <1>1, <1>2, <1>5
  <2>2. entries[j].key \in DOMAIN index /\ index[entries[j].key] = j
    BY <2>1 DEF FifoInv, IndexExact
  <2>3. entries[j].key # k
    BY <2>1, <2>2
  <2> QED  BY <1>1, <1>3, <1>5, <2>1, <2>2, <2>3
<1> QED  BY <1>6, <1>7, <1>8 DEF FifoInv, FifoTypeOK, IndexExact

LEMMA FifoInvariant == FifoSpec => []FifoInv
<1>1. FifoInit => FifoInv
  BY DEF FifoInit, FifoInv, FifoTypeOK, IndexExact
<1>2. FifoInv /\ [FifoNext]_fifoVars => FifoInv'
  <2> SUFFICES ASSUME FifoInv, [FifoNext]_fifoVars PROVE FifoInv'
    OBVIOUS
  <2>1. ASSUME NEW k \in Keys, NEW v \in Vals, SetKey(k, v) PROVE FifoInv'
    BY <2>1, SetKeyKeeps
  <2>2. ASSUME NEW k \in Keys, EraseKey(k) PROVE FifoInv'
    BY <2>2, EraseKeeps
  <2>3. CASE ClearAll
    BY <2>3 DEF ClearAll, FifoInv, FifoTypeOK, IndexExact
  <2>4. CASE UNCHANGED fifoVars
    BY <2>4 DEF fifoVars, FifoInv, FifoTypeOK, IndexExact, EntryType
  <2> QED  BY <2>1, <2>2, <2>3, <2>4 DEF FifoNext
<1> QED  BY <1>1, <1>2, PTL DEF FifoSpec

\* Lookups and iteration agree in every reachable state (FiFoMap.h:93-107).
THEOREM FifoIndexExact == FifoSpec => []IndexExact
  BY FifoInvariant, PTL DEF FifoInv

\* Keys iterate in the order in which they were first inserted (FiFoMap.h:4-9).
THEOREM FifoOrder == FifoSpec => OrderKept
<1> DEFINE OrderStays == \A j, k \in DOMAIN index' :
         /\ j \in DOMAIN index /\ k \in DOMAIN index
              => (index[j] < index[k] <=> Later(j) < Later(k))
         /\ j \in DOMAIN index /\ k \notin DOMAIN index => Later(j) < Later(k)
<1>1. FifoInv /\ [FifoNext]_fifoVars => [OrderStays]_fifoVars
  <2> SUFFICES ASSUME FifoInv, FifoNext PROVE OrderStays
    OBVIOUS
  <2>1. /\ Len(entries) \in Nat
        /\ \A q \in DOMAIN index : index[q] \in 1 .. Len(entries)
        /\ \A q, r \in DOMAIN index : index[q] = index[r] => q = r
    BY DEF FifoInv, FifoTypeOK, IndexExact
  <2>2. ASSUME NEW q \in Keys, NEW v \in Vals, SetKey(q, v) PROVE OrderStays
    BY <2>1, <2>2 DEF SetKey, Later, Present
  <2>3. ASSUME NEW q \in Keys, EraseKey(q) PROVE OrderStays
    <3>1. /\ DOMAIN index' = DOMAIN index \ {q} /\ q \in DOMAIN index
          /\ \A r \in DOMAIN index' :
                Later(r) = IF index[r] > index[q] THEN index[r] - 1 ELSE index[r]
      BY <2>3 DEF EraseKey, Later, Present
    <3>2. \A r \in DOMAIN index' : index[r] # index[q]
      BY <2>1, <3>1
    <3> QED  BY <2>1, <3>1, <3>2
  <2>4. CASE ClearAll
    BY <2>4 DEF ClearAll
  <2> QED  BY <2>2, <2>3, <2>4 DEF FifoNext
<1> QED  BY FifoInvariant, <1>1, PTL DEF FifoSpec, OrderKept

----------------------------------------------------------------------------
(***************************************************************************)
(* The flag of a result says what its storage holds, for any number of     *)
(* results, of either kind, and any payloads.                              *)
(***************************************************************************)

Storable == [kind : {"nothing", "value", "error"}, payload : Payloads \cup {"none", MovedOut}]

ResultsTypeOK ==
    /\ flag \in [Results -> {"none", "ok", "error"}]
    /\ storage \in [Results -> Storable]
    /\ torn \subseteq Results

ResultsInv == ResultsTypeOK /\ FlagHonest

\* What a move leaves in its source, and what it takes along.
LEMMA MovedHonestly ==
    ASSUME ResultsInv, NEW q \in Results \ torn, Exists(q)
    PROVE  /\ Gutted(storage[q]) \in Storable /\ Carried(q) \in Storable
           /\ flag[q] \in {"ok", "error"} /\ AfterMove(q) \in {"ok", "error"}
           /\ flag[q] = "error" => Carried(q).kind = "error"
           /\ flag[q] = "ok" => Carried(q).kind = Kind(q, "ok")
           /\ AfterMove(q) = "error" => Gutted(storage[q]).kind = "error"
           /\ AfterMove(q) = "ok" => \/ Gutted(storage[q]).kind = Kind(q, "ok")
                                     \/ /\ q \in VoidResults
                                        /\ Gutted(storage[q]) = Live("error", MovedOut)
<1>1. /\ storage[q] \in Storable /\ None \in Storable
      /\ flag[q] \in {"ok", "error"}
  BY DEF ResultsInv, ResultsTypeOK, Exists, Storable, None
<1>2. /\ Gutted(storage[q]) \in Storable
      /\ Gutted(storage[q]).kind = storage[q].kind
      /\ storage[q].kind = "error" => Gutted(storage[q]) = Live("error", MovedOut)
  BY <1>1 DEF Gutted, Storable, None, Live, MovedOut
<1>3. /\ flag[q] = "error" => storage[q].kind = "error"
      /\ flag[q] = "ok" => \/ storage[q].kind = Kind(q, "ok")
                           \/ q \in VoidResults /\ storage[q] = Live("error", MovedOut)
  BY DEF ResultsInv, FlagHonest, IsOk, Value, Arrow, Error
<1>4. /\ Carried(q) \in Storable
      /\ flag[q] = "error" => Carried(q).kind = "error"
      /\ flag[q] = "ok" => Carried(q).kind = Kind(q, "ok")
  BY <1>1, <1>3 DEF Carried, Kind, None, Live
<1>5. /\ AfterMove(q) \in {"ok", "error"}
      /\ AfterMove(q) = "error" => Gutted(storage[q]).kind = "error"
      /\ AfterMove(q) = "ok" => \/ Gutted(storage[q]).kind = Kind(q, "ok")
                                \/ q \in VoidResults /\ Gutted(storage[q]) = Live("error", MovedOut)
  BY <1>1, <1>2, <1>3 DEF AfterMove, Kind, Live
<1> QED
  BY <1>1, <1>2, <1>4, <1>5

LEMMA ResultsInvariant == ResultsSpec => []ResultsInv
<1>1. ResultsInit => ResultsInv
  BY DEF ResultsInit, ResultsInv, ResultsTypeOK, FlagHonest, Storable, None, IsOk, Exists
<1>2. ResultsInv /\ [ResultsNext]_resultVars => ResultsInv'
  <2> SUFFICES ASSUME ResultsInv, [ResultsNext]_resultVars PROVE ResultsInv'
    OBVIOUS
  <2> USE DEF ResultsInv
  <2>1. ASSUME NEW r \in Results, NEW f \in {"ok", "error"}, NEW p \in Payloads,
               Construct(r, f, p)
        PROVE  ResultsInv'
    <3>1. /\ flag' = [flag EXCEPT ![r] = f] /\ torn' = torn
          /\ storage' = [storage EXCEPT ![r] =
                           IF Kind(r, f) = "nothing" THEN None ELSE Live(Kind(r, f), p)]
      BY <2>1 DEF Construct
    <3>2. ResultsTypeOK'
      BY <3>1 DEF ResultsTypeOK, Storable, None, Live, Kind
    <3>3. FlagHonest'
      BY <3>1 DEF FlagHonest, ResultsTypeOK, IsOk, Value, Arrow, Error, Exists, Kind, None,
            Live
    <3> QED
      BY <3>2, <3>3
  <2>2. ASSUME NEW r \in Results, Destroy(r)
        PROVE  ResultsInv'
    BY <2>2 DEF Destroy, FlagHonest, ResultsTypeOK, IsOk, Value, Arrow, Error, Exists,
            Storable, None
  <2>3. ASSUME NEW r \in Results, NEW q \in Results, CopyConstruct(r, q) \/ CopyAssign(r, q)
        PROVE  ResultsInv'
    <3>1. /\ q \notin torn /\ Exists(q) /\ Alike(r, q)
          /\ flag' = [flag EXCEPT ![r] = flag[q]]
          /\ \/ storage' = [storage EXCEPT ![r] = Carried(q)] /\ torn' = torn
             \/ storage' = [storage EXCEPT ![r] = None] /\ torn' = torn \cup {r}
      BY <2>3 DEF CopyConstruct, CopyAssign
    <3>2. /\ Carried(q) \in Storable /\ flag[q] \in {"ok", "error"} /\ None \in Storable
          /\ flag[q] = "error" => Carried(q).kind = "error"
          /\ flag[q] = "ok" => Carried(q).kind = Kind(r, "ok")
      BY <3>1, MovedHonestly DEF Alike, Kind, Storable, None
    <3>3. ResultsTypeOK'
      BY <3>1, <3>2 DEF ResultsTypeOK
    <3>4. FlagHonest'
      BY <3>1, <3>2 DEF FlagHonest, ResultsTypeOK, IsOk, Value, Arrow, Error, Exists
    <3> QED
      BY <3>3, <3>4
  <2>4. ASSUME NEW r \in Results, NEW q \in Results, MoveConstruct(r, q) \/ MoveAssign(r, q)
        PROVE  ResultsInv'
    <3>1. /\ q \notin torn /\ Exists(q) /\ Alike(r, q) /\ r # q /\ torn' = torn
          /\ flag' = [flag EXCEPT ![r] = flag[q], ![q] = AfterMove(q)]
          /\ storage' = [storage EXCEPT ![r] = Carried(q), ![q] = Gutted(storage[q])]
      BY <2>4 DEF MoveConstruct, MoveAssign
    <3>2. /\ Carried(q) \in Storable /\ Gutted(storage[q]) \in Storable
          /\ flag[q] \in {"ok", "error"} /\ AfterMove(q) \in {"ok", "error"}
          /\ flag[q] = "error" => Carried(q).kind = "error"
          /\ flag[q] = "ok" => Carried(q).kind = Kind(r, "ok")
      BY <3>1, MovedHonestly DEF Alike, Kind
    <3>3. ResultsTypeOK'
      BY <3>1, <3>2 DEF ResultsTypeOK
    <3>4. /\ flag'[r] = flag[q] /\ storage'[r] = Carried(q)
          /\ flag'[q] = AfterMove(q) /\ storage'[q] = Gutted(storage[q])
          /\ \A s \in Results \ {r, q} : flag'[s] = flag[s] /\ storage'[s] = storage[s]
      BY <3>1 DEF ResultsTypeOK
    <3>5. /\ AfterMove(q) = "error" => Gutted(storage[q]).kind = "error"
          /\ AfterMove(q) = "ok" => \/ Gutted(storage[q]).kind = Kind(q, "ok")
                                    \/ /\ q \in VoidResults
                                       /\ Gutted(storage[q]) = Live("error", MovedOut)
      BY <3>1, MovedHonestly
    <3> DEFINE Honest(s, f, o) ==
           /\ f = "ok" => \/ o.kind = Kind(s, "ok")
                          \/ s \in VoidResults /\ o = Live("error", MovedOut)
           /\ f = "error" => o.kind = "error"
           /\ f = "none" => o = None
    <3>6. \A s \in Results \ torn : Honest(s, flag[s], storage[s])
      BY DEF FlagHonest, IsOk, Value, Arrow, Error, Exists
    <3>7. \A s \in Results \ torn : Honest(s, flag'[s], storage'[s])
      <4> TAKE s \in Results \ torn
      <4> HIDE DEF Honest
      <4>1. CASE s = r
        BY <4>1, <3>2, <3>4 DEF Honest
      <4>2. CASE s = q
        BY <4>2, <3>2, <3>4, <3>5 DEF Honest
      <4> QED
        BY <4>1, <4>2, <3>4, <3>6
    <3>8. FlagHonest'
      BY <3>1, <3>7 DEF FlagHonest, IsOk, Value, Arrow, Error, Exists
    <3> QED
      BY <3>3, <3>8
  <2>5. ASSUME NEW r \in Results, NEW p \in Payloads, MakeError(r, p)
        PROVE  ResultsInv'
    <3>1. /\ flag' = [flag EXCEPT ![r] = "error"]
          /\ \/ storage' = [storage EXCEPT ![r] = Live("error", p)] /\ torn' = torn
             \/ storage' = [storage EXCEPT ![r] = None] /\ torn' = torn \cup {r}
      BY <2>5 DEF MakeError
    <3>2. ResultsTypeOK'
      BY <3>1 DEF ResultsTypeOK, Storable, None, Live
    <3>3. FlagHonest'
      BY <3>1 DEF FlagHonest, ResultsTypeOK, IsOk, Value, Arrow, Error, Exists, Live
    <3> QED
      BY <3>2, <3>3
  <2>6. CASE UNCHANGED resultVars
    BY <2>6 DEF resultVars, FlagHonest, ResultsTypeOK, IsOk, Value, Arrow, Error, Exists
  <2> QED
    BY <2>1, <2>2, <2>3, <2>4, <2>5, <2>6 DEF ResultsNext
<1> QED
  BY <1>1, <1>2, PTL DEF ResultsSpec

\* Whatever was constructed, copied, moved and assigned before, a checked accessor,
\* and operator-> on a result that says ok, hands out a living object of the kind the
\* flag names, results that a throwing copy tore aside
\* (ResultOrError.hpp:121-168, 173-180, 237-262).
THEOREM FlagIsHonest == ResultsSpec => []FlagHonest
  BY ResultsInvariant, PTL DEF ResultsInv

----------------------------------------------------------------------------
(***************************************************************************)
(* What a scrape reads of a histogram, for any number of observers and     *)
(* buckets, of collectors and of scrapes.                                  *)
(*                                                                         *)
(* The argument: between any two updates each atomic of the histogram is   *)
(* exact: it counts, or sums, the observers that have passed its update. A *)
(* scrape reads one after the other while these sets only grow, so each    *)
(* number it reads lies between the set when it began to read and the set  *)
(* now, and a cumulative count adds a bucket to a number that lies between *)
(* these two for the buckets below. Sums are compared set by set: SumOf    *)
(* grows with its set, as nobody observes a negative value.                *)
(***************************************************************************)

\* A set of numbers has a smallest one.
LEMMA Smallest ==
    ASSUME NEW X \in SUBSET Nat, X # {}
    PROVE  \E n \in X : \A m \in X : n <= m
<1>1. PICK n \in X : \A m \in X : ~(<<m, n>> \in OpToRel(<, Nat))
  BY NatLessThanWellFounded, WFMin
<1>2. \A m \in X : ~(m < n)
  BY <1>1 DEF OpToRel
<1> QED  BY <1>2

LEMMA ObserverSets ==
    ASSUME NEW S \in SUBSET Observers
    PROVE  /\ IsFiniteSet(S) /\ Cardinality(S) \in Nat
           /\ \A T \in SUBSET S : Cardinality(T) <= Cardinality(S)
           /\ \A o \in S : Cardinality(S \ {o}) = Cardinality(S) - 1 /\ Cardinality(S) # 0
           /\ \A o \in Observers \ S : Cardinality(S \cup {o}) = Cardinality(S) + 1
<1>1. IsFiniteSet(S)
  BY MetricsAssumption, FS_Subset
<1>2. Cardinality(S) \in Nat /\ \A T \in SUBSET S : Cardinality(T) <= Cardinality(S)
  BY <1>1, FS_CardinalityType, FS_Subset
<1>3. \A o \in S : Cardinality(S \ {o}) = Cardinality(S) - 1
  BY <1>1, FS_RemoveElement
<1>4. S # {} => Cardinality(S) # 0
  BY <1>1, FS_EmptySet
<1>5. \A o \in Observers \ S : Cardinality(S \cup {o}) = Cardinality(S) + 1
  BY <1>1, FS_AddElement
<1> QED  BY <1>1, <1>2, <1>3, <1>4, <1>5

\* Induction over sets of observers: of the sets a claim is false for, one is
\* smallest.
LEMMA SmallestSet ==
    ASSUME NEW X \in SUBSET (SUBSET Observers), X # {}
    PROVE  \E S \in X : \A o \in S : S \ {o} \notin X
<1> DEFINE sizes == {Cardinality(S) : S \in X}
<1>1. sizes \in SUBSET Nat /\ sizes # {}
  BY ObserverSets
<1>2. PICK n \in sizes : \A m \in sizes : n <= m
  BY <1>1, Smallest
<1>3. PICK S \in X : n = Cardinality(S)
  BY <1>2
<1>4. ASSUME NEW o \in S, S \ {o} \in X
      PROVE  FALSE
  <2>1. Cardinality(S \ {o}) \in sizes /\ Cardinality(S) \in Nat
    BY <1>4, ObserverSets
  <2>2. Cardinality(S \ {o}) = Cardinality(S) - 1
    BY ObserverSets
  <2>3. Cardinality(S) <= Cardinality(S \ {o})
    BY <1>2, <1>3, <2>1
  <2> QED  BY <2>1, <2>2, <2>3
<1> QED  BY <1>4

\* The function that SumOf folds: the sums of the subsets of X.
Chosen(s) == CHOOSE o \in s : TRUE
SumsTo(F, X, n) ==
    F = [s \in {s \in SUBSET X : Cardinality(s) <= n} |->
           IF s = {} THEN 0 ELSE F[s \ {Chosen(s)}] + ValueOf[Chosen(s)]]
Sums(F, X) ==
    F = [s \in SUBSET X |-> IF s = {} THEN 0 ELSE F[s \ {Chosen(s)}] + ValueOf[Chosen(s)]]

LEMMA SumsToExist ==
    ASSUME NEW n \in Nat
    PROVE  \E F : SumsTo(F, Observers, n)
<1> DEFINE X == {m \in Nat : ~ \E F : SumsTo(F, Observers, m)}
           Upto(m) == {s \in SUBSET Observers : Cardinality(s) <= m}
<1> SUFFICES ASSUME X # {} PROVE FALSE
  OBVIOUS
<1>1. PICK m \in X : \A k \in X : m <= k
  <2> HIDE DEF X
  <2>1. X \in SUBSET Nat
    BY DEF X
  <2> QED  BY <2>1, Smallest
<1>2. \A s \in SUBSET Observers : s # {} =>
         /\ Chosen(s) \in s /\ s \ {Chosen(s)} \in SUBSET Observers
         /\ Cardinality(s) \in Nat \ {0}
         /\ Cardinality(s \ {Chosen(s)}) = Cardinality(s) - 1
  BY ObserverSets DEF Chosen
<1>3. m # 0
  <2>1. Upto(0) \subseteq {{}}
    <3> SUFFICES ASSUME NEW s \in Upto(0), s # {} PROVE FALSE
      OBVIOUS
    <3>1. s \in SUBSET Observers /\ Cardinality(s) <= 0
      OBVIOUS
    <3>2. Cardinality(s) \in Nat \ {0}
      BY <1>2, <3>1
    <3> QED  BY <3>1, <3>2
  <2>2. SumsTo([s \in Upto(0) |-> 0], Observers, 0)
    BY <2>1 DEF SumsTo
  <2> QED  BY <1>1, <2>2
<1>4. m - 1 \in Nat /\ m - 1 \notin X
  BY <1>1, <1>3
<1>5. PICK F : SumsTo(F, Observers, m - 1)
  BY <1>4
<1> DEFINE G == [s \in Upto(m) |->
                   IF s = {} THEN 0 ELSE F[s \ {Chosen(s)}] + ValueOf[Chosen(s)]]
<1>6. \A s \in Upto(m - 1) : s \in Upto(m) /\ G[s] = F[s]
  <2>1. \A s \in Upto(m - 1) : s \in Upto(m)
    BY <1>1, <1>4, <1>2, ObserverSets
  <2>2. \A s \in Upto(m - 1) : F[s] = IF s = {} THEN 0 ELSE F[s \ {Chosen(s)}] + ValueOf[Chosen(s)]
    BY <1>5 DEF SumsTo
  <2> QED  BY <2>1, <2>2
<1>7. \A s \in Upto(m) : s # {} => s \ {Chosen(s)} \in Upto(m - 1)
  BY <1>2, <1>1, <1>4
<1>8. SumsTo(G, Observers, m)
  <2>1. \A s \in Upto(m) :
          G[s] = IF s = {} THEN 0 ELSE G[s \ {Chosen(s)}] + ValueOf[Chosen(s)]
    BY <1>6, <1>7
  <2>2. G = [s \in Upto(m) |-> G[s]]
    OBVIOUS
  <2> HIDE DEF G
  <2> QED  BY <2>1, <2>2 DEF SumsTo
<1> HIDE DEF G
<1> QED  BY <1>1, <1>8

LEMMA SumsExist ==
    ASSUME NEW X \in SUBSET Observers
    PROVE  \E F : Sums(F, X)
<1>1. PICK F : SumsTo(F, Observers, Cardinality(Observers))
  BY SumsToExist, ObserverSets
<1>2. {s \in SUBSET Observers : Cardinality(s) <= Cardinality(Observers)} = SUBSET Observers
  BY ObserverSets
<1>3. \A s \in SUBSET Observers :
         F[s] = IF s = {} THEN 0 ELSE F[s \ {Chosen(s)}] + ValueOf[Chosen(s)]
  BY <1>1, <1>2 DEF SumsTo
<1> DEFINE G == [s \in SUBSET X |-> F[s]]
<1>4. \A s \in SUBSET X :
         G[s] = IF s = {} THEN 0 ELSE G[s \ {Chosen(s)}] + ValueOf[Chosen(s)]
  BY <1>3
<1>5. G = [s \in SUBSET X |-> G[s]]
  OBVIOUS
<1> HIDE DEF G
<1> QED  BY <1>4, <1>5 DEF Sums

LEMMA SumsAgree ==
    ASSUME NEW X \in SUBSET Observers, NEW Y \in SUBSET Observers,
           NEW F, NEW G, Sums(F, X), Sums(G, Y), NEW s \in SUBSET (X \cap Y)
    PROVE  F[s] = G[s]
<1> DEFINE Z == {t \in SUBSET (X \cap Y) : F[t] # G[t]}
<1> SUFFICES ASSUME Z # {} PROVE FALSE
  OBVIOUS
<1>1. PICK t \in Z : \A o \in t : t \ {o} \notin Z
  <2>1. Z \in SUBSET (SUBSET Observers)
    OBVIOUS
  <2> HIDE DEF Z
  <2> QED  BY <2>1, SmallestSet
<1>2. /\ F[t] = IF t = {} THEN 0 ELSE F[t \ {Chosen(t)}] + ValueOf[Chosen(t)]
      /\ G[t] = IF t = {} THEN 0 ELSE G[t \ {Chosen(t)}] + ValueOf[Chosen(t)]
  BY DEF Sums
<1>3. t # {} /\ Chosen(t) \in t
  BY <1>2 DEF Chosen
<1>4. F[t \ {Chosen(t)}] = G[t \ {Chosen(t)}]
  BY <1>1, <1>3
<1> QED  BY <1>2, <1>4

LEMMA SumIs ==
    ASSUME NEW X \in SUBSET Observers
    PROVE  \E F : Sums(F, X) /\ SumOf(X) = F[X]
<1>1. \E F : Sums(F, X)
  BY SumsExist
<1> DEFINE C == CHOOSE F : Sums(F, X)
<1>2. Sums(C, X)
  BY <1>1
<1>3. SumOf(X) = C[X]
  BY DEF SumOf, FoldSet, MapThenFoldSet, Sums, Chosen
<1> QED  BY <1>2, <1>3

\* SumOf, element by element.
LEMMA SumSteps ==
    /\ SumOf({}) = 0
    /\ \A S \in SUBSET Observers : S # {} =>
         Chosen(S) \in S /\ SumOf(S) = SumOf(S \ {Chosen(S)}) + ValueOf[Chosen(S)]
<1>1. PICK F : Sums(F, Observers)
  BY SumsExist
<1>2. ASSUME NEW S \in SUBSET Observers
      PROVE  SumOf(S) = F[S]
  BY <1>1, SumIs, SumsAgree
<1>3. \A S \in SUBSET Observers :
         F[S] = IF S = {} THEN 0 ELSE F[S \ {Chosen(S)}] + ValueOf[Chosen(S)]
  BY <1>1 DEF Sums
<1> QED  BY <1>2, <1>3 DEF Chosen

LEMMA SumNat ==
    ASSUME NEW S \in SUBSET Observers
    PROVE  SumOf(S) \in Nat
<1> DEFINE Z == {t \in SUBSET Observers : SumOf(t) \notin Nat}
<1> SUFFICES ASSUME Z # {} PROVE FALSE
  OBVIOUS
<1>1. PICK t \in Z : \A o \in t : t \ {o} \notin Z
  <2> HIDE DEF Z
  <2>1. Z \in SUBSET (SUBSET Observers)
    BY DEF Z
  <2> QED  BY <2>1, SmallestSet
<1>2. t # {}
  <2> SUFFICES ASSUME t = {} PROVE SumOf(t) \in Nat
    BY <1>1
  <2> HIDE DEF Z
  <2>1. SumOf(t) = 0
    BY SumSteps
  <2> QED  BY <2>1
<1>3. SumOf(t \ {Chosen(t)}) \in Nat /\ Chosen(t) \in Observers
  BY <1>1, <1>2, SumSteps
<1> QED  BY <1>2, <1>3, SumSteps, MetricsAssumption

LEMMA SumAdd ==
    ASSUME NEW S \in SUBSET Observers, NEW o \in Observers \ S
    PROVE  SumOf(S \cup {o}) = SumOf(S) + ValueOf[o]
<1> DEFINE Adds(t) == \A p \in Observers \ t : SumOf(t \cup {p}) = SumOf(t) + ValueOf[p]
           Z == {t \in SUBSET Observers : ~Adds(t)}
<1> SUFFICES ASSUME Z # {} PROVE FALSE
  OBVIOUS
<1>1. PICK t \in Z : \A p \in t : t \ {p} \notin Z
  <2> HIDE DEF Z
  <2>1. Z \in SUBSET (SUBSET Observers)
    BY DEF Z
  <2> QED  BY <2>1, SmallestSet
<1>2. ASSUME NEW p \in Observers \ t
      PROVE  SumOf(t \cup {p}) = SumOf(t) + ValueOf[p]
  <2> DEFINE x == Chosen(t \cup {p})
  <2>1. x \in t \cup {p} /\ SumOf(t \cup {p}) = SumOf((t \cup {p}) \ {x}) + ValueOf[x]
    BY SumSteps
  <2>2. CASE x = p
    <3>1. (t \cup {p}) \ {x} = t
      BY <2>2
    <3> QED  BY <2>1, <2>2, <3>1
  <2>3. CASE x # p
    <3>1. x \in t /\ x \in Observers
      BY <2>1, <2>3
    <3>2. (t \cup {p}) \ {x} = (t \ {x}) \cup {p}
      BY <2>3
    <3>3. Adds(t \ {x})
      BY <1>1, <3>1
    <3>4. SumOf((t \ {x}) \cup {p}) = SumOf(t \ {x}) + ValueOf[p]
      BY <3>3
    <3>5. (t \ {x}) \cup {x} = t
      BY <3>1
    <3>6. SumOf(t) = SumOf(t \ {x}) + ValueOf[x]
      BY <3>1, <3>3, <3>5
    <3>7. SumOf(t \ {x}) \in Nat /\ ValueOf[p] \in Nat /\ ValueOf[x] \in Nat
      BY <3>1, SumNat, MetricsAssumption
    <3> HIDE DEF x, Adds
    <3> QED  BY <2>1, <3>2, <3>4, <3>6, <3>7
  <2> QED  BY <2>2, <2>3
<1> QED  BY <1>2

LEMMA SumGrows ==
    ASSUME NEW T \in SUBSET Observers, NEW S \in SUBSET T
    PROVE  SumOf(S) <= SumOf(T)
<1> DEFINE Grows(t) == \A s \in SUBSET t : SumOf(s) <= SumOf(t)
           Z == {t \in SUBSET Observers : ~Grows(t)}
<1> SUFFICES ASSUME Z # {} PROVE FALSE
  OBVIOUS
<1>1. PICK t \in Z : \A p \in t : t \ {p} \notin Z
  <2> HIDE DEF Z
  <2>1. Z \in SUBSET (SUBSET Observers)
    BY DEF Z
  <2> QED  BY <2>1, SmallestSet
<1>2. ASSUME NEW s \in SUBSET t
      PROVE  SumOf(s) <= SumOf(t)
  <2>1. CASE s = t
    BY <2>1, SumNat
  <2>2. CASE s # t
    <3>1. PICK x \in t : x \notin s
      BY <2>2
    <3>2. Grows(t \ {x}) /\ s \in SUBSET (t \ {x})
      BY <1>1, <3>1
    <3>3. SumOf(s) <= SumOf(t \ {x})
      BY <3>2
    <3>4. (t \ {x}) \cup {x} = t
      OBVIOUS
    <3>5. SumOf(t) = SumOf(t \ {x}) + ValueOf[x]
      <4>1. t \ {x} \in SUBSET Observers /\ x \in Observers \ (t \ {x})
        OBVIOUS
      <4> QED  BY <3>4, <4>1, SumAdd
    <3>6. SumOf(s) \in Nat /\ SumOf(t \ {x}) \in Nat /\ ValueOf[x] \in Nat
      BY SumNat, MetricsAssumption
    <3> HIDE DEF Grows, Z
    <3> QED  BY <3>3, <3>5, <3>6
  <2> QED  BY <2>1, <2>2
<1> QED  BY <1>2

----------------------------------------------------------------------------
\* The buckets of sets of observers.
Size == Len(Bounds) + 1
UpToBucket(S, i) == {o \in S : BucketOf(ValueOf[o]) <= i}
InBucketOf(S, i) == {o \in S : BucketOf(ValueOf[o]) = i}

LEMMA BucketIs ==
    /\ Size \in Nat \ {0} /\ Size = Len(Bounds) + 1
    /\ \A o \in Observers : BucketOf(ValueOf[o]) \in 1 .. Size
<1>1. Size \in Nat \ {0} /\ Size = Len(Bounds) + 1 /\ Len(Bounds) \in Nat
  BY MetricsAssumption DEF Size
<1>2. ASSUME NEW v
      PROVE  BucketOf(v) \in 1 .. Size
  <2> DEFINE X == {i \in 1 .. Len(Bounds) : v <= Bounds[i]} \cup {Len(Bounds) + 1}
  <2>1. X \in SUBSET Nat /\ X # {} /\ X \subseteq 1 .. Size
    BY <1>1
  <2>2. \E n \in X : \A m \in X : n <= m
    <3> HIDE DEF X
    <3> QED  BY <2>1, Smallest
  <2>3. BucketOf(v) \in X
    BY <2>2 DEF BucketOf, Min
  <2> QED  BY <2>1, <2>3
<1> QED  BY <1>1, <1>2

LEMMA BucketSplit ==
    ASSUME NEW S \in SUBSET Observers, NEW i \in 1 .. Size
    PROVE  /\ Cardinality(UpToBucket(S, i))
                = Cardinality(UpToBucket(S, i - 1)) + Cardinality(InBucketOf(S, i))
           /\ Cardinality(UpToBucket(S, 0)) = 0
           /\ Cardinality(UpToBucket(S, i)) \in Nat /\ Cardinality(UpToBucket(S, i - 1)) \in Nat
           /\ Cardinality(InBucketOf(S, i)) \in Nat
<1>1. /\ UpToBucket(S, i) \in SUBSET Observers /\ UpToBucket(S, i - 1) \in SUBSET Observers
      /\ InBucketOf(S, i) \in SUBSET Observers
  BY DEF UpToBucket, InBucketOf
<1>2. i \in Int /\ \A o \in S : BucketOf(ValueOf[o]) \in Int /\ BucketOf(ValueOf[o]) >= 1
  BY BucketIs
<1>3. /\ UpToBucket(S, i) = UpToBucket(S, i - 1) \cup InBucketOf(S, i)
      /\ UpToBucket(S, i - 1) \cap InBucketOf(S, i) = {}
      /\ UpToBucket(S, 0) = {}
  BY <1>2 DEF UpToBucket, InBucketOf
<1>4. /\ IsFiniteSet(UpToBucket(S, i - 1)) /\ IsFiniteSet(InBucketOf(S, i))
      /\ Cardinality(UpToBucket(S, i - 1)) \in Nat /\ Cardinality(InBucketOf(S, i)) \in Nat
      /\ Cardinality(UpToBucket(S, i)) \in Nat
  BY <1>1, ObserverSets
<1>5. Cardinality({}) = 0
  BY FS_EmptySet
<1>6. Cardinality(UpToBucket(S, i - 1) \cup InBucketOf(S, i))
        = Cardinality(UpToBucket(S, i - 1)) + Cardinality(InBucketOf(S, i)) - Cardinality({})
  BY <1>3, <1>4, FS_Union
<1>7. Cardinality(UpToBucket(S, i))
        = Cardinality(UpToBucket(S, i - 1)) + Cardinality(InBucketOf(S, i))
  BY <1>3, <1>4, <1>5, <1>6
<1>8. Cardinality(UpToBucket(S, 0)) = 0
  BY <1>3, <1>5
<1> QED  BY <1>4, <1>7, <1>8

LEMMA BucketGrows ==
    ASSUME NEW T \in SUBSET Observers, NEW S \in SUBSET T, NEW i
    PROVE  /\ Cardinality(UpToBucket(S, i)) <= Cardinality(UpToBucket(T, i))
           /\ Cardinality(InBucketOf(S, i)) <= Cardinality(InBucketOf(T, i))
           /\ Cardinality(UpToBucket(S, i)) \in Nat /\ Cardinality(UpToBucket(T, i)) \in Nat
           /\ Cardinality(InBucketOf(S, i)) \in Nat /\ Cardinality(InBucketOf(T, i)) \in Nat
<1>1. /\ UpToBucket(T, i) \in SUBSET Observers /\ UpToBucket(S, i) \in SUBSET UpToBucket(T, i)
      /\ InBucketOf(T, i) \in SUBSET Observers /\ InBucketOf(S, i) \in SUBSET InBucketOf(T, i)
      /\ UpToBucket(S, i) \in SUBSET Observers /\ InBucketOf(S, i) \in SUBSET Observers
  BY DEF UpToBucket, InBucketOf
<1> QED  BY <1>1, ObserverSets

----------------------------------------------------------------------------
Through == {o \in Observers : observer[o] = "done"}
ObserverStates == {"find", "bucket", "load", "exchange", "count", "done"}

MetricsTypeOK ==
    /\ observer \in [Observers -> ObserverStates]
    /\ buckets \in [1 .. Size -> Nat] /\ count \in Nat
    /\ collectors \in Seq(Owners) /\ owner \in [Owners -> {"new", "holding", "gone"}]
    /\ scrape \in [at : {"idle", "collect", "buckets", "sum"}, pos : Nat \ {0},
                   runs : Owners \cup {NoCollector}]
    /\ snap \in [cumulative : Seq(Nat), sum : Nat]

\* The histogram is exact, between any two of its updates.
HistogramExact ==
    /\ \A i \in 1 .. Size : buckets[i] = Cardinality(InBucketOf(InBucket, i))
    /\ sum = SumOf(InSum)
    /\ count = Cardinality(Through)

\* Only what is held is registered, once, and only that runs.
CollectorsHeld ==
    /\ \A n \in 1 .. Len(collectors) : owner[collectors[n]] = "holding"
    /\ \A m, n \in 1 .. Len(collectors) : collectors[m] = collectors[n] => m = n
    /\ scrape.runs # NoCollector => scrape.at = "collect" /\ owner[scrape.runs] = "holding"

\* How far the reading is, and what it has read.
Between(i) ==
    /\ Cardinality(UpToBucket(before, i)) <= snap.cumulative[i]
    /\ snap.cumulative[i] <= Cardinality(UpToBucket(InBucket, i))
    /\ i > 1 => snap.cumulative[i - 1] <= snap.cumulative[i]
ReadingSound ==
    /\ before \subseteq Through
    /\ scrape.at = "collect" => snap.cumulative = <<>>
    /\ scrape.at = "buckets" => scrape.pos <= Size /\ Len(snap.cumulative) = scrape.pos - 1
    /\ scrape.at = "sum" => Len(snap.cumulative) = Size
    /\ Len(snap.cumulative) <= Size
    /\ \A i \in 1 .. Len(snap.cumulative) : Between(i)
    /\ scrape.at = "idle" /\ Len(snap.cumulative) = Size =>
         SumOf(before) <= snap.sum /\ snap.sum <= SumOf(InSum)

MetricsInv == MetricsTypeOK /\ HistogramExact /\ CollectorsHeld /\ ReadingSound

LEMMA Sets ==
    /\ InBucket \in SUBSET Observers /\ InSum \in SUBSET InBucket
    /\ Through \in SUBSET InSum
    /\ InBucket = {o \in Observers : observer[o] \notin {"find", "bucket"}}
    /\ InSum = {o \in Observers : observer[o] \notin {"find", "bucket", "load", "exchange"}}
  BY DEF InBucket, InSum, Past, Through

\* More observers in the buckets and the sum, and what was read still fits.
LEMMA ReadingKept ==
    ASSUME MetricsInv, UNCHANGED <<scrape, snap, before>>,
           InBucket \subseteq InBucket', InSum \subseteq InSum', Through \subseteq Through',
           InBucket' \subseteq Observers, InSum' \subseteq Observers
    PROVE  ReadingSound'
<1>1. snap.cumulative \in Seq(Nat) /\ snap.sum \in Nat
  BY DEF MetricsInv, MetricsTypeOK
<1>2. ASSUME NEW i \in 1 .. Len(snap.cumulative)
      PROVE  Between(i)'
  <2>1. Between(i)
    BY DEF MetricsInv, ReadingSound
  <2>2. /\ Cardinality(UpToBucket(InBucket, i)) <= Cardinality(UpToBucket(InBucket', i))
        /\ Cardinality(UpToBucket(InBucket, i)) \in Nat
        /\ Cardinality(UpToBucket(InBucket', i)) \in Nat
    BY BucketGrows
  <2>3. snap.cumulative[i] \in Nat
    BY <1>1
  <2>4. snap.cumulative[i] <= Cardinality(UpToBucket(InBucket', i))
    BY <2>1, <2>2, <2>3 DEF Between
  <2>5. UpToBucket(InBucket, i)' = UpToBucket(InBucket', i)
    BY DEF UpToBucket
  <2>6. UpToBucket(before, i)' = UpToBucket(before, i)
    BY DEF UpToBucket
  <2> QED  BY <2>1, <2>4, <2>5, <2>6 DEF Between
<1>3. scrape.at = "idle" /\ Len(snap.cumulative) = Size =>
         SumOf(before) <= snap.sum /\ snap.sum <= SumOf(InSum')
  <2>1. /\ SumOf(InSum) <= SumOf(InSum') /\ SumOf(InSum) \in Nat /\ SumOf(InSum') \in Nat
    BY Sets, SumGrows, SumNat
  <2> QED  BY <1>1, <2>1 DEF MetricsInv, ReadingSound
<1>4. SumOf(InSum)' = SumOf(InSum') /\ SumOf(before)' = SumOf(before)
  BY DEF SumOf, FoldSet, MapThenFoldSet
<1>5. before' \subseteq Through'
  BY DEF MetricsInv, ReadingSound
<1> QED  BY <1>1, <1>2, <1>3, <1>4, <1>5 DEF MetricsInv, ReadingSound

\* One observation more in each of the three parts of the histogram.
LEMMA HistogramKept ==
    ASSUME MetricsInv, NEW NewBucket \in SUBSET Observers, NEW NewSum \in SUBSET Observers,
           NEW NewThrough \in SUBSET Observers,
           InBucket' = NewBucket, InSum' = NewSum, Through' = NewThrough,
           \A i \in 1 .. Size : buckets'[i] = Cardinality(InBucketOf(NewBucket, i)),
           sum' = SumOf(NewSum), count' = Cardinality(NewThrough)
    PROVE  HistogramExact'
<1>1. \A i \in 1 .. Size : InBucketOf(InBucket, i)' = InBucketOf(NewBucket, i)
  BY DEF InBucketOf
<1>2. SumOf(InSum)' = SumOf(InSum')
  BY DEF SumOf, FoldSet, MapThenFoldSet
<1>3. sum' = SumOf(InSum)'
  BY <1>2
<1> QED  BY <1>1, <1>3 DEF HistogramExact

\* The part of the invariant that is about collectors and scrapes.
LEMMA RestKept ==
    ASSUME MetricsInv, UNCHANGED <<collectors, owner, scrape, scrapes, snap, before>>
    PROVE  /\ CollectorsHeld'
           /\ (observer \in [Observers -> ObserverStates] /\ buckets \in [1 .. Size -> Nat]
                 /\ count \in Nat)' => MetricsTypeOK'
  BY DEF MetricsInv, MetricsTypeOK, CollectorsHeld

\* A step of an observer changes the three sets as its place says.
LEMMA AtMoves ==
    ASSUME MetricsInv, NEW o \in Observers, NEW from \in ObserverStates, NEW to \in ObserverStates,
           At(o, from, to)
    PROVE  /\ observer[o] = from /\ observer' \in [Observers -> ObserverStates]
           /\ InBucket' = {p \in Observers : (IF p = o THEN to ELSE observer[p])
                                                \notin {"find", "bucket"}}
           /\ InSum' = {p \in Observers : (IF p = o THEN to ELSE observer[p])
                                             \notin {"find", "bucket", "load", "exchange"}}
           /\ Through' = {p \in Observers : (IF p = o THEN to ELSE observer[p]) = "done"}
<1>1. /\ observer \in [Observers -> ObserverStates]
      /\ observer[o] = from /\ observer' = [observer EXCEPT ![o] = to]
  BY DEF At, MetricsInv, MetricsTypeOK
<1>2. /\ observer' \in [Observers -> ObserverStates]
      /\ \A p \in Observers : observer'[p] = IF p = o THEN to ELSE observer[p]
  BY <1>1
<1> QED  BY <1>1, <1>2 DEF InBucket, InSum, Past, Through

\* A step that moves an observer, but none of the three sets.
LEMMA QuietMove ==
    ASSUME MetricsInv, NEW o \in Observers, NEW from \in ObserverStates, NEW to \in ObserverStates,
           At(o, from, to), <<from, to>> \in {<<"find", "bucket">>, <<"load", "exchange">>,
                                             <<"exchange", "exchange">>},
           UNCHANGED <<buckets, sum, count, collectors, owner, scrape, scrapes, snap, before>>
    PROVE  MetricsInv'
<1>1. /\ observer' \in [Observers -> ObserverStates]
      /\ InBucket' = InBucket /\ InSum' = InSum /\ Through' = Through
  BY AtMoves, Sets DEF Through
<1>2. HistogramExact'
  BY <1>1, Sets, HistogramKept DEF MetricsInv, HistogramExact
<1>3. ReadingSound'
  BY <1>1, Sets, ReadingKept
<1>4. CollectorsHeld' /\ MetricsTypeOK'
  BY <1>1, RestKept DEF MetricsInv, MetricsTypeOK
<1> QED  BY <1>2, <1>3, <1>4 DEF MetricsInv

LEMMA AddToBucketInv ==
    ASSUME MetricsInv, NEW o \in Observers, AddToBucket(o)
    PROVE  MetricsInv'
<1> DEFINE b == BucketOf(ValueOf[o])
<1>1. /\ At(o, "bucket", "load") /\ buckets' = [buckets EXCEPT ![b] = @ + 1]
      /\ UNCHANGED <<sum, count, collectors, owner, scrape, scrapes, snap, before>>
  BY DEF AddToBucket, registry, scraper
<1>2. /\ observer[o] = "bucket" /\ observer' \in [Observers -> ObserverStates]
      /\ InBucket' = InBucket \cup {o} /\ InSum' = InSum /\ Through' = Through
      /\ o \notin InBucket
  BY <1>1, AtMoves, Sets DEF Through, ObserverStates
<1>3. /\ buckets' \in [1 .. Size -> Nat] /\ b \in 1 .. Size
      /\ \A i \in 1 .. Size : buckets'[i] = IF i = b THEN buckets[i] + 1 ELSE buckets[i]
  BY <1>1, BucketIs DEF MetricsInv, MetricsTypeOK
<1>4. ASSUME NEW i \in 1 .. Size
      PROVE  buckets'[i] = Cardinality(InBucketOf(InBucket \cup {o}, i))
  <2>1. InBucketOf(InBucket, i) \in SUBSET Observers
    BY Sets DEF InBucketOf
  <2>2. buckets[i] = Cardinality(InBucketOf(InBucket, i))
    BY DEF MetricsInv, HistogramExact
  <2>3. CASE i = b
    <3>1. InBucketOf(InBucket \cup {o}, i) = InBucketOf(InBucket, i) \cup {o}
      BY <2>3 DEF InBucketOf
    <3>2. o \in Observers \ InBucketOf(InBucket, i)
      BY <1>2 DEF InBucketOf
    <3>3. Cardinality(InBucketOf(InBucket, i) \cup {o}) = Cardinality(InBucketOf(InBucket, i)) + 1
      BY <2>1, <3>2, ObserverSets
    <3> QED  BY <1>3, <2>2, <2>3, <3>1, <3>3
  <2>4. CASE i # b
    <3>1. InBucketOf(InBucket \cup {o}, i) = InBucketOf(InBucket, i)
      BY <2>4 DEF InBucketOf
    <3> QED  BY <1>3, <2>2, <2>4, <3>1
  <2> QED  BY <2>3, <2>4
<1>5. HistogramExact'
  <2>1. /\ InBucket \cup {o} \in SUBSET Observers /\ InSum \in SUBSET Observers
        /\ Through \in SUBSET Observers
    BY Sets
  <2>2. sum' = SumOf(InSum) /\ count' = Cardinality(Through)
    BY <1>1 DEF MetricsInv, HistogramExact
  <2> QED  BY <1>2, <1>4, <2>1, <2>2, HistogramKept
<1>6. ReadingSound'
  BY <1>1, <1>2, Sets, ReadingKept
<1>7. CollectorsHeld' /\ MetricsTypeOK'
  BY <1>1, <1>2, <1>3, RestKept DEF MetricsInv, MetricsTypeOK
<1> QED  BY <1>5, <1>6, <1>7 DEF MetricsInv

LEMMA ExchangeSumInv ==
    ASSUME MetricsInv, NEW o \in Observers, ExchangeSum(o)
    PROVE  MetricsInv'
<1>1. UNCHANGED <<buckets, count, collectors, owner, scrape, scrapes, snap, before>>
  BY DEF ExchangeSum, registry, scraper
<1>2. CASE At(o, "exchange", "exchange") /\ sum' = sum
  <2>1. "exchange" \in ObserverStates
    BY DEF ObserverStates
  <2> QED  BY <1>1, <1>2, <2>1, QuietMove
<1>3. CASE At(o, "exchange", "count") /\ sum' = sum + ValueOf[o]
  <2>1. /\ observer' \in [Observers -> ObserverStates]
        /\ InBucket' = InBucket /\ InSum' = InSum \cup {o} /\ Through' = Through
        /\ o \notin InSum /\ o \in InBucket
    BY <1>3, AtMoves, Sets DEF Through, ObserverStates
  <2>2. sum' = SumOf(InSum \cup {o})
    <3>1. sum = SumOf(InSum)
      BY DEF MetricsInv, HistogramExact
    <3>2. InSum \in SUBSET Observers /\ o \in Observers \ InSum
      BY <2>1, Sets
    <3> QED  BY <1>3, <3>1, <3>2, SumAdd
  <2>3. HistogramExact'
    <3>1. /\ InBucket \in SUBSET Observers /\ InSum \cup {o} \in SUBSET Observers
          /\ Through \in SUBSET Observers
      BY Sets
    <3>2. /\ count' = Cardinality(Through)
          /\ \A i \in 1 .. Size : buckets'[i] = Cardinality(InBucketOf(InBucket, i))
      BY <1>1 DEF MetricsInv, HistogramExact
    <3> QED  BY <2>1, <2>2, <3>1, <3>2, HistogramKept
  <2>4. ReadingSound'
    BY <1>1, <2>1, Sets, ReadingKept
  <2>5. CollectorsHeld' /\ MetricsTypeOK'
    BY <1>1, <2>1, RestKept DEF MetricsInv, MetricsTypeOK
  <2> QED  BY <2>3, <2>4, <2>5 DEF MetricsInv
<1> QED  BY <1>2, <1>3 DEF ExchangeSum

LEMMA AddToCountInv ==
    ASSUME MetricsInv, NEW o \in Observers, AddToCount(o)
    PROVE  MetricsInv'
<1>1. /\ At(o, "count", "done") /\ count' = count + 1
      /\ UNCHANGED <<buckets, sum, collectors, owner, scrape, scrapes, snap, before>>
  BY DEF AddToCount, registry, scraper
<1>2. /\ observer' \in [Observers -> ObserverStates]
      /\ InBucket' = InBucket /\ InSum' = InSum /\ Through' = Through \cup {o}
      /\ o \notin Through
  BY <1>1, AtMoves, Sets DEF Through, ObserverStates
<1>3. count' = Cardinality(Through \cup {o}) /\ count' \in Nat
  <2>1. Through \in SUBSET Observers /\ o \in Observers \ Through
    BY <1>2, Sets
  <2>2. Cardinality(Through \cup {o}) = Cardinality(Through) + 1
    BY <2>1, ObserverSets
  <2> QED  BY <1>1, <2>2 DEF MetricsInv, HistogramExact, MetricsTypeOK
<1>4. HistogramExact'
  <2>1. /\ InBucket \in SUBSET Observers /\ InSum \in SUBSET Observers
        /\ Through \cup {o} \in SUBSET Observers
    BY Sets
  <2>2. /\ sum' = SumOf(InSum)
        /\ \A i \in 1 .. Size : buckets'[i] = Cardinality(InBucketOf(InBucket, i))
    BY <1>1 DEF MetricsInv, HistogramExact
  <2> QED  BY <1>2, <1>3, <2>1, <2>2, HistogramKept
<1>5. ReadingSound'
  BY <1>1, <1>2, Sets, ReadingKept
<1>6. CollectorsHeld' /\ MetricsTypeOK'
  BY <1>1, <1>2, <1>3, RestKept DEF MetricsInv, MetricsTypeOK
<1> QED  BY <1>4, <1>5, <1>6 DEF MetricsInv

----------------------------------------------------------------------------
\* A step that leaves the observers alone.
LEMMA ObserversKept ==
    ASSUME MetricsInv, UNCHANGED <<family, buckets, sum, count, observer, loaded>>
    PROVE  /\ HistogramExact' /\ InBucket' = InBucket /\ InSum' = InSum /\ Through' = Through
           /\ (observer \in [Observers -> ObserverStates] /\ buckets \in [1 .. Size -> Nat]
                 /\ count \in Nat)'
<1>1. InBucket' = InBucket /\ InSum' = InSum /\ Through' = Through
  BY DEF InBucket, InSum, Past, Through
<1>2. HistogramExact'
  BY <1>1, Sets, HistogramKept DEF MetricsInv, HistogramExact
<1> QED  BY <1>1, <1>2 DEF MetricsInv, MetricsTypeOK

LEMMA RegistryInv ==
    ASSUME MetricsInv, NEW w \in Owners, AddCollector(w) \/ RemoveCollector(w)
    PROVE  MetricsInv'
<1>1. /\ UNCHANGED <<family, buckets, sum, count, observer, loaded, scrape, scrapes, snap, before>>
      /\ scrape.at # "collect"
  BY DEF AddCollector, RemoveCollector, CollectLocked, histogram, scraper
<1>2. /\ collectors \in Seq(Owners) /\ Len(collectors) \in Nat
      /\ owner \in [Owners -> {"new", "holding", "gone"}]
      /\ \A n \in 1 .. Len(collectors) :
           collectors[n] \in Owners /\ owner[collectors[n]] = "holding"
      /\ \A m, n \in 1 .. Len(collectors) : collectors[m] = collectors[n] => m = n
  BY DEF MetricsInv, MetricsTypeOK, CollectorsHeld
<1>3. /\ collectors' \in Seq(Owners) /\ owner' \in [Owners -> {"new", "holding", "gone"}]
      /\ \A n \in 1 .. Len(collectors') : owner'[collectors'[n]] = "holding"
      /\ \A m, n \in 1 .. Len(collectors') : collectors'[m] = collectors'[n] => m = n
  <2>1. CASE AddCollector(w)
    <3>1. /\ owner[w] = "new" /\ collectors' = Append(collectors, w)
          /\ owner' = [owner EXCEPT ![w] = "holding"]
      BY <2>1 DEF AddCollector
    <3>2. /\ collectors' \in Seq(Owners) /\ Len(collectors') = Len(collectors) + 1
          /\ \A n \in 1 .. Len(collectors) : collectors'[n] = collectors[n]
          /\ collectors'[Len(collectors) + 1] = w
      BY <1>2, <3>1
    <3>3. \A n \in 1 .. Len(collectors) : collectors[n] # w
      BY <1>2, <3>1
    <3>4. owner' \in [Owners -> {"new", "holding", "gone"}]
      BY <1>2, <3>1
    <3>5. \A n \in 1 .. Len(collectors') : owner'[collectors'[n]] = "holding"
      BY <1>2, <3>1, <3>2
    <3>6. \A m, n \in 1 .. Len(collectors') : collectors'[m] = collectors'[n] => m = n
      BY <1>2, <3>2, <3>3
    <3> QED  BY <3>2, <3>4, <3>5, <3>6
  <2>2. CASE RemoveCollector(w)
    <3>1. PICK k \in 1 .. Len(collectors) :
            collectors[k] = w /\ collectors' = RemoveAt(collectors, k)
      BY <2>2 DEF RemoveCollector
    <3>2. owner' = [owner EXCEPT ![w] = "gone"]
      BY <2>2 DEF RemoveCollector
    <3> DEFINE before_k == SubSeq(collectors, 1, k - 1)
               after_k == SubSeq(collectors, k + 1, Len(collectors))
    <3>3. /\ before_k \in Seq(Owners) /\ Len(before_k) = k - 1
          /\ \A n \in 1 .. k - 1 : before_k[n] = collectors[n]
      BY <1>2
    <3>4. /\ after_k \in Seq(Owners) /\ Len(after_k) = Len(collectors) - k
          /\ \A n \in 1 .. Len(collectors) - k : after_k[n] = collectors[k + n]
      BY <1>2
    <3>5. collectors' = before_k \o after_k
      BY <3>1 DEF RemoveAt
    <3> HIDE DEF before_k, after_k
    <3>6. /\ collectors' \in Seq(Owners) /\ Len(collectors') = Len(collectors) - 1
          /\ \A n \in 1 .. Len(collectors) - 1 :
               collectors'[n] = IF n < k THEN collectors[n] ELSE collectors[n + 1]
      <4>1. collectors' \in Seq(Owners)
        BY <3>3, <3>4, <3>5
      <4>2. Len(collectors') = Len(collectors) - 1
        <5>1. Len(before_k \o after_k) = Len(before_k) + Len(after_k)
          BY <3>3, <3>4, ConcatProperties
        <5> QED  BY <5>1, <1>2, <3>3, <3>4, <3>5
      <4>3. ASSUME NEW n \in 1 .. Len(collectors) - 1, n < k
            PROVE  collectors'[n] = collectors[n]
        <5>1. n \in 1 .. Len(before_k)
          BY <1>2, <3>3, <4>3
        <5>2. collectors'[n] = before_k[n]
          BY <3>3, <3>4, <3>5, <5>1
        <5> QED  BY <5>1, <5>2, <3>3
      <4>4. ASSUME NEW n \in 1 .. Len(collectors) - 1, ~(n < k)
            PROVE  collectors'[n] = collectors[n + 1]
        <5>1. /\ n \in Len(before_k) + 1 .. Len(before_k) + Len(after_k)
              /\ n - Len(before_k) = n - k + 1 /\ n - k + 1 \in 1 .. Len(collectors) - k
              /\ k + (n - k + 1) = n + 1
          BY <1>2, <3>3, <3>4, <4>4
        <5>2. \A m \in 1 .. Len(before_k) + Len(after_k) : (before_k \o after_k)[m]
                 = IF m <= Len(before_k) THEN before_k[m] ELSE after_k[m - Len(before_k)]
          BY <3>3, <3>4, ConcatProperties
        <5>3. n \in 1 .. Len(before_k) + Len(after_k) /\ ~(n <= Len(before_k))
          BY <1>2, <3>3, <3>4, <4>4
        <5>4. collectors'[n] = after_k[n - Len(before_k)]
          BY <3>5, <5>2, <5>3
        <5> QED  BY <5>1, <5>4, <3>4
      <4> QED  BY <4>1, <4>2, <4>3, <4>4
    <3>7. \A n \in 1 .. Len(collectors') :
            \E m \in 1 .. Len(collectors) : m # k /\ collectors'[n] = collectors[m]
                                            /\ m = IF n < k THEN n ELSE n + 1
      BY <1>2, <3>6
    <3>8. owner' \in [Owners -> {"new", "holding", "gone"}]
      BY <1>2, <3>2
    <3>9. \A n \in 1 .. Len(collectors') : owner'[collectors'[n]] = "holding"
      BY <1>2, <3>1, <3>2, <3>7
    <3>10. \A m, n \in 1 .. Len(collectors') : collectors'[m] = collectors'[n] => m = n
      BY <1>2, <3>6, <3>7
    <3> QED  BY <3>6, <3>8, <3>9, <3>10
  <2> QED  BY <2>1, <2>2
<1>4. ReadingSound'
  BY <1>1, Sets, ObserversKept, ReadingKept
<1>5. CollectorsHeld'
  BY <1>1, <1>3 DEF MetricsInv, CollectorsHeld
<1>6. MetricsTypeOK'
  BY <1>1, <1>3, ObserversKept DEF MetricsInv, MetricsTypeOK
<1> QED  BY <1>1, <1>4, <1>5, <1>6, ObserversKept DEF MetricsInv

\* A step that leaves the observers and the registry alone.
LEMMA ScraperKept ==
    ASSUME MetricsInv,
           UNCHANGED <<family, buckets, sum, count, observer, loaded, collectors, owner>>,
           scrape' \in [at : {"idle", "collect", "buckets", "sum"}, pos : Nat \ {0},
                        runs : Owners \cup {NoCollector}],
           snap' \in [cumulative : Seq(Nat), sum : Nat],
           scrape'.runs # NoCollector => scrape'.at = "collect" /\ owner[scrape'.runs] = "holding",
           ReadingSound'
    PROVE  MetricsInv'
<1>1. MetricsTypeOK'
  BY ObserversKept DEF MetricsInv, MetricsTypeOK
<1>2. CollectorsHeld'
  BY DEF MetricsInv, CollectorsHeld
<1> QED  BY <1>1, <1>2, ObserversKept DEF MetricsInv

LEMMA BeginScrapeInv == MetricsInv /\ BeginScrape => MetricsInv'
<1> SUFFICES ASSUME MetricsInv, BeginScrape PROVE MetricsInv'
  OBVIOUS
<1>1. /\ UNCHANGED <<family, buckets, sum, count, observer, loaded, collectors, owner, before>>
      /\ scrape' = [at |-> "collect", pos |-> 1, runs |-> NoCollector]
      /\ snap' = [cumulative |-> <<>>, sum |-> 0]
  BY DEF BeginScrape, histogram, registry, Place, NoSnap
<1>2. /\ snap' \in [cumulative : Seq(Nat), sum : Nat] /\ snap'.cumulative = <<>>
      /\ Len(snap'.cumulative) = 0 /\ 0 # Size
  BY <1>1, BucketIs
<1>3. before \subseteq Through' /\ 0 <= Size
  BY <1>1, ObserversKept, BucketIs DEF MetricsInv, ReadingSound
<1>4. \A i \in 1 .. Len(snap'.cumulative) : Between(i)'
  BY <1>2
<1>5. ReadingSound'
  BY <1>1, <1>2, <1>3, <1>4 DEF ReadingSound
<1> QED  BY <1>1, <1>2, <1>5, ScraperKept

LEMMA RunCollectorInv == MetricsInv /\ RunCollector => MetricsInv'
<1> SUFFICES ASSUME MetricsInv, RunCollector PROVE MetricsInv'
  OBVIOUS
<1>1. /\ UNCHANGED <<family, buckets, sum, count, observer, loaded, collectors, owner, snap,
                      before>>
      /\ scrape.at = "collect" /\ scrape.pos <= Len(collectors)
      /\ scrape' = IF scrape.runs = NoCollector
                    THEN [scrape EXCEPT !.runs = collectors[scrape.pos]]
                    ELSE [scrape EXCEPT !.runs = NoCollector, !.pos = @ + 1]
  BY DEF RunCollector, histogram, registry
<1>2. /\ scrape \in [at : {"idle", "collect", "buckets", "sum"}, pos : Nat \ {0},
                     runs : Owners \cup {NoCollector}]
      /\ snap \in [cumulative : Seq(Nat), sum : Nat] /\ Len(collectors) \in Nat
      /\ collectors \in Seq(Owners)
  BY DEF MetricsInv, MetricsTypeOK
<1>3. scrape.pos \in 1 .. Len(collectors)
  BY <1>1, <1>2
<1>4. collectors[scrape.pos] \in Owners /\ owner[collectors[scrape.pos]] = "holding"
  BY <1>2, <1>3 DEF MetricsInv, CollectorsHeld
<1>5. /\ scrape' \in [at : {"idle", "collect", "buckets", "sum"}, pos : Nat \ {0},
                       runs : Owners \cup {NoCollector}]
      /\ scrape'.at = "collect"
      /\ scrape'.runs # NoCollector => owner[scrape'.runs] = "holding"
  <2>1. CASE scrape.runs = NoCollector
    <3>1. scrape' = [scrape EXCEPT !.runs = collectors[scrape.pos]]
      BY <1>1, <2>1
    <3> QED  BY <1>1, <1>2, <1>4, <3>1
  <2>2. CASE scrape.runs # NoCollector
    <3>1. scrape' = [scrape EXCEPT !.runs = NoCollector, !.pos = scrape.pos + 1]
      BY <1>1, <2>2
    <3>2. scrape.pos + 1 \in Nat \ {0}
      BY <1>2
    <3> QED  BY <1>1, <1>2, <3>1, <3>2
  <2> QED  BY <2>1, <2>2
<1>6. /\ before \subseteq Through /\ snap.cumulative = <<>>
  BY <1>1 DEF MetricsInv, ReadingSound
<1>7. /\ before' \subseteq Through' /\ snap'.cumulative = <<>> /\ Len(snap'.cumulative) = 0
      /\ 0 <= Size
  BY <1>1, <1>6, ObserversKept, BucketIs
<1>8. \A i \in 1 .. Len(snap'.cumulative) : Between(i)'
  BY <1>7
<1>9. ReadingSound'
  BY <1>5, <1>7, <1>8 DEF ReadingSound
<1> QED  BY <1>1, <1>2, <1>5, <1>9, ScraperKept

LEMMA BeginRenderInv == MetricsInv /\ BeginRender => MetricsInv'
<1> SUFFICES ASSUME MetricsInv, BeginRender PROVE MetricsInv'
  OBVIOUS
<1>1. /\ UNCHANGED <<family, buckets, sum, count, observer, loaded, collectors, owner, snap>>
      /\ scrape.at = "collect"
      /\ \/ scrape' = [at |-> "idle", pos |-> 1, runs |-> NoCollector]
         \/ scrape' = [at |-> "buckets", pos |-> 1, runs |-> NoCollector]
      /\ before' = Through
  BY DEF BeginRender, histogram, registry, Place, NoScrape, Through
<1>2. /\ snap \in [cumulative : Seq(Nat), sum : Nat] /\ snap.cumulative = <<>>
  BY <1>1 DEF MetricsInv, MetricsTypeOK, ReadingSound
<1>3. /\ before' \subseteq Through' /\ snap'.cumulative = <<>> /\ Len(snap'.cumulative) = 0
      /\ 0 <= Size /\ 1 <= Size /\ 0 # Size
  BY <1>1, <1>2, ObserversKept, BucketIs
<1>4. \A i \in 1 .. Len(snap'.cumulative) : Between(i)'
  BY <1>3
<1>5. ReadingSound'
  BY <1>1, <1>3, <1>4 DEF ReadingSound
<1>6. /\ scrape' \in [at : {"idle", "collect", "buckets", "sum"}, pos : Nat \ {0},
                       runs : Owners \cup {NoCollector}]
      /\ scrape'.runs = NoCollector
  BY <1>1
<1>7. snap' \in [cumulative : Seq(Nat), sum : Nat]
  BY <1>1, <1>2
<1> QED  BY <1>1, <1>5, <1>6, <1>7, ScraperKept

\* The next cumulative count: the one before it and a bucket that grew meanwhile.
LEMMA ReadBucketInv == MetricsInv /\ ReadBucket => MetricsInv'
<1> SUFFICES ASSUME MetricsInv, ReadBucket PROVE MetricsInv'
  OBVIOUS
<1> DEFINE i == scrape.pos
           c == snap.cumulative
           x == (IF i = 1 THEN 0 ELSE c[i - 1]) + buckets[i]
<1>1. /\ UNCHANGED <<family, buckets, sum, count, observer, loaded, collectors, owner, before>>
      /\ scrape.at = "buckets" /\ snap' = [snap EXCEPT !.cumulative = Append(c, x)]
      /\ scrape' = IF i = Len(buckets) THEN [at |-> "sum", pos |-> 1, runs |-> NoCollector]
                   ELSE [scrape EXCEPT !.pos = i + 1]
  BY DEF ReadBucket, histogram, registry, Place
<1>2. /\ scrape \in [at : {"idle", "collect", "buckets", "sum"}, pos : Nat \ {0},
                     runs : Owners \cup {NoCollector}]
      /\ snap \in [cumulative : Seq(Nat), sum : Nat] /\ c \in Seq(Nat)
      /\ buckets \in [1 .. Size -> Nat]
  BY DEF MetricsInv, MetricsTypeOK
<1>3. /\ i \in 1 .. Size /\ Len(c) = i - 1 /\ Size \in Nat /\ Len(buckets) = Size
      /\ before \subseteq Through /\ \A n \in 1 .. Len(c) : Between(n)
      /\ scrape.runs = NoCollector
  <2>1. i \in 1 .. Size /\ Len(c) = i - 1 /\ Size \in Nat
    BY <1>1, <1>2, BucketIs DEF MetricsInv, ReadingSound
  <2>2. Len(buckets) = Size
    BY <1>2, <2>1
  <2>3. scrape.runs = NoCollector
    BY <1>1 DEF MetricsInv, CollectorsHeld
  <2> QED  BY <2>1, <2>2, <2>3 DEF MetricsInv, ReadingSound
<1>4. /\ before \in SUBSET InBucket /\ InBucket \in SUBSET Observers
      /\ before \in SUBSET Observers
  BY <1>3, Sets
<1>5. /\ x \in Nat /\ Cardinality(UpToBucket(before, i)) <= x
      /\ x <= Cardinality(UpToBucket(InBucket, i))
      /\ i > 1 => c[i - 1] <= x
  <2>1. buckets[i] = Cardinality(InBucketOf(InBucket, i)) /\ buckets[i] \in Nat
    BY <1>2, <1>3 DEF MetricsInv, HistogramExact
  <2>2. /\ Cardinality(UpToBucket(InBucket, i))
             = Cardinality(UpToBucket(InBucket, i - 1)) + Cardinality(InBucketOf(InBucket, i))
        /\ Cardinality(UpToBucket(InBucket, 0)) = 0
        /\ Cardinality(UpToBucket(InBucket, i - 1)) \in Nat
    BY <1>3, <1>4, BucketSplit
  <2>3. /\ Cardinality(UpToBucket(before, i))
             = Cardinality(UpToBucket(before, i - 1)) + Cardinality(InBucketOf(before, i))
        /\ Cardinality(UpToBucket(before, 0)) = 0
        /\ Cardinality(UpToBucket(before, i - 1)) \in Nat
    BY <1>3, <1>4, BucketSplit
  <2>4. /\ Cardinality(InBucketOf(before, i)) <= Cardinality(InBucketOf(InBucket, i))
        /\ Cardinality(InBucketOf(before, i)) \in Nat
    BY <1>4, BucketGrows
  <2>5. CASE i = 1
    <3>1. i - 1 = 0 /\ x = 0 + buckets[i] /\ ~(i > 1)
      BY <2>5
    <3> HIDE DEF i, x
    <3> QED  BY <2>1, <2>2, <2>3, <2>4, <3>1
  <2>6. CASE i # 1
    <3>1. i - 1 \in 1 .. Len(c) /\ x = c[i - 1] + buckets[i]
      BY <1>3, <2>6
    <3>2. /\ Cardinality(UpToBucket(before, i - 1)) <= c[i - 1]
          /\ c[i - 1] <= Cardinality(UpToBucket(InBucket, i - 1)) /\ c[i - 1] \in Nat
      BY <1>2, <1>3, <3>1 DEF Between
    <3> HIDE DEF i, x, c
    <3> QED  BY <2>1, <2>2, <2>3, <2>4, <3>1, <3>2
  <2> QED  BY <2>5, <2>6
<1>6. /\ snap' \in [cumulative : Seq(Nat), sum : Nat] /\ snap'.cumulative = Append(c, x)
      /\ Len(snap'.cumulative) = i /\ snap'.cumulative[i] = x
      /\ \A n \in 1 .. i - 1 : snap'.cumulative[n] = c[n]
  <2> HIDE DEF x
  <2>1. snap'.cumulative = Append(c, x) /\ snap'.sum = snap.sum
        /\ snap' \in [cumulative : Seq(Nat), sum : Nat]
    <3>1. Append(c, x) \in Seq(Nat)
      BY <1>2, <1>5
    <3>2. /\ snap' = [snap EXCEPT !.cumulative = Append(c, x)]
          /\ snap \in [cumulative : Seq(Nat), sum : Nat]
      BY <1>1, <1>2
    <3>3. \A y \in Seq(Nat) : \A r \in [cumulative : Seq(Nat), sum : Nat] :
            /\ [r EXCEPT !.cumulative = y] \in [cumulative : Seq(Nat), sum : Nat]
            /\ [r EXCEPT !.cumulative = y].cumulative = y
            /\ [r EXCEPT !.cumulative = y].sum = r.sum
      OBVIOUS
    <3> HIDE DEF c
    <3> QED  BY <3>1, <3>2, <3>3
  <2> QED  BY <1>2, <1>3, <1>5, <2>1
<1>7. InBucket' = InBucket /\ Through' = Through
  BY <1>1, ObserversKept
<1>8. ASSUME NEW n \in 1 .. Len(snap'.cumulative)
      PROVE  Between(n)'
  <2> HIDE DEF x
  <2>1. /\ UpToBucket(InBucket, n)' = UpToBucket(InBucket, n)
        /\ UpToBucket(before, n)' = UpToBucket(before, n)
    BY <1>1, <1>7 DEF UpToBucket
  <2>2. n \in Int /\ n >= 1 /\ n <= i
    BY <1>3, <1>6
  <2>3. CASE n = i
    <3> HIDE DEF i, c
    <3>1. n > 1 => n - 1 \in 1 .. i - 1
      BY <2>2, <2>3
    <3>2. /\ Cardinality(UpToBucket(before, n)) <= x /\ x <= Cardinality(UpToBucket(InBucket, n))
          /\ n > 1 => c[n - 1] <= x
      BY <1>5, <2>3
    <3>3. snap'.cumulative[n] = x
      BY <1>6, <2>3
    <3>4. n > 1 => snap'.cumulative[n - 1] = c[n - 1]
      BY <1>6, <2>3, <3>1
    <3> QED  BY <2>1, <3>2, <3>3, <3>4 DEF Between
  <2>4. CASE n # i
    <3>1. n \in 1 .. Len(c) /\ n \in 1 .. i - 1 /\ (n > 1 => n - 1 \in 1 .. i - 1)
      BY <1>3, <2>2, <2>4
    <3>2. Between(n)
      BY <1>3, <3>1
    <3> QED  BY <1>6, <2>1, <3>1, <3>2 DEF Between
  <2> QED  BY <2>3, <2>4
<1>9. /\ scrape' \in [at : {"idle", "collect", "buckets", "sum"}, pos : Nat \ {0},
                       runs : Owners \cup {NoCollector}]
      /\ scrape'.runs = NoCollector
      /\ \/ scrape'.at = "sum" /\ i = Size
         \/ scrape'.at = "buckets" /\ scrape'.pos = i + 1 /\ i # Size
  <2>1. CASE i = Size
    <3>1. scrape' = [at |-> "sum", pos |-> 1, runs |-> NoCollector]
      BY <1>1, <1>3, <2>1
    <3> QED  BY <2>1, <3>1
  <2>2. CASE i # Size
    <3>1. scrape' = [scrape EXCEPT !.pos = i + 1] /\ i + 1 \in Nat \ {0}
      BY <1>1, <1>3, <2>2
    <3> QED  BY <1>1, <1>2, <1>3, <2>2, <3>1
  <2> QED  BY <2>1, <2>2
<1>10. ReadingSound'
  <2>1. before' \subseteq Through'
    BY <1>1, <1>3, <1>7
  <2>2. Len(snap'.cumulative) <= Size
    BY <1>3, <1>6
  <2>3. scrape'.at = "buckets" => scrape'.pos <= Size /\ Len(snap'.cumulative) = scrape'.pos - 1
    BY <1>3, <1>6, <1>9
  <2>4. scrape'.at = "sum" => Len(snap'.cumulative) = Size
    BY <1>6, <1>9
  <2>5. scrape'.at # "collect" /\ scrape'.at # "idle"
    BY <1>9
  <2> QED  BY <1>8, <2>1, <2>2, <2>3, <2>4, <2>5 DEF ReadingSound, Size
<1> QED  BY <1>1, <1>6, <1>9, <1>10, ScraperKept

LEMMA ReadSumInv == MetricsInv /\ ReadSum => MetricsInv'
<1> SUFFICES ASSUME MetricsInv, ReadSum PROVE MetricsInv'
  OBVIOUS
<1>1. /\ UNCHANGED <<family, buckets, sum, count, observer, loaded, collectors, owner, before>>
      /\ scrape.at = "sum" /\ snap' = [snap EXCEPT !.sum = sum]
      /\ scrape' = [at |-> "idle", pos |-> 1, runs |-> NoCollector]
  BY DEF ReadSum, histogram, registry, Place, NoScrape
<1>2. /\ sum = SumOf(InSum) /\ sum \in Nat /\ before \in SUBSET InSum
      /\ SumOf(before) <= sum
  <2>1. InSum \in SUBSET Observers /\ before \in SUBSET InSum /\ sum = SumOf(InSum)
    BY Sets DEF MetricsInv, HistogramExact, ReadingSound
  <2> QED  BY <2>1, SumNat, SumGrows
<1>3. /\ snap \in [cumulative : Seq(Nat), sum : Nat]
  BY DEF MetricsInv, MetricsTypeOK
<1>4. /\ snap' \in [cumulative : Seq(Nat), sum : Nat] /\ snap'.sum = sum
      /\ snap'.cumulative = snap.cumulative
  BY <1>1, <1>2, <1>3
<1>5. InBucket' = InBucket /\ InSum' = InSum /\ Through' = Through
  BY <1>1, ObserversKept
<1>6. ASSUME NEW n \in 1 .. Len(snap'.cumulative)
      PROVE  Between(n)'
  <2>1. /\ UpToBucket(InBucket, n)' = UpToBucket(InBucket, n)
        /\ UpToBucket(before, n)' = UpToBucket(before, n)
    BY <1>1, <1>5 DEF UpToBucket
  <2>2. Between(n)
    BY <1>4 DEF MetricsInv, ReadingSound
  <2> QED  BY <1>4, <2>1, <2>2 DEF Between
<1>7. SumOf(InSum)' = SumOf(InSum) /\ SumOf(before)' = SumOf(before)
  <2>1. SumOf(InSum)' = SumOf(InSum') /\ SumOf(before)' = SumOf(before')
    BY DEF SumOf, FoldSet, MapThenFoldSet
  <2> QED  BY <1>1, <1>5, <2>1
<1>8. ReadingSound'
  <2>1. before' \subseteq Through' /\ Len(snap'.cumulative) <= Size
    BY <1>1, <1>4, <1>5 DEF MetricsInv, ReadingSound
  <2>2. SumOf(before)' <= snap'.sum /\ snap'.sum <= SumOf(InSum)'
    BY <1>2, <1>4, <1>7
  <2> QED  BY <1>1, <1>6, <2>1, <2>2 DEF ReadingSound, Size
<1>9. /\ scrape' \in [at : {"idle", "collect", "buckets", "sum"}, pos : Nat \ {0},
                       runs : Owners \cup {NoCollector}]
      /\ scrape'.runs = NoCollector
  BY <1>1
<1> QED  BY <1>1, <1>4, <1>8, <1>9, ScraperKept

----------------------------------------------------------------------------
LEMMA MetricsInitInv == MetricsInit => MetricsInv
<1> SUFFICES ASSUME MetricsInit PROVE MetricsInv
  OBVIOUS
<1>1. /\ buckets = [i \in 1 .. Size |-> 0] /\ sum = 0 /\ count = 0
      /\ observer = [o \in Observers |-> "find"] /\ collectors = <<>>
      /\ owner = [w \in Owners |-> "new"] /\ before = {}
      /\ scrape = [at |-> "idle", pos |-> 1, runs |-> NoCollector]
      /\ snap = [cumulative |-> <<>>, sum |-> 0]
  BY DEF MetricsInit, Size, NoScrape, Place, NoSnap
<1>2. InBucket = {} /\ InSum = {} /\ Through = {}
  BY <1>1 DEF InBucket, InSum, Past, Through
<1>3. HistogramExact
  <2>1. \A i : InBucketOf({}, i) = {}
    BY DEF InBucketOf
  <2>2. Cardinality({}) = 0
    BY FS_EmptySet
  <2> QED  BY <1>1, <1>2, <2>1, <2>2, SumSteps DEF HistogramExact
<1>4. MetricsTypeOK
  BY <1>1, BucketIs DEF MetricsTypeOK, ObserverStates
<1>5. CollectorsHeld
  BY <1>1 DEF CollectorsHeld
<1>6. ReadingSound
  <2>1. Len(snap.cumulative) = 0 /\ 0 <= Size /\ 0 # Size
    BY <1>1, BucketIs
  <2> QED  BY <1>1, <2>1 DEF ReadingSound
<1> QED  BY <1>3, <1>4, <1>5, <1>6 DEF MetricsInv

LEMMA MetricsNextInv == MetricsInv /\ [MetricsNext]_metricsVars => MetricsInv'
<1> SUFFICES ASSUME MetricsInv, [MetricsNext]_metricsVars PROVE MetricsInv'
  OBVIOUS
<1>1. ASSUME NEW o \in Observers, Find(o) \/ LoadSum(o)
      PROVE  MetricsInv'
  <2>1. /\ At(o, "find", "bucket") \/ At(o, "load", "exchange")
        /\ UNCHANGED <<buckets, sum, count, collectors, owner, scrape, scrapes, snap, before>>
    BY <1>1 DEF Find, LoadSum, registry, scraper
  <2>2. {"find", "bucket", "load", "exchange"} \subseteq ObserverStates
    BY DEF ObserverStates
  <2> QED  BY <2>1, <2>2, QuietMove
<1>2. ASSUME NEW o \in Observers, AddToBucket(o) \/ ExchangeSum(o) \/ AddToCount(o)
      PROVE  MetricsInv'
  BY <1>2, AddToBucketInv, ExchangeSumInv, AddToCountInv
<1>3. ASSUME NEW w \in Owners, AddCollector(w) \/ RemoveCollector(w)
      PROVE  MetricsInv'
  BY <1>3, RegistryInv
<1>4. CASE UNCHANGED metricsVars
  <2>1. UNCHANGED <<family, buckets, sum, count, observer, loaded, collectors, owner, scrape,
                    scrapes, snap, before>>
    BY <1>4 DEF metricsVars
  <2>2. ReadingSound'
    BY <2>1, Sets, ObserversKept, ReadingKept
  <2> QED  BY <2>1, <2>2, ObserversKept, RestKept DEF MetricsInv
<1> QED  BY <1>1, <1>2, <1>3, <1>4, BeginScrapeInv, RunCollectorInv, BeginRenderInv,
            ReadBucketInv, ReadSumInv DEF MetricsNext

LEMMA MetricsInvariant == MetricsSpec => []MetricsInv
  BY MetricsInitInv, MetricsNextInv, PTL DEF MetricsSpec

\* A rendered histogram is a histogram, between what was over when the reading began
\* and what has begun, whoever observes meanwhile, and a removed collector is not run
\* (MetricsRegistry.cpp:14-18, 89-108, MetricsRegistry.h:93).
THEOREM ScrapesAreSound == MetricsSpec => []ScrapeSound
<1>1. ASSUME MetricsInv
      PROVE  ScrapeSound
  <2>1. ASSUME Len(snap.cumulative) = Len(Bounds) + 1, scrape = NoScrape
        PROVE  /\ \A i \in 1 .. Len(Bounds) + 1 :
                    LET upTo(S) == Cardinality({o \in S : BucketOf(ValueOf[o]) <= i})
                    IN  /\ upTo(before) <= snap.cumulative[i]
                        /\ snap.cumulative[i] <= upTo(InBucket)
                        /\ i > 1 => snap.cumulative[i - 1] <= snap.cumulative[i]
               /\ SumOf(before) <= snap.sum /\ snap.sum <= SumOf(InSum)
    <3>1. scrape.at = "idle" /\ Len(snap.cumulative) = Size
      BY <2>1 DEF NoScrape, Place, Size
    <3> QED  BY <1>1, <2>1, <3>1 DEF MetricsInv, ReadingSound, Between, UpToBucket
  <2>2. sum = SumOf(InSum)
    BY <1>1 DEF MetricsInv, HistogramExact
  <2>3. count <= Cardinality(InBucket)
    <3>1. InBucket \in SUBSET Observers /\ Through \in SUBSET InBucket
      BY Sets
    <3> QED  BY <1>1, <3>1, ObserverSets DEF MetricsInv, HistogramExact
  <2>4. \A w \in Owners : owner[w] = "gone" => scrape.runs # w
    BY <1>1, MetricsAssumption DEF MetricsInv, CollectorsHeld, NoCollector
  <2> QED  BY <2>1, <2>2, <2>3, <2>4 DEF ScrapeSound
<1> QED  BY <1>1, MetricsInvariant, PTL

----------------------------------------------------------------------------
(***************************************************************************)
(* The order in which a ManualExecutor runs timers, for any number of      *)
(* items, times and nested drives.                                         *)
(*                                                                         *)
(* The argument: an item is given its number once, so no timer can be      *)
(* taken for another one or for a task that ran; and nothing moves the     *)
(* clock past a timer that is still set, so the one that runs finds the    *)
(* clock at or before its deadline and puts it there.                      *)
(***************************************************************************)

Queued(i) == \E n \in 1 .. Len(tasks) : tasks[n] = i
Started(i) == \E n \in 1 .. Len(started) : started[n] = i
Frames == [kind : {"pending", "advance", "run"}, end : Nat,
           state : {"pop", "drain", "timer", "task"}, item : Nat]

ManualTypeOK ==
    /\ next \in Nat /\ now \in Nat
    /\ tasks \in Seq(Nat) /\ started \in Seq(Nat)
    /\ clockTimers \subseteq [id : Nat, due : Nat]
    /\ drives \in Seq(Frames) /\ waits \subseteq Nat

\* An item is given a number once.
ItemsOnce ==
    /\ \A t \in clockTimers : t.id < next /\ ~Queued(t.id)
    /\ \A t, u \in clockTimers : t.id = u.id => t = u
    /\ \A n \in 1 .. Len(tasks) : tasks[n] < next

ManualInv ==
    /\ ManualTypeOK /\ ItemsOnce
    /\ \A t \in clockTimers : now <= t.due
    /\ \A i \in waits : Queued(i) \/ Started(i)

LEMMA SameStarted ==
    ASSUME ManualInv, started' = started, waits' \in SUBSET Nat, waits \subseteq waits'
    PROVE  RunsInOrder
  BY DEF RunsInOrder, Started, ManualInv, ManualTypeOK

LEMMA PostedTask ==
    ASSUME ManualInv, tasks' = Append(tasks, next), next' = next + 1,
           clockTimers' = clockTimers, started' = started
    PROVE  /\ tasks' \in Seq(Nat) /\ next' \in Nat /\ ItemsOnce'
           /\ \E n \in 1 .. Len(tasks') : tasks'[n] = next
           /\ \A i \in Nat : Queued(i) => Queued(i)'
<1>1. /\ tasks \in Seq(Nat) /\ next \in Nat /\ Len(tasks) \in Nat
      /\ tasks' \in Seq(Nat) /\ Len(tasks') = Len(tasks) + 1
      /\ \A n \in 1 .. Len(tasks) : tasks'[n] = tasks[n]
      /\ tasks'[Len(tasks) + 1] = next
  BY DEF ManualInv, ManualTypeOK
<1>2. (\E n \in 1 .. Len(tasks') : tasks'[n] = next) /\ \A i \in Nat : Queued(i) => Queued(i)'
  <2>1. Len(tasks) + 1 \in 1 .. Len(tasks')
    BY <1>1
  <2>2. (\E n \in 1 .. Len(tasks') : tasks'[n] = next)
    BY <1>1, <2>1
  <2>3. ASSUME NEW i \in Nat, Queued(i)
        PROVE  Queued(i)'
    <3>1. PICK n \in 1 .. Len(tasks) : tasks[n] = i
      BY <2>3 DEF Queued
    <3>2. n \in 1 .. Len(tasks') /\ tasks'[n] = i
      BY <1>1, <3>1
    <3> QED
      BY <3>2 DEF Queued
  <2> QED
    BY <2>2, <2>3
<1>3. ASSUME NEW i \in Nat, Queued(i)'
      PROVE  Queued(i) \/ i = next
  <2>1. PICK n \in 1 .. Len(tasks') : tasks'[n] = i
    BY <1>3 DEF Queued
  <2> QED
    BY <1>1, <2>1 DEF Queued
<1>4. \A n \in 1 .. Len(tasks') : tasks'[n] < next'
  BY <1>1 DEF ManualInv, ItemsOnce
<1>5. \A t \in clockTimers : t.id \in Nat
  BY DEF ManualInv, ManualTypeOK
<1> QED
  BY <1>1, <1>2, <1>3, <1>4, <1>5 DEF ManualInv, ItemsOnce

\* The first item in the queue is taken.
LEMMA TakenTask ==
    ASSUME ManualInv, tasks # <<>>, tasks' = Tail(tasks), next' = next,
           clockTimers' = clockTimers, started' = Append(started, Head(tasks))
    PROVE  /\ tasks' \in Seq(Nat) /\ started' \in Seq(Nat) /\ ItemsOnce'
           /\ \A i \in Nat : Queued(i) \/ Started(i) => Queued(i)' \/ Started(i)'
           /\ Head(tasks) \in Nat /\ Queued(Head(tasks))
<1>1. /\ tasks \in Seq(Nat) /\ started \in Seq(Nat)
      /\ Len(tasks) \in Nat \ {0} /\ Len(started) \in Nat
      /\ Head(tasks) = tasks[1] /\ Head(tasks) \in Nat
      /\ tasks' \in Seq(Nat) /\ Len(tasks') = Len(tasks) - 1
      /\ \A n \in 1 .. Len(tasks') : tasks'[n] = tasks[n + 1]
  BY DEF ManualInv, ManualTypeOK
<1>2. /\ started' \in Seq(Nat) /\ Len(started') = Len(started) + 1
      /\ \A n \in 1 .. Len(started) : started'[n] = started[n]
      /\ started'[Len(started) + 1] = Head(tasks)
  BY <1>1
<1>3. \A n \in 1 .. Len(tasks') : n + 1 \in 1 .. Len(tasks)
  BY <1>1
<1>4. \A i \in Nat : Queued(i)' => Queued(i)
  BY <1>1, <1>3 DEF Queued
<1>5. \A i \in Nat : Started(i) => Started(i)'
  BY <1>1, <1>2 DEF Started
<1>6. ASSUME NEW i \in Nat, Queued(i)
      PROVE  Queued(i)' \/ Started(i)'
  <2>1. PICK n \in 1 .. Len(tasks) : tasks[n] = i
    BY <1>6 DEF Queued
  <2>2. CASE n = 1
    BY <1>1, <1>2, <2>1, <2>2 DEF Started
  <2>3. CASE n # 1
    <3>1. n - 1 \in 1 .. Len(tasks') /\ tasks'[n - 1] = i
      BY <1>1, <2>1, <2>3
    <3> QED
      BY <3>1 DEF Queued
  <2> QED
    BY <2>2, <2>3
<1>7. Queued(Head(tasks))
  BY <1>1 DEF Queued
<1>8. ItemsOnce'
  <2>1. \A t \in clockTimers : t.id \in Nat
    BY DEF ManualInv, ManualTypeOK
  <2>2. \A n \in 1 .. Len(tasks') : tasks'[n] < next
    BY <1>1, <1>3 DEF ManualInv, ItemsOnce
  <2> QED
    BY <1>4, <2>1, <2>2 DEF ManualInv, ItemsOnce
<1> QED
  BY <1>1, <1>2, <1>4, <1>5, <1>6, <1>7, <1>8
\* What the driver's stack may become.
LEMMA Stack ==
    ASSUME ManualTypeOK
    PROVE  /\ \A f \in Frames : Append(drives, f) \in Seq(Frames)
           /\ drives # <<>> =>
                /\ Top \in Frames /\ Front(drives) \in Seq(Frames)
                /\ \A f, g \in Frames : /\ SetTop(f) \in Seq(Frames)
                                        /\ Append(SetTop(f), g) \in Seq(Frames)
<1>1. drives \in Seq(Frames)
  BY DEF ManualTypeOK
<1>2. ASSUME drives # <<>>
      PROVE  /\ Top \in Frames
             /\ \A f \in Frames : SetTop(f) \in Seq(Frames)
  <2>1. Len(drives) \in 1 .. Len(drives)
    BY <1>1, <1>2
  <2>2. Top \in Frames
    BY <1>1, <2>1 DEF Top, Last
  <2>3. ASSUME NEW f \in Frames
        PROVE  [drives EXCEPT ![Len(drives)] = f] \in Seq(Frames)
    BY <1>1, <2>1
  <2> QED
    BY <2>2, <2>3 DEF SetTop
<1>3. ASSUME drives # <<>>
      PROVE  Front(drives) \in Seq(Frames)
  BY <1>1, <1>3 DEF Front
<1> QED
  BY <1>1, <1>2, <1>3

LEMMA PostsInv ==
    ASSUME ManualInv, Post \/ RunAndWait
    PROVE  ManualInv' /\ RunsInOrder
<1> USE DEF ManualInv
<1>1. /\ tasks' = Append(tasks, next) /\ next' = next + 1
      /\ clockTimers' = clockTimers /\ now' = now /\ started' = started
      /\ waits' = waits \/ waits' = waits \cup {next}
      /\ drives' = drives \/ \E f \in Frames : drives' = Append(drives, f)
  BY DEF Post, RunAndWait, Frame, Frames, ManualTypeOK
<1>2. /\ tasks' \in Seq(Nat) /\ next' \in Nat /\ ItemsOnce'
      /\ (\E n \in 1 .. Len(tasks') : tasks'[n] = next) /\ \A i \in Nat : Queued(i) => Queued(i)'
  BY <1>1, PostedTask
<1>3. drives' \in Seq(Frames)
  BY <1>1, Stack DEF ManualTypeOK
<1>4. waits' \in SUBSET Nat
  BY <1>1 DEF ManualTypeOK
<1>5. ManualTypeOK'
  BY <1>1, <1>2, <1>3, <1>4 DEF ManualTypeOK
<1>6. \A i \in Nat : Started(i)' <=> Started(i)
  BY <1>1 DEF Started
<1>7. ASSUME NEW i \in waits'
      PROVE  Queued(i)' \/ Started(i)'
  <2>1. CASE i \in waits
    <3>1. i \in Nat /\ (Queued(i) \/ Started(i))
      BY <2>1 DEF ManualTypeOK
    <3> QED
      BY <1>2, <1>6, <3>1
  <2>2. CASE i \notin waits
    <3>1. i = next
      BY <1>1, <2>2
    <3> QED
      BY <1>2, <3>1 DEF Queued
  <2> QED
    BY <2>1, <2>2
<1> QED
  BY <1>1, <1>2, <1>4, <1>5, <1>7, SameStarted

LEMMA TimersInv ==
    ASSUME ManualInv,
           (\E d \in 0 .. MaxNow : PostAfter(d))
             \/ (\E id \in 1 .. MaxItems : CancelArmed(id))
    PROVE  ManualInv' /\ RunsInOrder
<1> USE DEF ManualInv
<1>1. /\ tasks' = tasks /\ now' = now /\ drives' = drives /\ waits' = waits
      /\ started' = started
      /\ \/ /\ next' = next + 1
            /\ \E d \in Nat : clockTimers' = clockTimers \cup {[id |-> next, due |-> now + d]}
         \/ /\ next' = next
            /\ clockTimers' \subseteq clockTimers
  BY DEF PostAfter, CancelArmed
<1>2. ManualTypeOK'
  BY <1>1 DEF ManualTypeOK
<1>3. \A i \in Nat : (Queued(i)' <=> Queued(i)) /\ (Started(i)' <=> Started(i))
  BY <1>1 DEF Queued, Started
<1>4. ~Queued(next)
  BY DEF Queued, ItemsOnce, ManualTypeOK
<1>5. \A t \in clockTimers : t.id \in Nat /\ t.id < next
  BY DEF ManualTypeOK, ItemsOnce
<1>6. ItemsOnce' /\ \A t \in clockTimers' : now' <= t.due
  <2>1. CASE next' = next
    BY <1>1, <1>3, <1>5, <2>1 DEF ItemsOnce, ManualTypeOK
  <2>2. CASE next' = next + 1
    <3>1. PICK d \in Nat : clockTimers' = clockTimers \cup {[id |-> next, due |-> now + d]}
      <4>1. next' # next
        BY <2>2 DEF ManualTypeOK
      <4> QED
        BY <1>1, <4>1
    <3>2. \A t \in clockTimers' : \/ t \in clockTimers
                                  \/ t.id = next /\ t = [id |-> next, due |-> now + d]
      BY <3>1
    <3>3. \A t \in clockTimers' : t.id \in Nat /\ t.id < next' /\ ~Queued(t.id)' /\ now' <= t.due
      BY <1>1, <1>3, <1>4, <1>5, <2>2, <3>2 DEF ManualTypeOK, ItemsOnce
    <3>4. \A t, u \in clockTimers' : t.id = u.id => t = u
      BY <1>5, <3>2, SMTT(30) DEF ManualTypeOK, ItemsOnce
    <3>5. \A n \in 1 .. Len(tasks') : tasks'[n] < next'
      BY <1>1, <2>2 DEF ManualTypeOK, ItemsOnce
    <3> QED
      BY <3>3, <3>4, <3>5 DEF ItemsOnce
  <2> QED
    BY <1>1, <2>1, <2>2
<1> QED
  BY <1>1, <1>2, <1>3, <1>6, SameStarted DEF ManualTypeOK

\* A step of the stack alone.
LEMMA StackInv ==
    ASSUME ManualInv, tasks' = tasks, clockTimers' = clockTimers, next' = next,
           started' = started, waits' = waits, drives' \in Seq(Frames), now' \in Nat,
           \A t \in clockTimers : now' <= t.due
    PROVE  ManualInv' /\ RunsInOrder
<1>1. ManualTypeOK'
  BY DEF ManualInv, ManualTypeOK
<1>2. \A i \in Nat : (Queued(i)' <=> Queued(i)) /\ (Started(i)' <=> Started(i))
  BY DEF Queued, Started
<1>3. ItemsOnce'
  BY <1>2 DEF ManualInv, ManualTypeOK, ItemsOnce
<1> QED
  BY <1>1, <1>2, <1>3, SameStarted DEF ManualInv, ManualTypeOK

LEMMA DrivesInv ==
    ASSUME ManualInv,
           RunPending \/ (\E by \in 0 .. MaxNow : AdvanceBy(by))
             \/ TaskReturns \/ TaskThrows
    PROVE  ManualInv' /\ RunsInOrder
<1>1. /\ UNCHANGED <<tasks, clockTimers, now, next, waits, started>>
      /\ \/ \E f \in Frames : drives' = Append(drives, f)
         \/ drives # <<>> /\ drives' = Front(drives)
         \/ drives' = <<>>
  <2>1. CASE RunPending
    <3>1. Frame("pending", 0) \in Frames
      BY DEF Frame, NoItem, Frames
    <3> QED
      BY <2>1, <3>1 DEF RunPending
  <2>2. ASSUME NEW by \in 0 .. MaxNow, AdvanceBy(by)
        PROVE  /\ UNCHANGED <<tasks, clockTimers, now, next, waits, started>>
               /\ \E f \in Frames : drives' = Append(drives, f)
    <3>1. [Frame("advance", by) EXCEPT !.state = "drain"] \in Frames
      BY DEF Frame, NoItem, Frames
    <3> QED
      BY <2>2, <3>1 DEF AdvanceBy
  <2>3. CASE TaskReturns \/ TaskThrows
    BY <2>3 DEF TaskReturns, TaskThrows, InTask
  <2> QED
    BY <2>1, <2>2, <2>3
<1>2. drives' \in Seq(Frames)
  <2>1. ManualTypeOK
    BY DEF ManualInv
  <2>2. CASE \E f \in Frames : drives' = Append(drives, f)
    BY <2>1, <2>2, Stack
  <2>3. CASE drives # <<>> /\ drives' = Front(drives)
    BY <2>1, <2>3, Stack
  <2>4. CASE drives' = <<>>
    BY <2>4
  <2> QED
    BY <1>1, <2>2, <2>3, <2>4
<1> QED
  BY <1>1, <1>2, StackInv DEF ManualInv, ManualTypeOK

LEMMA EndDrainInv ==
    ASSUME ManualInv, EndDrain
    PROVE  ManualInv' /\ RunsInOrder
<1> USE DEF ManualInv
<1>1. /\ UNCHANGED <<tasks, clockTimers, now, next, started>>
      /\ drives # <<>> /\ tasks = <<>>
      /\ \/ drives' = Front(drives)
         \/ drives' = SetTop([Top EXCEPT !.state = "timer",
                                                       !.end = now + Top.end])
         \/ drives' = SetTop([Top EXCEPT !.state = "timer"])
      /\ waits' \subseteq waits
  <2>1. /\ UNCHANGED <<tasks, clockTimers, now, next, started>>
        /\ drives # <<>> /\ tasks = <<>>
    BY DEF EndDrain, Driving
  <2>2. \/ drives' = Front(drives) /\ waits' = waits \ {Top.item}
        \/ /\ drives' = SetTop([Top EXCEPT !.state = "timer",
                                                          !.end = now + Top.end])
           /\ waits' = waits
        \/ /\ drives' = SetTop([Top EXCEPT !.state = "timer"])
           /\ waits' = waits
    BY DEF EndDrain
  <2> QED
    BY <2>1, <2>2
<1>2. /\ [Top EXCEPT !.state = "timer", !.end = now + Top.end] \in Frames
      /\ [Top EXCEPT !.state = "timer"] \in Frames
  <2>1. Top \in Frames /\ now \in Nat
    BY <1>1, Stack DEF ManualTypeOK
  <2>2. \A f \in Frames, n \in Nat : /\ [f EXCEPT !.state = "timer", !.end = n] \in Frames
                                     /\ [f EXCEPT !.state = "timer"] \in Frames
                                     /\ f.end \in Nat
    BY DEF Frames
  <2>3. now + Top.end \in Nat
    <3>1. Top.end \in Nat
      BY <2>1 DEF Frames
    <3> QED
      BY <2>1, <3>1
  <2> HIDE DEF Top
  <2> QED
    BY <2>1, <2>2, <2>3
<1>3. drives' \in Seq(Frames)
  BY <1>1, <1>2, Stack
<1>4. \A i \in Nat : ~Queued(i)
  BY <1>1 DEF Queued
<1>5. \A i \in waits : Started(i) /\ Started(i)'
  BY <1>1, <1>4 DEF Started, ManualTypeOK
<1>6. ManualTypeOK' /\ ItemsOnce'
  BY <1>1, <1>3 DEF ManualTypeOK, ItemsOnce, Queued
<1>7. RunsInOrder
  BY <1>1, <1>5 DEF RunsInOrder, Started, ManualTypeOK
<1> QED
  BY <1>1, <1>5, <1>6, <1>7

LEMMA StartTaskInv ==
    ASSUME ManualInv, StartTask
    PROVE  ManualInv' /\ RunsInOrder
<1> USE DEF ManualInv
<1> DEFINE run == [kind |-> "run", end |-> 0, state |-> "task", item |-> Head(tasks)]
<1>1. /\ UNCHANGED <<clockTimers, now, next, waits>>
      /\ drives # <<>> /\ tasks # <<>> /\ tasks' = Tail(tasks)
      /\ started' = Append(started, Head(tasks))
      /\ drives' = Append(SetTop(Top), run)
  BY DEF StartTask, Driving
<1>2. /\ tasks' \in Seq(Nat) /\ started' \in Seq(Nat) /\ ItemsOnce'
      /\ \A i \in Nat : Queued(i) \/ Started(i) => Queued(i)' \/ Started(i)'
      /\ Head(tasks) \in Nat /\ Queued(Head(tasks))
  BY <1>1, TakenTask
<1>3. run \in Frames
  BY <1>2 DEF Frames
<1>4. drives' \in Seq(Frames)
  BY <1>1, <1>3, Stack
<1>5. ManualTypeOK'
  BY <1>1, <1>2, <1>4 DEF ManualTypeOK
<1>6. ASSUME NEW t \in clockTimers
      PROVE  started' # Append(started, t.id)
  <2>1. t.id # Head(tasks)
    BY <1>2 DEF ItemsOnce
  <2>2. started \in Seq(Nat) /\ t.id \in Nat
    BY DEF ManualTypeOK
  <2> QED
    BY <1>1, <1>2, <2>1, <2>2
<1>7. RunsInOrder
  BY <1>1, <1>6 DEF RunsInOrder, Started
<1> QED
  BY <1>1, <1>2, <1>5, <1>7 DEF ManualTypeOK

LEMMA StartTimerInv ==
    ASSUME ManualInv, StartTimer
    PROVE  ManualInv' /\ RunsInOrder
<1> USE DEF ManualInv
<1>1. PICK t \in clockTimers :
        /\ \A u \in clockTimers \ {t} : Before(t, u)
        /\ now' = IF t.due > now THEN t.due ELSE now
        /\ clockTimers' = clockTimers \ {t}
        /\ started' = Append(started, t.id)
        /\ drives' = Append(SetTop([Top EXCEPT !.state = "pop"]),
                            [kind |-> "run", end |-> 0, state |-> "task", item |-> t.id])
  BY DEF StartTimer
<1>2. /\ UNCHANGED <<tasks, next, waits>> /\ drives # <<>>
  BY DEF StartTimer, Driving
<1>3. t.id \in Nat /\ t.due \in Nat /\ now' = t.due
  BY <1>1 DEF ManualTypeOK
<1>4. /\ [Top EXCEPT !.state = "pop"] \in Frames
      /\ [kind |-> "run", end |-> 0, state |-> "task", item |-> t.id] \in Frames
  <2>1. Top \in Frames
    BY <1>2, Stack
  <2> HIDE DEF Top
  <2> QED
    BY <1>3, <2>1 DEF Frames
<1>5. drives' \in Seq(Frames)
  BY <1>1, <1>2, <1>4, Stack
<1>6. started' \in Seq(Nat) /\ \A i \in Nat : Started(i) => Started(i)'
  BY <1>1, <1>3 DEF Started, ManualTypeOK
<1>7. ManualTypeOK'
  BY <1>1, <1>2, <1>3, <1>5, <1>6 DEF ManualTypeOK
<1>8. \A i \in Nat : Queued(i)' <=> Queued(i)
  BY <1>2 DEF Queued
<1>9. ItemsOnce'
  BY <1>1, <1>2, <1>8 DEF ItemsOnce, ManualTypeOK
<1>10. \A u \in clockTimers' : now' <= u.due
  <2>1. \A u \in clockTimers' : u \in clockTimers \ {t} /\ u.due \in Nat /\ u.id \in Nat
    BY <1>1 DEF ManualTypeOK
  <2>2. \A u \in clockTimers' : t.due <= u.due
    BY <1>1, <1>3, <2>1 DEF Before
  <2> QED  BY <1>3, <2>2
<1>11. \A i \in waits' : Queued(i)' \/ Started(i)'
  BY <1>2, <1>6, <1>8 DEF ManualTypeOK
<1>12. RunsInOrder
  <2>1. ASSUME NEW s \in clockTimers, started' = Append(started, s.id)
        PROVE  s = t
    <3>1. s.id \in Nat /\ started \in Seq(Nat)
      BY DEF ManualTypeOK
    <3>2. Append(started, s.id)[Len(started) + 1] = s.id
      BY <3>1
    <3>3. Append(started, t.id)[Len(started) + 1] = t.id
      BY <1>3, <3>1
    <3> QED
      BY <1>1, <2>1, <3>2, <3>3 DEF ItemsOnce
  <2> QED
    BY <1>1, <1>2, <1>3, <2>1 DEF RunsInOrder, Started
<1> QED
  BY <1>7, <1>9, <1>10, <1>11, <1>12

LEMMA EndAdvanceInv ==
    ASSUME ManualInv, EndAdvance
    PROVE  ManualInv' /\ RunsInOrder
<1>1. /\ UNCHANGED <<tasks, clockTimers, next, waits, started>> /\ drives # <<>>
      /\ \A t \in clockTimers : t.due > Top.end
      /\ now' = Top.end
      /\ drives' = SetTop([Frame("pending", 0) EXCEPT !.state = "pop"])
  BY DEF EndAdvance, Driving
<1>2. /\ Top.end \in Nat
      /\ [Frame("pending", 0) EXCEPT !.state = "pop"] \in Frames
  <2>1. Top \in Frames
    BY <1>1, Stack DEF ManualInv
  <2> HIDE DEF Top
  <2> QED
    BY <2>1 DEF Frames, Frame, NoItem
<1>3. drives' \in Seq(Frames)
  BY <1>1, <1>2, Stack DEF ManualInv
<1>4. \A t \in clockTimers : now' <= t.due
  BY <1>1, <1>2 DEF ManualInv, ManualTypeOK
<1> QED
  BY <1>1, <1>2, <1>3, <1>4, StackInv

LEMMA ManualStep ==
    ManualInv /\ [ManualNext]_(manualVars)
      => ManualInv' /\ [RunsInOrder]_(manualVars)
<1> SUFFICES ASSUME ManualInv, [ManualNext]_(manualVars)
             PROVE  ManualInv' /\ [RunsInOrder]_(manualVars)
  OBVIOUS
<1>1. CASE ManualNext
  BY <1>1, PostsInv, TimersInv, DrivesInv, EndDrainInv, StartTaskInv, StartTimerInv,
     EndAdvanceInv DEF ManualNext
<1>2. CASE UNCHANGED manualVars
  <2>1. UNCHANGED <<tasks, clockTimers, now, next, drives, waits, started>>
    BY <1>2 DEF manualVars
  <2> QED
    BY <1>2, <2>1, StackInv DEF ManualInv, ManualTypeOK
<1> QED
  BY <1>1, <1>2

\* A timer runs at its own time and before all the others that are set, however
\* drives nest and whoever posts and cancels meanwhile; a RunAndWait that returns has
\* run its task (ManualExecutor.h:36-45).
THEOREM TimersInOrder == ManualSpec => ManualOrder
<1>1. ManualInit => ManualInv
  BY DEF ManualInit, ManualInv, ManualTypeOK, ItemsOnce, Queued, Started
<1>2. ManualInv /\ [ManualNext]_(manualVars)
        => ManualInv' /\ [RunsInOrder]_(manualVars)
  BY ManualStep
<1> QED
  BY <1>1, <1>2, PTL DEF ManualSpec, ManualOrder


----------------------------------------------------------------------------
(***************************************************************************)
(* Drain for any number of workers, owners and jobs, on any routes.        *)
(*                                                                         *)
(* The argument: an item is in one place or with one thread, and the       *)
(* mailboxes are first in, first out, so the places behind the barrier     *)
(* hold no job that has not moved since the call, except owners that were  *)
(* unregistered, over whose mailboxes it jumps. While all are registered   *)
(* and have threads, one thread serves a place behind the workers: there   *)
(* the barrier starts only after the task in front of it has ended and     *)
(* posted, to a later place, which the barrier has still to come through.  *)
(***************************************************************************)

Items == Jobs \cup {Barrier}

PassOK ==
    /\ pass \in [Pumps -> OwnerIds \cup Pumps]
    /\ \A t \in Pumps : pass[t] # t => manual

DrainTypeOK ==
    /\ PassOK
    /\ owners \subseteq OwnerIds /\ manual \in BOOLEAN
    /\ mail \in [Places -> Seq(Items)] /\ task \in [Crew -> Items \cup {"none"}]
    /\ route \in [Jobs -> Routes] /\ hop \in [Jobs -> Nat] /\ atCall \in [Jobs -> Nat]
    /\ \A j \in Jobs : atCall[j] <= hop[j] /\ hop[j] <= Len(route[j])
    /\ aim \in {"none", "start", "to", "post"} \X Nat
    /\ aim[1] # "none" => aim[2] \in Places
    /\ drain \in {"none", "quiesced", "waiting", "true", "false"} /\ done \in BOOLEAN

\* An item is in one place of one mailbox, or one thread runs it.
OneSpot ==
    /\ \A p, q \in Places : \A m \in 1 .. Len(mail[p]), n \in 1 .. Len(mail[q]) :
         mail[p][m] = mail[q][n] => p = q /\ m = n
    /\ \A p \in Places, t \in Crew : \A n \in 1 .. Len(mail[p]) : mail[p][n] # task[t]
    /\ \A t, u \in Crew : task[t] = task[u] /\ task[t] # "none" => t = u

Here(j) == route[j][hop[j]]

\* A job is where its route says, and behind the workers with the one thread there.
JobsOnRoute ==
    \A j \in Jobs :
      /\ \A p \in Places : \A n \in 1 .. Len(mail[p]) :
           mail[p][n] = j => hop[j] > 0 /\ Here(j) = p
      /\ \A t \in Crew : task[t] = j =>
           hop[j] > 0 /\ (Here(j) > Normal /\ ~manual => t = Here(j))

\* The barrier is under way from the call until it is done or lost.
BarrierOnce ==
    /\ \A t \in Crew : task[t] = Barrier => aim[1] # "none"
    /\ drain \in {"none", "quiesced"} \/ done =>
         /\ aim[1] = "none" /\ \A t \in Crew : task[t] # Barrier
         /\ \A p \in Places : \A n \in 1 .. Len(mail[p]) : mail[p][n] # Barrier
    /\ drain \in {"none", "quiesced"} => ~done
    /\ drain = "true" => done

\* Places the barrier has passed hold no job that was in them at the call; of the
\* owners' that is known only while all are registered.
Unmoved(j) == atCall[j] > 0 /\ hop[j] = atCall[j]
Jumped(p) == p \in OwnerIds /\ owners # OwnerIds
Cleared(p) ==
    \/ Jumped(p)
    \/ \A j \in Jobs : Unmoved(j) => \A n \in 1 .. Len(mail[p]) : mail[p][n] # j
PassedClear ==
    /\ \A q \in Places : \A n \in 1 .. Len(mail[q]) : mail[q][n] = Barrier =>
         /\ \A p \in Places : p < q => Cleared(p)
         /\ \A j \in Jobs : Unmoved(j) => \A m \in 1 .. Len(mail[q]) : mail[q][m] = j => m < n
    /\ aim[1] = "start" => \A p \in Places : p <= aim[2] => Cleared(p)
    /\ aim[1] \in {"to", "post"} => \A p \in Places : p < aim[2] => Cleared(p)
    /\ done => \A p \in Places : Cleared(p)

\* A job on its way forward behind the workers stays in front of the barrier.
Somewhere(j) == \/ \E p \in Places : \E n \in 1 .. Len(mail[p]) : mail[p][n] = j
                \/ \E t \in Crew : task[t] = j
OnWay(j) == /\ atCall[j] > 0 /\ route[j][atCall[j]] > Normal
            /\ hop[j] <= Forward(j, atCall[j])
AheadOf(j) ==
    /\ Here(j) > Normal
    /\ \A q \in Places : \A n \in 1 .. Len(mail[q]) : mail[q][n] = Barrier =>
         /\ Somewhere(j) => Here(j) >= q
         /\ \A m \in 1 .. Len(mail[q]) : mail[q][m] = j => m < n
    /\ aim[1] = "start" /\ Somewhere(j) => Here(j) > aim[2]
    /\ aim[1] \in {"to", "post"} /\ Somewhere(j) => Here(j) >= aim[2]
    /\ done => ~Somewhere(j)
StaysAhead == owners = OwnerIds /\ ~manual => \A j \in Jobs : OnWay(j) => AheadOf(j)

DrainInv == /\ DrainTypeOK /\ OneSpot /\ JobsOnRoute /\ BarrierOnce
            /\ PassedClear /\ StaysAhead

----------------------------------------------------------------------------
LEMMA PlacesAre ==
    /\ Places \subseteq Nat \ {0} /\ UI \in Places /\ UI \in Nat /\ Critical \in Places
    /\ Normal \in Places /\ OwnerIds \subseteq Places \ {UI, Critical, Normal}
    /\ \A p \in Places : p <= UI /\ (p \in OwnerIds <=> Normal < p /\ p < UI)
    /\ Critical = 1 /\ Normal = 2 /\ UI = OwnerCount + 3
    /\ "none" \notin Items /\ Barrier \in Items /\ Barrier \notin Jobs /\ Jobs \subseteq Items
  BY DrainAssumption DEF Places, UI, Critical, Normal, OwnerIds, Items, Barrier

LEMMA PlaceIsNat == UI \in Nat /\ \A p \in Places : p \in Nat /\ 1 <= p /\ p <= UI
  BY DrainAssumption DEF Places, UI

\* Along its way forward a job only goes to later places.
LEMMA ForwardIs ==
    ASSUME route \in [Jobs -> Routes], NEW j \in Jobs, NEW f \in 1 .. Len(route[j])
    PROVE  /\ Forward(j, f) \in f .. Len(route[j])
           /\ \A i \in f .. Forward(j, f) - 1 : route[j][i] < route[j][i + 1]
<1> DEFINE r == route[j]
           ways == {n \in f .. Len(r) : \A i \in f .. n - 1 : r[i] < r[i + 1]}
           back == {Len(r) - n : n \in ways}
<1>1. Len(r) \in Nat /\ f \in Nat /\ f <= Len(r)
  BY DrainAssumption
<1>2. f \in ways /\ ways \subseteq f .. Len(r)
  BY <1>1
<1>3. back \in SUBSET Nat /\ back # {}
  BY <1>1, <1>2
<1>4. PICK b \in back : \A c \in back : b <= c
  <2> HIDE DEF back
  <2> QED  BY <1>3, Smallest
<1>5. PICK n \in ways : b = Len(r) - n
  BY <1>4
<1>6. \A m \in ways : m <= n
  <2> SUFFICES ASSUME NEW m \in ways PROVE m <= n
    OBVIOUS
  <2>1. Len(r) - m \in back /\ m \in Nat /\ n \in Nat
    BY <1>1, <1>2
  <2>2. Len(r) - n <= Len(r) - m
    BY <1>4, <1>5, <2>1
  <2> QED  BY <1>1, <2>1, <2>2
<1>7. Forward(j, f) \in ways
  <2>1. Forward(j, f) = CHOOSE n_1 \in ways : \A m \in ways : m <= n_1
    BY DEF Forward
  <2> HIDE DEF ways
  <2> QED  BY <1>5, <1>6, <2>1
<1> QED  BY <1>2, <1>7

\* Typed facts about a job that is somewhere.
LEMMA SomewhereHere ==
    ASSUME DrainInv, NEW j \in Jobs
    PROVE  /\ Len(route[j]) \in Nat /\ route[j] \in Seq(Places)
           /\ hop[j] \in Nat /\ hop[j] <= Len(route[j])
           /\ Somewhere(j) => hop[j] \in 1 .. Len(route[j]) /\ Here(j) \in Places
<1>1. /\ route[j] \in Seq(Places) /\ Len(route[j]) \in Nat /\ hop[j] \in Nat
      /\ hop[j] <= Len(route[j])
  BY DrainAssumption DEF DrainInv, DrainTypeOK
<1>2. Somewhere(j) => hop[j] > 0
  BY DEF DrainInv, JobsOnRoute, Somewhere
<1> QED  BY <1>1, <1>2 DEF Here

----------------------------------------------------------------------------
\* The mailboxes after a step that may put an item at the end of one of them.
Added(i, p) ==
    /\ mail' \in [Places -> Seq(Items)]
    /\ \A q \in Places : \A n \in 1 .. Len(mail'[q]) :
         \/ n \in 1 .. Len(mail[q]) /\ mail'[q][n] = mail[q][n]
         \/ q = p /\ n = Len(mail[p]) + 1 /\ mail'[q][n] = i

LEMMA DeliverAdds ==
    ASSUME DrainInv, NEW i \in Items, NEW p \in Places, NEW d, Deliver(i, p, d)
    PROVE  Added(i, p)
<1>1. mail \in [Places -> Seq(Items)]
  BY DEF DrainInv, DrainTypeOK
<1>2. CASE Takes(p, d)
  <2>1. mail' = [mail EXCEPT ![p] = Append(mail[p], i)]
    BY <1>2 DEF Deliver
  <2>2. /\ mail[p] \in Seq(Items) /\ Append(mail[p], i) \in Seq(Items)
        /\ Len(mail[p]) \in Nat /\ Len(Append(mail[p], i)) = Len(mail[p]) + 1
        /\ \A n \in 1 .. Len(mail[p]) : Append(mail[p], i)[n] = mail[p][n]
        /\ Append(mail[p], i)[Len(mail[p]) + 1] = i
    BY <1>1
  <2>3. /\ mail' \in [Places -> Seq(Items)] /\ mail'[p] = Append(mail[p], i)
        /\ \A q \in Places : q # p => mail'[q] = mail[q]
    BY <1>1, <2>1, <2>2
  <2>4. \A n \in 1 .. Len(mail'[p]) :
          \/ n \in 1 .. Len(mail[p]) /\ mail'[p][n] = mail[p][n]
          \/ n = Len(mail[p]) + 1 /\ mail'[p][n] = i
    BY <2>2, <2>3
  <2> QED  BY <2>3, <2>4 DEF Added
<1>3. CASE ~Takes(p, d)
  BY <1>1, <1>3 DEF Deliver, Added
<1> QED  BY <1>2, <1>3

\* What is added is nowhere yet.
LEMMA AddedOneSpot ==
    ASSUME DrainInv, NEW i \in Items, NEW p \in Places, Added(i, p),
           \A q \in Places : \A n \in 1 .. Len(mail[q]) : mail[q][n] # i,
           \A t \in Crew : task'[t] \in {task[t], "none"} /\ task'[t] # i
    PROVE  OneSpot'
<1>1. \A q \in Places : \A n \in 1 .. Len(mail'[q]) : mail'[q][n] \in Items /\ mail'[q][n] # "none"
  BY PlacesAre DEF Added
<1>2. ASSUME NEW q \in Places, NEW s \in Places, NEW m \in 1 .. Len(mail'[q]),
             NEW n \in 1 .. Len(mail'[s]), mail'[q][m] = mail'[s][n]
      PROVE  q = s /\ m = n
  <2>1. /\ \/ m \in 1 .. Len(mail[q]) /\ mail'[q][m] = mail[q][m]
           \/ q = p /\ m = Len(mail[p]) + 1 /\ mail'[q][m] = i
        /\ \/ n \in 1 .. Len(mail[s]) /\ mail'[s][n] = mail[s][n]
           \/ s = p /\ n = Len(mail[p]) + 1 /\ mail'[s][n] = i
    BY DEF Added
  <2>2. CASE m \in 1 .. Len(mail[q]) /\ mail'[q][m] = mail[q][m]
    <3>1. n \in 1 .. Len(mail[s]) /\ mail'[s][n] = mail[s][n]
      BY <1>2, <2>1, <2>2
    <3>2. mail[q][m] = mail[s][n]
      BY <1>2, <2>2, <3>1
    <3> QED  BY <2>2, <3>1, <3>2 DEF DrainInv, OneSpot
  <2>3. CASE q = p /\ m = Len(mail[p]) + 1 /\ mail'[q][m] = i
    BY <1>2, <2>1, <2>3
  <2> QED  BY <2>1, <2>2, <2>3
<1>3. \A q \in Places, t \in Crew : \A n \in 1 .. Len(mail'[q]) : mail'[q][n] # task'[t]
  BY <1>1 DEF Added, DrainInv, OneSpot
<1>4. \A t, u \in Crew : task'[t] = task'[u] /\ task'[t] # "none" => t = u
  BY DEF DrainInv, OneSpot
<1> QED  BY <1>2, <1>3, <1>4 DEF OneSpot

\* A step that puts no barrier anywhere and leaves old jobs where they are.
LEMMA PassedKept ==
    ASSUME DrainInv, aim' = aim, done' = done, \A j \in Jobs : Unmoved(j)' => Unmoved(j),
           owners' = OwnerIds => owners = OwnerIds,
           \A q \in Places : \A n \in 1 .. Len(mail'[q]) :
             \/ n \in 1 .. Len(mail[q]) /\ mail'[q][n] = mail[q][n]
             \/ mail'[q][n] # Barrier /\ \A j \in Jobs : mail'[q][n] = j => ~Unmoved(j)'
    PROVE  PassedClear'
<1>1. \A p \in Places : Cleared(p) => Cleared(p)'
  BY DEF Cleared, Jumped
<1>2. ASSUME NEW q \in Places, NEW n \in 1 .. Len(mail'[q]), mail'[q][n] = Barrier
      PROVE  /\ \A p \in Places : p < q => Cleared(p)'
             /\ \A j \in Jobs : Unmoved(j)' =>
                  \A m \in 1 .. Len(mail'[q]) : mail'[q][m] = j => m < n
  <2>1. n \in 1 .. Len(mail[q]) /\ mail[q][n] = Barrier
    BY <1>2
  <2> QED  BY <1>1, <2>1 DEF DrainInv, PassedClear
<1> QED  BY <1>1, <1>2 DEF DrainInv, PassedClear

LEMMA OnWayKept ==
    ASSUME NEW j \in Jobs, UNCHANGED <<route, atCall>>, hop'[j] = hop[j]
    PROVE  (OnWay(j)' <=> OnWay(j)) /\ Here(j)' = Here(j) /\ (Unmoved(j)' <=> Unmoved(j))
<1>1. Forward(j, atCall[j])' = Forward(j, atCall[j])
  BY DEF Forward
<1> QED  BY <1>1 DEF OnWay, Here, Unmoved

\* A step that puts neither the barrier nor this job anywhere.
LEMMA AheadOfKept ==
    ASSUME DrainInv, NEW j \in Jobs, AheadOf(j), Here(j)' = Here(j), aim' = aim, done' = done,
           \A q \in Places : \A n \in 1 .. Len(mail'[q]) :
             \/ n \in 1 .. Len(mail[q]) /\ mail'[q][n] = mail[q][n]
             \/ mail'[q][n] \notin {j, Barrier},
           \A t \in Crew : task'[t] \in {task[t], "none"}
    PROVE  AheadOf(j)'
<1>1. j # "none"
  BY DrainAssumption
<1>2. Somewhere(j)' => Somewhere(j)
  BY <1>1 DEF Somewhere
<1> QED  BY <1>2 DEF AheadOf

----------------------------------------------------------------------------
\* Someone posts a job: it is behind the barrier, if the barrier is there, and young.
LEMMA PostJobInv ==
    ASSUME DrainInv, NEW j \in Jobs, PostJob(j)
    PROVE  DrainInv'
<1> DEFINE p == route[j][1]
<1>1. /\ hop[j] = 0 /\ hop' = [hop EXCEPT ![j] = 1] /\ Deliver(j, p, 0)
      /\ UNCHANGED <<owners, manual, task, route, aim, pass, drain, done, atCall>>
  BY DEF PostJob
<1>2. /\ p \in Places /\ j \in Items /\ Len(route[j]) \in Nat /\ 1 <= Len(route[j])
      /\ atCall[j] = 0 /\ j # Barrier /\ j # "none"
  <2>1. route[j] \in Seq(Places) \ {<<>>} /\ atCall[j] <= 0 /\ atCall[j] \in Nat
    BY <1>1, DrainAssumption DEF DrainInv, DrainTypeOK
  <2> QED  BY <2>1, PlacesAre
<1>3. Added(j, p)
  BY <1>1, <1>2, DeliverAdds
<1>4. /\ \A q \in Places : \A n \in 1 .. Len(mail[q]) : mail[q][n] # j
      /\ \A t \in Crew : task[t] # j
  BY <1>1 DEF DrainInv, JobsOnRoute
<1>5. hop' \in [Jobs -> Nat] /\ hop'[j] = 1 /\ \A k \in Jobs \ {j} : hop'[k] = hop[k]
  BY <1>1 DEF DrainInv, DrainTypeOK
<1>6. DrainTypeOK'
  BY <1>1, <1>2, <1>3, <1>5 DEF DrainInv, DrainTypeOK, PassOK, Added
<1>7. OneSpot'
  BY <1>1, <1>2, <1>3, <1>4, AddedOneSpot
<1>8. \A k \in Jobs \ {j} : Here(k)' = Here(k)
  BY <1>1, <1>5 DEF Here
<1>9. Here(j)' = p
  BY <1>1, <1>5 DEF Here
<1>10. JobsOnRoute'
  <2>1. ASSUME NEW k \in Jobs, NEW q \in Places, NEW n \in 1 .. Len(mail'[q]), mail'[q][n] = k
        PROVE  hop'[k] > 0 /\ Here(k)' = q
    <3>1. CASE n \in 1 .. Len(mail[q]) /\ mail'[q][n] = mail[q][n]
      <4>1. k # j /\ hop[k] > 0 /\ Here(k) = q
        BY <1>4, <2>1, <3>1 DEF DrainInv, JobsOnRoute
      <4> QED  BY <1>5, <1>8, <4>1
    <3>2. CASE q = p /\ mail'[q][n] = j
      <4>1. k = j /\ hop'[j] = 1
        BY <1>5, <2>1, <3>2
      <4> QED  BY <1>9, <3>2, <4>1
    <3> HIDE DEF p
    <3> QED  BY <1>3, <3>1, <3>2 DEF Added
  <2>2. ASSUME NEW k \in Jobs, NEW t \in Crew, task'[t] = k
        PROVE  hop'[k] > 0 /\ (Here(k)' > Normal /\ ~manual => t = Here(k)')
    BY <1>1, <1>4, <1>5, <1>8, <2>2 DEF DrainInv, JobsOnRoute
  <2> QED  BY <1>1, <2>1, <2>2 DEF JobsOnRoute
<1>11. BarrierOnce'
  <2>1. \A q \in Places : \A n \in 1 .. Len(mail'[q]) :
          mail'[q][n] = Barrier => n \in 1 .. Len(mail[q]) /\ mail[q][n] = Barrier
    BY <1>2, <1>3 DEF Added
  <2> QED  BY <1>1, <2>1 DEF DrainInv, BarrierOnce
<1>12. PassedClear'
  <2>1. \A k \in Jobs : Unmoved(k)' => Unmoved(k)
    BY <1>1, <1>2, <1>5 DEF Unmoved
  <2>2. ~Unmoved(j)'
    BY <1>1, <1>2 DEF Unmoved
  <2> QED  BY <1>1, <1>2, <1>3, <2>1, <2>2, PassedKept DEF Added
<1>13. StaysAhead'
  <2> SUFFICES ASSUME owners = OwnerIds, ~manual, NEW k \in Jobs, OnWay(k)' PROVE AheadOf(k)'
    BY <1>1 DEF StaysAhead
  <2>1. k # j
    BY <1>1, <1>2 DEF OnWay
  <2>2. AheadOf(k)
    BY <1>1, <1>5, <2>1, OnWayKept DEF DrainInv, StaysAhead
  <2> QED  BY <1>1, <1>2, <1>3, <1>8, <2>1, <2>2, AheadOfKept DEF Added
<1> QED  BY <1>6, <1>7, <1>10, <1>11, <1>12, <1>13 DEF DrainInv

----------------------------------------------------------------------------
\* The mailboxes after their first item was taken.
LEMMA HeadTaken ==
    ASSUME DrainInv, NEW p \in Places, mail[p] # <<>>, mail' = [mail EXCEPT ![p] = Tail(mail[p])]
    PROVE  /\ mail' \in [Places -> Seq(Items)]
           /\ 1 \in 1 .. Len(mail[p]) /\ Head(mail[p]) = mail[p][1] /\ mail[p][1] \in Items
           /\ \A q \in Places \ {p} : mail'[q] = mail[q]
           /\ \A n \in 1 .. Len(mail'[p]) :
                n + 1 \in 1 .. Len(mail[p]) /\ mail'[p][n] = mail[p][n + 1]
<1>1. mail \in [Places -> Seq(Items)] /\ mail[p] \in Seq(Items)
  BY DEF DrainInv, DrainTypeOK
<1>2. /\ Tail(mail[p]) \in Seq(Items) /\ Len(mail[p]) \in Nat /\ Len(mail[p]) > 0
      /\ Len(Tail(mail[p])) = Len(mail[p]) - 1
      /\ \A n \in 1 .. Len(mail[p]) - 1 : Tail(mail[p])[n] = mail[p][n + 1]
  BY <1>1
<1>3. mail' \in [Places -> Seq(Items)] /\ mail'[p] = Tail(mail[p])
  BY <1>1, <1>2
<1>4. \A n \in 1 .. Len(mail'[p]) : n + 1 \in 1 .. Len(mail[p]) /\ mail'[p][n] = mail[p][n + 1]
  BY <1>2, <1>3
<1>5. \A q \in Places \ {p} : mail'[q] = mail[q]
  BY <1>1
<1>6. 1 \in 1 .. Len(mail[p]) /\ Head(mail[p]) = mail[p][1] /\ mail[p][1] \in Items
  BY <1>1, <1>2
<1> QED  BY <1>3, <1>4, <1>5, <1>6

\* Behind the workers, its thread serves a place, if the owners have threads.
LEMMA OneServer ==
    ASSUME DrainInv, ~manual, NEW t \in Crew, NEW p \in Places, p > Normal, Serves(t, p)
    PROVE  t = p
<1>1. p # Critical /\ p # Normal
  BY PlacesAre
<1>2. t \in Pumps => pass[t] = t
  BY DEF DrainInv, DrainTypeOK, PassOK
<1> QED  BY <1>1, <1>2 DEF Serves

\* A thread takes the first item of a mailbox it serves.
LEMMA TakeTaskInv ==
    ASSUME DrainInv, NEW t \in Crew, TakeTask(t)
    PROVE  DrainInv'
<1>1. /\ task[t] = "none"
      /\ UNCHANGED <<owners, manual, route, hop, pass, drain, done, atCall>>
  BY DEF TakeTask
<1>2. PICK p \in Places :
        /\ Serves(t, p) /\ mail[p] # <<>> /\ mail' = [mail EXCEPT ![p] = Tail(mail[p])]
        /\ \/ /\ task' = [task EXCEPT ![t] = Head(mail[p])]
              /\ aim' = IF Head(mail[p]) = Barrier THEN <<"start", p>> ELSE aim
           \/ UNCHANGED <<task, aim>>
  BY DEF TakeTask
<1> DEFINE h == mail[p][1]
<1>3. /\ mail' \in [Places -> Seq(Items)]
      /\ 1 \in 1 .. Len(mail[p]) /\ Head(mail[p]) = h /\ h \in Items
      /\ \A q \in Places \ {p} : mail'[q] = mail[q]
      /\ \A n \in 1 .. Len(mail'[p]) : n + 1 \in 1 .. Len(mail[p]) /\ mail'[p][n] = mail[p][n + 1]
  BY <1>2, HeadTaken
<1> HIDE DEF h
<1>4. /\ task' \in [Crew -> Items \cup {"none"}]
      /\ \A u \in Crew : task'[u] = task[u] \/ (u = t /\ task'[u] = h)
      /\ \A q \in Places : \A n \in 1 .. Len(mail'[q]) :
           \E m \in 1 .. Len(mail[q]) :
             mail'[q][n] = mail[q][m] /\ m = IF q = p THEN n + 1 ELSE n
  <2>1. /\ task' \in [Crew -> Items \cup {"none"}]
        /\ \A u \in Crew : task'[u] = task[u] \/ (u = t /\ task'[u] = h)
    <3>1. task \in [Crew -> Items \cup {"none"}]
      BY DEF DrainInv, DrainTypeOK
    <3>2. task' = task \/ task' = [task EXCEPT ![t] = h]
      BY <1>2, <1>3
    <3>3. [task EXCEPT ![t] = h] \in [Crew -> Items \cup {"none"}]
      BY <1>3, <3>1
    <3> QED  BY <3>1, <3>2, <3>3
  <2>2. ASSUME NEW q \in Places, NEW n \in 1 .. Len(mail'[q])
        PROVE  \E m \in 1 .. Len(mail[q]) :
                 mail'[q][n] = mail[q][m] /\ m = IF q = p THEN n + 1 ELSE n
    BY <1>3
  <2> QED  BY <2>1, <2>2
<1>5. \A q \in Places : \A n \in 1 .. Len(mail'[q]) : mail'[q][n] # h
  <2> SUFFICES ASSUME NEW q \in Places, NEW n \in 1 .. Len(mail'[q]), mail'[q][n] = h PROVE FALSE
    OBVIOUS
  <2>1. PICK m \in 1 .. Len(mail[q]) : mail'[q][n] = mail[q][m] /\ m = IF q = p THEN n + 1 ELSE n
    BY <1>4
  <2>2. q = p /\ m = 1
    <3>1. mail[q][m] = mail[p][1] /\ 1 \in 1 .. Len(mail[p])
      BY <1>3, <2>1 DEF h
    <3> QED  BY <3>1 DEF DrainInv, OneSpot
  <2>3. n \in Nat \ {0} /\ m = n + 1
    BY <2>1, <2>2
  <2> QED  BY <2>2, <2>3
<1>6. \/ aim' = aim
      \/ h = Barrier /\ aim' = <<"start", p>> /\ task'[t] = Barrier
  <2>1. task \in [Crew -> Items \cup {"none"}]
    BY DEF DrainInv, DrainTypeOK
  <2>2. \/ aim' = aim
        \/ h = Barrier /\ aim' = <<"start", p>> /\ task' = [task EXCEPT ![t] = h]
    BY <1>2, <1>3
  <2>3. [task EXCEPT ![t] = h][t] = h
    BY <2>1
  <2> QED  BY <2>2, <2>3
<1>7. \A u \in Crew : task[u] # h
  BY <1>3 DEF DrainInv, OneSpot, h
<1>8. \A j \in Jobs : (OnWay(j)' <=> OnWay(j)) /\ Here(j)' = Here(j) /\ (Unmoved(j)' <=> Unmoved(j))
  BY <1>1, OnWayKept
<1>9. DrainTypeOK'
  <2>1. /\ aim' \in {"none", "start", "to", "post"} \X Nat
        /\ aim'[1] # "none" => aim'[2] \in Places
    <3>1. p \in Nat
      BY PlaceIsNat
    <3> QED  BY <1>6, <3>1 DEF DrainInv, DrainTypeOK
  <2> QED  BY <1>1, <1>3, <1>4, <2>1 DEF DrainInv, DrainTypeOK, PassOK
<1>10. OneSpot'
  <2>1. ASSUME NEW q \in Places, NEW s \in Places, NEW m \in 1 .. Len(mail'[q]),
               NEW n \in 1 .. Len(mail'[s]), mail'[q][m] = mail'[s][n]
        PROVE  q = s /\ m = n
    <3>1. PICK a \in 1 .. Len(mail[q]) : mail'[q][m] = mail[q][a] /\ a = IF q = p THEN m + 1 ELSE m
      BY <1>4
    <3>2. PICK b \in 1 .. Len(mail[s]) : mail'[s][n] = mail[s][b] /\ b = IF s = p THEN n + 1 ELSE n
      BY <1>4
    <3>3. mail[q][a] = mail[s][b]
      BY <2>1, <3>1, <3>2
    <3>4. q = s /\ a = b
      BY <3>3 DEF DrainInv, OneSpot
    <3> QED  BY <3>1, <3>2, <3>4
  <2>2. ASSUME NEW q \in Places, NEW u \in Crew, NEW n \in 1 .. Len(mail'[q])
        PROVE  mail'[q][n] # task'[u]
    BY <1>4, <1>5 DEF DrainInv, OneSpot
  <2>3. ASSUME NEW u \in Crew, NEW v \in Crew, task'[u] = task'[v], task'[u] # "none"
        PROVE  u = v
    BY <1>4, <1>7, <2>3 DEF DrainInv, OneSpot
  <2> QED  BY <2>1, <2>2, <2>3 DEF OneSpot
<1>11. JobsOnRoute'
  <2>1. ASSUME NEW j \in Jobs, NEW q \in Places, NEW n \in 1 .. Len(mail'[q]), mail'[q][n] = j
        PROVE  hop[j] > 0 /\ Here(j) = q
    BY <1>4, <2>1 DEF DrainInv, JobsOnRoute
  <2>2. ASSUME NEW j \in Jobs, NEW u \in Crew, task'[u] = j
        PROVE  hop[j] > 0 /\ (Here(j) > Normal /\ ~manual => u = Here(j))
    <3>1. CASE task[u] = j
      BY <3>1 DEF DrainInv, JobsOnRoute
    <3>2. CASE task[u] # j
      <4>1. u = t /\ h = j
        BY <1>4, <2>2, <3>2
      <4>2. hop[j] > 0 /\ Here(j) = p
        BY <1>3, <4>1 DEF DrainInv, JobsOnRoute, h
      <4> QED  BY <1>2, <4>1, <4>2, OneServer
    <3> QED  BY <3>1, <3>2
  <2> QED  BY <1>1, <1>8, <2>1, <2>2 DEF JobsOnRoute
<1>12. BarrierOnce'
  <2>1. ASSUME NEW u \in Crew, task'[u] = Barrier
        PROVE  aim'[1] # "none"
    <3>1. CASE task[u] = Barrier
      BY <1>6, <3>1 DEF DrainInv, BarrierOnce
    <3>2. CASE task[u] # Barrier
      <4>1. u = t /\ h = Barrier /\ task'[t] = Barrier /\ task[t] # Barrier
        BY <1>4, <2>1, <3>2
      <4>2. aim' = <<"start", p>>
        BY <1>2, <1>3, <4>1
      <4> QED  BY <4>2
    <3> QED  BY <3>1, <3>2
  <2>2. ASSUME drain \in {"none", "quiesced"} \/ done
        PROVE  /\ aim'[1] = "none" /\ \A u \in Crew : task'[u] # Barrier
               /\ \A q \in Places : \A n \in 1 .. Len(mail'[q]) : mail'[q][n] # Barrier
    <3>1. h # Barrier
      BY <1>3, <2>2 DEF DrainInv, BarrierOnce, h
    <3>2. /\ aim[1] = "none" /\ \A u \in Crew : task[u] # Barrier
          /\ \A q \in Places : \A n \in 1 .. Len(mail[q]) : mail[q][n] # Barrier
      BY <2>2 DEF DrainInv, BarrierOnce
    <3>3. aim' = aim /\ \A u \in Crew : task'[u] # Barrier
      BY <1>4, <1>6, <3>1, <3>2
    <3>4. \A q \in Places : \A n \in 1 .. Len(mail'[q]) : mail'[q][n] # Barrier
      BY <1>4, <3>2
    <3> QED  BY <3>2, <3>3, <3>4
  <2> QED  BY <1>1, <2>1, <2>2 DEF BarrierOnce, DrainInv
<1>13. PassedClear'
  <2>1. \A q \in Places : Cleared(q) => Cleared(q)'
    BY <1>1, <1>4, <1>8 DEF Cleared, Jumped
  <2>2. ASSUME NEW q \in Places, NEW n \in 1 .. Len(mail'[q]), mail'[q][n] = Barrier
        PROVE  /\ \A s \in Places : s < q => Cleared(s)'
               /\ \A j \in Jobs : Unmoved(j)' =>
                    \A m \in 1 .. Len(mail'[q]) : mail'[q][m] = j => m < n
    <3>1. PICK b \in 1 .. Len(mail[q]) : mail'[q][n] = mail[q][b] /\ b = IF q = p THEN n + 1 ELSE n
      BY <1>4
    <3>2. /\ \A s \in Places : s < q => Cleared(s)
          /\ \A j \in Jobs : Unmoved(j) => \A m \in 1 .. Len(mail[q]) : mail[q][m] = j => m < b
      BY <2>2, <3>1 DEF DrainInv, PassedClear
    <3>3. ASSUME NEW j \in Jobs, Unmoved(j)', NEW m \in 1 .. Len(mail'[q]), mail'[q][m] = j
          PROVE  m < n
      <4>1. PICK a \in 1 .. Len(mail[q]) :
                 mail'[q][m] = mail[q][a] /\ a = IF q = p THEN m + 1 ELSE m
        BY <1>4
      <4>2. a < b
        BY <1>8, <3>2, <3>3, <4>1
      <4> QED  BY <3>1, <4>1, <4>2
    <3> QED  BY <2>1, <3>2, <3>3
  <2>3. CASE aim' = aim
    BY <1>1, <2>1, <2>2, <2>3 DEF DrainInv, PassedClear
  <2>4. CASE h = Barrier /\ aim' = <<"start", p>>
    <3>1. /\ \A s \in Places : s < p => Cleared(s)
          /\ \A j \in Jobs : Unmoved(j) => \A m \in 1 .. Len(mail[p]) : mail[p][m] = j => m < 1
      BY <1>3, <2>4 DEF DrainInv, PassedClear, h
    <3>2. Cleared(p)
      BY <3>1 DEF Cleared
    <3>3. \A s \in Places : s <= p => Cleared(s)'
      BY <2>1, <3>1, <3>2, PlacesAre
    <3> QED  BY <1>1, <2>1, <2>2, <2>4, <3>3 DEF DrainInv, PassedClear
  <2> QED  BY <1>6, <2>3, <2>4
<1>14. StaysAhead'
  <2> SUFFICES ASSUME owners = OwnerIds, ~manual, NEW j \in Jobs, OnWay(j)' PROVE AheadOf(j)'
    BY <1>1 DEF StaysAhead
  <2>1. AheadOf(j) /\ j # "none"
    BY <1>8, DrainAssumption DEF DrainInv, StaysAhead
  <2>2. Somewhere(j)' => Somewhere(j)
    <3>1. ASSUME NEW q \in Places, NEW n \in 1 .. Len(mail'[q]), mail'[q][n] = j
          PROVE  Somewhere(j)
      BY <1>4, <3>1 DEF Somewhere
    <3>2. ASSUME NEW u \in Crew, task'[u] = j
          PROVE  Somewhere(j)
      BY <1>3, <1>4, <3>2 DEF Somewhere, h
    <3> QED  BY <3>1, <3>2 DEF Somewhere
  <2>3. ASSUME NEW q \in Places, NEW n \in 1 .. Len(mail'[q]), mail'[q][n] = Barrier
        PROVE  /\ Somewhere(j)' => Here(j) >= q
               /\ \A m \in 1 .. Len(mail'[q]) : mail'[q][m] = j => m < n
    <3>1. PICK b \in 1 .. Len(mail[q]) : mail'[q][n] = mail[q][b] /\ b = IF q = p THEN n + 1 ELSE n
      BY <1>4
    <3>2. /\ Somewhere(j) => Here(j) >= q
          /\ \A m \in 1 .. Len(mail[q]) : mail[q][m] = j => m < b
      BY <2>1, <2>3, <3>1 DEF AheadOf
    <3>3. ASSUME NEW m \in 1 .. Len(mail'[q]), mail'[q][m] = j
          PROVE  m < n
      <4>1. PICK a \in 1 .. Len(mail[q]) :
                 mail'[q][m] = mail[q][a] /\ a = IF q = p THEN m + 1 ELSE m
        BY <1>4
      <4> QED  BY <3>1, <3>2, <3>3, <4>1
    <3> QED  BY <2>2, <3>2, <3>3
  <2>4. done => ~Somewhere(j)'
    BY <2>1, <2>2 DEF AheadOf
  <2>5. CASE aim' = aim
    BY <1>1, <1>8, <2>1, <2>2, <2>3, <2>4, <2>5 DEF AheadOf
  <2>6. CASE h = Barrier /\ aim' = <<"start", p>> /\ task'[t] = Barrier
    <3>1. /\ Somewhere(j) => Here(j) >= p
          /\ \A m \in 1 .. Len(mail[p]) : mail[p][m] = j => m < 1
      BY <1>3, <2>1, <2>6 DEF AheadOf, h
    <3>2. ASSUME Somewhere(j)
          PROVE  Here(j) # p
      <4> SUFFICES ASSUME Here(j) = p PROVE FALSE
        OBVIOUS
      <4>1. CASE \E q \in Places : \E n \in 1 .. Len(mail[q]) : mail[q][n] = j
        <5>1. \E n \in 1 .. Len(mail[p]) : mail[p][n] = j
          BY <4>1 DEF DrainInv, JobsOnRoute
        <5> QED  BY <3>1, <5>1
      <4>2. CASE \E u \in Crew : task[u] = j
        <5>1. PICK u \in Crew : task[u] = j
          BY <4>2
        <5>2. p > Normal
          BY <2>1 DEF AheadOf
        <5>3. u = p /\ t = p
          BY <1>2, <5>1, <5>2, OneServer DEF DrainInv, JobsOnRoute
        <5> QED  BY <1>1, <2>1, <5>1, <5>3
      <4> QED  BY <3>2, <4>1, <4>2 DEF Somewhere
    <3>3. Somewhere(j)' => Here(j) > p
      <4>1. Somewhere(j) => Here(j) \in Places
        BY SomewhereHere
      <4> QED  BY <2>2, <3>1, <3>2, <4>1, PlacesAre
    <3> QED  BY <1>1, <1>8, <2>1, <2>3, <2>4, <2>6, <3>3 DEF AheadOf
  <2> QED  BY <1>6, <2>5, <2>6
<1> QED  BY <1>9, <1>10, <1>11, <1>12, <1>13, <1>14 DEF DrainInv

----------------------------------------------------------------------------
\* A job's hop: to the next place of its route, or to its end.
LEMMA FinishJobInv ==
    ASSUME DrainInv, NEW t \in Crew, FinishJob(t)
    PROVE  DrainInv'
<1>1. PICK j \in Jobs : j = task[t]
  BY DEF FinishJob
<1> DEFINE later == route[j][hop[j] + 1]
<1>2. /\ task' = [task EXCEPT ![t] = "none"]
      /\ UNCHANGED <<owners, manual, route, aim, pass, drain, done, atCall>>
      /\ \/ /\ hop[j] < Len(route[j]) /\ Deliver(j, later, 1)
            /\ hop' = [hop EXCEPT ![j] = hop[j] + 1]
         \/ UNCHANGED <<mail, hop>>
  BY <1>1 DEF FinishJob
<1>3. /\ j \in Items /\ j # Barrier /\ j # "none"
      /\ route[j] \in Seq(Places) /\ Len(route[j]) \in Nat /\ hop[j] \in 1 .. Len(route[j])
      /\ \A q \in Places : \A n \in 1 .. Len(mail[q]) : mail[q][n] # j
      /\ \A u \in Crew : task[u] = j => u = t
      /\ Somewhere(j)
  <2>1. j \in Items /\ j # Barrier /\ j # "none"
    BY PlacesAre
  <2>2. Somewhere(j)
    BY <1>1 DEF Somewhere
  <2>3. /\ \A q \in Places : \A n \in 1 .. Len(mail[q]) : mail[q][n] # j
        /\ \A u \in Crew : task[u] = j => u = t
    BY <1>1, <2>1 DEF DrainInv, OneSpot
  <2> QED  BY <1>2, <2>1, <2>2, <2>3, SomewhereHere
<1>4. task \in [Crew -> Items \cup {"none"}] /\ hop \in [Jobs -> Nat]
  BY DEF DrainInv, DrainTypeOK
<1>5. /\ task' \in [Crew -> Items \cup {"none"}] /\ task'[t] = "none"
      /\ \A u \in Crew : task'[u] \in {task[u], "none"} /\ task'[u] # j
  BY <1>2, <1>3, <1>4
<1> HIDE DEF later
\* The job went on, or it ended; either way its place is in front of where it was.
<1>6. \E p \in Places :
        /\ Added(j, p)
        /\ hop' \in [Jobs -> Nat] /\ \A k \in Jobs \ {j} : hop'[k] = hop[k]
        /\ \/ hop[j] < Len(route[j]) /\ p = later /\ hop'[j] = hop[j] + 1
           \/ mail' = mail /\ hop' = hop
  <2>1. CASE hop[j] < Len(route[j]) /\ Deliver(j, later, 1) /\ hop' = [hop EXCEPT ![j] = hop[j] + 1]
    <3>1. later \in Places
      BY <1>3, <2>1 DEF later
    <3>2. Added(j, later)
      BY <1>3, <2>1, <3>1, DeliverAdds
    <3>3. /\ hop' \in [Jobs -> Nat] /\ hop'[j] = hop[j] + 1
          /\ \A k \in Jobs \ {j} : hop'[k] = hop[k]
      BY <1>2, <1>3, <1>4, <2>1
    <3> QED  BY <2>1, <3>1, <3>2, <3>3
  <2>2. CASE UNCHANGED <<mail, hop>>
    BY <1>4, <2>2, PlacesAre DEF Added, DrainInv, DrainTypeOK
  <2> QED  BY <1>2, <2>1, <2>2
<1>7. PICK p \in Places :
        /\ Added(j, p)
        /\ hop' \in [Jobs -> Nat] /\ \A k \in Jobs \ {j} : hop'[k] = hop[k]
        /\ \/ hop[j] < Len(route[j]) /\ p = later /\ hop'[j] = hop[j] + 1
           \/ mail' = mail /\ hop' = hop
  BY <1>6
<1>8. DrainTypeOK'
  <2>1. \A k \in Jobs : atCall[k] <= hop'[k] /\ hop'[k] <= Len(route[k])
    <3>1. atCall[j] <= hop'[j] /\ hop'[j] <= Len(route[j])
      BY <1>2, <1>3, <1>7 DEF DrainInv, DrainTypeOK
    <3> QED  BY <1>7, <3>1 DEF DrainInv, DrainTypeOK
  <2> QED  BY <1>2, <1>5, <1>7, <2>1 DEF DrainInv, DrainTypeOK, PassOK, Added
<1>9. OneSpot'
  BY <1>3, <1>5, <1>7, AddedOneSpot
<1>10. \A k \in Jobs \ {j} : Here(k)' = Here(k)
  BY <1>2, <1>7 DEF Here
<1>11. hop'[j] = hop[j] + 1 => Here(j)' = later
  BY <1>2 DEF Here, later
<1>12. JobsOnRoute'
  <2>1. ASSUME NEW k \in Jobs, NEW q \in Places, NEW n \in 1 .. Len(mail'[q]), mail'[q][n] = k
        PROVE  hop'[k] > 0 /\ Here(k)' = q
    <3>1. CASE n \in 1 .. Len(mail[q]) /\ mail'[q][n] = mail[q][n]
      <4>1. k # j /\ hop[k] > 0 /\ Here(k) = q
        BY <1>3, <2>1, <3>1 DEF DrainInv, JobsOnRoute
      <4> QED  BY <1>7, <1>10, <4>1
    <3>2. CASE q = p /\ mail'[q][n] = j /\ ~(n \in 1 .. Len(mail[q]) /\ mail'[q][n] = mail[q][n])
      <4>1. mail' # mail
        BY <3>2
      <4>2. k = j /\ p = later /\ hop'[j] = hop[j] + 1
        BY <1>7, <2>1, <3>2, <4>1
      <4> QED  BY <1>3, <1>11, <3>2, <4>2
    <3> QED  BY <1>7, <3>1, <3>2 DEF Added
  <2>2. ASSUME NEW k \in Jobs, NEW u \in Crew, task'[u] = k
        PROVE  hop'[k] > 0 /\ (Here(k)' > Normal /\ ~manual => u = Here(k)')
    <3>1. k # j /\ task[u] = k
      BY <1>5, <2>2, DrainAssumption
    <3> QED  BY <1>7, <1>10, <3>1 DEF DrainInv, JobsOnRoute
  <2> QED  BY <1>2, <2>1, <2>2 DEF JobsOnRoute
<1>13. BarrierOnce'
  <2>1. \A q \in Places : \A n \in 1 .. Len(mail'[q]) :
          mail'[q][n] = Barrier => n \in 1 .. Len(mail[q]) /\ mail[q][n] = Barrier
    BY <1>3, <1>7 DEF Added
  <2>2. \A u \in Crew : task'[u] = Barrier => task[u] = Barrier
    BY <1>5, PlacesAre
  <2> QED  BY <1>2, <2>1, <2>2 DEF DrainInv, BarrierOnce
<1>14. PassedClear'
  <2>1. \A k \in Jobs : Unmoved(k)' => Unmoved(k)
    <3>1. Unmoved(j)' => Unmoved(j)
      BY <1>2, <1>3, <1>7 DEF Unmoved, DrainInv, DrainTypeOK
    <3> QED  BY <1>2, <1>7, <3>1 DEF Unmoved
  <2>2. hop'[j] = hop[j] + 1 => ~Unmoved(j)'
    BY <1>2, <1>3 DEF Unmoved, DrainInv, DrainTypeOK
  <2>3. ASSUME NEW q \in Places, NEW n \in 1 .. Len(mail'[q])
        PROVE  \/ n \in 1 .. Len(mail[q]) /\ mail'[q][n] = mail[q][n]
               \/ mail'[q][n] # Barrier /\ \A k \in Jobs : mail'[q][n] = k => ~Unmoved(k)'
    <3>1. CASE mail' = mail
      BY <3>1
    <3>2. CASE mail' # mail
      BY <1>3, <1>7, <2>2, <3>2 DEF Added
    <3> QED  BY <3>1, <3>2
  <2> QED  BY <1>2, <2>1, <2>3, PassedKept
<1>15. StaysAhead'
  <2> SUFFICES ASSUME owners = OwnerIds, ~manual, NEW k \in Jobs, OnWay(k)' PROVE AheadOf(k)'
    BY <1>2 DEF StaysAhead
  <2>1. CASE k # j
    <3>1. AheadOf(k)
      BY <1>2, <1>7, <2>1, OnWayKept DEF DrainInv, StaysAhead
    <3>2. ASSUME NEW q \in Places, NEW n \in 1 .. Len(mail'[q])
          PROVE  \/ n \in 1 .. Len(mail[q]) /\ mail'[q][n] = mail[q][n]
                 \/ mail'[q][n] \notin {k, Barrier}
      BY <1>3, <1>7, <2>1 DEF Added
    <3> QED  BY <1>2, <1>5, <1>10, <2>1, <3>1, <3>2, AheadOfKept
  <2>2. CASE mail' = mail /\ hop' = hop
    <3>1. AheadOf(k) /\ Here(k)' = Here(k)
      BY <1>2, <2>2, OnWayKept DEF DrainInv, StaysAhead
    <3> QED  BY <1>2, <1>5, <2>2, <3>1, AheadOfKept
  <2>3. CASE k = j /\ hop[j] < Len(route[j]) /\ p = later /\ hop'[j] = hop[j] + 1
    <3> DEFINE last == Forward(j, atCall[j])
    <3>1. last' = last
      BY <1>2 DEF Forward
    <3>2. /\ atCall[j] \in Nat /\ atCall[j] > 0 /\ route[j][atCall[j]] > Normal
         /\ hop[j] + 1 <= last
          /\ atCall[j] <= hop[j]
      BY <1>2, <2>3, <3>1 DEF OnWay, DrainInv, DrainTypeOK
    <3>3. /\ last \in atCall[j] .. Len(route[j])
          /\ \A i \in atCall[j] .. last - 1 : route[j][i] < route[j][i + 1]
      <4>1. atCall[j] \in 1 .. Len(route[j]) /\ route \in [Jobs -> Routes]
        BY <1>3, <3>2 DEF DrainInv, DrainTypeOK
      <4> QED  BY <1>2, <4>1, ForwardIs
    <3> HIDE DEF last
    <3>4. hop[j] \in atCall[j] .. last - 1 /\ hop[j] <= last
      BY <1>3, <3>2, <3>3
    <3>5. AheadOf(j)
      BY <1>2, <3>2, <3>4 DEF DrainInv, StaysAhead, OnWay, last
    <3>6. Here(j) < Here(j)' /\ Here(j)' \in Places /\ Here(j) \in Places /\ Here(j)' = p
      <4>1. Here(j) < later
        BY <3>3, <3>4 DEF Here, later
      <4>2. Here(j) \in Places
        BY <1>2, <1>3, SomewhereHere
      <4> QED  BY <1>11, <2>3, <4>1, <4>2
    <3>7. /\ \A q \in Places : \A n \in 1 .. Len(mail[q]) : mail[q][n] = Barrier => Here(j) >= q
          /\ aim[1] = "start" => Here(j) > aim[2]
          /\ aim[1] \in {"to", "post"} => Here(j) >= aim[2]
          /\ ~done /\ Here(j) > Normal
      BY <1>3, <3>5 DEF AheadOf
    <3>8. aim[2] \in Nat /\ Here(j) \in Nat /\ Here(j)' \in Nat /\ Normal \in Nat
      BY <3>6, PlacesAre DEF DrainInv, DrainTypeOK
    <3>9. ASSUME NEW q \in Places, NEW n \in 1 .. Len(mail'[q]), mail'[q][n] = Barrier
          PROVE  Here(j)' > q
      <4>1. n \in 1 .. Len(mail[q]) /\ mail[q][n] = Barrier
        BY <1>3, <1>7, <3>9 DEF Added
      <4>2. Here(j) >= q /\ q \in Nat
        BY <3>7, <4>1, PlacesAre
      <4> QED  BY <3>6, <3>8, <4>2
    <3>10. ASSUME NEW q \in Places, NEW n \in 1 .. Len(mail'[q]), mail'[q][n] = j
           PROVE  q = p
      <4>1. ~(n \in 1 .. Len(mail[q]) /\ mail'[q][n] = mail[q][n])
        BY <1>3, <3>10
      <4> QED  BY <1>7, <4>1 DEF Added
    <3>11. \A q \in Places : \A n \in 1 .. Len(mail'[q]) : mail'[q][n] = Barrier =>
             \A m \in 1 .. Len(mail'[q]) : mail'[q][m] # j
      <4>1. \A q \in Places : ~(p > q /\ q = p)
        BY PlacesAre
      <4> QED  BY <3>6, <3>9, <3>10, <4>1
    <3>12. Here(j)' > Normal
      BY <3>6, <3>7, <3>8
    <3>13. /\ aim[1] = "start" => Here(j)' > aim[2]
           /\ aim[1] \in {"to", "post"} => Here(j)' >= aim[2]
      BY <3>6, <3>7, <3>8
    <3>14. \A q \in Places : \A n \in 1 .. Len(mail'[q]) : mail'[q][n] = Barrier => Here(j)' >= q
      BY <3>8, <3>9, PlacesAre
    <3> QED  BY <1>2, <2>3, <3>7, <3>11, <3>12, <3>13, <3>14 DEF AheadOf
  <2> QED  BY <1>7, <2>1, <2>2, <2>3
<1> QED  BY <1>8, <1>9, <1>12, <1>13, <1>14, <1>15 DEF DrainInv

----------------------------------------------------------------------------
\* The next owner the barrier goes to.
LEMMA NextOwnerIs ==
    ASSUME DrainInv, NEW from \in Places
    PROVE  /\ NextOwner(from) \in Places /\ NextOwner(from) >= from
           /\ \A p \in OwnerIds : from <= p /\ p < NextOwner(from) => p \notin owners
<1> DEFINE there == {o \in owners : o >= from}
<1>1. owners \subseteq OwnerIds /\ from \in Nat /\ there \in SUBSET Nat
  BY PlacesAre DEF DrainInv, DrainTypeOK
<1>2. CASE there = {}
  <2>1. NextOwner(from) = UI
    BY <1>2 DEF NextOwner
  <2>2. \A p \in OwnerIds : from <= p => p \notin owners
    BY <1>2
  <2> QED  BY <2>1, <2>2, PlacesAre
<1>3. CASE there # {}
  <2>1. PICK n \in there : \A m \in there : n <= m
    <3> HIDE DEF there
    <3> QED  BY <1>1, <1>3, Smallest
  <2>2. NextOwner(from) = CHOOSE o \in there : \A q \in there : o <= q
    BY <1>3 DEF NextOwner
  <2>3. NextOwner(from) \in there /\ \A q \in there : NextOwner(from) <= q
    <3> HIDE DEF there
    <3> QED  BY <2>1, <2>2
  <2>4. NextOwner(from) \in Places /\ NextOwner(from) >= from
    BY <1>1, <2>3, PlacesAre
  <2>5. ASSUME NEW p \in OwnerIds, from <= p, p < NextOwner(from)
        PROVE  p \notin owners
    <3>1. p \in owners => p \in there
      BY <1>1, <2>5, PlacesAre
    <3>2. p \in Nat /\ NextOwner(from) \in Nat
      BY <2>4, PlacesAre
    <3> QED  BY <2>3, <2>5, <3>1, <3>2
  <2> QED  BY <2>4, <2>5
<1> QED  BY <1>2, <1>3

\* What the barrier's task aims at next: it passes by nothing but owners that are gone.
LEMMA AimsAre ==
    ASSUME DrainInv, NEW p \in Places, p # UI
    PROVE  /\ After(p) \in Places /\ After(p) > p
           /\ \A q \in Places : p < q /\ q < After(p) => q \in OwnerIds \ owners
<1>1. p \in Nat /\ p + 1 \in Places
  BY PlacesAre, DrainAssumption DEF Places, UI
<1>2. CASE p = Critical
  BY <1>1, <1>2, PlacesAre DEF After
<1>3. CASE p # Critical
  <2>1. After(p) = NextOwner(p + 1)
    BY <1>3 DEF After
  <2>2. /\ NextOwner(p + 1) \in Places /\ NextOwner(p + 1) >= p + 1
        /\ \A q \in OwnerIds : p + 1 <= q /\ q < NextOwner(p + 1) => q \notin owners
    BY <1>1, NextOwnerIs
  <2>3. p >= Normal /\ NextOwner(p + 1) \in Nat
    <3>1. Critical = 1 /\ Normal = 2
      BY DEF Critical, Normal
    <3>2. NextOwner(p + 1) \in Nat
      BY <2>2, PlaceIsNat
    <3> QED  BY <1>3, <3>1, <3>2, PlaceIsNat
  <2>4. ASSUME NEW q \in Places, p < q, q < After(p)
        PROVE  q \in OwnerIds \ owners
    <3>1. q \in Nat /\ Normal < q /\ q < UI
      <4>1. /\ q \in Nat /\ UI \in Nat /\ Normal \in Nat /\ NextOwner(p + 1) <= UI
            /\ q < NextOwner(p + 1)
        BY <2>1, <2>2, <2>4, PlacesAre
      <4> QED  BY <1>1, <2>3, <2>4, <4>1
    <3>2. q \in OwnerIds /\ p + 1 <= q
      BY <1>1, <2>4, <3>1, PlacesAre
    <3> QED  BY <2>1, <2>2, <2>4, <3>2
  <2> QED  BY <1>1, <2>1, <2>2, <2>3, <2>4
<1> QED  BY <1>2, <1>3

\* A step of the barrier's task that only changes its aim, to a place further on.
LEMMA AimedInv ==
    ASSUME DrainInv, NEW t \in Crew, task[t] = Barrier,
           UNCHANGED <<owners, manual, mail, task, route, hop, pass, drain, done, atCall>>,
           NEW to \in {"to", "post"}, NEW p \in Places, aim' = <<to, p>>,
           \A q \in Places : q < p =>
             \/ q \in OwnerIds \ owners
             \/ aim[1] = "start" /\ q <= aim[2]
             \/ aim[1] \in {"to", "post"} /\ q < aim[2],
           aim[1] \in {"start", "to", "post"}
    PROVE  DrainInv'
<1>1. DrainTypeOK'
  BY PlacesAre DEF DrainInv, DrainTypeOK, PassOK
<1>2. OneSpot'
  BY DEF DrainInv, OneSpot
<1>3. \A k \in Jobs : (OnWay(k)' <=> OnWay(k)) /\ Here(k)' = Here(k) /\ (Unmoved(k)' <=> Unmoved(k))
  BY OnWayKept
<1>4. JobsOnRoute'
  BY <1>3 DEF DrainInv, JobsOnRoute
<1>5. ~(drain \in {"none", "quiesced"} \/ done)
  BY DEF DrainInv, BarrierOnce
<1>6. BarrierOnce'
  BY <1>5 DEF DrainInv, BarrierOnce
<1>7. PassedClear'
  <2>1. \A q \in Places : Cleared(q)' <=> Cleared(q)
    BY <1>3 DEF Cleared, Jumped
  <2>2. ASSUME NEW q \in Places, q < p
        PROVE  Cleared(q)
    <3>1. CASE q \in OwnerIds \ owners
      BY <3>1 DEF Cleared, Jumped
    <3>2. CASE ~(q \in OwnerIds \ owners)
      BY <2>2, <3>2 DEF DrainInv, PassedClear
    <3> QED  BY <3>1, <3>2
  <2> QED  BY <1>3, <1>5, <2>1, <2>2 DEF DrainInv, PassedClear
<1>8. StaysAhead'
  <2> SUFFICES ASSUME owners = OwnerIds, ~manual, NEW j \in Jobs, OnWay(j)' PROVE AheadOf(j)'
    BY DEF StaysAhead
  <2>1. AheadOf(j)
    BY <1>3 DEF DrainInv, StaysAhead
  <2>2. Somewhere(j)' <=> Somewhere(j)
    BY DEF Somewhere
  <2>3. ASSUME Somewhere(j)
        PROVE  Here(j) >= p
    <3>1. Here(j) \in Places /\ Here(j) \in Nat /\ p \in Nat /\ aim[2] \in Nat
      BY <2>3, SomewhereHere, PlacesAre DEF DrainInv, DrainTypeOK
    <3>2. CASE Here(j) < p
      <4>1. \/ aim[1] = "start" /\ Here(j) <= aim[2]
            \/ aim[1] \in {"to", "post"} /\ Here(j) < aim[2]
        BY <3>1, <3>2
      <4> QED  BY <2>1, <2>3, <3>1, <4>1 DEF AheadOf
    <3> QED  BY <3>1, <3>2
  <2> QED  BY <1>3, <2>1, <2>2, <2>3 DEF AheadOf
<1> QED  BY <1>1, <1>2, <1>4, <1>6, <1>7, <1>8 DEF DrainInv

\* The barrier's task chooses where it posts the next one.
LEMMA AimInv ==
    ASSUME DrainInv, NEW t \in Crew, Aim(t)
    PROVE  DrainInv'
<1>1. /\ task[t] = Barrier /\ aim[1] = "start" /\ aim[2] # UI /\ aim' = <<"to", After(aim[2])>>
      /\ UNCHANGED <<owners, manual, mail, task, route, hop, pass, drain, done, atCall>>
  BY DEF Aim
<1>2. aim[2] \in Places
  BY <1>1 DEF DrainInv, DrainTypeOK
<1>3. /\ After(aim[2]) \in Places
      /\ \A q \in Places : aim[2] < q /\ q < After(aim[2]) => q \in OwnerIds \ owners
  BY <1>1, <1>2, AimsAre
<1>4. \A q \in Places : q < After(aim[2]) => q \in OwnerIds \ owners \/ q <= aim[2]
  <2> SUFFICES ASSUME NEW q \in Places, q < After(aim[2]), ~(q <= aim[2])
               PROVE  q \in OwnerIds \ owners
    OBVIOUS
  <2>1. aim[2] < q
    <3>1. aim[2] \in Nat /\ q \in Nat
      BY <1>2, PlaceIsNat
    <3> QED  BY <3>1
  <2> QED  BY <1>3, <2>1
<1> QED  BY <1>1, <1>3, <1>4, AimedInv

\* It looks again for the owner it has chosen.
LEMMA CheckInv ==
    ASSUME DrainInv, NEW t \in Crew, Check(t)
    PROVE  DrainInv'
<1>1. /\ task[t] = Barrier /\ aim[1] = "to"
      /\ aim' = IF aim[2] \in OwnerIds \ owners THEN <<"to", NextOwner(aim[2] + 1)>>
                ELSE <<"post", aim[2]>>
      /\ UNCHANGED <<owners, manual, mail, task, route, hop, pass, drain, done, atCall>>
  BY DEF Check
<1>2. aim[2] \in Places
  BY <1>1 DEF DrainInv, DrainTypeOK
<1>3. CASE aim[2] \in OwnerIds \ owners
  <2>1. aim[2] # UI /\ aim[2] # Critical
    BY <1>3, PlacesAre
  <2>2. aim' = <<"to", After(aim[2])>>
    BY <1>1, <1>3, <2>1 DEF After
  <2>3. /\ After(aim[2]) \in Places
        /\ \A q \in Places : aim[2] < q /\ q < After(aim[2]) => q \in OwnerIds \ owners
    BY <1>2, <2>1, AimsAre
  <2>4. \A q \in Places : q < After(aim[2]) => q \in OwnerIds \ owners \/ q < aim[2]
    <3> SUFFICES ASSUME NEW q \in Places, q < After(aim[2]), ~(q < aim[2])
                 PROVE  q \in OwnerIds \ owners
      OBVIOUS
    <3>1. aim[2] < q \/ q = aim[2]
      <4>1. aim[2] \in Nat /\ q \in Nat
        BY <1>2, PlaceIsNat
      <4> QED  BY <4>1
    <3> QED  BY <1>3, <2>3, <3>1
  <2> QED  BY <1>1, <2>2, <2>3, <2>4, AimedInv
<1>4. CASE ~(aim[2] \in OwnerIds \ owners)
  BY <1>1, <1>2, <1>4, AimedInv
<1> QED  BY <1>3, <1>4

----------------------------------------------------------------------------
\* It posts the barrier there, or the barrier is dropped.
LEMMA PostBarrierInv ==
    ASSUME DrainInv, NEW t \in Crew, PostBarrier(t)
    PROVE  DrainInv'
<1>1. PICK p \in Places : p = aim[2]
  BY DEF PostBarrier, DrainInv, DrainTypeOK
<1>2. /\ task[t] = Barrier /\ aim[1] = "post" /\ Deliver(Barrier, p, 1)
      /\ task' = [task EXCEPT ![t] = "none"] /\ aim' = <<"none", 0>>
      /\ UNCHANGED <<owners, manual, route, hop, pass, drain, done, atCall>>
  BY <1>1 DEF PostBarrier, NoAim
<1>3. Added(Barrier, p)
  BY <1>2, DeliverAdds, PlacesAre
<1>4. /\ \A q \in Places : \A n \in 1 .. Len(mail[q]) : mail[q][n] # Barrier
      /\ \A u \in Crew : task[u] = Barrier => u = t
      /\ ~(drain \in {"none", "quiesced"} \/ done)
  BY <1>2, PlacesAre DEF DrainInv, OneSpot, BarrierOnce
<1>5. /\ task' \in [Crew -> Items \cup {"none"}]
      /\ \A u \in Crew : task'[u] \in {task[u], "none"} /\ task'[u] # Barrier
  <2>1. task \in [Crew -> Items \cup {"none"}]
    BY DEF DrainInv, DrainTypeOK
  <2> QED  BY <1>2, <1>4, <2>1, PlacesAre
<1>6. \A k \in Jobs : (OnWay(k)' <=> OnWay(k)) /\ Here(k)' = Here(k) /\ (Unmoved(k)' <=> Unmoved(k))
  BY <1>2, OnWayKept
<1>7. DrainTypeOK'
  BY <1>2, <1>3, <1>5 DEF DrainInv, DrainTypeOK, PassOK, Added
<1>8. OneSpot'
  BY <1>3, <1>4, <1>5, PlacesAre, AddedOneSpot
<1>9. ASSUME NEW k \in Jobs, NEW q \in Places, NEW n \in 1 .. Len(mail'[q]), mail'[q][n] = k
      PROVE  n \in 1 .. Len(mail[q]) /\ mail[q][n] = k
  BY <1>3, <1>9, PlacesAre DEF Added
<1>10. JobsOnRoute'
  <2>1. \A k \in Jobs, u \in Crew : task'[u] = k => task[u] = k
    BY <1>5, DrainAssumption
  <2>2. ASSUME NEW k \in Jobs, NEW q \in Places, NEW n \in 1 .. Len(mail'[q]), mail'[q][n] = k
        PROVE  hop[k] > 0 /\ Here(k) = q
    BY <1>9, <2>2 DEF DrainInv, JobsOnRoute
  <2>3. ASSUME NEW k \in Jobs, NEW u \in Crew, task'[u] = k
        PROVE  hop[k] > 0 /\ (Here(k) > Normal /\ ~manual => u = Here(k))
    BY <2>1, <2>3 DEF DrainInv, JobsOnRoute
  <2> QED  BY <1>2, <1>6, <2>2, <2>3 DEF JobsOnRoute
<1>11. BarrierOnce'
  BY <1>2, <1>4, <1>5 DEF DrainInv, BarrierOnce
<1>12. ASSUME NEW q \in Places, NEW n \in 1 .. Len(mail'[q]), mail'[q][n] = Barrier
       PROVE  q = p /\ n = Len(mail[p]) + 1
  <2>1. ~(n \in 1 .. Len(mail[q]) /\ mail'[q][n] = mail[q][n])
    BY <1>4, <1>12
  <2> QED  BY <1>3, <2>1 DEF Added
<1>13. ASSUME NEW k \in Jobs, NEW m \in 1 .. Len(mail'[p]), mail'[p][m] = k
       PROVE  m < Len(mail[p]) + 1
  <2>1. m \in 1 .. Len(mail[p]) /\ Len(mail[p]) \in Nat
    BY <1>9, <1>13 DEF DrainInv, DrainTypeOK
  <2> QED  BY <2>1
<1>14. PassedClear'
  <2>1. \A q \in Places : Cleared(q) => Cleared(q)'
    BY <1>2, <1>6, <1>9 DEF Cleared, Jumped
  <2>2. \A q \in Places : q < p => Cleared(q)
    BY <1>1, <1>2 DEF DrainInv, PassedClear
  <2> QED  BY <1>2, <1>4, <1>12, <1>13, <2>1, <2>2 DEF PassedClear
<1>15. StaysAhead'
  <2> SUFFICES ASSUME owners = OwnerIds, ~manual, NEW j \in Jobs, OnWay(j)' PROVE AheadOf(j)'
    BY <1>2 DEF StaysAhead
  <2>1. AheadOf(j)
    BY <1>6 DEF DrainInv, StaysAhead
  <2>2. Somewhere(j)' => Somewhere(j)
    BY <1>5, <1>9, DrainAssumption DEF Somewhere
  <2>3. Somewhere(j)' => Here(j) >= p
    BY <1>1, <1>2, <2>1, <2>2 DEF AheadOf
  <2>4. Here(j) > Normal
    BY <2>1 DEF AheadOf
  <2> QED  BY <1>2, <1>4, <1>6, <1>12, <1>13, <2>3, <2>4 DEF AheadOf
<1> QED  BY <1>7, <1>8, <1>10, <1>11, <1>14, <1>15 DEF DrainInv

\* The barrier is back: nothing is left behind it.
LEMMA SetDoneInv ==
    ASSUME DrainInv, NEW t \in Crew, SetDone(t)
    PROVE  DrainInv'
<1>1. /\ task[t] = Barrier /\ aim = <<"start", UI>> /\ done' = TRUE
      /\ task' = [task EXCEPT ![t] = "none"] /\ aim' = <<"none", 0>>
      /\ UNCHANGED <<owners, manual, mail, route, hop, pass, drain, atCall>>
  BY DEF SetDone, NoAim
<1>2. /\ \A q \in Places : \A n \in 1 .. Len(mail[q]) : mail[q][n] # Barrier
      /\ \A u \in Crew : task[u] = Barrier => u = t
      /\ ~(drain \in {"none", "quiesced"} \/ done)
  BY <1>1, PlacesAre DEF DrainInv, OneSpot, BarrierOnce
<1>3. /\ task' \in [Crew -> Items \cup {"none"}]
      /\ \A u \in Crew : task'[u] \in {task[u], "none"} /\ task'[u] # Barrier
  <2>1. task \in [Crew -> Items \cup {"none"}]
    BY DEF DrainInv, DrainTypeOK
  <2> QED  BY <1>1, <1>2, <2>1, PlacesAre
<1>4. \A k \in Jobs : (OnWay(k)' <=> OnWay(k)) /\ Here(k)' = Here(k) /\ (Unmoved(k)' <=> Unmoved(k))
  BY <1>1, OnWayKept
<1>5. DrainTypeOK'
  BY <1>1, <1>3 DEF DrainInv, DrainTypeOK, PassOK
<1>6. OneSpot'
  <2>1. \A q \in Places : \A n \in 1 .. Len(mail[q]) : mail[q][n] \in Items /\ mail[q][n] # "none"
    BY PlacesAre DEF DrainInv, DrainTypeOK
  <2> QED  BY <1>1, <1>3, <2>1 DEF DrainInv, OneSpot
<1>7. \A k \in Jobs, u \in Crew : task'[u] = k => task[u] = k
  BY <1>3, DrainAssumption
<1>8. JobsOnRoute'
  BY <1>1, <1>4, <1>7 DEF DrainInv, JobsOnRoute
<1>9. BarrierOnce'
  BY <1>1, <1>2, <1>3 DEF DrainInv, BarrierOnce
<1>10. PassedClear'
  <2>1. \A q \in Places : Cleared(q)' <=> Cleared(q)
    BY <1>1, <1>4 DEF Cleared, Jumped
  <2>2. \A q \in Places : Cleared(q)
    BY <1>1, PlacesAre DEF DrainInv, PassedClear
  <2> QED  BY <1>1, <1>2, <2>1, <2>2 DEF PassedClear
<1>11. StaysAhead'
  <2> SUFFICES ASSUME owners = OwnerIds, ~manual, NEW j \in Jobs, OnWay(j)' PROVE AheadOf(j)'
    BY <1>1 DEF StaysAhead
  <2>1. AheadOf(j)
    BY <1>4 DEF DrainInv, StaysAhead
  <2>2. Somewhere(j)' => Somewhere(j)
    BY <1>1, <1>7 DEF Somewhere
  <2>3. ~Somewhere(j)
    <3>1. Somewhere(j) => Here(j) \in Places /\ Here(j) > UI
      BY <1>1, <2>1, SomewhereHere DEF AheadOf
    <3>2. \A p \in Places : ~(p > UI)
      BY PlaceIsNat
    <3> QED  BY <3>1, <3>2
  <2> QED  BY <1>1, <1>2, <1>4, <2>1, <2>2, <2>3 DEF AheadOf
<1> QED  BY <1>5, <1>6, <1>8, <1>9, <1>10, <1>11 DEF DrainInv

----------------------------------------------------------------------------
\* The call: every job is in front of the barrier.
LEMMA BeginDrainInv == DrainInv /\ BeginDrain => DrainInv'
<1> SUFFICES ASSUME DrainInv, BeginDrain PROVE DrainInv'
  OBVIOUS
<1>1. /\ drain = "none" /\ atCall' = [j \in Jobs |-> hop[j]]
      /\ UNCHANGED <<owners, manual, task, route, hop, aim, pass, done>>
      /\ \/ drain' = "quiesced" /\ mail' = mail
         \/ drain' = "waiting" /\ Deliver(Barrier, Critical, 0)
  BY DEF BeginDrain
<1>2. /\ aim[1] = "none" /\ ~done /\ \A u \in Crew : task[u] # Barrier
      /\ \A q \in Places : \A n \in 1 .. Len(mail[q]) : mail[q][n] # Barrier
  BY <1>1 DEF DrainInv, BarrierOnce
<1>3. Added(Barrier, Critical)
  <2>1. CASE mail' = mail
    BY <2>1, PlacesAre DEF Added, DrainInv, DrainTypeOK
  <2>2. CASE Deliver(Barrier, Critical, 0)
    BY <2>2, DeliverAdds, PlacesAre
  <2> QED  BY <1>1, <2>1, <2>2
<1>4. \A k \in Jobs : Here(k)' = Here(k)
  BY <1>1 DEF Here
<1>5. DrainTypeOK'
  BY <1>1, <1>3 DEF DrainInv, DrainTypeOK, PassOK, Added
<1>6. OneSpot'
  BY <1>1, <1>2, <1>3, PlacesAre, AddedOneSpot
<1>7. ASSUME NEW k \in Jobs, NEW q \in Places, NEW n \in 1 .. Len(mail'[q]), mail'[q][n] = k
      PROVE  n \in 1 .. Len(mail[q]) /\ mail[q][n] = k
  BY <1>3, <1>7, PlacesAre DEF Added
<1>8. JobsOnRoute'
  <2>1. ASSUME NEW k \in Jobs, NEW q \in Places, NEW n \in 1 .. Len(mail'[q]), mail'[q][n] = k
        PROVE  hop[k] > 0 /\ Here(k) = q
    BY <1>7, <2>1 DEF DrainInv, JobsOnRoute
  <2> QED  BY <1>1, <1>4, <2>1 DEF DrainInv, JobsOnRoute
<1>9. BarrierOnce'
  <2>1. drain' = "quiesced" => mail' = mail
    BY <1>1
  <2> QED  BY <1>1, <1>2, <2>1 DEF DrainInv, BarrierOnce
<1>10. ASSUME NEW q \in Places, NEW n \in 1 .. Len(mail'[q]), mail'[q][n] = Barrier
       PROVE  q = Critical /\ n = Len(mail[Critical]) + 1
  <2>1. ~(n \in 1 .. Len(mail[q]) /\ mail'[q][n] = mail[q][n])
    BY <1>2, <1>10
  <2> QED  BY <1>3, <2>1 DEF Added
<1>11. ASSUME NEW k \in Jobs, NEW m \in 1 .. Len(mail'[Critical]), mail'[Critical][m] = k
       PROVE  m < Len(mail[Critical]) + 1
  <2>1. m \in 1 .. Len(mail[Critical]) /\ Len(mail[Critical]) \in Nat
    BY <1>7, <1>11, PlacesAre DEF DrainInv, DrainTypeOK
  <2> QED  BY <2>1
<1>12. PassedClear'
  <2>1. \A q \in Places : ~(q < Critical)
    BY PlacesAre
  <2> QED  BY <1>1, <1>2, <1>10, <1>11, <2>1 DEF PassedClear
<1>13. StaysAhead'
  <2> SUFFICES ASSUME NEW j \in Jobs, OnWay(j)' PROVE AheadOf(j)'
    BY DEF StaysAhead
  <2>1. Here(j) > Normal
    BY <1>1 DEF OnWay, Here
  <2>2. Here(j) >= Critical
    <3>1. Here(j) \in Places \/ ~Somewhere(j)
      BY SomewhereHere
    <3>2. hop[j] \in 1 .. Len(route[j])
      BY <1>1, SomewhereHere DEF OnWay
    <3>3. Here(j) \in Places
      BY <3>2, SomewhereHere DEF Here
    <3>4. \A p \in Places : p >= Critical
      BY PlaceIsNat DEF Critical
    <3> QED  BY <3>3, <3>4
  <2> QED  BY <1>1, <1>2, <1>4, <1>10, <1>11, <2>1, <2>2 DEF AheadOf
<1> QED  BY <1>5, <1>6, <1>8, <1>9, <1>12, <1>13 DEF DrainInv

\* The call returns, a pass begins or ends, owners are unregistered or stopped, the
\* gate moves on, or nothing happens.
LEMMA MeanwhileInv ==
    ASSUME DrainInv, PassOK', UNCHANGED <<manual, task, route, hop, aim, done, atCall>>,
           \/ drain' = drain
           \/ drain = "waiting" /\ drain' = "true" /\ done
           \/ drain = "waiting" /\ drain' = "false",
           \/ owners' = owners
           \/ owners # {} /\ owners' = {},
           \/ mail' = mail
           \/ \E o \in OwnerIds : mail' = [mail EXCEPT ![o] = <<>>]
    PROVE  DrainInv'
<1>1. mail \in [Places -> Seq(Items)] /\ owners \subseteq OwnerIds
  BY DEF DrainInv, DrainTypeOK
<1>2. /\ mail' \in [Places -> Seq(Items)] /\ owners' \subseteq owners
      /\ \A q \in Places : \A n \in 1 .. Len(mail'[q]) :
           n \in 1 .. Len(mail[q]) /\ mail'[q][n] = mail[q][n]
      /\ owners' = OwnerIds => owners = OwnerIds
  <2>1. CASE mail' = mail
    BY <1>1, <2>1
  <2>2. ASSUME NEW o \in OwnerIds, mail' = [mail EXCEPT ![o] = <<>>]
        PROVE  /\ mail' \in [Places -> Seq(Items)]
               /\ \A q \in Places : \A n \in 1 .. Len(mail'[q]) :
                    n \in 1 .. Len(mail[q]) /\ mail'[q][n] = mail[q][n]
    <3>1. o \in Places
      BY PlacesAre
    <3>2. /\ mail' \in [Places -> Seq(Items)] /\ mail'[o] = <<>>
          /\ \A q \in Places : q # o => mail'[q] = mail[q]
      BY <1>1, <2>2, <3>1
    <3>3. \A n \in 1 .. Len(mail'[o]) : FALSE
      BY <3>2
    <3> QED  BY <3>2, <3>3
  <2>3. owners' \subseteq owners /\ (owners' = OwnerIds => owners = OwnerIds)
    BY <1>1
  <2> QED  BY <2>1, <2>2, <2>3
<1>3. \A k \in Jobs : (OnWay(k)' <=> OnWay(k)) /\ Here(k)' = Here(k) /\ (Unmoved(k)' <=> Unmoved(k))
  BY OnWayKept
<1>4. DrainTypeOK'
  BY <1>1, <1>2 DEF DrainInv, DrainTypeOK
<1>5. OneSpot'
  <2>1. ASSUME NEW q \in Places, NEW s \in Places, NEW m \in 1 .. Len(mail'[q]),
               NEW n \in 1 .. Len(mail'[s]), mail'[q][m] = mail'[s][n]
        PROVE  q = s /\ m = n
    <3>1. /\ m \in 1 .. Len(mail[q]) /\ n \in 1 .. Len(mail[s])
          /\ mail[q][m] = mail[s][n]
      BY <1>2, <2>1
    <3> QED  BY <3>1 DEF DrainInv, OneSpot
  <2>2. \A q \in Places, u \in Crew : \A n \in 1 .. Len(mail'[q]) : mail'[q][n] # task'[u]
    BY <1>2 DEF DrainInv, OneSpot
  <2>3. \A u, v \in Crew : task'[u] = task'[v] /\ task'[u] # "none" => u = v
    BY DEF DrainInv, OneSpot
  <2> QED  BY <2>1, <2>2, <2>3 DEF OneSpot
<1>6. JobsOnRoute'
  BY <1>2, <1>3 DEF DrainInv, JobsOnRoute
<1>7. BarrierOnce'
  BY <1>2 DEF DrainInv, BarrierOnce
<1>8. PassedClear'
  BY <1>2, <1>3, PassedKept
<1>9. StaysAhead'
  <2> SUFFICES ASSUME owners' = OwnerIds, ~manual, NEW j \in Jobs, OnWay(j)' PROVE AheadOf(j)'
    BY DEF StaysAhead
  <2>1. AheadOf(j)
    BY <1>2, <1>3 DEF DrainInv, StaysAhead
  <2> QED  BY <1>2, <1>3, <2>1, AheadOfKept
<1> QED  BY <1>4, <1>5, <1>6, <1>7, <1>8, <1>9 DEF DrainInv

----------------------------------------------------------------------------
\* At the start the mailboxes are empty.
LEMMA DrainInitInv == DrainInit => DrainInv
<1> SUFFICES ASSUME DrainInit PROVE DrainInv
  OBVIOUS
<1>1. /\ owners = OwnerIds /\ manual \in BOOLEAN /\ mail = [p \in Places |-> <<>>]
      /\ task = [t \in Crew |-> "none"] /\ route \in [Jobs -> Routes]
      /\ hop = [j \in Jobs |-> 0] /\ aim = <<"none", 0>> /\ drain = "none" /\ done = FALSE
      /\ atCall = [j \in Jobs |-> 0] /\ pass = [t \in Pumps |-> t]
  BY DEF DrainInit, NoAim
<1>2. \A p \in Places : Len(mail[p]) = 0 /\ mail[p] = <<>>
  BY <1>1
<1>3. \A p \in Places : \A n \in 1 .. Len(mail[p]) : FALSE
  BY <1>2
<1>4. DrainTypeOK
  <2>1. \A j \in Jobs : Len(route[j]) \in Nat
    BY <1>1, DrainAssumption
  <2>2. mail \in [Places -> Seq(Items)]
    BY <1>1
  <2>3. task \in [Crew -> Items \cup {"none"}] /\ owners \subseteq OwnerIds
    BY <1>1
  <2>4. hop \in [Jobs -> Nat] /\ atCall \in [Jobs -> Nat]
    BY <1>1
  <2>5. \A j \in Jobs : atCall[j] <= hop[j] /\ hop[j] <= Len(route[j])
    <3> SUFFICES ASSUME NEW j \in Jobs PROVE atCall[j] <= hop[j] /\ hop[j] <= Len(route[j])
      OBVIOUS
    <3>1. atCall[j] = 0 /\ hop[j] = 0
      BY <1>1
    <3> QED  BY <2>1, <3>1
  <2>6. aim \in {"none", "start", "to", "post"} \X Nat /\ aim[1] = "none"
    BY <1>1
  <2> QED  BY <1>1, <2>1, <2>2, <2>3, <2>4, <2>5, <2>6 DEF DrainTypeOK, PassOK
<1>5. OneSpot
  BY <1>1, <1>3 DEF OneSpot
<1>6. JobsOnRoute
  BY <1>1, <1>3, DrainAssumption DEF JobsOnRoute
<1>7. BarrierOnce
  BY <1>1, <1>3, PlacesAre DEF BarrierOnce
<1>8. PassedClear
  BY <1>1, <1>3 DEF PassedClear
<1>9. StaysAhead
  BY <1>1 DEF StaysAhead, OnWay
<1> QED  BY <1>4, <1>5, <1>6, <1>7, <1>8, <1>9 DEF DrainInv

\* The invariant holds at every step.
LEMMA DrainInvariant == DrainSpec => []DrainInv
<1>1. DrainInv /\ [DrainNext]_drainVars => DrainInv'
  <2> SUFFICES ASSUME DrainInv, [DrainNext]_drainVars PROVE DrainInv'
    OBVIOUS
  <2>1. ASSUME NEW t \in Crew, ThreadStep(t)
        PROVE  DrainInv'
    BY <2>1, TakeTaskInv, FinishJobInv, AimInv, CheckInv, PostBarrierInv, SetDoneInv
       DEF ThreadStep
  <2>2. PassOK
    BY DEF DrainInv, DrainTypeOK
  <2>3. ASSUME UNCHANGED <<pass, manual>>
        PROVE  PassOK'
    BY <2>2, <2>3 DEF PassOK
  <2>4. CASE ReturnTrue
    BY <2>3, <2>4, MeanwhileInv DEF ReturnTrue
  <2>5. CASE ReturnFalse
    BY <2>3, <2>5, MeanwhileInv DEF ReturnFalse
  <2>6. ASSUME NEW t \in Pumps, EndPass(t)
        PROVE  DrainInv'
    <3>1. PassOK'
      BY <2>2, <2>6 DEF EndPass, PassOK
    <3> QED  BY <2>6, <3>1, MeanwhileInv DEF EndPass
  <2>7. ASSUME NEW t \in Pumps, NEW o \in OwnerIds, StartPass(t, o)
        PROVE  DrainInv'
    <3>1. PassOK'
      BY <2>2, <2>7 DEF StartPass, PassOK
    <3> QED  BY <2>7, <3>1, MeanwhileInv DEF StartPass
  <2>8. CASE SwapOwnersOut
    BY <2>3, <2>8, MeanwhileInv DEF SwapOwnersOut
  <2>9. ASSUME NEW o \in OwnerIds, StopSwappedOwner(o)
        PROVE  DrainInv'
    BY <2>3, <2>9, MeanwhileInv DEF StopSwappedOwner
  <2>10. CASE AdvanceGate
    BY <2>3, <2>10, MeanwhileInv DEF AdvanceGate
  <2>11. CASE UNCHANGED drainVars
    BY <2>3, <2>11, MeanwhileInv DEF drainVars
  <2> QED  BY <2>1, <2>4, <2>5, <2>6, <2>7, <2>8, <2>9, <2>10, <2>11, PostJobInv,
              BeginDrainInv DEF DrainNext
<1> QED  BY <1>1, DrainInitInv, PTL DEF DrainSpec

\* When DrainWorkersThenUI comes back in time, a job that was posted before the call
\* has left its mailbox, unless that is an owner's and the owners were unregistered
\* meanwhile; and one that was past the workers has ended, with all that it posted the
\* barrier's way, if the owners have threads and are all registered
\* (AppRuntime.cpp:105-137, 422-440).
THEOREM DrainTookAll == DrainSpec => []DrainedIsTaken
<1>1. DrainInv => DrainedIsTaken
  <2> SUFFICES ASSUME DrainInv, drain = "true", NEW j \in Jobs, atCall[j] > 0
               PROVE  /\ Waiting(j)
                         /\ (route[j][atCall[j]] \in OwnerIds => owners = OwnerIds) =>
                           hop[j] > atCall[j]
                      /\ route[j][atCall[j]] > Normal /\ owners = OwnerIds /\ ~manual =>
                           Over(j) \/ hop[j] > Forward(j, atCall[j])
    BY DEF DrainedIsTaken
  <2>1. done /\ atCall[j] \in Nat /\ hop[j] \in Nat /\ atCall[j] <= hop[j]
    BY DEF DrainInv, BarrierOnce, DrainTypeOK
  <2>2. Waiting(j) => \E p \in Places : \E n \in 1 .. Len(mail[p]) : mail[p][n] = j
    BY DEF Waiting, Contains
  <2>3. ASSUME Waiting(j), route[j][atCall[j]] \in OwnerIds => owners = OwnerIds
        PROVE  hop[j] > atCall[j]
    <3>1. \A p \in Places : Cleared(p)
      BY <2>1 DEF DrainInv, PassedClear
    <3>2. PICK p \in Places : \E n \in 1 .. Len(mail[p]) : mail[p][n] = j
      BY <2>2, <2>3
    <3>3. Here(j) = p
      BY <3>2 DEF DrainInv, JobsOnRoute
    <3>4. hop[j] = atCall[j] => ~Jumped(p)
      BY <2>3, <3>3 DEF Here, Jumped
    <3>5. hop[j] # atCall[j]
      BY <3>1, <3>2, <3>4 DEF Cleared, Unmoved
    <3> QED  BY <2>1, <3>5
  <2>4. ASSUME route[j][atCall[j]] > Normal, owners = OwnerIds, ~manual,
               ~(hop[j] > Forward(j, atCall[j]))
        PROVE  Over(j)
    <3>1. OnWay(j)
      <4>1. route \in [Jobs -> Routes] /\ atCall[j] \in 1 .. Len(route[j])
        BY <2>1, SomewhereHere DEF DrainInv, DrainTypeOK
      <4>2. Forward(j, atCall[j]) \in Nat
        BY <2>1, <4>1, ForwardIs, SomewhereHere
      <4> QED  BY <2>1, <2>4, <4>2 DEF OnWay
    <3>2. ~Somewhere(j)
      BY <2>1, <2>4, <3>1 DEF DrainInv, StaysAhead, AheadOf
    <3> QED  BY <2>1, <2>2, <3>2 DEF Somewhere, Over, Running
  <2> QED  BY <2>3, <2>4
<1> QED  BY <1>1, DrainInvariant, PTL

----------------------------------------------------------------------------
(***************************************************************************)
(* The promise of Logger for any loggers, names and number of nodes, until *)
(* a redirect begins while another is under way, or of a node that one has *)
(* left.                                                                   *)
(*                                                                         *)
(* The argument: a node that is not redirected lists each of its children  *)
(* once, and their parent is that node; a redirected node has left the     *)
(* list of its parent before its own children move, and no other list in   *)
(* use has it; and when they move, the nodes over the target do not        *)
(* include it, since the search found none and nobody else redirects. So   *)
(* the parents make no circle, and the way up from a node passes no node   *)
(* twice.                                                                  *)
(***************************************************************************)

CallStates == {"done", "walk", "check", "detach", "snapshot", "move", "add"}
Redirecting(t) == call[t].at \in {"check", "detach", "snapshot", "move", "add"}

LogTypeOK ==
    /\ name \in Seq(STRING \cup {RootName}) /\ Root \in Nodes /\ moved \subseteq Nodes
    /\ parent \in [Nodes -> Nodes \cup {NoNode}] /\ children \in [Nodes -> Seq(Nodes)]
    /\ handle \in [Loggers -> Nodes]
    /\ call \in [Loggers -> [at : CallStates, use : {"none", "lookup", "redirect"},
                             cur : Nodes \cup {NoNode}, rest : Seq(STRING) \cup Seq(Nodes),
                             target : Nodes \cup {NoNode}]]
    /\ \A t \in Loggers :
         /\ call[t].at = "walk" =>
              call[t].cur \in Nodes /\ call[t].rest \in Seq(STRING) /\ call[t].use # "none"
         /\ Redirecting(t) => call[t].target \in Nodes
         /\ call[t].at \in {"move", "add"} => call[t].rest \in Seq(Nodes)
         /\ call[t].at = "add" => call[t].rest # <<>>

\* One thread redirects, a node that no thread has redirected and that is not the root.
OneRedirect ==
    /\ Root \notin moved
    /\ \A s, t \in Loggers : call[s].use = "redirect" /\ call[t].use = "redirect" => s = t
    /\ \A t \in Loggers :
         /\ Redirecting(t) => call[t].use = "redirect" /\ handle[t] # Root
         /\ call[t].use = "redirect" =>
              (handle[t] \in moved <=> call[t].at \in {"snapshot", "move", "add"})
         /\ call[t].at \in {"detach", "snapshot", "move", "add"} => call[t].cur = NoNode

\* The list of a node is its own until it was copied by the redirect.
Owns(n) == n \notin moved \/ \E t \in Loggers : call[t].at = "snapshot" /\ handle[t] = n
Lists(n, s) == /\ \A i \in 1 .. Len(s) : s[i] # Root /\ parent[s[i]] = n
               /\ \A i, j \in 1 .. Len(s) : s[i] = s[j] => i = j
ListsOwn == parent[Root] = NoNode /\ \A n \in Nodes : Owns(n) => Lists(n, children[n])

\* Nothing in use lists a node that was redirected.
MovedUnlisted == \A n \in Alive : Owns(n) =>
                   \A i \in 1 .. Len(children[n]) : children[n][i] \notin moved

\* What is still to be moved.
RestOf(t) ==
    /\ call[t].at = "move" => Lists(handle[t], call[t].rest)
    /\ call[t].at = "add" =>
         /\ Lists(handle[t], Tail(call[t].rest))
         /\ \A i \in 1 .. Len(Tail(call[t].rest)) : Tail(call[t].rest)[i] # Head(call[t].rest)
         /\ Head(call[t].rest) # Root /\ parent[Head(call[t].rest)] = call[t].target
         /\ call[t].target \notin moved =>
              \A i \in 1 .. Len(children[call[t].target]) :
                children[call[t].target][i] # Head(call[t].rest)
    /\ call[t].at \in {"move", "add"} =>
         \A i \in 1 .. Len(call[t].rest) : call[t].rest[i] \notin moved
RestOwn == \A t \in Loggers : RestOf(t)

\* No circle; and none by the redirect: the nodes over its target, as far as they were
\* searched, do not include the redirected one.
NoCircle == \A X \in SUBSET Nodes : X # {} => \E n \in X : ParentOf(n) \notin X
Searched(t, A) ==
    /\ call[t].target \in A \cup {call[t].cur} /\ handle[t] \notin A
    /\ \A n \in A : ParentOf(n) \in A \cup {NoNode, call[t].cur}
SearchHolds == \A t \in Loggers : Redirecting(t) => \E A \in SUBSET Nodes : Searched(t, A)

LogInv == /\ LogTypeOK /\ OneRedirect /\ ListsOwn /\ MovedUnlisted /\ RestOwn
          /\ NoCircle /\ SearchHolds

----------------------------------------------------------------------------
\* What is alive: what is held, and what that owns.
LEMMA AliveIs ==
    ASSUME LogTypeOK
    PROVE  /\ Alive \subseteq Nodes /\ Root \in Alive
           /\ \A t \in Loggers : Held(t) \ {NoNode} \subseteq Alive
           /\ \A n \in Alive : \A i \in 1 .. Len(children[n]) : children[n][i] \in Alive
<1> DEFINE S == ({Root} \cup UNION {Held(t) : t \in Loggers}) \ {NoNode}
           covers == {X \in SUBSET Nodes : S \subseteq X /\ Closed(X)}
<1>1. Alive = {n \in Nodes : \A X \in covers : n \in X}
  BY DEF Alive, Below
<1>2. Root # NoNode
  BY DEF Root, NoNode
<1>3. S \subseteq Alive
  <2>1. \A t \in Loggers : Held(t) \ {NoNode} \subseteq Nodes
    <3> SUFFICES ASSUME NEW t \in Loggers PROVE Held(t) \ {NoNode} \subseteq Nodes
      OBVIOUS
    <3>1. handle[t] \in Nodes /\ call[t].cur \in Nodes \cup {NoNode}
          /\ call[t].target \in Nodes \cup {NoNode}
      BY DEF LogTypeOK
    <3>2. call[t].at \in {"move", "add"} => ToSet(call[t].rest) \subseteq Nodes
      BY DEF LogTypeOK, ToSet
    <3> QED  BY <3>1, <3>2 DEF Held
  <2>2. S \subseteq Nodes
    BY <2>1 DEF LogTypeOK
  <2> QED  BY <1>1, <2>2
<1>4. \A n \in Alive : \A i \in 1 .. Len(children[n]) : children[n][i] \in Alive
  <2> SUFFICES ASSUME NEW n \in Alive, NEW i \in 1 .. Len(children[n])
               PROVE  children[n][i] \in Alive
    OBVIOUS
  <2>1. n \in Nodes /\ children[n] \in Seq(Nodes) /\ children[n][i] \in Nodes
    BY <1>1 DEF LogTypeOK
  <2>2. ASSUME NEW X \in covers PROVE children[n][i] \in X
    <3>1. n \in X /\ ToSet(children[n]) \subseteq X
      BY <1>1 DEF Closed
    <3>2. children[n][i] \in ToSet(children[n])
      BY <2>1 DEF ToSet
    <3> QED  BY <3>1, <3>2
  <2> QED  BY <1>1, <2>1, <2>2
<1>5. Root \in Alive /\ \A t \in Loggers : Held(t) \ {NoNode} \subseteq Alive
  BY <1>2, <1>3
<1> QED  BY <1>1, <1>4, <1>5

\* Nothing comes to life but a new node.
LEMMA AliveNext ==
    ASSUME LogTypeOK', NEW X \in SUBSET Nodes', Root \in X,
           \A t \in Loggers : Held(t)' \ {NoNode} \subseteq X,
           \A n \in X : \A i \in 1 .. Len(children'[n]) : children'[n][i] \in X
    PROVE  Alive' \subseteq X
<1>1. Closed(X)'
  <2> SUFFICES ASSUME NEW n \in X PROVE ToSet(children'[n]) \subseteq X
    BY DEF Closed
  <2>1. children'[n] \in Seq(Nodes')
    BY DEF LogTypeOK
  <2> QED  BY <2>1 DEF ToSet
<1>2. (({Root} \cup UNION {Held(t) : t \in Loggers}) \ {NoNode})' \subseteq X
  OBVIOUS
<1> QED  BY <1>1, <1>2 DEF Alive, Below

\* The same of the tree below the root.
LEMMA InTreeIs ==
    ASSUME LogTypeOK
    PROVE  /\ InTree \subseteq Nodes /\ Root \in InTree
           /\ \A n \in InTree : \A i \in 1 .. Len(children[n]) : children[n][i] \in InTree
           /\ \A X \in SUBSET Nodes :
                Root \in X /\ (\A n \in X : \A i \in 1 .. Len(children[n]) : children[n][i] \in X)
                => InTree \subseteq X
<1> DEFINE covers == {X \in SUBSET Nodes : {Root} \subseteq X /\ Closed(X)}
<1>1. InTree = {n \in Nodes : \A X \in covers : n \in X}
  BY DEF InTree, Below
<1>2. InTree \subseteq Nodes /\ Root \in InTree
  BY <1>1 DEF LogTypeOK
<1>3. ASSUME NEW n \in InTree, NEW i \in 1 .. Len(children[n])
      PROVE  children[n][i] \in InTree
  <2>1. n \in Nodes /\ children[n] \in Seq(Nodes) /\ children[n][i] \in Nodes
    BY <1>1 DEF LogTypeOK
  <2>2. ASSUME NEW X \in covers PROVE children[n][i] \in X
    <3>1. n \in X /\ ToSet(children[n]) \subseteq X
      BY <1>1 DEF Closed
    <3>2. children[n][i] \in ToSet(children[n])
      BY <2>1 DEF ToSet
    <3> QED  BY <3>1, <3>2
  <2> QED  BY <1>1, <2>1, <2>2
<1>4. ASSUME NEW X \in SUBSET Nodes, Root \in X,
             \A n \in X : \A i \in 1 .. Len(children[n]) : children[n][i] \in X
      PROVE  InTree \subseteq X
  <2>1. Closed(X)
    <3> SUFFICES ASSUME NEW n \in X PROVE ToSet(children[n]) \subseteq X
      BY DEF Closed
    <3>1. children[n] \in Seq(Nodes)
      BY DEF LogTypeOK
    <3> QED  BY <1>4, <3>1 DEF ToSet
  <2> QED  BY <1>1, <1>4, <2>1
<1> QED  BY <1>2, <1>3, <1>4

LEMMA ParentIs ==
    ASSUME LogTypeOK, NEW n \in Nodes
    PROVE  /\ ParentOf(n) \in Alive \cup {NoNode}
           /\ ParentOf(n) # NoNode => ParentOf(n) = parent[n]
           /\ parent[n] \in Alive => ParentOf(n) = parent[n]
           /\ NoNode \notin Nodes
<1>1. NoNode \notin Nodes
  BY DEF Nodes, NoNode
<1> QED  BY <1>1, AliveIs DEF ParentOf

----------------------------------------------------------------------------
\* Steps that leave the tree as it is, and one thread's call or handle only changes.
LEMMA QuietKeeps ==
    ASSUME LogInv, NEW t \in Loggers,
           UNCHANGED <<name, parent, children, moved>>, LogTypeOK', OneRedirect',
           \A u \in Loggers \ {t} : call'[u] = call[u] /\ handle'[u] = handle[u],
           Held(t)' \ {NoNode} \subseteq Alive, call'[t].at \notin {"snapshot", "add"},
           call'[t].at = "move" =>
             /\ Lists(handle'[t], call'[t].rest)
             /\ \A i \in 1 .. Len(call'[t].rest) : call'[t].rest[i] \notin moved,
           Redirecting(t)' =>
             \E A \in SUBSET Nodes :
               /\ call'[t].target \in A \cup {call'[t].cur} /\ handle'[t] \notin A
               /\ \A n \in A : ParentOf(n) \in A \cup {NoNode, call'[t].cur}
    PROVE  LogInv'
<1>1. LogTypeOK /\ Nodes' = Nodes
  BY DEF LogInv, Nodes
<1>2. Alive' \subseteq Alive
  <2>1. Alive \in SUBSET Nodes' /\ Root \in Alive
    BY <1>1, AliveIs
  <2>2. ASSUME NEW u \in Loggers PROVE Held(u)' \ {NoNode} \subseteq Alive
    <3>1. CASE u = t
      BY <3>1
    <3>2. CASE u # t
      <4>1. Held(u)' = Held(u)
        BY <3>2 DEF Held
      <4> QED  BY <1>1, <4>1, AliveIs
    <3> QED  BY <3>1, <3>2
  <2>3. \A n \in Alive : \A i \in 1 .. Len(children'[n]) : children'[n][i] \in Alive
    BY <1>1, AliveIs
  <2> QED  BY <2>1, <2>2, <2>3, AliveNext
<1>3. \A n \in Nodes : ParentOf(n)' = ParentOf(n) \/ ParentOf(n)' = NoNode
  BY <1>2 DEF ParentOf
<1>4. \A n : Owns(n)' => Owns(n)
  BY DEF Owns
<1>5. \A n, s : Lists(n, s)' <=> Lists(n, s)
  BY DEF Lists
<1>6. ListsOwn'
  BY <1>1, <1>4, <1>5 DEF LogInv, ListsOwn, Lists
<1>7. MovedUnlisted'
  BY <1>2, <1>4 DEF LogInv, MovedUnlisted
<1>8. RestOwn'
  <2> SUFFICES ASSUME NEW u \in Loggers PROVE RestOf(u)'
    BY DEF RestOwn
  <2>1. CASE u = t
    BY <2>1 DEF Lists, RestOf
  <2>2. CASE u # t
    <3>1. RestOf(u)
      BY DEF LogInv, RestOwn
    <3>2. call'[u] = call[u] /\ handle'[u] = handle[u] /\ parent' = parent
          /\ children' = children /\ moved' = moved
      BY <2>2
    <3> QED  BY <3>1, <3>2, SMTT(30) DEF RestOf, Lists
  <2> QED  BY <2>1, <2>2
<1>9. NoCircle'
  <2> SUFFICES ASSUME NEW X \in SUBSET Nodes, X # {} PROVE \E n \in X : ParentOf(n)' \notin X
    BY <1>1 DEF NoCircle
  <2>1. PICK n \in X : ParentOf(n) \notin X
    BY DEF LogInv, NoCircle
  <2>2. NoNode \notin X
    BY <1>1, ParentIs DEF NoNode, Nodes
  <2> QED  BY <1>3, <2>1, <2>2
<1>10. SearchHolds'
  <2> SUFFICES ASSUME NEW u \in Loggers, Redirecting(u)'
               PROVE  \E A \in SUBSET Nodes : Searched(u, A)'
    BY <1>1 DEF SearchHolds
  <2>1. PICK A \in SUBSET Nodes :
          /\ call'[u].target \in A \cup {call'[u].cur} /\ handle'[u] \notin A
          /\ \A n \in A : ParentOf(n) \in A \cup {NoNode, call'[u].cur}
    <3>1. CASE u = t
      BY <3>1
    <3>2. CASE u # t
      <4>1. Redirecting(u)
        BY <3>2 DEF Redirecting
      <4>2. PICK A \in SUBSET Nodes : Searched(u, A)
        BY <4>1 DEF LogInv, SearchHolds
      <4> QED  BY <3>2, <4>2 DEF Searched
    <3> QED  BY <3>1, <3>2
  <2>2. Searched(u, A)'
    BY <1>3, <2>1 DEF Searched
  <2> QED  BY <2>2
<1> QED  BY <1>6, <1>7, <1>8, <1>9, <1>10 DEF LogInv

\* A thread's call, while nothing else of the types changes.
LEMMA CallKept ==
    ASSUME LogInv, NEW t \in Loggers, NEW c,
           c \in [at : CallStates, use : {"none", "lookup", "redirect"},
                  cur : Nodes \cup {NoNode}, rest : Seq(STRING) \cup Seq(Nodes),
                  target : Nodes \cup {NoNode}],
           Goes(t, c), UNCHANGED <<name, parent, children>>,
           handle' \in [Loggers -> Nodes], moved' \subseteq Nodes,
           c.at = "walk" => c.cur \in Nodes /\ c.rest \in Seq(STRING) /\ c.use # "none",
           c.at \in {"check", "detach", "snapshot", "move", "add"} => c.target \in Nodes,
           c.at \in {"move", "add"} => c.rest \in Seq(Nodes),
           c.at = "add" => c.rest # <<>>
    PROVE  /\ LogTypeOK' /\ call'[t] = c
           /\ \A u \in Loggers \ {t} : call'[u] = call[u]
<1>1. Nodes' = Nodes /\ LogTypeOK
  BY DEF LogInv, Nodes
<1>2. /\ call' = [call EXCEPT ![t] = c] /\ call'[t] = c
      /\ \A u \in Loggers \ {t} : call'[u] = call[u]
      /\ call' \in [Loggers -> [at : CallStates, use : {"none", "lookup", "redirect"},
                                cur : Nodes \cup {NoNode}, rest : Seq(STRING) \cup Seq(Nodes),
                                target : Nodes \cup {NoNode}]]
  BY <1>1 DEF LogTypeOK, Goes
<1>3. ASSUME NEW u \in Loggers
      PROVE  /\ call'[u].at = "walk" =>
                  call'[u].cur \in Nodes /\ call'[u].rest \in Seq(STRING) /\ call'[u].use # "none"
             /\ Redirecting(u)' => call'[u].target \in Nodes
             /\ call'[u].at \in {"move", "add"} => call'[u].rest \in Seq(Nodes)
             /\ call'[u].at = "add" => call'[u].rest # <<>>
  <2>1. CASE u = t
    BY <1>2, <2>1 DEF Redirecting
  <2>2. CASE u # t
    BY <1>1, <1>2, <2>2 DEF LogTypeOK, Redirecting
  <2> QED  BY <2>1, <2>2
<1> QED  BY <1>1, <1>2, <1>3 DEF LogTypeOK

\* Who redirects, when one thread's call changes.
LEMMA OneKept ==
    ASSUME LogInv, NEW t \in Loggers, moved' = moved,
           \A u \in Loggers \ {t} : call'[u] = call[u] /\ handle'[u] = handle[u],
           call'[t].use = "redirect" =>
             /\ \A u \in Loggers \ {t} : call[u].use # "redirect"
             /\ handle'[t] \in moved <=> call'[t].at \in {"snapshot", "move", "add"},
           Redirecting(t)' => call'[t].use = "redirect" /\ handle'[t] # Root,
           call'[t].at \in {"detach", "snapshot", "move", "add"} => call'[t].cur = NoNode
    PROVE  OneRedirect'
<1>1. \A u, v \in Loggers : call'[u].use = "redirect" /\ call'[v].use = "redirect" => u = v
  BY DEF LogInv, OneRedirect
<1>2. ASSUME NEW u \in Loggers
      PROVE  /\ Redirecting(u)' => call'[u].use = "redirect" /\ handle'[u] # Root
             /\ call'[u].use = "redirect" =>
                  (handle'[u] \in moved' <=> call'[u].at \in {"snapshot", "move", "add"})
             /\ call'[u].at \in {"detach", "snapshot", "move", "add"} => call'[u].cur = NoNode
  <2>1. CASE u = t
    BY <2>1
  <2>2. CASE u # t
    BY <2>2 DEF LogInv, OneRedirect, Redirecting
  <2> QED  BY <2>1, <2>2
<1>3. Root \notin moved'
  BY DEF LogInv, OneRedirect
<1> QED  BY <1>1, <1>2, <1>3 DEF OneRedirect

----------------------------------------------------------------------------
\* A call begins at the root; a redirect only when no other one is at work.
LEMMA BeginInv ==
    ASSUME LogInv, ~crossed', NEW t \in Loggers, NEW use \in {"lookup", "redirect"},
           NEW path \in Paths, Begin(t, use, path)
    PROVE  LogInv'
<1> DEFINE c == [at |-> "walk", use |-> use, cur |-> Root, rest |-> path, target |-> NoNode]
<1>1. /\ call[t].at = "done" /\ Goes(t, c) /\ UNCHANGED <<name, parent, children, handle, moved>>
      /\ use = "redirect" => /\ handle[t] \notin moved
                             /\ \A u \in Loggers : call[u].use # "redirect"
  BY DEF Begin, tree
<1>2. /\ LogTypeOK /\ Root \in Nodes /\ path \in Seq(STRING)
      /\ handle \in [Loggers -> Nodes] /\ moved \subseteq Nodes
  BY LoggerAssumption DEF LogInv, LogTypeOK
<1>3. /\ LogTypeOK' /\ call'[t] = c
      /\ \A u \in Loggers \ {t} : call'[u] = call[u]
  <2>1. c \in [at : CallStates, use : {"none", "lookup", "redirect"},
               cur : Nodes \cup {NoNode}, rest : Seq(STRING) \cup Seq(Nodes),
               target : Nodes \cup {NoNode}]
    BY <1>2 DEF CallStates
  <2>2. c.at = "walk" /\ c.cur = Root /\ c.rest = path /\ c.use # "none"
    OBVIOUS
  <2> HIDE DEF c
  <2> QED  BY <1>1, <1>2, <2>1, <2>2, CallKept
<1>4. OneRedirect'
  <2>1. ~Redirecting(t)'
    BY <1>3 DEF Redirecting
  <2> QED  BY <1>1, <1>3, <2>1, OneKept
<1>5. Held(t)' \ {NoNode} \subseteq Alive
  <2>1. Held(t)' = {handle[t], Root, NoNode}
    BY <1>1, <1>3 DEF Held
  <2>2. handle[t] \in Alive
    <3>1. handle[t] \in Held(t) /\ handle[t] # NoNode
      BY <1>2, ParentIs DEF Held
    <3> QED  BY <1>2, <3>1, AliveIs
  <2> QED  BY <1>2, <2>1, <2>2, AliveIs
<1>6. ~Redirecting(t)' /\ call'[t].at = "walk"
  BY <1>3 DEF Redirecting
<1> QED  BY <1>1, <1>3, <1>4, <1>5, <1>6, QuietKeeps

\* A call with some of its parts changed.
LEMMA Changed ==
    ASSUME NEW A, NEW U, NEW C, NEW R, NEW G, NEW x, NEW y, NEW e,
           NEW r \in [at : A, use : U, cur : C, rest : R, target : G]
    PROVE  /\ e = [r EXCEPT !.at = x] =>
                e = [at |-> x, use |-> r.use, cur |-> r.cur, rest |-> r.rest, target |-> r.target]
           /\ e = [r EXCEPT !.at = x, !.target = y] =>
                e = [at |-> x, use |-> r.use, cur |-> r.cur, rest |-> r.rest, target |-> y]
           /\ e = [r EXCEPT !.at = x, !.rest = y] =>
                e = [at |-> x, use |-> r.use, cur |-> r.cur, rest |-> y, target |-> r.target]
           /\ e = [r EXCEPT !.cur = x] =>
                e = [at |-> r.at, use |-> r.use, cur |-> x, rest |-> r.rest, target |-> r.target]
           /\ e = [r EXCEPT !.cur = x, !.rest = y] =>
                e = [at |-> r.at, use |-> r.use, cur |-> x, rest |-> y, target |-> r.target]
<1>1. e = [r EXCEPT !.at = x] =>
        e = [at |-> x, use |-> r.use, cur |-> r.cur, rest |-> r.rest, target |-> r.target]
  OBVIOUS
<1>2. e = [r EXCEPT !.at = x, !.target = y] =>
        e = [at |-> x, use |-> r.use, cur |-> r.cur, rest |-> r.rest, target |-> y]
  OBVIOUS
<1>3. e = [r EXCEPT !.at = x, !.rest = y] =>
        e = [at |-> x, use |-> r.use, cur |-> r.cur, rest |-> y, target |-> r.target]
  OBVIOUS
<1>4. e = [r EXCEPT !.cur = x] =>
        e = [at |-> r.at, use |-> r.use, cur |-> x, rest |-> r.rest, target |-> r.target]
  OBVIOUS
<1>5. e = [r EXCEPT !.cur = x, !.rest = y] =>
        e = [at |-> r.at, use |-> r.use, cur |-> x, rest |-> y, target |-> r.target]
  OBVIOUS
<1> QED  BY <1>1, <1>2, <1>3, <1>4, <1>5

LEMMA GoesIs ==
    ASSUME LogTypeOK, NEW t \in Loggers, NEW x, NEW y
    PROVE  /\ Goes(t, [call[t] EXCEPT !.at = x]) =>
                Goes(t, [at |-> x, use |-> call[t].use, cur |-> call[t].cur,
                        rest |-> call[t].rest, target |-> call[t].target])
           /\ Goes(t, [call[t] EXCEPT !.at = x, !.target = y]) =>
                Goes(t, [at |-> x, use |-> call[t].use, cur |-> call[t].cur,
                        rest |-> call[t].rest, target |-> y])
           /\ Goes(t, [call[t] EXCEPT !.at = x, !.rest = y]) =>
                Goes(t, [at |-> x, use |-> call[t].use, cur |-> call[t].cur,
                        rest |-> y, target |-> call[t].target])
           /\ Goes(t, [call[t] EXCEPT !.cur = x]) =>
                Goes(t, [at |-> call[t].at, use |-> call[t].use, cur |-> x,
                        rest |-> call[t].rest, target |-> call[t].target])
           /\ Goes(t, [call[t] EXCEPT !.cur = x, !.rest = y]) =>
                Goes(t, [at |-> call[t].at, use |-> call[t].use, cur |-> x,
                        rest |-> y, target |-> call[t].target])
<1> DEFINE c == call[t]
<1>1. c \in [at : CallStates, use : {"none", "lookup", "redirect"},
             cur : Nodes \cup {NoNode}, rest : Seq(STRING) \cup Seq(Nodes),
             target : Nodes \cup {NoNode}]
  BY DEF LogTypeOK
<1> HIDE DEF c
<1>2. [c EXCEPT !.at = x] =
        [at |-> x, use |-> c.use, cur |-> c.cur, rest |-> c.rest, target |-> c.target]
  <2> DEFINE e == [c EXCEPT !.at = x]
  <2>1. e = [c EXCEPT !.at = x]
    OBVIOUS
  <2> HIDE DEF e
  <2>2. e = [at |-> x, use |-> c.use, cur |-> c.cur, rest |-> c.rest, target |-> c.target]
    BY <1>1, <2>1, Changed
  <2> QED  BY <2>1, <2>2
<1>3. [c EXCEPT !.at = x, !.target = y] =
        [at |-> x, use |-> c.use, cur |-> c.cur, rest |-> c.rest, target |-> y]
  <2> DEFINE e == [c EXCEPT !.at = x, !.target = y]
  <2>1. e = [c EXCEPT !.at = x, !.target = y]
    OBVIOUS
  <2> HIDE DEF e
  <2>2. e = [at |-> x, use |-> c.use, cur |-> c.cur, rest |-> c.rest, target |-> y]
    BY <1>1, <2>1, Changed
  <2> QED  BY <2>1, <2>2
<1>4. [c EXCEPT !.at = x, !.rest = y] =
        [at |-> x, use |-> c.use, cur |-> c.cur, rest |-> y, target |-> c.target]
  <2> DEFINE e == [c EXCEPT !.at = x, !.rest = y]
  <2>1. e = [c EXCEPT !.at = x, !.rest = y]
    OBVIOUS
  <2> HIDE DEF e
  <2>2. e = [at |-> x, use |-> c.use, cur |-> c.cur, rest |-> y, target |-> c.target]
    BY <1>1, <2>1, Changed
  <2> QED  BY <2>1, <2>2
<1>5. [c EXCEPT !.cur = x] =
        [at |-> c.at, use |-> c.use, cur |-> x, rest |-> c.rest, target |-> c.target]
  <2> DEFINE e == [c EXCEPT !.cur = x]
  <2>1. e = [c EXCEPT !.cur = x]
    OBVIOUS
  <2> HIDE DEF e
  <2>2. e = [at |-> c.at, use |-> c.use, cur |-> x, rest |-> c.rest, target |-> c.target]
    BY <1>1, <2>1, Changed
  <2> QED  BY <2>1, <2>2
<1>6. [c EXCEPT !.cur = x, !.rest = y] =
        [at |-> c.at, use |-> c.use, cur |-> x, rest |-> y, target |-> c.target]
  <2> DEFINE e == [c EXCEPT !.cur = x, !.rest = y]
  <2>1. e = [c EXCEPT !.cur = x, !.rest = y]
    OBVIOUS
  <2> HIDE DEF e
  <2>2. e = [at |-> c.at, use |-> c.use, cur |-> x, rest |-> y, target |-> c.target]
    BY <1>1, <2>1, Changed
  <2> QED  BY <2>1, <2>2
<1> QED  BY <1>2, <1>3, <1>4, <1>5, <1>6 DEF c

\* What a thread holds, by its parts.
LEMMA HeldIs ==
    ASSUME LogInv, NEW t \in Loggers
    PROVE  /\ LogTypeOK /\ handle[t] \in Nodes /\ handle[t] \in Alive
           /\ call[t].cur # NoNode => call[t].cur \in Alive
           /\ call[t].target # NoNode => call[t].target \in Alive
           /\ call[t].at \in {"move", "add"} =>
                /\ call[t].rest \in Seq(Nodes)
                /\ \A i \in 1 .. Len(call[t].rest) : call[t].rest[i] \in Alive
           /\ call[t].cur \in Nodes \cup {NoNode} /\ call[t].target \in Nodes \cup {NoNode}
           /\ handle \in [Loggers -> Nodes] /\ moved \subseteq Nodes
           /\ call[t] = [at |-> call[t].at, use |-> call[t].use, cur |-> call[t].cur,
                         rest |-> call[t].rest, target |-> call[t].target]
           /\ call[t].at \in CallStates /\ call[t].use \in {"none", "lookup", "redirect"}
           /\ call[t].rest \in Seq(STRING) \cup Seq(Nodes)
<1>1. LogTypeOK /\ Held(t) \ {NoNode} \subseteq Alive
  BY AliveIs DEF LogInv
<1>2. handle[t] \in Nodes /\ handle[t] # NoNode
  BY <1>1, ParentIs DEF LogTypeOK
<1>3. call[t].at \in {"move", "add"} =>
        call[t].rest \in Seq(Nodes) /\ \A i \in 1 .. Len(call[t].rest) : call[t].rest[i] \in Alive
  <2> SUFFICES ASSUME call[t].at \in {"move", "add"}
               PROVE  call[t].rest \in Seq(Nodes)
                      /\ \A i \in 1 .. Len(call[t].rest) : call[t].rest[i] \in Alive
    OBVIOUS
  <2>1. call[t].rest \in Seq(Nodes)
    BY <1>1 DEF LogTypeOK
  <2>2. \A i \in 1 .. Len(call[t].rest) : call[t].rest[i] \in ToSet(call[t].rest)
                                         /\ call[t].rest[i] \in Nodes
    BY <2>1 DEF ToSet
  <2> QED  BY <1>1, <2>1, <2>2, ParentIs DEF Held
<1>4. call[t] \in [at : CallStates, use : {"none", "lookup", "redirect"},
                   cur : Nodes \cup {NoNode}, rest : Seq(STRING) \cup Seq(Nodes),
                   target : Nodes \cup {NoNode}]
  BY <1>1 DEF LogTypeOK
<1>5. handle \in [Loggers -> Nodes] /\ moved \subseteq Nodes
  BY <1>1 DEF LogTypeOK
<1>6. /\ call[t] = [at |-> call[t].at, use |-> call[t].use, cur |-> call[t].cur,
                    rest |-> call[t].rest, target |-> call[t].target]
      /\ call[t].at \in CallStates /\ call[t].use \in {"none", "lookup", "redirect"}
      /\ call[t].rest \in Seq(STRING) \cup Seq(Nodes)
      /\ call[t].cur \in Nodes \cup {NoNode} /\ call[t].target \in Nodes \cup {NoNode}
  BY <1>4
<1> QED  BY <1>1, <1>2, <1>3, <1>5, <1>6 DEF Held

\* A call that is done, with a handle to something alive.
LEMMA DoneInv ==
    ASSUME LogInv, NEW t \in Loggers, NEW n \in Alive, Goes(t, NoCall),
           handle' = [handle EXCEPT ![t] = n], UNCHANGED <<name, parent, children, moved>>
    PROVE  LogInv'
<1>1. LogTypeOK /\ n \in Nodes /\ handle \in [Loggers -> Nodes] /\ moved \subseteq Nodes
  BY HeldIs, AliveIs
<1>2. NoCall \in [at : CallStates, use : {"none", "lookup", "redirect"},
                cur : Nodes \cup {NoNode}, rest : Seq(STRING) \cup Seq(Nodes),
                target : Nodes \cup {NoNode}]
  BY DEF NoCall, CallStates
<1>3. NoCall.at = "done" /\ NoCall.use = "none" /\ NoCall.cur = NoNode /\ NoCall.target = NoNode
  BY DEF NoCall
<1>4. handle' \in [Loggers -> Nodes] /\ handle'[t] = n
      /\ \A u \in Loggers \ {t} : handle'[u] = handle[u]
  BY <1>1
<1>5. /\ LogTypeOK' /\ call'[t] = NoCall
      /\ \A u \in Loggers \ {t} : call'[u] = call[u]
  BY <1>1, <1>2, <1>3, <1>4, CallKept
<1>6. ~Redirecting(t)'
  BY <1>3, <1>5 DEF Redirecting
<1>7. OneRedirect'
  BY <1>3, <1>4, <1>5, <1>6, OneKept
<1>8. Held(t)' \ {NoNode} \subseteq Alive
  BY <1>3, <1>4, <1>5 DEF Held
<1> QED  BY <1>3, <1>4, <1>5, <1>6, <1>7, <1>8, QuietKeeps

----------------------------------------------------------------------------
\* getLogger or redirectTo has its node.
LEMMA ArriveInv ==
    ASSUME LogInv, NEW t \in Loggers, Arrive(t)
    PROVE  LogInv'
<1> DEFINE n == call[t].cur
<1>1. /\ call[t].at = "walk" /\ UNCHANGED <<name, parent, children, moved>>
      /\ \/ Goes(t, NoCall) /\ handle' = [handle EXCEPT ![t] = n]
         \/ /\ call[t].use # "lookup" /\ handle[t] # n /\ handle[t] # Root /\ handle' = handle
            /\ Goes(t, [call[t] EXCEPT !.at = "check", !.target = n])
  BY DEF Arrive, tree
<1>2. call[t].use \in {"lookup", "redirect"}
  BY <1>1, HeldIs DEF LogTypeOK
<1>3. n \in Nodes /\ n \in Alive
  BY <1>1, HeldIs, ParentIs DEF LogTypeOK
<1>4. CASE Goes(t, NoCall) /\ handle' = [handle EXCEPT ![t] = n]
  BY <1>1, <1>3, <1>4, DoneInv
<1>5. CASE /\ call[t].use # "lookup" /\ handle[t] # n /\ handle[t] # Root /\ handle' = handle
           /\ Goes(t, [call[t] EXCEPT !.at = "check", !.target = n])
  <2>1. call[t].use = "redirect"
    BY <1>2, <1>5
  <2> DEFINE c == [at |-> "check", use |-> call[t].use, cur |-> n, rest |-> call[t].rest,
                   target |-> n]
  <2>2. Goes(t, c)
    BY <1>5, HeldIs, GoesIs
  <2>3. c \in [at : CallStates, use : {"none", "lookup", "redirect"},
               cur : Nodes \cup {NoNode}, rest : Seq(STRING) \cup Seq(Nodes),
               target : Nodes \cup {NoNode}]
    BY <1>3, HeldIs DEF CallStates
  <2>4. c.at = "check" /\ c.use = "redirect" /\ c.cur = n /\ c.target = n
    BY <2>1
  <2> HIDE DEF c
  <2>5. /\ LogTypeOK' /\ call'[t] = c
        /\ \A u \in Loggers \ {t} : call'[u] = call[u]
    BY <1>1, <1>3, <1>5, <2>2, <2>3, <2>4, CallKept, HeldIs
  <2>6. OneRedirect'
    <3>1. \A u \in Loggers \ {t} : call[u].use # "redirect"
      BY <2>1 DEF LogInv, OneRedirect
    <3>2. handle[t] \notin moved
      BY <1>1, <2>1 DEF LogInv, OneRedirect
    <3> QED  BY <1>1, <1>5, <2>4, <2>5, <3>1, <3>2, OneKept
  <2>7. Held(t)' \ {NoNode} \subseteq Alive
    <3>1. Held(t)' = {handle[t], n}
      BY <1>5, <2>4, <2>5 DEF Held
    <3> QED  BY <1>3, <3>1, HeldIs
  <2>8. \E A \in SUBSET Nodes :
          /\ call'[t].target \in A \cup {call'[t].cur} /\ handle'[t] \notin A
          /\ \A m \in A : ParentOf(m) \in A \cup {NoNode, call'[t].cur}
    <3>1. /\ {} \in SUBSET Nodes /\ call'[t].target \in {} \cup {call'[t].cur}
          /\ handle'[t] \notin {}
          /\ \A m \in {} : ParentOf(m) \in {} \cup {NoNode, call'[t].cur}
      BY <2>4, <2>5
    <3> QED  BY <3>1
  <2>9. \A u \in Loggers \ {t} : handle'[u] = handle[u]
    BY <1>5
  <2> QED  BY <1>1, <2>4, <2>5, <2>6, <2>7, <2>8, <2>9, QuietKeeps
<1> QED  BY <1>1, <1>4, <1>5

\* One more node above the target is looked at.
LEMMA SearchInv ==
    ASSUME LogInv, NEW t \in Loggers, SearchCircle(t)
    PROVE  LogInv'
<1> DEFINE n == call[t].cur
<1>1. /\ call[t].at = "check" /\ UNCHANGED <<name, parent, children, moved, handle>>
      /\ \/ n = NoNode /\ Goes(t, [call[t] EXCEPT !.at = "detach"])
         \/ n # NoNode /\ n = handle[t] /\ Goes(t, NoCall)
         \/ n # NoNode /\ n # handle[t] /\ Goes(t, [call[t] EXCEPT !.cur = ParentOf(n)])
  BY DEF SearchCircle, tree
<1>2. /\ Redirecting(t) /\ call[t].use = "redirect" /\ handle[t] # Root
      /\ handle[t] \notin moved /\ call[t].target \in Nodes
      /\ \A u \in Loggers \ {t} : call[u].use # "redirect"
  BY <1>1 DEF Redirecting, LogInv, OneRedirect, LogTypeOK
<1>3. PICK A \in SUBSET Nodes : Searched(t, A)
  BY <1>2 DEF LogInv, SearchHolds
<1>4. CASE n # NoNode /\ n = handle[t] /\ Goes(t, NoCall)
  <2>1. handle' = [handle EXCEPT ![t] = handle[t]]
    BY <1>1, HeldIs
  <2> QED  BY <1>1, <1>4, <2>1, HeldIs, DoneInv
<1>5. ASSUME NEW step \in {"detach", "check"}, NEW up \in Nodes \cup {NoNode},
             up # NoNode => up \in Alive, step = "detach" => up = NoNode,
             Goes(t, [at |-> step, use |-> call[t].use, cur |-> up, rest |-> call[t].rest,
                    target |-> call[t].target]),
             NEW B \in SUBSET Nodes, call[t].target \in B \cup {up}, handle[t] \notin B,
             \A m \in B : ParentOf(m) \in B \cup {NoNode, up}
      PROVE  LogInv'
  <2> DEFINE c == [at |-> step, use |-> call[t].use, cur |-> up, rest |-> call[t].rest,
                   target |-> call[t].target]
  <2>1. c \in [at : CallStates, use : {"none", "lookup", "redirect"},
               cur : Nodes \cup {NoNode}, rest : Seq(STRING) \cup Seq(Nodes),
               target : Nodes \cup {NoNode}]
    BY <1>2, <1>5, HeldIs DEF CallStates
  <2>2. c.at = step /\ c.use = "redirect" /\ c.cur = up /\ c.target = call[t].target
    BY <1>2
  <2>3. Goes(t, c)
    BY <1>5
  <2> HIDE DEF c
  <2>4. /\ LogTypeOK' /\ call'[t] = c
        /\ \A u \in Loggers \ {t} : call'[u] = call[u]
    BY <1>1, <1>2, <2>1, <2>2, <2>3, CallKept, HeldIs
  <2>5. OneRedirect'
    BY <1>1, <1>2, <1>5, <2>2, <2>4, OneKept
  <2>6. Held(t)' \ {NoNode} \subseteq Alive
    <3>1. Held(t)' = {handle[t], up, call[t].target}
      BY <1>1, <2>2, <2>4 DEF Held
    <3>2. call[t].target \in Alive /\ handle[t] \in Alive
      BY <1>2, HeldIs, ParentIs
    <3> QED  BY <1>5, <3>1, <3>2
  <2>7. \E D \in SUBSET Nodes :
          /\ call'[t].target \in D \cup {call'[t].cur} /\ handle'[t] \notin D
          /\ \A m \in D : ParentOf(m) \in D \cup {NoNode, call'[t].cur}
    BY <1>1, <1>5, <2>2, <2>4
  <2> QED  BY <1>1, <2>2, <2>4, <2>5, <2>6, <2>7, QuietKeeps
<1>6. CASE n = NoNode /\ Goes(t, [call[t] EXCEPT !.at = "detach"])
  <2>1. Goes(t, [at |-> "detach", use |-> call[t].use, cur |-> call[t].cur, rest |-> call[t].rest,
               target |-> call[t].target])
    BY <1>6, HeldIs, GoesIs
  <2>2. Goes(t, [at |-> "detach", use |-> call[t].use, cur |-> NoNode, rest |-> call[t].rest,
               target |-> call[t].target])
    BY <1>6, <2>1
  <2>3. /\ call[t].target \in A \cup {NoNode} /\ handle[t] \notin A
        /\ \A m \in A : ParentOf(m) \in A \cup {NoNode}
    BY <1>3, <1>6 DEF Searched
  <2> QED  BY <1>5, <2>2, <2>3
<1>7. CASE n # NoNode /\ n # handle[t] /\ Goes(t, [call[t] EXCEPT !.cur = ParentOf(n)])
  <2>1. n \in Nodes
    BY <1>7, HeldIs
  <2>2. ParentOf(n) \in Nodes \cup {NoNode} /\ (ParentOf(n) # NoNode => ParentOf(n) \in Alive)
    BY <2>1, HeldIs, ParentIs, AliveIs
  <2>3. Goes(t, [at |-> call[t].at, use |-> call[t].use, cur |-> ParentOf(n),
               rest |-> call[t].rest, target |-> call[t].target])
    BY <1>7, HeldIs, GoesIs
  <2>4. Goes(t, [at |-> "check", use |-> call[t].use, cur |-> ParentOf(n),
               rest |-> call[t].rest, target |-> call[t].target])
    BY <1>1, <2>3
  <2>5. /\ A \cup {n} \in SUBSET Nodes /\ handle[t] \notin A \cup {n}
        /\ call[t].target \in (A \cup {n}) \cup {ParentOf(n)}
        /\ \A m \in A \cup {n} : ParentOf(m) \in (A \cup {n}) \cup {NoNode, ParentOf(n)}
    BY <1>3, <1>7, <2>1 DEF Searched
  <2>6. ParentOf(n) # NoNode => ParentOf(n) \in Alive
    BY <2>2
  <2> DEFINE B == A \cup {n}
  <2>7. B \in SUBSET Nodes /\ call[t].target \in B \cup {ParentOf(n)} /\ handle[t] \notin B
        /\ \A m \in B : ParentOf(m) \in B \cup {NoNode, ParentOf(n)}
    BY <2>5
  <2> HIDE DEF B
  <2> QED  BY <1>5, <2>2, <2>4, <2>7
<1> QED  BY <1>1, <1>4, <1>6, <1>7

\* The list is copied: from here on it is the thread that has the children.
LEMMA SnapshotInv ==
    ASSUME LogInv, NEW t \in Loggers, Snapshot(t)
    PROVE  LogInv'
<1> DEFINE h == handle[t]
           c == [at |-> "move", use |-> call[t].use, cur |-> call[t].cur, rest |-> children[h],
                 target |-> call[t].target]
<1>1. /\ call[t].at = "snapshot" /\ UNCHANGED <<name, parent, children, moved, handle>>
      /\ Goes(t, c)
  <2>1. /\ Goes(t, [call[t] EXCEPT !.at = "move", !.rest = children[h]])
        /\ call[t].at = "snapshot" /\ UNCHANGED <<name, parent, children, moved, handle>>
    BY DEF Snapshot, tree
  <2>2. Goes(t, c)
    BY <2>1, HeldIs, GoesIs
  <2> QED  BY <2>1, <2>2
<1>2. /\ Redirecting(t) /\ call[t].use = "redirect" /\ h # Root
      /\ h \in moved /\ call[t].target \in Nodes /\ call[t].cur = NoNode
      /\ \A u \in Loggers \ {t} : call[u].use # "redirect"
  BY <1>1 DEF Redirecting, LogInv, OneRedirect, LogTypeOK
<1>3. PICK A \in SUBSET Nodes : Searched(t, A)
  BY <1>2 DEF LogInv, SearchHolds
<1>4. h \in Nodes /\ h \in Alive /\ children[h] \in Seq(Nodes)
  BY HeldIs DEF LogTypeOK
<1>5. c \in [at : CallStates, use : {"none", "lookup", "redirect"},
             cur : Nodes \cup {NoNode}, rest : Seq(STRING) \cup Seq(Nodes),
             target : Nodes \cup {NoNode}]
  BY <1>4, HeldIs DEF CallStates
<1>6. /\ c.at = "move" /\ c.use = "redirect" /\ c.cur = NoNode /\ c.rest = children[h]
      /\ c.target = call[t].target
  BY <1>2
<1> HIDE DEF c
<1>7. /\ LogTypeOK' /\ call'[t] = c
      /\ \A u \in Loggers \ {t} : call'[u] = call[u]
  BY <1>1, <1>2, <1>4, <1>5, <1>6, CallKept, HeldIs
<1>8. OneRedirect'
  BY <1>1, <1>2, <1>6, <1>7, OneKept
<1>9. Held(t)' \ {NoNode} \subseteq Alive
  <2>1. Held(t)' = {h, NoNode, call[t].target} \cup ToSet(children[h])
    BY <1>1, <1>6, <1>7 DEF Held
  <2>2. ToSet(children[h]) \subseteq Alive
    <3>1. LogTypeOK
      BY HeldIs
    <3> QED  BY <1>4, <3>1, AliveIs DEF ToSet
  <2> QED  BY <2>1, <2>2, HeldIs
<1>10. Owns(h)
  BY <1>1 DEF Owns
<1>11. Lists(h, children[h])
  BY <1>4, <1>10 DEF LogInv, ListsOwn
<1>12. \A i \in 1 .. Len(children[h]) : children[h][i] \notin moved
  BY <1>4, <1>10 DEF LogInv, MovedUnlisted
<1>13. \E D \in SUBSET Nodes :
        /\ call'[t].target \in D \cup {call'[t].cur} /\ handle'[t] \notin D
        /\ \A m \in D : ParentOf(m) \in D \cup {NoNode, call'[t].cur}
  BY <1>1, <1>2, <1>3, <1>6, <1>7 DEF Searched
<1> QED  BY <1>1, <1>6, <1>7, <1>8, <1>9, <1>11, <1>12, <1>13, QuietKeeps

LEMMA RebindInv ==
    ASSUME LogInv, NEW t \in Loggers, Rebind(t)
    PROVE  LogInv'
<1>1. /\ call[t].at = "move" /\ handle' = [handle EXCEPT ![t] = call[t].target] /\ Goes(t, NoCall)
      /\ UNCHANGED <<name, parent, children, moved>>
  BY DEF Rebind, tree
<1>2. call[t].target \in Nodes /\ NoNode \notin Nodes
  BY <1>1, ParentIs DEF LogInv, LogTypeOK, Redirecting
<1>3. call[t].target \in Alive
  BY <1>2, HeldIs
<1> QED  BY <1>1, <1>3, DoneInv

----------------------------------------------------------------------------
\* What Kept leaves of a list: entries of it that are wanted, none twice.
LEMMA First ==
    ASSUME NEW n \in Nat, NEW X \in SUBSET (0 .. n), X # {}
    PROVE  \E i \in X : /\ i \in 0 .. n
                        /\ i # 0 => i \in 1 .. n /\ i - 1 \in 0 .. n /\ i - 1 \notin X
<1>1. X \in SUBSET Nat
  OBVIOUS
<1>2. PICK i \in X : \A j \in X : i <= j
  BY <1>1, Smallest
<1>3. i \in 0 .. n /\ i - 1 \notin X
  BY <1>1, <1>2
<1> QED  BY <1>3

IsKept(F, n, s, T) ==
    /\ F = [i \in 0 .. n |-> F[i]]
    /\ \A i \in 0 .. n :
         F[i] = IF i = 0 THEN <<>>
                ELSE IF s[i] \in T THEN Append(F[i - 1], s[i]) ELSE F[i - 1]

LEMMA KeptExists ==
    ASSUME NEW s, NEW T, NEW n \in Nat
    PROVE  \E F : IsKept(F, n, s, T)
<1> DEFINE X == {m \in Nat : ~ \E F : IsKept(F, m, s, T)}
<1> SUFFICES ASSUME X # {} PROVE FALSE
  OBVIOUS
<1>1. PICK m \in X : \A k \in X : m <= k
  BY Smallest
<1>2. m # 0
  <2>1. IsKept([i \in 0 .. 0 |-> <<>>], 0, s, T)
    BY DEF IsKept
  <2> QED  BY <1>1, <2>1
<1>3. m - 1 \in Nat /\ m - 1 \notin X
  BY <1>1, <1>2
<1>4. PICK F : IsKept(F, m - 1, s, T)
  BY <1>3
<1> DEFINE G == [i \in 0 .. m |-> IF i < m THEN F[i]
                   ELSE IF s[m] \in T THEN Append(F[m - 1], s[m]) ELSE F[m - 1]]
<1>5. IsKept(G, m, s, T)
  <2>1. ASSUME NEW i \in 0 .. m
        PROVE  G[i] = IF i = 0 THEN <<>>
                      ELSE IF s[i] \in T THEN Append(G[i - 1], s[i]) ELSE G[i - 1]
    <3>1. CASE i = m
      BY <1>1, <1>2, <3>1
    <3>2. CASE i # m
      <4>1. i \in 0 .. m - 1 /\ (i = 0 \/ i - 1 \in 0 .. m) /\ i < m /\ i - 1 < m
        BY <1>1, <3>2
      <4> QED  BY <1>4, <4>1 DEF IsKept
    <3> QED  BY <3>1, <3>2
  <2> QED  BY <2>1 DEF IsKept
<1> QED  BY <1>1, <1>5

LEMMA KeptToIs ==
    ASSUME NEW s, NEW T, Len(s) \in Nat
    PROVE  IsKept(KeptTo(s, T), Len(s), s, T)
<1>1. PICK G : IsKept(G, Len(s), s, T)
  BY KeptExists
<1>2. G = [i \in 0 .. Len(s) |->
             IF i = 0 THEN <<>>
             ELSE IF s[i] \in T THEN Append(G[i - 1], s[i]) ELSE G[i - 1]]
  BY <1>1 DEF IsKept
<1>3. KeptTo(s, T) =
        [i \in 0 .. Len(s) |->
           IF i = 0 THEN <<>>
           ELSE IF s[i] \in T THEN Append(KeptTo(s, T)[i - 1], s[i])
           ELSE KeptTo(s, T)[i - 1]]
  BY <1>2 DEF KeptTo
<1> QED  BY <1>3 DEF IsKept

LEMMA KeptIs ==
    ASSUME NEW S, NEW s \in Seq(S), NEW T, NEW r, r = Kept(s, T)
    PROVE  /\ r \in Seq(S)
           /\ \A a \in 1 .. Len(r) : r[a] \in T /\ \E b \in 1 .. Len(s) : r[a] = s[b]
           /\ (\A a, b \in 1 .. Len(s) : s[a] = s[b] => a = b) =>
                \A a, b \in 1 .. Len(r) : r[a] = r[b] => a = b
<1>1. Len(s) \in Nat /\ \A i \in 1 .. Len(s) : s[i] \in S
  BY LenProperties, ElementOfSeq
<1> DEFINE K == KeptTo(s, T)
           Own == \A a, b \in 1 .. Len(s) : s[a] = s[b] => a = b
           Good(q, i) == /\ q \in Seq(S)
                         /\ \A a \in 1 .. Len(q) : q[a] \in T /\ \E b \in 1 .. i : q[a] = s[b]
                         /\ Own => \A a, b \in 1 .. Len(q) : q[a] = q[b] => a = b
           X == {i \in 0 .. Len(s) : ~Good(K[i], i)}
<1>2. IsKept(K, Len(s), s, T)
  BY <1>1, KeptToIs
<1>3. X = {}
  <2> HIDE DEF K
  <2> SUFFICES ASSUME X # {} PROVE FALSE
    OBVIOUS
  <2>1. PICK i \in X : /\ i \in 0 .. Len(s)
                       /\ i # 0 => i \in 1 .. Len(s) /\ i - 1 \in 0 .. Len(s) /\ i - 1 \notin X
    <3>1. X \in SUBSET (0 .. Len(s))
      OBVIOUS
    <3> HIDE DEF X
    <3> QED  BY <1>1, <3>1, First
  <2>2. i # 0
    <3>1. K[0] = <<>>
      BY <1>1, <1>2 DEF IsKept
    <3>2. Good(K[0], 0)
      BY <3>1
    <3> QED  BY <2>1, <3>2
  <2> DEFINE p == K[i - 1]
  <2>3. Good(p, i - 1)
    BY <2>1, <2>2
  <2>4. K[i] = IF s[i] \in T THEN Append(p, s[i]) ELSE p
    BY <1>2, <2>1, <2>2 DEF IsKept
  <2>5. s[i] \in S /\ i \in Nat /\ i - 1 < i /\ i \in 1 .. Len(s) /\ i - 1 \in Nat
    BY <1>1, <2>1, <2>2
  <2> HIDE DEF p
  <2>6. p \in Seq(S) /\ Len(p) \in Nat
        /\ \A a \in 1 .. Len(p) : p[a] \in T /\ \E b \in 1 .. i - 1 : p[a] = s[b]
    BY <2>3
  <2>7. CASE s[i] \notin T
    <3>1. \A a \in 1 .. Len(p) : \E b \in 1 .. i : p[a] = s[b]
      BY <2>5, <2>6
    <3>2. Good(p, i)
      BY <2>3, <3>1
    <3>3. ~Good(K[i], i) /\ K[i] = p
      BY <2>1, <2>4, <2>7
    <3> HIDE DEF Good
    <3> QED  BY <3>2, <3>3
  <2>8. CASE s[i] \in T
    <3> DEFINE q == Append(p, s[i])
    <3>1. /\ q \in Seq(S) /\ Len(q) = Len(p) + 1 /\ q[Len(p) + 1] = s[i]
          /\ \A a \in 1 .. Len(p) : q[a] = p[a]
      BY <2>5, <2>6
    <3> HIDE DEF q
    <3>2. ASSUME NEW a \in 1 .. Len(q) PROVE q[a] \in T /\ \E b \in 1 .. i : q[a] = s[b]
      <4>1. CASE a = Len(p) + 1
        BY <2>5, <2>8, <3>1, <4>1
      <4>2. CASE a # Len(p) + 1
        <5>1. a \in 1 .. Len(p)
          BY <2>6, <3>1, <4>2
        <5>2. q[a] = p[a] /\ p[a] \in T /\ \E b \in 1 .. i - 1 : p[a] = s[b]
          BY <2>6, <3>1, <5>1
        <5> QED  BY <2>5, <5>2
      <4> QED  BY <4>1, <4>2
    <3>3. ASSUME Own, NEW a \in 1 .. Len(p) PROVE p[a] # s[i]
      <4>1. PICK b \in 1 .. i - 1 : p[a] = s[b]
        BY <2>6
      <4>2. b \in 1 .. Len(s) /\ b # i
        BY <1>1, <2>5
      <4> QED  BY <2>5, <3>3, <4>1, <4>2
    <3>4. ASSUME Own, NEW a \in 1 .. Len(q), NEW b \in 1 .. Len(q), q[a] = q[b] PROVE a = b
      <4>1. (a \in 1 .. Len(p) \/ a = Len(p) + 1) /\ (b \in 1 .. Len(p) \/ b = Len(p) + 1)
        BY <2>6, <3>1
      <4>2. \A e, f \in 1 .. Len(p) : p[e] = p[f] => e = f
        BY <2>3, <3>4
      <4> QED  BY <3>1, <3>3, <3>4, <4>1, <4>2
    <3>5. Good(q, i)
      BY <3>1, <3>2, <3>4
    <3>6. ~Good(K[i], i) /\ K[i] = q
      BY <2>1, <2>4, <2>8 DEF q
    <3> HIDE DEF Good
    <3> QED  BY <3>5, <3>6
  <2> QED  BY <2>7, <2>8
<1>4. Good(K[Len(s)], Len(s))
  <2> HIDE DEF Good, K
  <2> QED  BY <1>1, <1>3
<1>5. r = K[Len(s)]
  BY DEF Kept
<1> HIDE DEF K
<1> QED  BY <1>4, <1>5

----------------------------------------------------------------------------
\* A list, and a list with one entry more.
LEMMA SeqIs ==
    ASSUME NEW S, NEW n \in Nat, NEW f \in [1 .. n -> S]
    PROVE  f \in Seq(S) /\ Len(f) = n
OBVIOUS

LEMMA SeqMore ==
    ASSUME NEW S, NEW T, S \subseteq T
    PROVE  Seq(S) \subseteq Seq(T)
OBVIOUS

LEMMA AppendIs ==
    ASSUME NEW S, NEW s \in Seq(S), NEW e \in S, NEW r, r = Append(s, e)
    PROVE  /\ r \in Seq(S)
           /\ \A i \in 1 .. Len(r) : r[i] = e \/ \E j \in 1 .. Len(s) : r[i] = s[j]
           /\ (\A i \in 1 .. Len(s) : s[i] # e) /\ (\A i, j \in 1 .. Len(s) : s[i] = s[j] => i = j)
              => \A i, j \in 1 .. Len(r) : r[i] = r[j] => i = j
<1>1. /\ r \in Seq(S) /\ Len(r) = Len(s) + 1 /\ Len(s) \in Nat /\ r[Len(s) + 1] = e
      /\ \A i \in 1 .. Len(s) : r[i] = s[i]
  BY AppendProperties, LenProperties
<1>2. \A i \in 1 .. Len(r) : i \in 1 .. Len(s) \/ i = Len(s) + 1
  BY <1>1
<1>3. ASSUME \A i \in 1 .. Len(s) : s[i] # e, \A i, j \in 1 .. Len(s) : s[i] = s[j] => i = j,
             NEW i \in 1 .. Len(r), NEW j \in 1 .. Len(r), r[i] = r[j]
      PROVE  i = j
  BY <1>1, <1>2, <1>3
<1> QED  BY <1>1, <1>2, <1>3

\* getOrInitDirectChild finds the child.
Finds(t, i) ==
    Goes(t, [call[t] EXCEPT !.cur = children[call[t].cur][i], !.rest = Tail(call[t].rest)])

LEMMA WalkKnown ==
    ASSUME LogInv, NEW t \in Loggers, call[t].at = "walk", call[t].rest # <<>>,
           NEW i \in 1 .. Len(children[call[t].cur]),
           Finds(t, i), UNCHANGED <<name, parent, children, handle, moved>>
    PROVE  LogInv'
<1> DEFINE n == children[call[t].cur][i]
           c == [at |-> call[t].at, use |-> call[t].use, cur |-> n, rest |-> Tail(call[t].rest),
                 target |-> call[t].target]
<1>1. Goes(t, c)
  BY HeldIs, GoesIs DEF Finds
<1>2. /\ LogTypeOK /\ call[t].cur \in Nodes /\ call[t].rest \in Seq(STRING)
      /\ call[t].use # "none" /\ handle \in [Loggers -> Nodes] /\ moved \subseteq Nodes
  BY HeldIs DEF LogTypeOK
<1>3. n \in Nodes /\ n \in Alive /\ Tail(call[t].rest) \in Seq(STRING)
  <2>1. call[t].cur \in Alive /\ children[call[t].cur] \in Seq(Nodes)
    BY <1>2, HeldIs, ParentIs DEF LogTypeOK
  <2>2. n \in Nodes /\ n \in Alive
    BY <1>2, <2>1, AliveIs
  <2>3. Tail(call[t].rest) \in Seq(STRING)
    BY <1>2, HeadTailProperties
  <2> QED  BY <2>2, <2>3
<1>4. c \in [at : CallStates, use : {"none", "lookup", "redirect"},
             cur : Nodes \cup {NoNode}, rest : Seq(STRING) \cup Seq(Nodes),
             target : Nodes \cup {NoNode}]
  BY <1>3, HeldIs DEF CallStates
<1>5. /\ c.at = "walk" /\ c.use = call[t].use /\ c.cur = n /\ c.rest = Tail(call[t].rest)
      /\ c.target = call[t].target
  OBVIOUS
<1> HIDE DEF c
<1>6. /\ LogTypeOK' /\ call'[t] = c
      /\ \A u \in Loggers \ {t} : call'[u] = call[u]
  BY <1>1, <1>2, <1>3, <1>4, <1>5, CallKept
<1>7. ~Redirecting(t)' /\ call'[t].at = "walk"
  BY <1>5, <1>6 DEF Redirecting
<1>8. OneRedirect'
  <2>1. call[t].use = "redirect" => /\ \A u \in Loggers \ {t} : call[u].use # "redirect"
                                    /\ handle[t] \notin moved
    BY DEF LogInv, OneRedirect
  <2> QED  BY <1>5, <1>6, <1>7, <2>1, OneKept
<1>9. Held(t)' \ {NoNode} \subseteq Alive
  <2>1. Held(t)' = {handle[t], n, call[t].target}
    BY <1>5, <1>6 DEF Held
  <2> QED  BY <1>3, <2>1, HeldIs
<1> QED  BY <1>6, <1>7, <1>8, <1>9, QuietKeeps

\* getOrInitDirectChild makes the child.
Grows(t, p, N) ==
    /\ name' = Append(name, Head(call[t].rest)) /\ parent' = Append(parent, p)
    /\ children' = Append([children EXCEPT ![p] = Append(@, N)], <<>>)
    /\ Goes(t, [call[t] EXCEPT !.cur = N, !.rest = Tail(call[t].rest)])

LEMMA WalkNew ==
    ASSUME LogInv, NEW t \in Loggers, call[t].at = "walk", call[t].rest # <<>>,
           NEW p, p = call[t].cur, NEW N, N = Len(name) + 1, Grows(t, p, N),
           UNCHANGED <<handle, moved>>
    PROVE  LogInv'
<1> DEFINE c == [at |-> call[t].at, use |-> call[t].use, cur |-> N, rest |-> Tail(call[t].rest),
                 target |-> call[t].target]
<1>1. Goes(t, c)
  BY HeldIs, GoesIs DEF Grows
<1>2. /\ LogTypeOK /\ p \in Nodes /\ p \in Alive /\ call[t].rest \in Seq(STRING)
      /\ call[t].use # "none" /\ handle \in [Loggers -> Nodes] /\ moved \subseteq Nodes
      /\ name \in Seq(STRING \cup {RootName})
      /\ Alive \subseteq Nodes /\ Root \in Nodes /\ NoNode \notin Nodes
      /\ parent \in [Nodes -> Nodes \cup {NoNode}] /\ children \in [Nodes -> Seq(Nodes)]
  <2>1. LogTypeOK
    BY HeldIs
  <2>2. p \in Nodes /\ call[t].rest \in Seq(STRING) /\ call[t].use # "none"
    BY <2>1 DEF LogTypeOK
  <2>3. NoNode \notin Nodes
    BY <2>1, <2>2, ParentIs
  <2>4. p \in Alive /\ Alive \subseteq Nodes
    BY <2>1, <2>2, <2>3, HeldIs, AliveIs
  <2> QED  BY <2>1, <2>2, <2>3, <2>4 DEF LogTypeOK
<1>3. /\ Len(name) \in Nat /\ N \in Nat /\ N \notin Nodes /\ N # NoNode /\ Nodes' = Nodes \cup {N}
      /\ name' \in Seq(STRING \cup {RootName}) /\ Tail(call[t].rest) \in Seq(STRING)
      /\ Nodes = 1 .. Len(name) /\ Nodes' = 1 .. N
  <2>1. Head(call[t].rest) \in STRING /\ Tail(call[t].rest) \in Seq(STRING)
    BY <1>2, HeadTailProperties
  <2>2. name' = Append(name, Head(call[t].rest))
    BY DEF Grows
  <2>3. Len(name) \in Nat /\ name' \in Seq(STRING \cup {RootName}) /\ Len(name') = N
    BY <1>2, <2>1, <2>2, AppendProperties, LenProperties
  <2> QED  BY <2>1, <2>3 DEF Nodes, NoNode
<1>wider. Nodes \subseteq Nodes' /\ Seq(Nodes) \subseteq Seq(Nodes')
  <2>1. Nodes \subseteq Nodes'
    BY <1>3
  <2> QED  BY <2>1, SeqMore
<1>4. /\ parent' \in [Nodes' -> Nodes' \cup {NoNode}]
      /\ parent'[N] = p /\ \A n \in Nodes : parent'[n] = parent[n]
  <2>1. parent \in Seq(Nodes \cup {NoNode}) /\ Len(parent) = Len(name)
    BY <1>2, <1>3, SeqIs
  <2>2. /\ parent' \in Seq(Nodes \cup {NoNode}) /\ Len(parent') = N /\ parent'[N] = p
        /\ \A n \in 1 .. Len(name) : parent'[n] = parent[n]
    BY <1>2, <2>1 DEF Grows
  <2>3. parent' \in [1 .. N -> Nodes \cup {NoNode}]
    BY <2>2
  <2> QED  BY <1>3, <2>2, <2>3
<1>5. /\ children' \in [Nodes' -> Seq(Nodes')]
      /\ children'[N] = <<>> /\ children'[p] = Append(children[p], N)
      /\ \A n \in Nodes \ {p} : children'[n] = children[n]
  <2> DEFINE grown == [children EXCEPT ![p] = Append(@, N)]
  <2>1. /\ grown \in [Nodes -> Seq(Nodes')] /\ grown[p] = Append(children[p], N)
        /\ \A n \in Nodes \ {p} : grown[n] = children[n]
    <3>1. \A n \in Nodes : children[n] \in Seq(Nodes')
      BY <1>2, <1>wider
    <3>2. Append(children[p], N) \in Seq(Nodes')
      BY <1>2, <1>3, <3>1
    <3> QED  BY <1>2, <3>1, <3>2
  <2> HIDE DEF grown
  <2>2. grown \in Seq(Seq(Nodes')) /\ Len(grown) = Len(name)
    BY <1>3, <2>1, SeqIs
  <2>3. children' = Append(grown, <<>>)
    BY DEF grown, Grows
  <2>4. <<>> \in Seq(Nodes')
    OBVIOUS
  <2>5. /\ children' \in Seq(Seq(Nodes')) /\ Len(children') = N /\ children'[N] = <<>>
        /\ \A n \in 1 .. Len(name) : children'[n] = grown[n]
    BY <1>3, <2>2, <2>3, <2>4
  <2>6. children' \in [1 .. N -> Seq(Nodes')]
    BY <2>5
  <2> QED  BY <1>2, <1>3, <2>1, <2>5, <2>6
<1>6. /\ c.at = "walk" /\ c.use = call[t].use /\ c.cur = N /\ c.rest = Tail(call[t].rest)
      /\ c.target = call[t].target
  OBVIOUS
<1> HIDE DEF c
<1>7. /\ call' = [call EXCEPT ![t] = c] /\ call'[t] = c
      /\ \A u \in Loggers \ {t} : call'[u] = call[u]
  BY <1>1, <1>2 DEF Goes, LogTypeOK
<1>8. LogTypeOK'
  <2>1. c \in [at : CallStates, use : {"none", "lookup", "redirect"},
               cur : Nodes' \cup {NoNode}, rest : Seq(STRING) \cup Seq(Nodes'),
               target : Nodes' \cup {NoNode}]
    BY <1>3, HeldIs DEF CallStates, c
  <2>2. ASSUME NEW u \in Loggers
        PROVE  call[u] \in [at : CallStates, use : {"none", "lookup", "redirect"},
                            cur : Nodes' \cup {NoNode}, rest : Seq(STRING) \cup Seq(Nodes'),
                            target : Nodes' \cup {NoNode}]
    <3>1. call[u] \in [at : CallStates, use : {"none", "lookup", "redirect"},
                       cur : Nodes \cup {NoNode}, rest : Seq(STRING) \cup Seq(Nodes),
                       target : Nodes \cup {NoNode}]
      BY <1>2 DEF LogTypeOK
    <3> QED  BY <1>wider, <3>1
  <2>3. call' \in [Loggers -> [at : CallStates, use : {"none", "lookup", "redirect"},
                   cur : Nodes' \cup {NoNode}, rest : Seq(STRING) \cup Seq(Nodes'),
                   target : Nodes' \cup {NoNode}]]
    BY <1>2, <1>7, <2>1, <2>2 DEF LogTypeOK
  <2>4. ASSUME NEW u \in Loggers
        PROVE  /\ call'[u].at = "walk" =>
                    /\ call'[u].cur \in Nodes' /\ call'[u].rest \in Seq(STRING)
                    /\ call'[u].use # "none"
               /\ Redirecting(u)' => call'[u].target \in Nodes'
               /\ call'[u].at \in {"move", "add"} => call'[u].rest \in Seq(Nodes')
               /\ call'[u].at = "add" => call'[u].rest # <<>>
    <3>1. CASE u = t
      BY <1>2, <1>3, <1>6, <1>7, <3>1 DEF Redirecting
    <3>2. CASE u # t
      <4> QED  BY <1>2, <1>wider, <1>7, <3>2 DEF LogTypeOK, Redirecting
    <3> QED  BY <3>1, <3>2
  <2>5. Root \in Nodes' /\ moved' \subseteq Nodes' /\ handle' \in [Loggers -> Nodes']
    BY <1>2, <1>3
  <2> QED  BY <1>3, <1>4, <1>5, <2>3, <2>4, <2>5 DEF LogTypeOK
<1>9. OneRedirect'
  <2>1. call[t].use = "redirect" => /\ \A u \in Loggers \ {t} : call[u].use # "redirect"
                                    /\ handle[t] \notin moved
    BY DEF LogInv, OneRedirect
  <2>2. ~Redirecting(t)'
    BY <1>6, <1>7 DEF Redirecting
  <2> QED  BY <1>6, <1>7, <2>1, <2>2, OneKept
<1>10. Alive' \subseteq Alive \cup {N}
  <2> DEFINE X == Alive \cup {N}
  <2>1. X \in SUBSET Nodes' /\ Root \in X
    BY <1>2, <1>3, AliveIs
  <2>2. ASSUME NEW u \in Loggers PROVE Held(u)' \ {NoNode} \subseteq X
    <3>1. CASE u = t
      <4>1. Held(t)' = {handle[t], N, call[t].target}
        BY <1>6, <1>7 DEF Held
      <4> QED  BY <3>1, <4>1, HeldIs
    <3>2. CASE u # t
      <4>1. Held(u)' = Held(u)
        BY <1>7, <3>2 DEF Held
      <4> QED  BY <1>2, <4>1, AliveIs
    <3> QED  BY <3>1, <3>2
  <2>3. ASSUME NEW n \in X, NEW i \in 1 .. Len(children'[n]) PROVE children'[n][i] \in X
    <3>1. CASE n = N
      BY <1>5, <3>1
    <3>2. CASE n # N /\ n # p
      BY <1>2, <1>5, <3>2, AliveIs
    <3>3. CASE n = p
      <4>1. children[p] \in Seq(Nodes)
        BY <1>2
      <4>2. (i \in 1 .. Len(children[p]) /\ children'[p][i] = children[p][i]) \/ children'[p][i] = N
        <5>1. children'[p] = Append(children[p], N) /\ i \in 1 .. Len(children'[p])
          BY <1>5, <3>3
        <5> QED  BY <4>1, <5>1
      <4> QED  BY <1>2, <3>3, <4>2, AliveIs
    <3> QED  BY <3>1, <3>2, <3>3
  <2> HIDE DEF X
  <2>4. Alive' \subseteq X
    BY <1>8, <2>1, <2>2, <2>3, AliveNext
  <2> QED  BY <2>4 DEF X
<1>11. \A n \in Nodes : ParentOf(n)' = ParentOf(n) \/ ParentOf(n)' = NoNode
  <2> SUFFICES ASSUME NEW n \in Nodes PROVE ParentOf(n)' = ParentOf(n) \/ ParentOf(n)' = NoNode
    OBVIOUS
  <2>1. parent'[n] = parent[n] /\ parent[n] # N
    BY <1>2, <1>3, <1>4
  <2> QED  BY <1>10, <2>1 DEF ParentOf
<1>12. \A n : Owns(n)' => Owns(n)
  BY <1>6, <1>7 DEF Owns
<1>13. \A u \in Loggers : call'[u].at \in {"move", "add"} => u # t /\ call'[u] = call[u]
  BY <1>6, <1>7
<1>14. \A n, s : s \in Seq(Nodes) /\ Lists(n, s) => Lists(n, s)'
  <2> SUFFICES ASSUME NEW n, NEW s \in Seq(Nodes), Lists(n, s) PROVE Lists(n, s)'
    OBVIOUS
  <2>1. \A i \in 1 .. Len(s) : s[i] \in Nodes
    OBVIOUS
  <2> QED  BY <1>4, <2>1 DEF Lists
<1>entries. \A n \in Nodes : \A i \in 1 .. Len(children'[n]) :
          children'[n][i] = N \/ \E j \in 1 .. Len(children[n]) : children'[n][i] = children[n][j]
  <2>1. children[p] \in Seq(Nodes')
    BY <1>2, <1>wider
  <2>2. \A i \in 1 .. Len(children'[p]) :
          children'[p][i] = N \/ \E j \in 1 .. Len(children[p]) : children'[p][i] = children[p][j]
    <3>1. N \in Nodes' /\ children'[p] = Append(children[p], N)
      BY <1>3, <1>5
    <3> QED  BY <2>1, <3>1, AppendIs
  <2>3. ASSUME NEW n \in Nodes \ {p}, NEW i \in 1 .. Len(children'[n])
        PROVE  \E j \in 1 .. Len(children[n]) : children'[n][i] = children[n][j]
    <3>1. i \in 1 .. Len(children[n]) /\ children'[n][i] = children[n][i]
      BY <1>5
    <3> QED  BY <3>1
  <2> QED  BY <2>2, <2>3, SMTT(30)
<1>15. ListsOwn'
  <2>1. parent'[Root] = NoNode
    BY <1>2, <1>4 DEF LogInv, ListsOwn
  <2>2. ASSUME NEW n \in Nodes', Owns(n)' PROVE Lists(n, children[n])' \/ n \in {N, p}
    <3> SUFFICES ASSUME n \notin {N, p} PROVE Lists(n, children[n])'
      OBVIOUS
    <3>1. n \in Nodes /\ children'[n] = children[n] /\ children[n] \in Seq(Nodes)
      BY <1>2, <1>3, <1>5
    <3>2. Lists(n, children[n])
      BY <1>12, <2>2, <3>1 DEF LogInv, ListsOwn
    <3>3. PICK s \in Seq(Nodes) : s = children[n] /\ s = children'[n]
      BY <3>1
    <3>4. Lists(n, s)'
      BY <1>14, <3>2, <3>3
    <3> QED  BY <3>3, <3>4 DEF Lists
  <2>3. Lists(N, children[N])'
    BY <1>5 DEF Lists
  <2>4. ASSUME Owns(p)' PROVE Lists(p, children[p])'
    <3>1. children[p] \in Seq(Nodes) /\ \A i \in 1 .. Len(children[p]) : children[p][i] # N
      <4>1. children[p] \in Seq(Nodes) /\ N \notin Nodes
        BY <1>2, <1>3
      <4> QED  BY <4>1
    <3>2. Lists(p, children[p])
      BY <1>2, <1>12, <2>4 DEF LogInv, ListsOwn
    <3>3. /\ \A i \in 1 .. Len(children[p]) : children[p][i] # Root /\ parent'[children[p][i]] = p
          /\ \A i, j \in 1 .. Len(children[p]) : children[p][i] = children[p][j] => i = j
      <4>1. \A i \in 1 .. Len(children[p]) : children[p][i] \in Nodes
        BY <3>1
      <4> QED  BY <1>4, <3>2, <4>1 DEF Lists
    <3>4. \A i \in 1 .. Len(children'[p]) :
            children'[p][i] = N \/ \E j \in 1 .. Len(children[p]) : children'[p][i] = children[p][j]
      BY <1>2, <1>entries
    <3>5. children[p] \in Seq(Nodes')
      BY <1>wider, <3>1
    <3>6. \A i \in 1 .. Len(children'[p]) : children'[p][i] # Root /\ parent'[children'[p][i]] = p
      <4> SUFFICES ASSUME NEW i \in 1 .. Len(children'[p])
                   PROVE  children'[p][i] # Root /\ parent'[children'[p][i]] = p
        OBVIOUS
      <4>1. Root # N /\ parent'[N] = p
        BY <1>2, <1>3, <1>4
      <4> QED  BY <3>3, <3>4, <4>1
    <3>7. \A i, j \in 1 .. Len(children'[p]) : children'[p][i] = children'[p][j] => i = j
      <4>1. N \in Nodes' /\ children'[p] = Append(children[p], N)
        BY <1>3, <1>5
      <4>2. PICK s \in Seq(Nodes') : s = children[p]
        BY <3>5
      <4>3. PICK r : r = children'[p]
        OBVIOUS
      <4>4. r = Append(s, N) /\ (\A i \in 1 .. Len(s) : s[i] # N)
            /\ \A i, j \in 1 .. Len(s) : s[i] = s[j] => i = j
        BY <3>1, <3>3, <4>1, <4>2, <4>3
      <4>5. \A i, j \in 1 .. Len(r) : r[i] = r[j] => i = j
        BY <4>1, <4>4, AppendIs
      <4> QED  BY <4>3, <4>5
    <3> QED  BY <3>6, <3>7 DEF Lists
  <2> QED  BY <2>1, <2>2, <2>3, <2>4 DEF ListsOwn
<1>16. MovedUnlisted'
  <2> SUFFICES ASSUME NEW n \in Alive', Owns(n)', NEW i \in 1 .. Len(children'[n])
               PROVE  children'[n][i] \notin moved
    BY DEF MovedUnlisted
  <2>1. CASE n = N
    BY <1>5, <2>1
  <2>2. CASE n # N
    <3>1. n \in Alive /\ n \in Nodes /\ children[n] \in Seq(Nodes)
      BY <1>2, <1>10, <2>2
    <3>2. \A j \in 1 .. Len(children[n]) : children[n][j] \notin moved
      BY <1>12, <3>1 DEF LogInv, MovedUnlisted
    <3>3. children'[n][i] = N \/ \E j \in 1 .. Len(children[n]) : children'[n][i] = children[n][j]
      BY <1>entries, <3>1
    <3> QED  BY <1>2, <1>3, <3>2, <3>3
  <2> QED  BY <2>1, <2>2
<1>17. RestOwn'
  <2> SUFFICES ASSUME NEW u \in Loggers PROVE RestOf(u)'
    BY DEF RestOwn
  <2>1. CASE call'[u].at \notin {"move", "add"}
    BY <2>1 DEF RestOf
  <2>2. CASE call'[u].at \in {"move", "add"}
    <3> DEFINE r == call[u].rest
               g == call[u].target
    <3>1. /\ call'[u] = call[u] /\ call[u].at \in {"move", "add"} /\ RestOf(u) /\ r \in Seq(Nodes)
          /\ g \in Nodes /\ (call[u].at = "add" => r # <<>>)
      BY <1>2, <1>13, <2>2 DEF LogInv, RestOwn, LogTypeOK, Redirecting
    <3>2. CASE call[u].at = "move"
      <4>1. Lists(handle[u], r)'
        BY <1>14, <3>1, <3>2 DEF RestOf
      <4> QED  BY <3>1, <3>2, <4>1 DEF RestOf, Lists
    <3>3. CASE call[u].at = "add"
      <4>1. Tail(r) \in Seq(Nodes) /\ Head(r) \in Nodes
        BY <3>1, <3>3
      <4>2. Lists(handle[u], Tail(r))'
        BY <1>14, <3>1, <3>3, <4>1 DEF RestOf
      <4>3. parent'[Head(r)] = g /\ Head(r) # Root
        BY <1>4, <3>1, <3>3, <4>1 DEF RestOf
      <4>4. ASSUME g \notin moved, NEW i \in 1 .. Len(children'[g]) PROVE children'[g][i] # Head(r)
        <5>1. \A j \in 1 .. Len(children[g]) : children[g][j] # Head(r)
          BY <3>1, <3>3, <4>4 DEF RestOf
        <5>2. children'[g][i] = N
              \/ \E j \in 1 .. Len(children[g]) : children'[g][i] = children[g][j]
          BY <1>entries, <3>1
        <5> QED  BY <1>3, <4>1, <5>1, <5>2
      <4>5. /\ \A i \in 1 .. Len(Tail(r)) : Tail(r)[i] # Head(r)
            /\ \A i \in 1 .. Len(r) : r[i] \notin moved
        BY <3>1, <3>3 DEF RestOf
      <4> QED  BY <3>1, <3>3, <4>2, <4>3, <4>4, <4>5 DEF RestOf, Lists
    <3> QED  BY <3>1, <3>2, <3>3
  <2> QED  BY <2>1, <2>2
<1>18. NoCircle'
  <2> SUFFICES ASSUME NEW X \in SUBSET Nodes', X # {} PROVE \E n \in X : ParentOf(n)' \notin X
    BY DEF NoCircle
  <2>1. NoNode \notin X
    BY <1>2, <1>3
  <2>2. CASE X \subseteq {N}
    <3>1. X = {N} /\ (ParentOf(N)' = p \/ ParentOf(N)' = NoNode)
      BY <1>4, <2>2 DEF ParentOf
    <3> QED  BY <1>2, <1>3, <2>1, <3>1
  <2>3. CASE ~(X \subseteq {N})
    <3> DEFINE Y == X \ {N}
    <3>1. Y \in SUBSET Nodes /\ Y # {}
      BY <1>3, <2>3
    <3> HIDE DEF Y
    <3>2. PICK n \in Y : ParentOf(n) \notin Y
      BY <3>1 DEF LogInv, NoCircle
    <3>3. n \in Nodes /\ ParentOf(n) # N /\ n \in X
      BY <1>2, <1>3, <3>1, <3>2, ParentIs DEF Y
    <3> QED  BY <1>11, <2>1, <3>2, <3>3 DEF Y
  <2> QED  BY <2>2, <2>3
<1>19. SearchHolds'
  <2> SUFFICES ASSUME NEW u \in Loggers, Redirecting(u)'
               PROVE  \E A \in SUBSET Nodes' : Searched(u, A)'
    BY DEF SearchHolds
  <2>1. u # t /\ call'[u] = call[u] /\ Redirecting(u)
    BY <1>6, <1>7 DEF Redirecting
  <2>2. PICK A \in SUBSET Nodes : Searched(u, A)
    BY <2>1 DEF LogInv, SearchHolds
  <2>3. Searched(u, A)'
    BY <1>11, <2>1, <2>2 DEF Searched
  <2> QED  BY <1>3, <2>3
<1> QED  BY <1>8, <1>9, <1>15, <1>16, <1>17, <1>18, <1>19 DEF LogInv

LEMMA WalkInv ==
    ASSUME LogInv, NEW t \in Loggers, Walk(t)
    PROVE  LogInv'
<1> DEFINE p == call[t].cur
           known == {i \in 1 .. Len(children[p]) : name[children[p][i]] = Head(call[t].rest)}
<1>1. /\ call[t].at = "walk" /\ call[t].rest # <<>> /\ UNCHANGED <<handle, moved>>
      /\ \/ /\ known # {} /\ UNCHANGED <<name, parent, children>>
            /\ Finds(t, Min(known))
         \/ Grows(t, p, Len(name) + 1)
  BY DEF Walk, tree, Grows, Finds
<1>2. known # {} => Min(known) \in 1 .. Len(children[p])
  <2> SUFFICES ASSUME known # {} PROVE Min(known) \in known
    OBVIOUS
  <2>1. known \in SUBSET Nat
    OBVIOUS
  <2> HIDE DEF known
  <2>2. PICK i \in known : \A j \in known : i <= j
    BY <2>1, Smallest
  <2> QED  BY <2>2 DEF Min
<1> HIDE DEF known
<1> QED  BY <1>1, <1>2, WalkKnown, WalkNew

----------------------------------------------------------------------------
\* While no node changes its parent and none comes to life, there is no circle, and
\* what was searched stays searched.
LEMMA CircleKept ==
    ASSUME LogTypeOK, NoCircle, UNCHANGED <<name, parent>>, Alive' \subseteq Alive
    PROVE  /\ NoCircle'
           /\ \A u \in Loggers : \A A \in SUBSET Nodes :
                UNCHANGED <<handle[u], call[u].cur, call[u].target>> /\ Searched(u, A)
                => Searched(u, A)'
<1>1. Nodes' = Nodes /\ NoNode \notin Nodes
  BY DEF Nodes, NoNode
<1>2. \A n \in Nodes : ParentOf(n)' = ParentOf(n) \/ ParentOf(n)' = NoNode
  BY DEF ParentOf
<1>3. NoCircle'
  <2> SUFFICES ASSUME NEW X \in SUBSET Nodes, X # {} PROVE \E n \in X : ParentOf(n)' \notin X
    BY <1>1 DEF NoCircle
  <2>1. PICK n \in X : ParentOf(n) \notin X
    BY DEF NoCircle
  <2> QED  BY <1>1, <1>2, <2>1
<1>4. ASSUME NEW u \in Loggers, NEW A \in SUBSET Nodes,
             UNCHANGED <<handle[u], call[u].cur, call[u].target>>, Searched(u, A)
      PROVE  Searched(u, A)'
  BY <1>2, <1>4 DEF Searched
<1> QED  BY <1>3, <1>4

\* What the only thread that redirects does: its call, and who else can be there.
LEMMA AloneIs ==
    ASSUME LogInv, NEW t \in Loggers, Redirecting(t)
    PROVE  /\ LogTypeOK /\ handle[t] \in Nodes /\ handle[t] # Root /\ handle[t] \in Alive
           /\ call[t].use = "redirect" /\ call[t].target \in Nodes /\ call[t].target \in Alive
           /\ handle[t] \in moved <=> call[t].at \in {"snapshot", "move", "add"}
           /\ call[t].at # "check" => call[t].cur = NoNode
           /\ \A u \in Loggers \ {t} : call[u].use # "redirect" /\ ~Redirecting(u)
           /\ \E A \in SUBSET Nodes : Searched(t, A)
<1>1. call[t].use = "redirect" /\ handle[t] # Root /\ LogTypeOK /\ Root \notin moved
  BY DEF LogInv, OneRedirect
<1>2. handle[t] \in moved <=> call[t].at \in {"snapshot", "move", "add"}
  BY <1>1 DEF LogInv, OneRedirect
<1>3. call[t].target \in Nodes /\ call[t].target # NoNode
  BY <1>1, ParentIs DEF LogTypeOK
<1>4. call[t].at # "check" => call[t].cur = NoNode
  BY DEF LogInv, OneRedirect, Redirecting
<1>5. \A u \in Loggers \ {t} : call[u].use # "redirect" /\ ~Redirecting(u)
  BY <1>1 DEF LogInv, OneRedirect
<1>6. \E A \in SUBSET Nodes : Searched(t, A)
  BY DEF LogInv, SearchHolds
<1> QED  BY <1>1, <1>2, <1>3, <1>4, <1>5, <1>6, HeldIs

----------------------------------------------------------------------------
\* The node leaves the list of its old parent, and is redirected from then on.
LEMMA DetachInv ==
    ASSUME LogInv, NEW t \in Loggers, Detach(t)
    PROVE  LogInv'
<1> SUFFICES ASSUME NEW h, h = handle[t], NEW up, up = ParentOf(h) PROVE LogInv'
  OBVIOUS
<1> DEFINE c == [at |-> "snapshot", use |-> call[t].use, cur |-> call[t].cur,
                 rest |-> call[t].rest, target |-> call[t].target]
<1>1. /\ call[t].at = "detach" /\ moved' = moved \cup {h} /\ UNCHANGED <<name, parent, handle>>
      /\ children' = IF up = NoNode THEN children
                     ELSE [children EXCEPT ![up] = Kept(@, Nodes \ {h})]
      /\ Goes(t, [call[t] EXCEPT !.at = "snapshot"])
  BY DEF Detach
<1>2. Redirecting(t)
  BY <1>1 DEF Redirecting
<1>3. /\ LogTypeOK /\ h \in Nodes /\ h # Root /\ h \in Alive /\ h \notin moved
      /\ call[t].use = "redirect" /\ call[t].target \in Nodes /\ call[t].cur = NoNode
      /\ \A u \in Loggers \ {t} : call[u].use # "redirect" /\ ~Redirecting(u)
      /\ Nodes' = Nodes /\ children \in [Nodes -> Seq(Nodes)] /\ Alive \subseteq Nodes
  <2>1. Nodes' = Nodes
    BY <1>1 DEF Nodes
  <2> QED  BY <1>1, <1>2, <2>1, AloneIs, AliveIs DEF LogTypeOK
<1>4. Goes(t, c)
  BY <1>1, <1>3, GoesIs
<1>5. c \in [at : CallStates, use : {"none", "lookup", "redirect"},
             cur : Nodes \cup {NoNode}, rest : Seq(STRING) \cup Seq(Nodes),
             target : Nodes \cup {NoNode}]
  BY <1>3, HeldIs DEF CallStates
<1>6. /\ c.at = "snapshot" /\ c.use = "redirect" /\ c.cur = NoNode /\ c.target = call[t].target
  BY <1>3
<1> HIDE DEF c
<1>7. /\ call' = [call EXCEPT ![t] = c] /\ call'[t] = c
      /\ \A u \in Loggers \ {t} : call'[u] = call[u]
  BY <1>3, <1>4 DEF Goes, LogTypeOK
<1>8. /\ children' \in [Nodes -> Seq(Nodes)]
      /\ \A n \in Nodes : \A i \in 1 .. Len(children'[n]) :
           /\ \E j \in 1 .. Len(children[n]) : children'[n][i] = children[n][j]
           /\ n = up => children'[n][i] # h
      /\ \A n, m \in Nodes : Lists(m, children[n]) => Lists(m, children'[n])
  <2>1. CASE up = NoNode
    <3>1. children' = children
      BY <1>1, <2>1
    <3>2. NoNode \notin Nodes
      BY <1>3, ParentIs
    <3> QED  BY <1>3, <2>1, <3>1, <3>2
  <2>2. CASE up # NoNode
    <3>1. up \in Nodes
      BY <1>3, <2>2, ParentIs
    <3>2. /\ children'[up] = Kept(children[up], Nodes \ {h}) /\ children[up] \in Seq(Nodes)
          /\ \A n \in Nodes \ {up} : children'[n] = children[n]
      BY <1>1, <1>3, <2>2, <3>1
    <3>3. /\ children'[up] \in Seq(Nodes)
          /\ \A i \in 1 .. Len(children'[up]) :
               /\ children'[up][i] # h
               /\ \E j \in 1 .. Len(children[up]) : children'[up][i] = children[up][j]
          /\ (\A i, j \in 1 .. Len(children[up]) : children[up][i] = children[up][j] => i = j) =>
               \A i, j \in 1 .. Len(children'[up]) : children'[up][i] = children'[up][j] => i = j
      <4> DEFINE T == Nodes \ {h}
      <4>1. h \notin T
        OBVIOUS
      <4> HIDE DEF T
      <4>2. children'[up] = Kept(children[up], T)
        BY <3>2 DEF T
      <4>3. PICK s \in Seq(Nodes) : s = children[up]
        BY <3>2
      <4>4. PICK r : r = children'[up]
        OBVIOUS
      <4>5. r = Kept(s, T)
        BY <4>2, <4>3, <4>4
      <4>6. /\ r \in Seq(Nodes)
            /\ \A a \in 1 .. Len(r) : r[a] \in T /\ \E b \in 1 .. Len(s) : r[a] = s[b]
            /\ (\A a, b \in 1 .. Len(s) : s[a] = s[b] => a = b) =>
                 \A a, b \in 1 .. Len(r) : r[a] = r[b] => a = b
        BY <4>5, KeptIs
      <4>7. \A a \in 1 .. Len(r) : r[a] # h /\ \E b \in 1 .. Len(s) : r[a] = s[b]
        BY <4>1, <4>6
      <4> QED  BY <4>3, <4>4, <4>6, <4>7
    <3>4. children' \in [Nodes -> Seq(Nodes)]
      <4>1. DOMAIN children' = Nodes /\ children' = [n \in Nodes |-> children'[n]]
        BY <1>1, <1>3, <2>2
      <4>2. \A n \in Nodes : children'[n] \in Seq(Nodes)
        <5> SUFFICES ASSUME NEW n \in Nodes PROVE children'[n] \in Seq(Nodes)
          OBVIOUS
        <5>1. CASE n = up
          BY <3>3, <5>1
        <5>2. CASE n # up
          BY <1>3, <3>2, <5>2
        <5> QED  BY <5>1, <5>2
      <4> QED  BY <4>1, <4>2
    <3>5. ASSUME NEW n \in Nodes, NEW i \in 1 .. Len(children'[n])
          PROVE  /\ \E j \in 1 .. Len(children[n]) : children'[n][i] = children[n][j]
                 /\ n = up => children'[n][i] # h
      <4>1. CASE n = up
        BY <3>3, <4>1
      <4>2. CASE n # up
        <5>1. i \in 1 .. Len(children[n]) /\ children'[n][i] = children[n][i]
          BY <3>2, <4>2
        <5> QED  BY <4>2, <5>1
      <4> QED  BY <4>1, <4>2
    <3>6. ASSUME NEW n \in Nodes, NEW m \in Nodes, Lists(m, children[n])
          PROVE  Lists(m, children'[n])
      <4>1. CASE n # up
        BY <3>2, <3>6, <4>1
      <4>2. CASE n = up
        BY <3>3, <3>6, <4>2 DEF Lists
      <4> QED  BY <4>1, <4>2
    <3> QED  BY <3>4, <3>5, <3>6
  <2> QED  BY <2>1, <2>2
<1>9. LogTypeOK'
  <2>1. ASSUME NEW u \in Loggers
        PROVE  /\ call'[u] \in [at : CallStates, use : {"none", "lookup", "redirect"},
                                cur : Nodes \cup {NoNode}, rest : Seq(STRING) \cup Seq(Nodes),
                                target : Nodes \cup {NoNode}]
               /\ call'[u].at = "walk" =>
                    call'[u].cur \in Nodes /\ call'[u].rest \in Seq(STRING) /\ call'[u].use # "none"
               /\ Redirecting(u)' => call'[u].target \in Nodes
               /\ call'[u].at \in {"move", "add"} => call'[u].rest \in Seq(Nodes)
               /\ call'[u].at = "add" => call'[u].rest # <<>>
    <3>1. CASE u = t
      BY <1>3, <1>5, <1>6, <1>7, <3>1 DEF Redirecting
    <3>2. CASE u # t
      BY <1>3, <1>7, <3>2 DEF LogTypeOK, Redirecting
    <3> QED  BY <3>1, <3>2
  <2>2. call' = [u \in Loggers |-> call'[u]]
    BY <1>3, <1>7 DEF LogTypeOK
  <2> QED  BY <1>1, <1>3, <1>8, <2>1, <2>2 DEF LogTypeOK
<1>10. OneRedirect'
  <2>1. ASSUME NEW u \in Loggers
        PROVE  /\ Redirecting(u)' => call'[u].use = "redirect" /\ handle'[u] # Root
               /\ call'[u].use = "redirect" =>
                    /\ u = t
                    /\ handle'[u] \in moved' <=> call'[u].at \in {"snapshot", "move", "add"}
               /\ call'[u].at \in {"detach", "snapshot", "move", "add"} => call'[u].cur = NoNode
    <3>1. CASE u = t
      BY <1>1, <1>3, <1>6, <1>7, <3>1
    <3>2. CASE u # t
      BY <1>3, <1>7, <3>2 DEF Redirecting
    <3> QED  BY <3>1, <3>2
  <2>2. Root \notin moved'
    BY <1>1, <1>3 DEF LogInv, OneRedirect
  <2> QED  BY <2>1, <2>2 DEF OneRedirect
<1>11. Alive' \subseteq Alive
  <2>1. Alive \in SUBSET Nodes' /\ Root \in Alive
    BY <1>3, AliveIs
  <2>2. ASSUME NEW u \in Loggers PROVE Held(u)' \ {NoNode} \subseteq Alive
    <3>1. Held(u)' = Held(u)
      BY <1>1, <1>3, <1>6, <1>7 DEF Held
    <3> QED  BY <1>3, <3>1, AliveIs
  <2>3. \A n \in Alive : \A i \in 1 .. Len(children'[n]) : children'[n][i] \in Alive
    <3> SUFFICES ASSUME NEW n \in Alive, NEW i \in 1 .. Len(children'[n])
                 PROVE  children'[n][i] \in Alive
      OBVIOUS
    <3>1. PICK j \in 1 .. Len(children[n]) : children'[n][i] = children[n][j]
      BY <1>3, <1>8
    <3> QED  BY <1>3, <3>1, AliveIs
  <2> QED  BY <1>9, <2>1, <2>2, <2>3, AliveNext
<1>12. \A n : Owns(n)' => Owns(n)
  <2> SUFFICES ASSUME NEW n, Owns(n)' PROVE Owns(n)
    OBVIOUS
  <2>1. CASE n = h
    BY <1>3, <2>1 DEF Owns
  <2>2. CASE n # h
    BY <1>1, <1>7, <2>2 DEF Owns
  <2> QED  BY <2>1, <2>2
<1>13. ListsOwn'
  <2> SUFFICES ASSUME NEW n \in Nodes, Owns(n)' PROVE Lists(n, children'[n])
    <3>1. parent[Root] = NoNode /\ parent' = parent /\ Nodes' = Nodes
      BY <1>1, <1>3 DEF LogInv, ListsOwn
    <3> QED  BY <3>1, SMTT(30) DEF ListsOwn, Lists
  <2>1. Lists(n, children[n])
    BY <1>12 DEF LogInv, ListsOwn
  <2> QED  BY <1>8, <2>1
<1>14. MovedUnlisted'
  <2> SUFFICES ASSUME NEW n \in Alive', Owns(n)', NEW i \in 1 .. Len(children'[n])
               PROVE  children'[n][i] \notin moved'
    BY DEF MovedUnlisted
  <2>1. n \in Nodes /\ n \in Alive /\ Owns(n)
    BY <1>3, <1>11, <1>12
  <2>2. PICK j \in 1 .. Len(children[n]) : children'[n][i] = children[n][j]
    BY <1>8, <2>1
  <2>3. children[n][j] \notin moved
    BY <2>1 DEF LogInv, MovedUnlisted
  <2>4. children'[n][i] # h
    <3> SUFFICES ASSUME children'[n][i] = h PROVE FALSE
      OBVIOUS
    <3>1. parent[h] = n
      BY <2>1, <2>2 DEF LogInv, ListsOwn, Lists
    <3>2. n = up
      BY <1>3, <2>1, <3>1, ParentIs
    <3> QED  BY <1>8, <2>1, <3>2
  <2> QED  BY <1>1, <2>2, <2>3, <2>4
<1>15. RestOwn'
  <2>1. ASSUME NEW u \in Loggers PROVE call'[u].at \notin {"move", "add"}
    BY <1>3, <1>6, <1>7 DEF Redirecting
  <2> QED  BY <2>1 DEF RestOwn, RestOf
<1>16. NoCircle' /\ SearchHolds'
  <2>1. NoCircle'
    BY <1>1, <1>3, <1>11, CircleKept DEF LogInv
  <2>2. ASSUME NEW u \in Loggers, Redirecting(u)' PROVE \E A \in SUBSET Nodes : Searched(u, A)'
    <3>1. u = t
      BY <1>3, <1>7, <2>2 DEF Redirecting
    <3>2. PICK A \in SUBSET Nodes : Searched(t, A)
      BY <1>2, AloneIs
    <3>3. UNCHANGED <<handle[t], call[t].cur, call[t].target>>
      BY <1>1, <1>3, <1>6, <1>7
    <3>4. Searched(t, A)'
      BY <1>1, <1>3, <1>11, <3>2, <3>3, CircleKept DEF LogInv
    <3> QED  BY <3>1, <3>4
  <2> QED  BY <1>3, <2>1, <2>2 DEF SearchHolds
<1> QED  BY <1>9, <1>10, <1>13, <1>14, <1>15, <1>16 DEF LogInv

----------------------------------------------------------------------------
\* A thread's call, and the tree of the same nodes.
LEMMA TypesKept ==
    ASSUME LogTypeOK, NEW t \in Loggers, NEW c,
           c \in [at : CallStates, use : {"none", "lookup", "redirect"},
                  cur : Nodes \cup {NoNode}, rest : Seq(STRING) \cup Seq(Nodes),
                  target : Nodes \cup {NoNode}],
           Goes(t, c), UNCHANGED <<name, handle, moved>>,
           parent' \in [Nodes -> Nodes \cup {NoNode}], children' \in [Nodes -> Seq(Nodes)],
           c.at \in {"move", "add"}, c.target \in Nodes, c.rest \in Seq(Nodes),
           c.at = "add" => c.rest # <<>>
    PROVE  /\ LogTypeOK' /\ Nodes' = Nodes /\ call'[t] = c
           /\ \A u \in Loggers \ {t} : call'[u] = call[u]
<1>1. Nodes' = Nodes
  BY DEF Nodes
<1>2. /\ call' = [call EXCEPT ![t] = c] /\ call'[t] = c
      /\ \A u \in Loggers \ {t} : call'[u] = call[u]
      /\ call' \in [Loggers -> [at : CallStates, use : {"none", "lookup", "redirect"},
                                cur : Nodes \cup {NoNode}, rest : Seq(STRING) \cup Seq(Nodes),
                                target : Nodes \cup {NoNode}]]
  BY DEF LogTypeOK, Goes
<1>3. ASSUME NEW u \in Loggers
      PROVE  /\ call'[u].at = "walk" =>
                  call'[u].cur \in Nodes /\ call'[u].rest \in Seq(STRING) /\ call'[u].use # "none"
             /\ Redirecting(u)' => call'[u].target \in Nodes
             /\ call'[u].at \in {"move", "add"} => call'[u].rest \in Seq(Nodes)
             /\ call'[u].at = "add" => call'[u].rest # <<>>
  <2>1. CASE u = t
    BY <1>2, <2>1
  <2>2. CASE u # t
    BY <1>2, <2>2 DEF LogTypeOK, Redirecting
  <2> QED  BY <2>1, <2>2
<1>4. /\ name' \in Seq(STRING \cup {RootName}) /\ Root \in Nodes /\ moved' \subseteq Nodes
      /\ handle' \in [Loggers -> Nodes]
  BY DEF LogTypeOK
<1> QED  BY <1>1, <1>2, <1>3, <1>4 DEF LogTypeOK

\* The first of a list and what follows it.
LEMMA TailIs ==
    ASSUME NEW S, NEW s \in Seq(S), s # <<>>
    PROVE  /\ Head(s) \in S /\ Head(s) = s[1] /\ 1 \in 1 .. Len(s) /\ Tail(s) \in Seq(S)
           /\ \A i \in 1 .. Len(Tail(s)) :
                i + 1 \in 1 .. Len(s) /\ i + 1 # 1 /\ Tail(s)[i] = s[i + 1]
<1>1. Len(s) \in Nat /\ Len(s) # 0
  BY EmptySeq, LenProperties
<1>2. Head(s) \in S /\ Tail(s) \in Seq(S) /\ Len(Tail(s)) = Len(s) - 1
      /\ \A i \in 1 .. Len(s) - 1 : Tail(s)[i] = s[i + 1]
  BY HeadTailProperties, <1>1
<1>3. Head(s) = s[1]
  OBVIOUS
<1> QED  BY <1>1, <1>2, <1>3

\* The parent of a child that is moved is the target from now on: what is over the
\* target does not include the node that the children leave.
LEMMA MoveChildInv ==
    ASSUME LogInv, NEW t \in Loggers, MoveChild(t)
    PROVE  LogInv'
<1> SUFFICES ASSUME NEW h, h = handle[t], NEW r, r = call[t].rest, NEW g, g = call[t].target,
                    NEW d, d = Head(r)
             PROVE  LogInv'
  OBVIOUS
<1> DEFINE c == [at |-> "add", use |-> call[t].use, cur |-> call[t].cur, rest |-> r, target |-> g]
<1>1. /\ call[t].at = "move" /\ r # <<>> /\ parent' = [parent EXCEPT ![d] = g]
      /\ Goes(t, [call[t] EXCEPT !.at = "add"]) /\ UNCHANGED <<name, children, handle, moved>>
  BY DEF MoveChild
<1>2. Redirecting(t)
  BY <1>1 DEF Redirecting
<1>3. /\ LogTypeOK /\ h \in Nodes /\ h # Root /\ h \in Alive /\ h \in moved
      /\ call[t].use = "redirect" /\ g \in Nodes /\ call[t].cur = NoNode
      /\ \A u \in Loggers \ {t} : call[u].use # "redirect" /\ ~Redirecting(u)
      /\ children \in [Nodes -> Seq(Nodes)] /\ Alive \subseteq Nodes
      /\ parent \in [Nodes -> Nodes \cup {NoNode}] /\ NoNode \notin Nodes
  BY <1>1, <1>2, AloneIs, AliveIs, ParentIs DEF LogTypeOK
<1>4. /\ r \in Seq(Nodes) /\ d \in Nodes /\ d = r[1] /\ 1 \in 1 .. Len(r) /\ Tail(r) \in Seq(Nodes)
      /\ \A i \in 1 .. Len(Tail(r)) : i + 1 \in 1 .. Len(r) /\ i + 1 # 1 /\ Tail(r)[i] = r[i + 1]
  <2>1. r \in Seq(Nodes)
    BY <1>1, <1>3 DEF LogTypeOK
  <2> QED  BY <1>1, <2>1, TailIs
<1>5. Lists(h, r) /\ \A i \in 1 .. Len(r) : r[i] \notin moved
  BY <1>1 DEF LogInv, RestOwn, RestOf
<1>6. d # Root /\ parent[d] = h
  BY <1>4, <1>5 DEF Lists
<1>7. /\ parent' \in [Nodes -> Nodes \cup {NoNode}] /\ parent'[d] = g
      /\ \A n \in Nodes \ {d} : parent'[n] = parent[n]
  BY <1>1, <1>3, <1>4
<1>8. Goes(t, c)
  BY <1>1, <1>3, GoesIs
<1>9. c \in [at : CallStates, use : {"none", "lookup", "redirect"},
             cur : Nodes \cup {NoNode}, rest : Seq(STRING) \cup Seq(Nodes),
             target : Nodes \cup {NoNode}]
  BY <1>3, <1>4, HeldIs DEF CallStates
<1>10. /\ c.at = "add" /\ c.use = "redirect" /\ c.cur = NoNode /\ c.rest = r /\ c.target = g
  BY <1>3
<1> HIDE DEF c
<1>11. /\ LogTypeOK' /\ Nodes' = Nodes /\ call'[t] = c
       /\ \A u \in Loggers \ {t} : call'[u] = call[u]
  <2>1. /\ UNCHANGED <<name, handle, moved>> /\ LogTypeOK /\ Goes(t, c)
        /\ parent' \in [Nodes -> Nodes \cup {NoNode}] /\ children' \in [Nodes -> Seq(Nodes)]
        /\ c.at \in {"move", "add"} /\ c.target \in Nodes /\ c.rest \in Seq(Nodes)
        /\ c.at = "add" => c.rest # <<>>
    BY <1>1, <1>3, <1>4, <1>7, <1>8, <1>10
  <2> QED  BY <1>9, <2>1, TypesKept
<1>12. OneRedirect'
  BY <1>1, <1>3, <1>10, <1>11, OneKept
<1>13. Alive' \subseteq Alive
  <2>1. Alive \in SUBSET Nodes' /\ Root \in Alive
    BY <1>3, <1>11, AliveIs
  <2>2. ASSUME NEW u \in Loggers PROVE Held(u)' \ {NoNode} \subseteq Alive
    <3>1. Held(u)' = Held(u)
      BY <1>1, <1>3, <1>10, <1>11 DEF Held
    <3> QED  BY <1>3, <3>1, AliveIs
  <2>3. \A n \in Alive : \A i \in 1 .. Len(children'[n]) : children'[n][i] \in Alive
    BY <1>1, <1>3, AliveIs
  <2> QED  BY <1>11, <2>1, <2>2, <2>3, AliveNext
<1>14. \A n : Owns(n)' => Owns(n) /\ n # h
  <2> SUFFICES ASSUME NEW n, Owns(n)' PROVE Owns(n) /\ n # h
    OBVIOUS
  <2>1. \A u \in Loggers : call'[u].at # "snapshot"
    BY <1>3, <1>10, <1>11 DEF Redirecting
  <2> QED  BY <1>1, <1>3, <2>1 DEF Owns
<1>15. ASSUME NEW n, NEW s \in Seq(Nodes), Lists(n, s), \A i \in 1 .. Len(s) : s[i] # d
       PROVE  Lists(n, s)'
  <2>1. \A i \in 1 .. Len(s) : parent'[s[i]] = parent[s[i]]
    BY <1>7, <1>15
  <2> QED  BY <1>15, <2>1 DEF Lists
<1>16. ListsOwn'
  <2> SUFFICES ASSUME NEW n \in Nodes, Owns(n)' PROVE Lists(n, children[n])'
    <3>1. parent'[Root] = NoNode
      BY <1>3, <1>6, <1>7 DEF LogInv, ListsOwn, LogTypeOK
    <3> QED  BY <1>11, <3>1 DEF ListsOwn
  <2>1. PICK s \in Seq(Nodes) : s = children[n] /\ s = children'[n]
    BY <1>1, <1>3
  <2>2. Lists(n, s) /\ n # h
    BY <1>14, <2>1 DEF LogInv, ListsOwn
  <2>3. \A i \in 1 .. Len(s) : s[i] # d
    BY <1>6, <2>2 DEF Lists
  <2>4. Lists(n, s)'
    BY <1>15, <2>2, <2>3
  <2> QED  BY <2>1, <2>4 DEF Lists
<1>17. MovedUnlisted'
  BY <1>1, <1>13, <1>14 DEF LogInv, MovedUnlisted
<1>18. RestOwn'
  <2> SUFFICES ASSUME NEW u \in Loggers PROVE RestOf(u)'
    BY DEF RestOwn
  <2>1. CASE u # t
    BY <1>3, <1>11, <2>1 DEF Redirecting, RestOf
  <2>2. CASE u = t
    <3>1. \A i \in 1 .. Len(Tail(r)) : Tail(r)[i] # d
      BY <1>4, <1>5 DEF Lists
    <3>2. Lists(h, Tail(r))
      BY <1>4, <1>5 DEF Lists
    <3>3. Lists(h, Tail(r))'
      BY <1>4, <1>15, <3>1, <3>2
    <3>4. ASSUME g \notin moved, NEW i \in 1 .. Len(children[g]) PROVE children[g][i] # d
      <4>1. parent[children[g][i]] = g
        BY <1>3, <3>4 DEF LogInv, ListsOwn, Owns, Lists
      <4> QED  BY <1>3, <1>6, <3>4, <4>1
    <3>5. /\ call'[t].at = "add" /\ call'[t].rest = r /\ call'[t].target = g
          /\ handle'[t] = h /\ moved' = moved /\ children' = children
      BY <1>1, <1>10, <1>11
    <3> QED  BY <1>4, <1>5, <1>6, <1>7, <2>2, <3>1, <3>3, <3>4, <3>5 DEF RestOf, Lists
  <2> QED  BY <2>1, <2>2
<1>19. PICK A \in SUBSET Nodes : Searched(t, A)
  BY <1>2, AloneIs
<1>20. g \in A /\ h \notin A /\ \A n \in A : ParentOf(n) \in A \cup {NoNode}
  BY <1>3, <1>19, ParentIs DEF Searched
<1>21. d \notin A
  <2>1. ParentOf(d) = h
    BY <1>3, <1>4, <1>6, ParentIs
  <2> QED  BY <1>3, <1>20, <2>1
<1>22. \A n \in Nodes \ {d} : ParentOf(n)' = ParentOf(n) \/ ParentOf(n)' = NoNode
  BY <1>7, <1>13 DEF ParentOf
<1>23. NoCircle'
  <2> SUFFICES ASSUME NEW X \in SUBSET Nodes, X # {} PROVE \E n \in X : ParentOf(n)' \notin X
    BY <1>11 DEF NoCircle
  <2>1. NoNode \notin X
    BY <1>3
  <2>2. CASE X \cap A # {}
    <3>1. PICK n \in X \cap A : ParentOf(n) \notin X \cap A
      BY <2>2 DEF LogInv, NoCircle
    <3>2. ParentOf(n) \notin X
      BY <1>20, <2>1, <3>1
    <3> QED  BY <1>21, <1>22, <2>1, <3>1, <3>2
  <2>3. CASE X \cap A = {} /\ d \in X
    <3>1. ParentOf(d)' = g \/ ParentOf(d)' = NoNode
      BY <1>7 DEF ParentOf
    <3> QED  BY <1>20, <2>1, <2>3, <3>1
  <2>4. CASE d \notin X
    <3>1. PICK n \in X : ParentOf(n) \notin X
      BY DEF LogInv, NoCircle
    <3> QED  BY <1>22, <2>1, <2>4, <3>1
  <2> QED  BY <2>2, <2>3, <2>4
<1>24. SearchHolds'
  <2> SUFFICES ASSUME NEW u \in Loggers, Redirecting(u)'
               PROVE  \E B \in SUBSET Nodes : Searched(u, B)'
    BY <1>11 DEF SearchHolds
  <2>1. u = t
    BY <1>3, <1>11 DEF Redirecting
  <2>2. call'[t].target = g /\ call'[t].cur = NoNode /\ handle'[t] = h
    BY <1>1, <1>10, <1>11
  <2>3. \A n \in A : ParentOf(n)' \in A \cup {NoNode}
    BY <1>20, <1>21, <1>22
  <2>4. Searched(t, A)'
    BY <1>20, <2>2, <2>3 DEF Searched
  <2> QED  BY <2>1, <2>4
<1> QED  BY <1>11, <1>12, <1>16, <1>17, <1>18, <1>23, <1>24 DEF LogInv

\* The target lists the child.
LEMMA AddChildInv ==
    ASSUME LogInv, NEW t \in Loggers, AddChild(t)
    PROVE  LogInv'
<1> SUFFICES ASSUME NEW h, h = handle[t], NEW r, r = call[t].rest, NEW g, g = call[t].target,
                    NEW d, d = Head(r)
             PROVE  LogInv'
  OBVIOUS
<1> DEFINE c == [at |-> "move", use |-> call[t].use, cur |-> call[t].cur, rest |-> Tail(r),
                 target |-> g]
<1>1. /\ call[t].at = "add" /\ children' = [children EXCEPT ![g] = Append(@, d)]
      /\ Goes(t, [call[t] EXCEPT !.at = "move", !.rest = Tail(r)])
      /\ UNCHANGED <<name, parent, handle, moved>>
  BY DEF AddChild
<1>2. Redirecting(t)
  BY <1>1 DEF Redirecting
<1>3. /\ LogTypeOK /\ h \in Nodes /\ h # Root /\ h \in Alive /\ h \in moved
      /\ call[t].use = "redirect" /\ g \in Nodes /\ call[t].cur = NoNode
      /\ \A u \in Loggers \ {t} : call[u].use # "redirect" /\ ~Redirecting(u)
      /\ children \in [Nodes -> Seq(Nodes)] /\ Alive \subseteq Nodes
      /\ parent \in [Nodes -> Nodes \cup {NoNode}] /\ NoNode \notin Nodes
  BY <1>1, <1>2, AloneIs, AliveIs, ParentIs DEF LogTypeOK
<1>4. /\ r \in Seq(Nodes) /\ r # <<>> /\ d \in Nodes /\ d = r[1] /\ 1 \in 1 .. Len(r)
      /\ Tail(r) \in Seq(Nodes)
      /\ \A i \in 1 .. Len(Tail(r)) : i + 1 \in 1 .. Len(r) /\ i + 1 # 1 /\ Tail(r)[i] = r[i + 1]
  <2>1. r \in Seq(Nodes) /\ r # <<>>
    BY <1>1, <1>3 DEF LogTypeOK
  <2> QED  BY <2>1, TailIs
<1>5. /\ Lists(h, Tail(r)) /\ d # Root /\ parent[d] = g
      /\ g \notin moved => \A i \in 1 .. Len(children[g]) : children[g][i] # d
      /\ \A i \in 1 .. Len(r) : r[i] \notin moved
  BY <1>1 DEF LogInv, RestOwn, RestOf
<1>6. /\ children' \in [Nodes -> Seq(Nodes)] /\ children'[g] = Append(children[g], d)
      /\ \A n \in Nodes \ {g} : children'[n] = children[n]
  <2>1. Append(children[g], d) \in Seq(Nodes)
    BY <1>3, <1>4
  <2> QED  BY <1>1, <1>3, <2>1
<1>7. \A n \in Nodes : \A i \in 1 .. Len(children'[n]) :
         \/ n = g /\ children'[n][i] = d
         \/ \E j \in 1 .. Len(children[n]) : children'[n][i] = children[n][j]
  <2> SUFFICES ASSUME NEW n \in Nodes, NEW i \in 1 .. Len(children'[n])
               PROVE  (n = g /\ children'[n][i] = d)
                      \/ \E j \in 1 .. Len(children[n]) : children'[n][i] = children[n][j]
    OBVIOUS
  <2>1. CASE n = g
    <3>1. /\ children[g] \in Seq(Nodes) /\ d \in Nodes
          /\ children'[g] = Append(children[g], d) /\ i \in 1 .. Len(children'[g])
      BY <1>3, <1>4, <1>6, <2>1
    <3>2. children'[g][i] = d \/ \E j \in 1 .. Len(children[g]) : children'[g][i] = children[g][j]
      BY <3>1, AppendIs
    <3> QED  BY <2>1, <3>2
  <2>2. CASE n # g
    <3>1. i \in 1 .. Len(children[n]) /\ children'[n][i] = children[n][i]
      BY <1>6, <2>2
    <3> QED  BY <3>1
  <2> QED  BY <2>1, <2>2
<1>8. Goes(t, c)
  BY <1>1, <1>3, GoesIs
<1>9. c \in [at : CallStates, use : {"none", "lookup", "redirect"},
             cur : Nodes \cup {NoNode}, rest : Seq(STRING) \cup Seq(Nodes),
             target : Nodes \cup {NoNode}]
  BY <1>3, <1>4, HeldIs DEF CallStates
<1>10. /\ c.at = "move" /\ c.use = "redirect" /\ c.cur = NoNode /\ c.rest = Tail(r) /\ c.target = g
  BY <1>3
<1> HIDE DEF c
<1>11. /\ LogTypeOK' /\ Nodes' = Nodes /\ call'[t] = c
       /\ \A u \in Loggers \ {t} : call'[u] = call[u]
  <2>1. /\ UNCHANGED <<name, handle, moved>> /\ LogTypeOK /\ Goes(t, c)
        /\ parent' \in [Nodes -> Nodes \cup {NoNode}] /\ children' \in [Nodes -> Seq(Nodes)]
        /\ c.at \in {"move", "add"} /\ c.target \in Nodes /\ c.rest \in Seq(Nodes)
        /\ c.at = "add" => c.rest # <<>>
    BY <1>1, <1>3, <1>4, <1>6, <1>8, <1>10
  <2> QED  BY <1>9, <2>1, TypesKept
<1>12. OneRedirect'
  BY <1>1, <1>3, <1>10, <1>11, OneKept
<1>13. d \in Alive /\ \A i \in 1 .. Len(r) : r[i] \in Alive
  BY <1>1, <1>4, HeldIs
<1>14. Alive' \subseteq Alive
  <2>1. Alive \in SUBSET Nodes' /\ Root \in Alive
    BY <1>3, <1>11, AliveIs
  <2>2. ASSUME NEW u \in Loggers PROVE Held(u)' \ {NoNode} \subseteq Alive
    <3>1. CASE u # t
      <4>1. Held(u)' = Held(u)
        BY <1>1, <1>11, <3>1 DEF Held
      <4> QED  BY <1>3, <4>1, AliveIs
    <3>2. CASE u = t
      <4>1. Held(t)' = {h, NoNode, g} \cup ToSet(Tail(r))
        BY <1>1, <1>10, <1>11 DEF Held
      <4>2. ToSet(Tail(r)) \subseteq Alive
        BY <1>4, <1>13 DEF ToSet
      <4>3. g \in Alive
        BY <1>2, AloneIs
      <4> QED  BY <1>3, <3>2, <4>1, <4>2, <4>3
    <3> QED  BY <3>1, <3>2
  <2>3. \A n \in Alive : \A i \in 1 .. Len(children'[n]) : children'[n][i] \in Alive
    <3> SUFFICES ASSUME NEW n \in Alive, NEW i \in 1 .. Len(children'[n])
                 PROVE  children'[n][i] \in Alive
      OBVIOUS
    <3>1. children'[n][i] = d \/ \E j \in 1 .. Len(children[n]) : children'[n][i] = children[n][j]
      BY <1>3, <1>7
    <3> QED  BY <1>3, <1>13, <3>1, AliveIs
  <2> QED  BY <1>11, <2>1, <2>2, <2>3, AliveNext
<1>15. \A n : Owns(n)' => n \notin moved /\ Owns(n)
  <2>1. \A u \in Loggers : call'[u].at # "snapshot"
    BY <1>3, <1>10, <1>11 DEF Redirecting
  <2> QED  BY <1>1, <2>1 DEF Owns
<1>16. \A n, s : Lists(n, s)' <=> Lists(n, s)
  BY <1>1 DEF Lists
<1>17. ListsOwn'
  <2> SUFFICES ASSUME NEW n \in Nodes, Owns(n)' PROVE Lists(n, children'[n])
    BY <1>1, <1>11 DEF LogInv, ListsOwn, Lists
  <2>1. n \notin moved /\ Lists(n, children[n])
    BY <1>15 DEF LogInv, ListsOwn
  <2>2. CASE n # g
    BY <1>6, <2>1, <2>2
  <2>3. CASE n = g
    <3>1. \A i \in 1 .. Len(children'[g]) : children'[g][i] # Root /\ parent[children'[g][i]] = g
      <4> SUFFICES ASSUME NEW i \in 1 .. Len(children'[g])
                   PROVE  children'[g][i] # Root /\ parent[children'[g][i]] = g
        OBVIOUS
      <4>1. children'[g][i] = d \/ \E j \in 1 .. Len(children[g]) : children'[g][i] = children[g][j]
        BY <1>3, <1>7
      <4> QED  BY <1>5, <2>1, <2>3, <4>1 DEF Lists
    <3>2. \A i, j \in 1 .. Len(children'[g]) : children'[g][i] = children'[g][j] => i = j
      <4>1. /\ \A i \in 1 .. Len(children[g]) : children[g][i] # d
            /\ \A i, j \in 1 .. Len(children[g]) : children[g][i] = children[g][j] => i = j
        BY <1>5, <2>1, <2>3 DEF Lists
      <4>2. children[g] \in Seq(Nodes) /\ d \in Nodes /\ children'[g] = Append(children[g], d)
        BY <1>3, <1>4, <1>6
      <4>3. PICK s \in Seq(Nodes) : s = children[g]
        BY <4>2
      <4>4. PICK r2 : r2 = children'[g]
        OBVIOUS
      <4>5. r2 = Append(s, d) /\ (\A i \in 1 .. Len(s) : s[i] # d)
            /\ \A i, j \in 1 .. Len(s) : s[i] = s[j] => i = j
        BY <4>1, <4>2, <4>3, <4>4
      <4>6. \A i, j \in 1 .. Len(r2) : r2[i] = r2[j] => i = j
        BY <4>2, <4>5, AppendIs
      <4> QED  BY <4>4, <4>6
    <3> QED  BY <2>3, <3>1, <3>2 DEF Lists
  <2> QED  BY <2>2, <2>3
<1>18. MovedUnlisted'
  <2> SUFFICES ASSUME NEW n \in Alive', Owns(n)', NEW i \in 1 .. Len(children'[n])
               PROVE  children'[n][i] \notin moved
    BY <1>1 DEF MovedUnlisted
  <2>1. n \in Nodes /\ n \in Alive /\ Owns(n)
    BY <1>3, <1>14, <1>15
  <2>2. \A j \in 1 .. Len(children[n]) : children[n][j] \notin moved
    BY <2>1 DEF LogInv, MovedUnlisted
  <2>3. d \notin moved
    BY <1>4, <1>5
  <2> QED  BY <1>7, <2>1, <2>2, <2>3
<1>19. RestOwn'
  <2> SUFFICES ASSUME NEW u \in Loggers PROVE RestOf(u)'
    BY DEF RestOwn
  <2>1. CASE u # t
    BY <1>3, <1>11, <2>1 DEF Redirecting, RestOf
  <2>2. CASE u = t
    <3>1. /\ call'[t].at = "move" /\ call'[t].rest = Tail(r) /\ handle'[t] = h /\ moved' = moved
      BY <1>1, <1>10, <1>11
    <3>2. \A i \in 1 .. Len(Tail(r)) : Tail(r)[i] \notin moved
      BY <1>4, <1>5
    <3> QED  BY <1>1, <1>5, <2>2, <3>1, <3>2 DEF RestOf, Lists
  <2> QED  BY <2>1, <2>2
<1>20. NoCircle' /\ SearchHolds'
  <2>1. NoCircle'
    BY <1>1, <1>3, <1>14, CircleKept DEF LogInv
  <2>2. ASSUME NEW u \in Loggers, Redirecting(u)' PROVE \E A \in SUBSET Nodes : Searched(u, A)'
    <3>1. u = t
      BY <1>3, <1>11, <2>2 DEF Redirecting
    <3>2. PICK A \in SUBSET Nodes : Searched(t, A)
      BY <1>2, AloneIs
    <3>3. UNCHANGED <<handle[t], call[t].cur, call[t].target>>
      BY <1>1, <1>3, <1>10, <1>11
    <3>4. Searched(t, A)'
      BY <1>1, <1>3, <1>14, <3>2, <3>3, CircleKept DEF LogInv
    <3> QED  BY <3>1, <3>4
  <2> QED  BY <1>11, <2>1, <2>2 DEF SearchHolds
<1> QED  BY <1>11, <1>12, <1>17, <1>18, <1>19, <1>20 DEF LogInv

----------------------------------------------------------------------------
LEMMA OneIs ==
    ASSUME NEW S, NEW x \in S
    PROVE  <<x>> \in Seq(S) /\ Len(<<x>>) = 1 /\ <<x>>[1] = x
OBVIOUS

LEMMA LogInit ==
    ASSUME LoggerInit
    PROVE  LogInv
<1>1. /\ name = <<RootName>> /\ parent = <<NoNode>> /\ children = <<<<>>>> /\ moved = {}
      /\ handle = [t \in Loggers |-> Root] /\ call = [t \in Loggers |-> NoCall]
  BY DEF LoggerInit
<1>2. Nodes = {Root} /\ Root = 1 /\ NoNode = 0 /\ children[Root] = <<>> /\ parent[Root] = NoNode
  <2>1. Len(name) = 1 /\ 1 .. 1 = {1} /\ children[1] = <<>> /\ parent[1] = NoNode
    <3>1. name = <<RootName>> /\ children = <<<<>>>> /\ parent = <<NoNode>>
      BY <1>1
    <3>2. 1 .. 1 = {1}
      OBVIOUS
    <3> QED  BY <3>1, <3>2
  <2> QED  BY <2>1 DEF Nodes, Root, NoNode
<1>3. /\ NoCall \in [at : CallStates, use : {"none", "lookup", "redirect"},
                   cur : Nodes \cup {NoNode}, rest : Seq(STRING) \cup Seq(Nodes),
                   target : Nodes \cup {NoNode}]
      /\ NoCall.at = "done" /\ NoCall.use = "none"
  BY DEF NoCall, CallStates
<1> HIDE DEF NoCall
<1>4. LogTypeOK
  <2>1. name \in Seq(STRING \cup {RootName})
    <3>1. RootName \in STRING \cup {RootName}
      OBVIOUS
    <3> QED  BY <1>1, <3>1, OneIs
  <2>2. parent \in [Nodes -> Nodes \cup {NoNode}] /\ children \in [Nodes -> Seq(Nodes)]
    <3>1. NoNode \in Nodes \cup {NoNode} /\ <<>> \in Seq(Nodes) /\ Nodes = 1 .. 1
      <4>1. 1 .. 1 = {1} /\ <<>> \in Seq(Nodes)
        OBVIOUS
      <4> QED  BY <1>2, <4>1
    <3>2. /\ parent \in Seq(Nodes \cup {NoNode}) /\ children \in Seq(Seq(Nodes))
          /\ Len(parent) = 1 /\ Len(children) = 1
      BY <1>1, <3>1, OneIs
    <3> QED  BY <3>1, <3>2, LenProperties
  <2>3. \A t \in Loggers : call[t] = NoCall
    BY <1>1
  <2> QED  BY <1>1, <1>2, <1>3, <2>1, <2>2, <2>3 DEF LogTypeOK, Redirecting
<1>5. \A t \in Loggers : call[t].at = "done" /\ call[t].use = "none"
  BY <1>1, <1>3
<1>6. OneRedirect /\ RestOwn /\ SearchHolds
  BY <1>1, <1>5 DEF OneRedirect, RestOwn, RestOf, SearchHolds, Redirecting
<1>7. ListsOwn
  BY <1>2 DEF ListsOwn, Lists
<1>8. MovedUnlisted
  BY <1>1 DEF MovedUnlisted
<1>9. NoCircle
  <2> SUFFICES ASSUME NEW X \in SUBSET Nodes, X # {} PROVE \E n \in X : ParentOf(n) \notin X
    BY DEF NoCircle
  <2>1. ParentOf(Root) = NoNode
    BY <1>2 DEF ParentOf
  <2>2. Root \in X /\ NoNode \notin X
    <3>1. PICK n \in X : TRUE
      OBVIOUS
    <3>2. n = Root /\ Root \in Nodes /\ NoNode \notin Nodes
      BY <1>2
    <3> QED  BY <3>1, <3>2
  <2> QED  BY <2>1, <2>2
<1> QED  BY <1>4, <1>6, <1>7, <1>8, <1>9 DEF LogInv

LEMMA LogNext ==
    ASSUME LogInv, ~crossed', [LoggerNext]_logVars
    PROVE  LogInv'
<1>1. CASE UNCHANGED logVars
  <2>1. UNCHANGED <<name, parent, children, handle, call, calls, moved>>
    BY <1>1 DEF logVars
  <2>2. Nodes' = Nodes /\ (\A t : Held(t)' = Held(t)) /\ \A X : Closed(X)' = Closed(X)
    BY <2>1 DEF Nodes, Held, Closed
  <2>3. Alive' = Alive
    BY <2>2 DEF Alive, Below
  <2>4. \A n : ParentOf(n)' = ParentOf(n)
    BY <2>1, <2>3 DEF ParentOf
  <2>5. LogTypeOK'
    BY <2>1, <2>2 DEF LogInv, LogTypeOK, Redirecting
  <2>6. OneRedirect'
    BY <2>1 DEF LogInv, OneRedirect, Redirecting
  <2>7. ListsOwn' /\ MovedUnlisted'
    BY <2>1, <2>2, <2>3 DEF LogInv, ListsOwn, MovedUnlisted, Owns, Lists
  <2>8. RestOwn'
    <3> SUFFICES ASSUME NEW u \in Loggers PROVE RestOf(u)'
      BY DEF RestOwn
    <3>1. RestOf(u)
      BY DEF LogInv, RestOwn
    <3>2. call'[u] = call[u] /\ handle'[u] = handle[u] /\ parent' = parent
          /\ children' = children /\ moved' = moved
      BY <2>1
    <3> QED  BY <3>1, <3>2, SMTT(30) DEF RestOf, Lists
  <2>9. NoCircle'
    BY <2>2, <2>4 DEF LogInv, NoCircle
  <2>10. SearchHolds'
    BY <2>1, <2>2, <2>4 DEF LogInv, SearchHolds, Searched, Redirecting
  <2> QED  BY <2>5, <2>6, <2>7, <2>8, <2>9, <2>10 DEF LogInv
<1>2. CASE LoggerNext
  <2>1. PICK t \in Loggers :
          \/ \E path \in Paths : Begin(t, "lookup", path) \/ Begin(t, "redirect", path)
          \/ Walk(t) \/ Arrive(t) \/ SearchCircle(t) \/ Detach(t) \/ Snapshot(t)
          \/ MoveChild(t) \/ AddChild(t) \/ Rebind(t)
    BY <1>2 DEF LoggerNext
  <2>2. ASSUME NEW path \in Paths, Begin(t, "lookup", path) \/ Begin(t, "redirect", path)
        PROVE  LogInv'
    BY <2>2, BeginInv
  <2> QED  BY <2>1, <2>2, WalkInv, ArriveInv, SearchInv, DetachInv, SnapshotInv, MoveChildInv,
              AddChildInv, RebindInv
<1> QED  BY <1>1, <1>2

----------------------------------------------------------------------------
\* The way up from a node.
IsClimb(F, m, n) ==
    F = [k \in 0 .. m |-> IF k = 0 THEN n
                          ELSE IF F[k - 1] = NoNode THEN NoNode ELSE ParentOf(F[k - 1])]

LEMMA ClimbExists ==
    ASSUME NEW m \in Nat, NEW n
    PROVE  \E F : IsClimb(F, m, n)
<1> DEFINE X == {k \in Nat : ~ \E F : IsClimb(F, k, n)}
<1> SUFFICES ASSUME X # {} PROVE FALSE
  OBVIOUS
<1>1. PICK k \in X : \A j \in X : k <= j
  BY Smallest
<1>2. k # 0
  <2>1. IsClimb([i \in 0 .. 0 |-> n], 0, n)
    BY DEF IsClimb
  <2> QED  BY <1>1, <2>1
<1>3. k - 1 \in Nat /\ k - 1 \notin X
  BY <1>1, <1>2
<1>4. PICK F : IsClimb(F, k - 1, n)
  BY <1>3
<1> DEFINE over == IF F[k - 1] = NoNode THEN NoNode ELSE ParentOf(F[k - 1])
           G == [i \in 0 .. k |-> IF i < k THEN F[i] ELSE over]
<1>5. IsClimb(G, k, n)
  <2> HIDE DEF over
  <2>1. ASSUME NEW i \in 0 .. k
        PROVE  G[i] = IF i = 0 THEN n
                      ELSE IF G[i - 1] = NoNode THEN NoNode ELSE ParentOf(G[i - 1])
    <3>1. CASE i = k
      <4>1. G[i] = over /\ G[i - 1] = F[k - 1]
        BY <1>1, <1>2, <3>1
      <4> QED  BY <1>2, <3>1, <4>1 DEF over
    <3>2. CASE i # k
      <4>1. i \in 0 .. k - 1 /\ (i = 0 \/ i - 1 \in 0 .. k) /\ i < k /\ i - 1 < k
        BY <1>1, <3>2
      <4>2. F[i] = IF i = 0 THEN n ELSE IF F[i - 1] = NoNode THEN NoNode ELSE ParentOf(F[i - 1])
        BY <1>4, <4>1 DEF IsClimb
      <4>3. G[i] = F[i] /\ (i # 0 => G[i - 1] = F[i - 1])
        BY <4>1
      <4> QED  BY <4>2, <4>3
    <3> QED  BY <3>1, <3>2
  <2> QED  BY <2>1 DEF IsClimb
<1> QED  BY <1>1, <1>5

LEMMA ClimbIs ==
    ASSUME NEW n, Len(name) \in Nat
    PROVE  /\ Climb(n)[0] = n
           /\ \A k \in 1 .. Len(name) :
                Climb(n)[k] = IF Climb(n)[k - 1] = NoNode THEN NoNode ELSE ParentOf(Climb(n)[k - 1])
<1>1. PICK F : IsClimb(F, Len(name), n)
  BY ClimbExists
<1>2. IsClimb(Climb(n), Len(name), n)
  BY <1>1 DEF IsClimb, Climb
<1> HIDE DEF Climb
<1> QED  BY <1>2 DEF IsClimb

\* Of the numbers of 0 .. n those up to a first that is not among them: how many.
LEMMA UpTo ==
    ASSUME NEW n \in Nat, NEW S \in SUBSET (0 .. n), 0 \in S,
           \A k \in 1 .. n : k \in S => k - 1 \in S
    PROVE  \E l \in 0 .. n : S = 0 .. l /\ Cardinality(S) = l + 1
<1> DEFINE X == {k \in Nat : k \notin S}
<1>1. n + 1 \in X
  OBVIOUS
<1>2. PICK f \in X : \A k \in X : f <= k
  <2>1. X \in SUBSET Nat /\ X # {}
    BY <1>1
  <2> HIDE DEF X
  <2> QED  BY <2>1, Smallest
<1>3. f \in Nat /\ f \notin S /\ f # 0 /\ f <= n + 1 /\ f - 1 \in 0 .. n
  BY <1>1, <1>2
<1>4. 0 .. f - 1 \subseteq S
  BY <1>2, <1>3
<1>5. S \subseteq 0 .. f - 1
  <2> DEFINE Y == {k \in S : k >= f}
  <2> SUFFICES ASSUME Y # {} PROVE FALSE
    BY <1>3
  <2>1. PICK k \in Y : \A j \in Y : k <= j
    <3>1. \A k \in S : k \in Nat
      OBVIOUS
    <3>2. Y \in SUBSET Nat
      BY <3>1
    <3> HIDE DEF Y
    <3> QED  BY <3>2, Smallest
  <2>2. k \in S /\ k > f /\ k \in 1 .. n
    BY <1>3, <2>1
  <2>3. k - 1 \in S /\ k - 1 >= f
    BY <1>3, <2>2
  <2> QED  BY <2>1, <2>3
<1>6. S = 0 .. f - 1
  BY <1>4, <1>5
<1>7. Cardinality(0 .. f - 1) = f
  BY <1>3, FS_Interval
<1> QED  BY <1>3, <1>6, <1>7

\* A message passes no node twice, so not more nodes than there are.
LEMMA PassesIs ==
    ASSUME LogInv, NEW n \in Nodes
    PROVE  \E l \in 0 .. Len(name) - 1 :
             /\ Len(Passes(n)) = l + 1 /\ Last(Passes(n)) = Climb(n)[l]
             /\ \A k \in 0 .. l : Climb(n)[k] \in Nodes
             /\ ParentOf(Climb(n)[l]) = NoNode
<1>1. LogTypeOK /\ Len(name) \in Nat /\ Nodes = 1 .. Len(name) /\ NoNode \notin Nodes
  BY ParentIs, LenProperties DEF LogInv, LogTypeOK, Nodes
<1> DEFINE up == Climb(n)
           L == Len(name)
           steps == {k \in 0 .. L : up[k] # NoNode}
<1>2. /\ up[0] = n
      /\ \A k \in 1 .. L : up[k] = IF up[k - 1] = NoNode THEN NoNode ELSE ParentOf(up[k - 1])
  BY <1>1, ClimbIs
<1>3. Passes(n) = [k \in 1 .. Cardinality(steps) |-> up[k - 1]]
  BY DEF Passes
<1> HIDE DEF up, L
<1>4. L \in Nat
  BY <1>1 DEF L
<1>5. 0 \in steps /\ \A k \in 1 .. L : k \in steps => k - 1 \in steps
  <2>1. 0 \in steps
    BY <1>1, <1>2, <1>4
  <2>2. ASSUME NEW k \in 1 .. L, k \in steps PROVE k - 1 \in steps
    BY <1>2, <1>4, <2>2
  <2> QED  BY <2>1, <2>2
<1>6. PICK l \in 0 .. L : steps = 0 .. l /\ Cardinality(steps) = l + 1
  <2>1. steps \in SUBSET (0 .. L)
    OBVIOUS
  <2> HIDE DEF steps
  <2> QED  BY <1>4, <1>5, <2>1, UpTo
<1>7. \A k \in 0 .. l : up[k] \in Nodes
  <2> SUFFICES ASSUME NEW k \in 0 .. l PROVE up[k] \in Nodes
    OBVIOUS
  <2>1. k \in 0 .. L /\ up[k] # NoNode
    BY <1>4, <1>6
  <2>2. CASE k = 0
    BY <1>2, <2>2
  <2>3. CASE k # 0
    <3>1. k \in 1 .. L /\ k - 1 \in 0 .. l
      BY <1>4, <2>1, <2>3
    <3>2. up[k] = ParentOf(up[k - 1])
      BY <1>2, <2>1, <3>1
    <3>3. Alive \subseteq Nodes
      BY <1>1, AliveIs
    <3> QED  BY <2>1, <3>2, <3>3 DEF ParentOf
  <2> QED  BY <2>2, <2>3
<1>8. ASSUME NEW i \in 0 .. l, NEW j \in 0 .. l, i < j PROVE up[i] # up[j]
  <2> SUFFICES ASSUME up[i] = up[j] PROVE FALSE
    OBVIOUS
  <2> DEFINE X == {up[k] : k \in i .. j - 1}
  <2>1. X \in SUBSET Nodes /\ X # {}
    <3>1. \A k \in i .. j - 1 : k \in 0 .. l
      BY <1>8
    <3>2. i \in i .. j - 1
      BY <1>8
    <3> QED  BY <1>7, <3>1, <3>2
  <2>2. PICK m \in X : ParentOf(m) \notin X
    <3> HIDE DEF X
    <3> QED  BY <2>1 DEF LogInv, NoCircle
  <2>3. PICK k \in i .. j - 1 : m = up[k]
    BY <2>2
  <2>4. k + 1 \in 1 .. L /\ k \in 0 .. l /\ up[k] # NoNode
    BY <1>1, <1>4, <1>7, <1>8
  <2>5. ParentOf(m) = up[k + 1]
    BY <1>2, <2>3, <2>4
  <2>6. up[k + 1] \in X
    <3>1. CASE k + 1 = j
      <4>1. i \in i .. j - 1
        BY <1>8
      <4> QED  BY <3>1, <4>1
    <3>2. CASE k + 1 # j
      <4>1. k + 1 \in i .. j - 1
        BY <1>8, <3>2
      <4> QED  BY <4>1
    <3> QED  BY <3>1, <3>2
  <2> QED  BY <2>2, <2>5, <2>6
<1>9. l + 1 <= L
  <2> DEFINE F == [k \in 0 .. l |-> up[k]]
  <2>1. F \in Injection(0 .. l, Nodes)
    <3>1. F \in [0 .. l -> Nodes]
      BY <1>7
    <3>2. ASSUME NEW i \in 0 .. l, NEW j \in 0 .. l, F[i] = F[j] PROVE i = j
      <4>1. i < j \/ j < i \/ i = j
        OBVIOUS
      <4>2. up[i] = up[j]
        BY <3>2
      <4> QED  BY <1>8, <4>1, <4>2
    <3> HIDE DEF F
    <3> QED  BY <3>1, <3>2 DEF Injection, IsInjective
  <2>2. IsFiniteSet(Nodes) /\ Cardinality(Nodes) = L
    <3>1. Nodes = 1 .. L
      BY <1>1 DEF L
    <3> QED  BY <1>4, <3>1, FS_Interval
  <2>3. IsFiniteSet(0 .. l) /\ Cardinality(0 .. l) = l + 1
    BY <1>4, FS_Interval
  <2> HIDE DEF F
  <2> QED  BY <2>1, <2>2, <2>3, FS_Injection
<1>10. ParentOf(up[l]) = NoNode
  <2>1. l + 1 \in 1 .. L /\ l + 1 \notin steps
    BY <1>4, <1>6, <1>9
  <2>2. up[l + 1] = NoNode
    BY <1>4, <2>1
  <2>3. up[l] # NoNode
    BY <1>1, <1>7
  <2> QED  BY <1>2, <1>4, <2>1, <2>2, <2>3
<1>11. Len(Passes(n)) = l + 1 /\ Last(Passes(n)) = up[l]
  <2>1. Passes(n) = [k \in 1 .. l + 1 |-> up[k - 1]] /\ l + 1 \in Nat
    BY <1>3, <1>4, <1>6
  <2>2. Len(Passes(n)) = l + 1
    BY <2>1
  <2>3. Passes(n)[l + 1] = up[l]
    BY <1>4, <2>1
  <2> QED  BY <2>2, <2>3 DEF Last
<1> QED  BY <1>4, <1>7, <1>9, <1>10, <1>11 DEF up, L

\* The tree below the root has no node that was redirected, each of its nodes is listed
\* by its parent, and its parent is in the tree.
LEMMA TreeIs ==
    ASSUME LogInv
    PROVE  /\ \A n \in InTree : \A i \in 1 .. Len(children[n]) : parent[children[n][i]] = n
           /\ \A n \in InTree : n = Root \/ ParentOf(n) \in InTree
           /\ InTree \subseteq Nodes /\ Root \in InTree
<1>1. /\ LogTypeOK /\ Root \in Nodes /\ Root \notin moved
      /\ children \in [Nodes -> Seq(Nodes)]
  BY DEF LogInv, OneRedirect, LogTypeOK
<1>2. /\ InTree \subseteq Nodes /\ Root \in InTree
      /\ \A n \in InTree : \A i \in 1 .. Len(children[n]) : children[n][i] \in InTree
      /\ \A X \in SUBSET Nodes :
           Root \in X /\ (\A n \in X : \A i \in 1 .. Len(children[n]) : children[n][i] \in X)
           => InTree \subseteq X
  BY <1>1, InTreeIs
<1>3. InTree \subseteq Alive
  <2>1. Alive \in SUBSET Nodes /\ Root \in Alive
        /\ \A n \in Alive : \A i \in 1 .. Len(children[n]) : children[n][i] \in Alive
    BY <1>1, AliveIs
  <2> QED  BY <1>2, <2>1
<1>4. InTree \cap moved = {}
  <2> DEFINE X == InTree \ moved
  <2>1. X \in SUBSET Nodes /\ Root \in X
    BY <1>1, <1>2
  <2>2. ASSUME NEW n \in X, NEW i \in 1 .. Len(children[n]) PROVE children[n][i] \in X
    <3>1. n \in Alive /\ Owns(n)
      BY <1>3 DEF Owns
    <3> QED  BY <1>2, <3>1 DEF LogInv, MovedUnlisted
  <2> HIDE DEF X
  <2>3. InTree \subseteq X
    BY <1>2, <2>1, <2>2
  <2> QED  BY <2>3 DEF X
<1>5. \A n \in InTree : \A i \in 1 .. Len(children[n]) : parent[children[n][i]] = n
  BY <1>2, <1>4 DEF LogInv, ListsOwn, Owns, Lists
<1>6. \A n \in InTree : n = Root \/ parent[n] \in InTree
  <2> DEFINE X == {n \in InTree : n = Root \/ parent[n] \in InTree}
  <2>1. X \in SUBSET Nodes /\ Root \in X
    BY <1>2
  <2>2. ASSUME NEW n \in X, NEW i \in 1 .. Len(children[n]) PROVE children[n][i] \in X
    BY <1>2, <1>5
  <2> HIDE DEF X
  <2>3. InTree \subseteq X
    BY <1>2, <2>1, <2>2
  <2> QED  BY <2>3 DEF X
<1>7. \A n \in InTree : n = Root \/ ParentOf(n) \in InTree
  BY <1>3, <1>6 DEF ParentOf
<1> QED  BY <1>2, <1>5, <1>7

LEMMA SoundOf ==
    ASSUME LogInv
    PROVE  TreeSound
<1>1. LogTypeOK /\ InTree \subseteq Nodes /\ NoNode \notin Nodes /\ Len(name) \in Nat
  BY ParentIs, TreeIs, LenProperties DEF LogInv, LogTypeOK
<1>2. \A n \in Nodes : Len(Passes(n)) <= Len(name)
  BY <1>1, PassesIs
<1>3. ASSUME NEW n \in InTree PROVE Last(Passes(n)) = Root
  <2> DEFINE up == Climb(n)
  <2>1. PICK l \in 0 .. Len(name) - 1 :
          /\ Last(Passes(n)) = up[l] /\ ParentOf(up[l]) = NoNode
          /\ \A k \in 0 .. l : up[k] \in Nodes
    BY <1>1, PassesIs
  <2>2. /\ up[0] = n
        /\ \A k \in 1 .. Len(name) :
             up[k] = IF up[k - 1] = NoNode THEN NoNode ELSE ParentOf(up[k - 1])
    BY <1>1, ClimbIs
  <2> HIDE DEF up
  <2>3. \A k \in 0 .. l : up[k] \in InTree
    <3> DEFINE X == {k \in 0 .. l : up[k] \notin InTree}
    <3> SUFFICES ASSUME X # {} PROVE FALSE
      OBVIOUS
    <3>1. PICK k \in X : /\ k \in 0 .. l
                         /\ k # 0 => k \in 1 .. l /\ k - 1 \in 0 .. l /\ k - 1 \notin X
      <4>1. X \in SUBSET (0 .. l) /\ l \in Nat
        BY <1>1
      <4> HIDE DEF X
      <4> QED  BY <4>1, First
    <3>2. k # 0
      BY <2>2, <3>1
    <3>3. up[k - 1] \in InTree /\ up[k - 1] # NoNode /\ up[k] # NoNode /\ k \in 1 .. Len(name)
      BY <1>1, <2>1, <3>1, <3>2
    <3>4. up[k] = ParentOf(up[k - 1])
      BY <2>2, <3>3
    <3>5. up[k - 1] # Root
      <4>1. ParentOf(Root) = NoNode
        BY DEF ParentOf, LogInv, ListsOwn
      <4> QED  BY <3>3, <3>4, <4>1
    <3> QED  BY <3>1, <3>3, <3>4, <3>5, TreeIs
  <2>4. up[l] \in InTree
    BY <1>1, <2>3
  <2>5. NoNode \notin InTree
    BY <1>1
  <2> QED  BY <2>1, <2>4, <2>5, TreeIs
<1>4. \A n \in InTree \cup {handle[t] : t \in Loggers} : Len(Passes(n)) <= Len(name)
  BY <1>1, <1>2 DEF LogTypeOK
<1> QED  BY <1>3, <1>4, TreeIs DEF TreeSound

\* What has crossed stays so.
LEMMA CrossedStays ==
    ASSUME crossed \in BOOLEAN, [LoggerNext]_logVars
    PROVE  crossed' \in BOOLEAN /\ (~crossed' => ~crossed)
<1>1. CASE LoggerNext
  <2>1. PICK t \in Loggers :
          \/ \E path \in Paths : Begin(t, "lookup", path) \/ Begin(t, "redirect", path)
          \/ Walk(t) \/ Arrive(t) \/ SearchCircle(t) \/ Detach(t) \/ Snapshot(t)
          \/ MoveChild(t) \/ AddChild(t) \/ Rebind(t)
    BY <1>1 DEF LoggerNext
  <2>2. CASE \E path \in Paths : Begin(t, "lookup", path) \/ Begin(t, "redirect", path)
    BY <2>2 DEF Begin
  <2>3. CASE Walk(t) \/ Arrive(t) \/ SearchCircle(t) \/ Detach(t) \/ Snapshot(t)
             \/ MoveChild(t) \/ AddChild(t) \/ Rebind(t)
    BY <2>3 DEF Walk, Arrive, SearchCircle, Detach, Snapshot, MoveChild, AddChild, Rebind
  <2> QED  BY <2>1, <2>2, <2>3
<1>2. CASE UNCHANGED logVars
  BY <1>2 DEF logVars
<1> QED  BY <1>1, <1>2

\* Until a redirect begins while another is under way, or of a node that one has
\* left, the logger tree is sound: each of its nodes is listed by its parent alone,
\* its messages end in the root, and no message goes round in a circle
\* (Logger.cpp:120-175, 331-369).
THEOREM TreeStaysSound == LoggerSpec => []TreeSound
<1> DEFINE Inv == crossed \in BOOLEAN /\ (~crossed => LogInv)
<1>1. LoggerInit => Inv
  BY LogInit DEF LoggerInit
<1>2. Inv /\ [LoggerNext]_logVars => Inv'
  BY LogNext, CrossedStays
<1>3. Inv => TreeSound
  <2>1. LogInv => TreeSound
    BY SoundOf
  <2>2. crossed => TreeSound
    BY DEF TreeSound
  <2> QED  BY <2>1, <2>2
<1> HIDE DEF Inv
<1> QED  BY <1>1, <1>2, <1>3, PTL DEF LoggerSpec
=============================================================================
