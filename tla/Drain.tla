-------------------------------- MODULE Drain --------------------------------
(***************************************************************************)
(* AppRuntime::DrainWorkersThenUI (AppRuntime.cpp:105-124, 411-441): the   *)
(* UI thread sends a barrier through the worker pool's Critical and Normal *)
(* lanes, every owner in the order of their ids and its own mailbox, and   *)
(* runs its mailbox, and the owners that have no thread, until the barrier *)
(* is back or the budget is spent.                                         *)
(*                                                                         *)
(* A job has a route: its task at each hop posts the next one before it    *)
(* returns. The barrier is such an item too. The mailboxes are first in,   *)
(* first out and the pool's Critical lane goes first (PriorityMailbox,     *)
(* SerialMailbox); the gate decides by GateRules; the owners may be        *)
(* unregistered and stopped and the gate closed meanwhile.                 *)
(***************************************************************************)
EXTENDS GateRules, Integers, Sequences, SequencesExt

CONSTANTS WorkerCount, \* the pool's threads, two at least
          OwnerCount,  \* registered owners
          Jobs,
          Routes       \* the sequences of places a job may go through

VARIABLES gate,      \* the teardown gate's state
          owners,    \* registered owners
          manual,    \* the owners have no thread
          mail,      \* place -> its queue
          task,      \* thread -> the item whose task it runs, or "none"
          route, hop,\* of each job: its route, how many hops it was posted for
          aim,       \* where a barrier's task is about to post the next one
          pass,      \* of who pumps: the manual owner whose RunPending it is in, or itself
          drain,     \* where the UI thread is in DrainWorkersThenUI
          done,      \* the local the barrier sets
          late,      \* history: it was set after the call had returned
          atCall     \* history: the hop of each job when the drain began

drainVars == <<gate, owners, manual, mail, task, route, hop, aim, pass, drain, done, late,
               atCall>>

\* The places, in the order of the barrier; a thread that serves one place only has
\* its name.
Critical == 1
Normal == 2
OwnerIds == 3 .. OwnerCount + 2
UI == OwnerCount + 3
Places == 1 .. UI
Workers == -WorkerCount .. -1
Other == 0    \* a thread elsewhere that calls RunOwnerTasks, or quiesces
Pumps == {UI, Other}
Crew == Workers \cup OwnerIds \cup Pumps
Barrier == "barrier"
NoAim == <<"none", 0>>

\* A job goes somewhere, and is no barrier.
ASSUME DrainAssumption == /\ WorkerCount \in Nat /\ OwnerCount \in Nat
                          /\ Routes \subseteq Seq(Places) \ {<<>>}
                          /\ Barrier \notin Jobs /\ "none" \notin Jobs

DrainInit ==
  /\ gate = "Open" /\ owners = OwnerIds /\ manual \in BOOLEAN
  /\ mail = [p \in Places |-> <<>>]
  /\ task = [t \in Crew |-> "none"]
  /\ route \in [Jobs -> Routes] /\ hop = [j \in Jobs |-> 0]
  /\ aim = NoAim /\ pass = [t \in Pumps |-> t]
  /\ drain = "none" /\ done = FALSE /\ late = FALSE
  /\ atCall = [j \in Jobs |-> 0]

--------------------------------------------------------------------------------
\* A place takes what is posted to it: PostTo looks the owner up, and what it pushes
\* to one that was unregistered since is as good as pushed before.
Takes(p, depth) == AcceptsPost(gate, depth) /\ (p \in OwnerIds => p \in owners)

Deliver(i, p, depth) ==
  mail' = IF Takes(p, depth) THEN [mail EXCEPT ![p] = Append(@, i)] ELSE mail

\* Someone posts a job.
PostJob(j) ==
  /\ hop[j] = 0 /\ hop' = [hop EXCEPT ![j] = 1]
  /\ Deliver(j, route[j][1], 0)
  /\ UNCHANGED <<gate, owners, manual, task, route, aim, pass, drain, done, late, atCall>>

\* RunOwnerTasks looks a manual owner up and a pass over it begins, in the drain or
\* on the other thread; it ends when the mailbox is empty.
StartPass(t, o) ==
  /\ pass[t] = t /\ task[t] = "none" /\ (t = UI => drain = "waiting")
  /\ manual /\ o \in owners
  /\ pass' = [pass EXCEPT ![t] = o]
  /\ UNCHANGED <<gate, owners, manual, mail, task, route, hop, aim, drain, done, late, atCall>>

EndPass(t) ==
  /\ pass[t] # t /\ task[t] = "none" /\ mail[pass[t]] = <<>>
  /\ pass' = [pass EXCEPT ![t] = t]
  /\ UNCHANGED <<gate, owners, manual, mail, task, route, hop, aim, drain, done, late, atCall>>

\* Where a thread takes its tasks from: the pool's lanes in their order, an
\* owner's mailbox by its own thread, until it is stopped, or in a pass, and on the UI
\* thread the UI's, whether a frame or the drain runs it.
Serves(t, p) ==
  \/ t \in Workers /\ p = Critical
  \/ t \in Workers /\ p = Normal /\ mail[Critical] = <<>>
  \/ t \in Pumps /\ p = pass[t]
  \/ t = p /\ t \in OwnerIds /\ ~manual

\* The gate's wrapper is called: the task starts, or is skipped.
TakeTask(t) ==
  /\ task[t] = "none"
  /\ \E p \in Places :
       /\ Serves(t, p) /\ mail[p] # <<>>
       /\ mail' = [mail EXCEPT ![p] = Tail(@)]
       /\ IF MayRun(Posted, gate, 0, 0)
          THEN /\ task' = [task EXCEPT ![t] = Head(mail[p])]
               /\ aim' = IF Head(mail[p]) = Barrier THEN <<"start", p>> ELSE aim
          ELSE UNCHANGED <<task, aim>>
  /\ UNCHANGED <<gate, owners, manual, route, hop, pass, drain, done, late, atCall>>

\* A job's task posts its next hop and returns.
FinishJob(t) ==
  LET j == task[t] IN
  /\ j \in Jobs
  /\ IF hop[j] < Len(route[j])
     THEN /\ Deliver(j, route[j][hop[j] + 1], 1)
          /\ hop' = [hop EXCEPT ![j] = @ + 1]
     ELSE UNCHANGED <<mail, hop>>
  /\ task' = [task EXCEPT ![t] = "none"]
  /\ UNCHANGED <<gate, owners, manual, route, aim, pass, drain, done, late, atCall>>

--------------------------------------------------------------------------------
(* The barrier. *)

\* PostThroughOwners: the first registered owner from an id on, else the UI.
NextOwner(from) ==
  LET there == {o \in owners : o >= from}
  IN  IF there = {} THEN UI ELSE CHOOSE o \in there : \A q \in there : o <= q

\* Mutant for DrainedIsTaken: from the Critical lane straight to the owners.
AfterSkipsNormal(p) == NextOwner(p + 1)

\* What the barrier's task at a place posts to.
After(p) == IF p = Critical THEN Normal ELSE NextOwner(p + 1)

Aim(t) ==
  /\ task[t] = Barrier /\ aim[1] = "start" /\ aim[2] # UI
  /\ aim' = <<"to", After(aim[2])>>
  /\ UNCHANGED <<gate, owners, manual, mail, task, route, hop, pass, drain, done, late, atCall>>

\* PostToOrRun: a posted task, or where the owner is gone the same search from
\* here; between that check and PostTo's own the owner may go, too, and the
\* barrier is dropped.
Check(t) ==
  /\ task[t] = Barrier /\ aim[1] = "to"
  /\ aim' = IF aim[2] \in OwnerIds \ owners THEN <<"to", NextOwner(aim[2] + 1)>>
            ELSE <<"post", aim[2]>>
  /\ UNCHANGED <<gate, owners, manual, mail, task, route, hop, pass, drain, done, late, atCall>>

PostBarrier(t) ==
  /\ task[t] = Barrier /\ aim[1] = "post"
  /\ Deliver(Barrier, aim[2], 1)
  /\ task' = [task EXCEPT ![t] = "none"]
  /\ aim' = NoAim
  /\ UNCHANGED <<gate, owners, manual, route, hop, pass, drain, done, late, atCall>>

\* The last callable sets done, wherever the call is by now.
SetDone(t) ==
  /\ task[t] = Barrier /\ aim = <<"start", UI>>
  /\ done' = TRUE /\ late' = (drain # "waiting")
  /\ task' = [task EXCEPT ![t] = "none"]
  /\ aim' = NoAim
  /\ UNCHANGED <<gate, owners, manual, mail, route, hop, pass, drain, atCall>>

--------------------------------------------------------------------------------
(* The call, on the UI thread between two tasks. *)

BeginDrain ==
  /\ drain = "none" /\ task[UI] = "none"
  /\ IF gate # "Open"
     THEN drain' = "quiesced" /\ UNCHANGED mail
     ELSE drain' = "waiting" /\ Deliver(Barrier, Critical, 0)
  /\ atCall' = [j \in Jobs |-> hop[j]]
  /\ UNCHANGED <<gate, owners, manual, task, route, hop, aim, pass, done, late>>

\* done is seen; a last RunUITasks has emptied the mailbox.
ReturnTrue ==
  /\ drain = "waiting" /\ task[UI] = "none" /\ pass[UI] = UI /\ done /\ mail[UI] = <<>>
  /\ drain' = "true"
  /\ UNCHANGED <<gate, owners, manual, mail, task, route, hop, aim, pass, done, late, atCall>>

\* The budget is spent; the last RunUITasks may have set done.
ReturnFalse ==
  /\ drain = "waiting" /\ task[UI] = "none" /\ pass[UI] = UI /\ mail[UI] = <<>>
  /\ drain' = "false"
  /\ UNCHANGED <<gate, owners, manual, mail, task, route, hop, aim, pass, done, late, atCall>>

--------------------------------------------------------------------------------
(* Meanwhile. *)

\* StopOwnerThreads takes all owners out of their slots at once; they work on.
SwapOwnersOut ==
  /\ owners # {} /\ owners' = {}
  /\ UNCHANGED <<gate, manual, mail, task, route, hop, aim, pass, drain, done, late, atCall>>

\* Then it stops one after the other: the mailbox is emptied and a thread joined.
StopSwappedOwner(o) ==
  /\ owners = {} /\ \A q \in OwnerIds : q < o => mail[q] = <<>> /\ (manual \/ task[q] = "none")
  /\ mail' = [mail EXCEPT ![o] = <<>>]
  /\ UNCHANGED <<gate, owners, manual, task, route, hop, aim, pass, drain, done, late, atCall>>

\* Another thread's QuiesceForTeardown.
AdvanceGate ==
  /\ gate # "Closed" /\ gate' = (IF gate = "Open" THEN "Draining" ELSE "Closed")
  /\ UNCHANGED <<owners, manual, mail, task, route, hop, aim, pass, drain, done, late, atCall>>

ThreadStep(t) == TakeTask(t) \/ FinishJob(t) \/ Aim(t) \/ Check(t) \/ PostBarrier(t)
                 \/ SetDone(t)

DrainNext ==
  \/ \E j \in Jobs : PostJob(j)
  \/ \E t \in Crew : ThreadStep(t)
  \/ BeginDrain \/ ReturnTrue \/ ReturnFalse
  \/ \E t \in Pumps : EndPass(t) \/ \E o \in OwnerIds : StartPass(t, o)
  \/ SwapOwnersOut \/ \E o \in OwnerIds : StopSwappedOwner(o)
  \/ AdvanceGate

DrainSpec == DrainInit /\ [][DrainNext]_drainVars

--------------------------------------------------------------------------------
Waiting(j) == \E p \in Places : Contains(mail[p], j)
Running(j) == \E t \in Crew : task[t] = j
Over(j) == hop[j] > 0 /\ ~Waiting(j) /\ ~Running(j)

\* The last hop of j's route up to which it only goes the barrier's way.
Forward(j, from) ==
  LET r == route[j]
      ways == {n \in from .. Len(r) : \A i \in from .. n - 1 : r[i] < r[i + 1]}
  IN  CHOOSE n \in ways : \A m \in ways : m <= n

\* When the barrier came back in time, a job posted before the call has left the
\* mailbox it then was in; and one that was past the workers by then, with an
\* owner or in the UI's mailbox, has ended, and so have those it posted the
\* barrier's way. Of an owner's jobs both hold only if none was unregistered
\* meanwhile, for the barrier goes past one that is gone from its slot and has yet to
\* be stopped; and the second only of owners with threads: a manual owner's job may
\* run on another thread that the drain knows nothing of. The pool has two threads
\* at least: one may still be running a job that the barrier passed by on the other
\* (AppRuntime.cpp:105-137, 422-440).
DrainedIsTaken ==
  drain = "true" =>
    \A j \in Jobs : atCall[j] > 0 =>
      LET there == route[j][atCall[j]]
          kept == owners = OwnerIds
      IN  /\ Waiting(j) /\ (there \in OwnerIds => kept) => hop[j] > atCall[j]
          /\ there > Normal /\ kept /\ ~manual => Over(j) \/ hop[j] > Forward(j, atCall[j])

\* "Wait until Critical then Normal worker lanes, then every owner, have drained
\* past a barrier [...] so work posted before a component's teardown has finished
\* before the component is destroyed" (AppRuntime.h:74-79).
DrainedIsFinished ==
  drain = "true" => \A j \in Jobs : atCall[j] > 0 => ~(Running(j) /\ hop[j] = atCall[j])

\* The barrier's callables refer to the call's local: none runs after the call
\* (AppRuntime.cpp:421-436).
DoneOutlivesBarrier == ~late
=============================================================================
