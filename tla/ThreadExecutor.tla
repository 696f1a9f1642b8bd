----------------------------- MODULE ThreadExecutor -----------------------------
(***************************************************************************)
(* pp::ThreadExecutor (src/ThreadExecutor.cpp), a serial executor with a   *)
(* thread and timers of its own, and SerialExecutor::RunAndWait            *)
(* (src/SerialExecutor.cpp) on top of its Post.                            *)
(*                                                                         *)
(* A critical section is one step.  Notifications come after the unlock    *)
(* and are steps of their own.  The thread's waits have no predicate: it   *)
(* looks again whenever it wakes, for whatever reason.  Stop is its        *)
(* owner's to call (two joins of one thread are no legal use), and never   *)
(* from a task (ThreadExecutor.h).                                         *)
(***************************************************************************)
EXTENDS SequencesExt, Integers, FiniteSets, SeqFilter

CONSTANTS
  Clients,   \* threads that post, schedule and cancel
  Callers,   \* threads that call RunAndWait, each for the task of its name
  Keeper,    \* the client that stops the executor
  Own,       \* the executor's thread, whose tasks make a client's calls
  Posts,     \* what is given to Post
  Timers,    \* what is given to PostAfter
  Delays,
  MaxTime    \* bound on the clock

ASSUME ThreadsAssumption ==
  /\ Keeper \in Clients /\ Own \notin Clients \cup Callers
ASSUME TasksAssumption ==
  /\ IsFiniteSet(Timers)
  /\ Posts \cap Timers = {} /\ (Posts \cup Timers) \cap Callers = {}
ASSUME TimeAssumption == Delays \subseteq Nat /\ MaxTime \in Nat

Threads == Clients \cup Callers \cup {Own}
Items == Posts \cup Timers \cup Callers
Never == -1

VARIABLES
  now,        \* the steady clock
  stopped,    \* stopped_
  queue,      \* tasks_
  deadlines,  \* ids in deadlines_, those of cancelled timers among them
  when, id,   \* of each timer, its deadline and its id, 0 before PostAfter
  fate,       \* where each task is; the timers_ map holds the "armed" ones
  loop,       \* the thread: look, asleep, run, exited
  until,      \* the deadline it sleeps to, Never for none
  dropped,    \* Stop's local deque
  call,       \* what a thread has still to do in a call
  refused,    \* history: callers whose post found the executor stopped
  missed      \* history: timers cancelled when queued and not started

timerVars == <<deadlines, when, id>>
threadVars == <<loop, until>>
historyVars == <<refused, missed>>
vars == <<now, stopped, queue, timerVars, fate, threadVars, dropped, call, historyVars>>

InCode(t) == call[t] = "none" /\ (t = Own => loop = "run")
Settled(k) == fate[k] \in {"ran", "dropped"}

Init ==
  /\ now = 0 /\ stopped = FALSE
  /\ queue = <<>> /\ deadlines = {} /\ dropped = <<>>
  /\ when = [k \in Timers |-> 0] /\ id = [k \in Timers |-> 0]
  /\ fate = [k \in Items |-> "new"]
  /\ loop = "look" /\ until = Never
  /\ call = [t \in Threads |-> "none"]
  /\ refused = {} /\ missed = {}

Tick ==
  /\ now < MaxTime /\ now' = now + 1
  /\ UNCHANGED <<stopped, queue, timerVars, fate, threadVars, dropped, call, historyVars>>

--------------------------------------------------------------------------------
(* Posting. *)

\* Mutant for ImplementsMailbox: a post overtakes those queued.
OfferFront(t, k, announce, next) ==
  /\ InCode(t) /\ fate[k] = "new"
  /\ fate' = [fate EXCEPT ![k] = IF stopped THEN "dropped" ELSE "queued"]
  /\ queue' = IF stopped THEN queue ELSE <<k>> \o queue
  /\ call' = [call EXCEPT ![t] = IF stopped THEN next ELSE announce]
  /\ UNCHANGED <<now, stopped, timerVars, threadVars, dropped, missed>>

\* Post(k), then on to pc `next`: queued and announced, or destroyed here.
Offer(t, k, announce, next) ==
  /\ InCode(t) /\ fate[k] = "new"
  /\ fate' = [fate EXCEPT ![k] = IF stopped THEN "dropped" ELSE "queued"]
  /\ queue' = IF stopped THEN queue ELSE Append(queue, k)
  /\ call' = [call EXCEPT ![t] = IF stopped THEN next ELSE announce]
  /\ UNCHANGED <<now, stopped, timerVars, threadVars, dropped, missed>>

Post(t, k) ==
  /\ Offer(t, k, "notify", "none")
  /\ UNCHANGED refused

\* RunAndWait from another thread: the posted ticket settles the rendezvous when
\* its task has run, or when it is destroyed unrun.
RunAndWait(c) ==
  /\ Offer(c, c, "notifyWait", "wait")
  /\ refused' = IF stopped THEN refused \cup {c} ELSE refused

\* Mutant for EverythingHappens: arming a timer does not wake the thread.
PostAfterQuiet(t, k, delay) ==
  /\ InCode(t) /\ fate[k] = "new" /\ ~stopped
  /\ id' = [id EXCEPT ![k] = 1 + Cardinality({j \in Timers : id[j] # 0})]
  /\ when' = [when EXCEPT ![k] = now + delay]
  /\ deadlines' = deadlines \cup {k}
  /\ fate' = [fate EXCEPT ![k] = "armed"]
  /\ UNCHANGED <<now, stopped, queue, threadVars, dropped, call, historyVars>>

PostAfter(t, k, delay) ==
  /\ InCode(t) /\ fate[k] = "new"
  /\ IF stopped
       THEN /\ fate' = [fate EXCEPT ![k] = "dropped"]
            /\ UNCHANGED <<timerVars, call>>
       ELSE /\ id' = [id EXCEPT ![k] = 1 + Cardinality({j \in Timers : id[j] # 0})]
            /\ when' = [when EXCEPT ![k] = now + delay]
            /\ deadlines' = deadlines \cup {k}
            /\ fate' = [fate EXCEPT ![k] = "armed"]
            /\ call' = [call EXCEPT ![t] = "notify"]
  /\ UNCHANGED <<now, stopped, queue, threadVars, dropped, historyVars>>

\* CancelTimer destroys an armed timer and does not find one already queued.
CancelTimer(t, k) ==
  /\ InCode(t) /\ ~stopped
  /\ \/ /\ fate[k] = "armed"
        /\ fate' = [fate EXCEPT ![k] = "cancelled"] /\ UNCHANGED missed
     \/ /\ fate[k] = "queued" /\ k \notin missed
        /\ missed' = missed \cup {k} /\ UNCHANGED fate
  /\ UNCHANGED <<now, stopped, queue, timerVars, threadVars, dropped, call, refused>>

AfterNotify == [notify |-> "none", notifyWait |-> "wait", notifyStop |-> "join"]

\* notify_one: the thread is the only one that waits.
Notify(t) ==
  /\ call[t] \in DOMAIN AfterNotify
  /\ loop' = IF loop = "asleep" THEN "look" ELSE loop
  /\ call' = [call EXCEPT ![t] = AfterNotify[@]]
  /\ UNCHANGED <<now, stopped, queue, timerVars, fate, until, dropped, historyVars>>

\* Rendezvous::Wait ends: done, or the caller runs the task itself.
WaitEnds(c) ==
  /\ call[c] = "wait" /\ Settled(c)
  /\ call' = [call EXCEPT ![c] = IF fate[c] = "ran" THEN "none" ELSE "standin"]
  /\ UNCHANGED <<now, stopped, queue, timerVars, fate, threadVars, dropped, historyVars>>

StandInEnds(c) ==
  /\ call[c] = "standin"
  /\ call' = [call EXCEPT ![c] = "none"]
  /\ UNCHANGED <<now, stopped, queue, timerVars, fate, threadVars, dropped, historyVars>>

--------------------------------------------------------------------------------
(* Run. *)

\* The order of deadlines_.
Earlier(j, k) == when[j] < when[k] \/ (when[j] = when[k] /\ id[j] < id[k])

\* QueueDueTimersLocked: the due ids leave the set, and those still armed are
\* queued in its order.
Due == {k \in deadlines : when[k] <= now}
DueArmed == {k \in Due : fate[k] = "armed"}

\* The enumerations of S that keep an order: one, if the order is total.
InOrder(S, Precedes(_, _)) ==
  {s \in [1..Cardinality(S) -> S] :
     /\ ToSet(s) = S
     /\ \A m, n \in 1..Cardinality(S) : m < n => Precedes(s[m], s[n])}

\* Mutant for DeadlineOrder: due timers are queued in the order of their ids.
FiredByCall == InOrder(DueArmed, LAMBDA j, k : id[j] < id[k])

Fired == InOrder(DueArmed, Earlier)

\* One look at the state under the lock: take a task, or wait for the next
\* deadline, or for ever.
Look ==
  /\ loop = "look" /\ ~stopped
  /\ deadlines' = deadlines \ Due
  /\ \E fired \in Fired :
     LET all == queue \o fired
         armed == [k \in Items |-> IF k \in DueArmed THEN "queued" ELSE fate[k]]
         left == deadlines \ Due
     IN  IF all # <<>>
           THEN /\ queue' = Tail(all) /\ loop' = "run" /\ until' = Never
                /\ fate' = [armed EXCEPT ![Head(all)] = "running"]
           ELSE /\ loop' = "asleep"
                /\ until' = IF left = {} THEN Never
                            ELSE CHOOSE d \in {when[k] : k \in left} :
                                   \A k \in left : d <= when[k]
                /\ UNCHANGED <<queue, fate>>
  /\ UNCHANGED <<now, stopped, when, id, dropped, call, historyVars>>

Exit ==
  /\ loop = "look" /\ stopped
  /\ loop' = "exited" /\ until' = Never
  /\ UNCHANGED <<now, stopped, queue, timerVars, fate, dropped, call, historyVars>>

\* The wait's deadline.
TimedOut ==
  /\ loop = "asleep" /\ until # Never /\ until <= now
  /\ loop' = "look"
  /\ UNCHANGED <<now, stopped, queue, timerVars, fate, until, dropped, call, historyVars>>

SpuriousWake ==
  /\ loop = "asleep" /\ loop' = "look"
  /\ UNCHANGED <<now, stopped, queue, timerVars, fate, until, dropped, call, historyVars>>

\* The task returns or throws; either way its ticket settles as run.
EndTask(k) ==
  /\ InCode(Own) /\ fate[k] = "running"
  /\ fate' = [fate EXCEPT ![k] = "ran"]
  /\ loop' = "look"
  /\ UNCHANGED <<now, stopped, queue, timerVars, until, dropped, call, historyVars>>

--------------------------------------------------------------------------------
(* Stop. *)

\* The queue and the armed timers move to Stop's locals.
Stop ==
  /\ InCode(Keeper)
  /\ stopped' = TRUE
  /\ dropped' = queue /\ queue' = <<>> /\ deadlines' = {}
  /\ call' = [call EXCEPT ![Keeper] = "notifyStop"]
  /\ UNCHANGED <<now, when, id, fate, threadVars, historyVars>>

\* Mutant for RestAfterStop: Stop drops the queue before it has joined the thread.
Detached ==
  /\ call[Keeper] = "join"
  /\ call' = [call EXCEPT ![Keeper] = "drop"]
  /\ UNCHANGED <<now, stopped, queue, timerVars, fate, threadVars, dropped, historyVars>>

Joined ==
  /\ call[Keeper] = "join" /\ loop = "exited"
  /\ call' = [call EXCEPT ![Keeper] = "drop"]
  /\ UNCHANGED <<now, stopped, queue, timerVars, fate, threadVars, dropped, historyVars>>

\* The locals are destroyed, the timers first, and with them the tasks.
DropTimers ==
  /\ call[Keeper] = "drop" /\ \E k \in Timers : fate[k] = "armed"
  /\ fate' = [k \in Items |-> IF fate[k] = "armed" THEN "dropped" ELSE fate[k]]
  /\ UNCHANGED <<now, stopped, queue, timerVars, threadVars, dropped, call, historyVars>>

DropTasks ==
  /\ call[Keeper] = "drop" /\ \A k \in Timers : fate[k] # "armed"
  /\ IF dropped = <<>>
       THEN /\ call' = [call EXCEPT ![Keeper] = "none"]
            /\ UNCHANGED <<dropped, fate>>
       ELSE /\ fate' = [fate EXCEPT ![Head(dropped)] = "dropped"]
            /\ dropped' = Tail(dropped) /\ UNCHANGED call
  /\ UNCHANGED <<now, stopped, queue, timerVars, threadVars, historyVars>>

--------------------------------------------------------------------------------
ThreadStep == Look \/ Exit \/ TimedOut \/ \E k \in Items : EndTask(k)
CallStep(t) == Notify(t) \/ (t \in Callers /\ (WaitEnds(t) \/ StandInEnds(t)))
StopStep == Joined \/ DropTimers \/ DropTasks

Next ==
  \/ \E t \in Clients \cup {Own} :
       \/ \E k \in Posts : Post(t, k)
       \/ \E k \in Timers : CancelTimer(t, k) \/ \E d \in Delays : PostAfter(t, k, d)
  \/ \E t \in Threads : CallStep(t)
  \/ \E c \in Callers : RunAndWait(c)
  \/ ThreadStep \/ SpuriousWake
  \/ Stop \/ StopStep
  \/ Tick

Spec == Init /\ [][Next]_vars

\* The thread is scheduled and its tasks end; a call that began goes on.  Neither
\* the clock nor a stop is relied on.
Fairness ==
  /\ WF_vars(ThreadStep) /\ WF_vars(StopStep)
  /\ \A t \in Threads : WF_vars(CallStep(t))

FairSpec == Spec /\ Fairness

--------------------------------------------------------------------------------
TypeOK ==
  /\ now \in 0..MaxTime /\ stopped \in BOOLEAN
  /\ queue \in Seq(Items) /\ dropped \in Seq(Items)
  /\ deadlines \subseteq Timers
  /\ when \in [Timers -> Nat] /\ id \in [Timers -> Nat]
  /\ fate \in [Items -> {"new", "armed", "queued", "running", "ran", "cancelled",
                         "dropped"}]
  /\ loop \in {"look", "asleep", "run", "exited"} /\ until \in Nat \cup {Never}
  /\ loop = "run" <=> \E k \in Items : fate[k] = "running"
  /\ call \in [Threads -> {"none", "notify", "notifyWait", "notifyStop", "wait",
                           "standin", "join", "drop"}]
  /\ refused \subseteq Callers /\ missed \subseteq Timers

Left(k) == fate[k] \in {"queued", "running", "ran"}

\* Timers leave for the queue no earlier than their deadline and in the order of
\* their deadlines, equal ones in the order of the calls, also those armed while
\* others fire; and they keep that order in the queue.
DeadlineOrder ==
  /\ \A j \in Timers : Left(j) => when[j] <= now
  /\ \A j, k \in Timers : Left(j) /\ fate[k] = "armed" => Earlier(j, k)
  /\ \A m, n \in 1..Len(queue) :
       m < n /\ {queue[m], queue[n]} \subseteq Timers => Earlier(queue[m], queue[n])

\* A Stop that has returned, and a caller that stands in because Stop dropped its
\* queued task, can rely on it that the thread is gone and will start nothing.
RestAfterStop ==
  /\ stopped /\ call[Keeper] = "none" =>
       /\ loop = "exited"
       /\ \A k \in Items : fate[k] \notin {"armed", "queued", "running"}
  /\ \A c \in Callers : call[c] = "standin" /\ c \notin refused => loop = "exited"

\* Without its timers, the executor is a serial mailbox: tasks start in the order
\* posted, once, one at a time, or are dropped.
Plain == Items \ Timers
Mailbox == INSTANCE SerialMailbox WITH
  Tasks <- Plain, Jumps <- FALSE,
  serial <- TRUE, open <- ~stopped,
  queue <- Kept(queue \o dropped, Plain),
  running <- {k \in Plain : fate[k] = "running"},
  fate <- [k \in Plain |-> fate[k]]
ImplementsMailbox == Mailbox!Spec

\* What is queued settles, a timer that is due leaves, and RunAndWait and Stop
\* return.
EverythingHappens ==
  /\ \A k \in Items : fate[k] = "queued" ~> Settled(k)
  /\ \A k \in Timers : fate[k] = "armed" /\ when[k] <= now ~> fate[k] # "armed"
  /\ \A t \in Callers \cup {Keeper} : call[t] # "none" ~> call[t] = "none"

\* What SerialExecutor.h says of CancelTimer: the timer does not run, unless it
\* already started.
CancelIsFinal == \A k \in missed : fate[k] \notin {"running", "ran"}
================================================================================
