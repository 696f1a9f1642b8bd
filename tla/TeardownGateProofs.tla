--------------------------- MODULE TeardownGateProofs ---------------------------
(***************************************************************************)
(* What the teardown gate promises, for any number of threads and tasks.   *)
(*                                                                         *)
(* The argument rests on counting: the gate's two counters are the sizes   *)
(* of two sets (AccountingExact), and the frames of one thread are a       *)
(* subset of all frames, so the drain loop's running <= own_depth with     *)
(* pending = 0 says that every frame is the caller's own.                  *)
(***************************************************************************)
EXTENDS TeardownGate, FiniteSetTheorems, TLAPS

\* Where a QuiesceForTeardown's local state can be, given the gate's: unless it was
\* reopened, the gate is draining, or another call has closed it.
Phases ==
  \A t \in Threads :
    /\ phase[t] # "none" /\ ~overtaken[t] => gstate # "Open"
    /\ phase[t] = "draining" => depth[t] >= ownDepth[t]

\* A post is settled once its wrapper was called, and only then.
SettledOnce ==
  /\ \A k \in Posts : settled[k] <=> status[k] \in {"running", "over"}
  /\ \A k \in Tasks : status[k] = "over" => k \in Posts

\* Quiet is reached when the drain loop's test succeeds, before Closed is set, and
\* kept unless the gate is reopened in between.
DrainedIsQuiet ==
  \A t \in Threads : phase[t] = "closing" /\ drained[t] /\ ~overtaken[t] => Quiet(t)

\* A caller that was told "drained" is quiet, and the gate is closed.
AnsweredIsClosed == \A t \in Threads : answer[t] = "drained" => gstate = "Closed"

\* The epoch a live wrapper captured dates it against the finished teardowns.
Dated ==
  \A k \in Tasks : status[k] # "idle" =>
    /\ stamp[k] <= epoch
    /\ stamp[k] = epoch /\ gstate # "Closed" => born[k] = closings

\* A post that the gate would discard is behind a late teardown.
Behind ==
  \A k \in Unsettled :
    /\ born[k] <= closings
    /\ gstate = "Closed" \/ stamp[k] # epoch => lastLate > born[k]

Inv ==
  /\ TypeOK /\ AccountingExact /\ Phases /\ SettledOnce
  /\ DrainedIsQuiet /\ AnsweredIsClosed /\ DrainedMeansQuiet
  /\ Dated /\ Behind

--------------------------------------------------------------------------------
\* Sets of tasks are finite, so their sizes are naturals.
LEMMA TaskSets ==
  ASSUME NEW S \in SUBSET Tasks
  PROVE  IsFiniteSet(S) /\ Cardinality(S) \in Nat
<1>1. IsFiniteSet(Tasks)
  BY TasksAssumption, FS_Union DEF Tasks
<1>2. IsFiniteSet(S)
  BY <1>1, FS_Subset
<1> QED
  BY <1>2, FS_CardinalityType

\* The sets that the counters count are sets of tasks.
LEMMA CountedSets ==
  /\ Unsettled \in SUBSET Tasks
  /\ Running \in SUBSET Tasks
  /\ \A t \in Threads : RunningOn(t) \in SUBSET Running
BY DEF Unsettled, Running, RunningOn, Tasks

\* Adding a task that was not there, and removing one that was.
LEMMA AddTask ==
  ASSUME NEW S \in SUBSET Tasks, NEW k \in Tasks, k \notin S
  PROVE  Cardinality(S \cup {k}) = Cardinality(S) + 1
BY TaskSets, FS_AddElement

LEMMA RemoveTask ==
  ASSUME NEW S \in SUBSET Tasks, NEW k \in Tasks, k \in S
  PROVE  Cardinality(S \ {k}) = Cardinality(S) - 1 /\ Cardinality(S) \in Nat \ {0}
<1>1. IsFiniteSet(S) /\ Cardinality(S) \in Nat
  BY TaskSets
<1>2. Cardinality(S) # 0
  BY <1>1, FS_EmptySet
<1> QED
  BY <1>1, <1>2, FS_RemoveElement

--------------------------------------------------------------------------------
LEMMA InitInv == Init => Inv
<1> SUFFICES ASSUME Init PROVE Inv
  OBVIOUS
<1> USE ThreadsAssumption, BoundsAssumption DEF Init
<1>1. TypeOK
  <2>1. 0 \in 0..MaxEpoch /\ NoThread \in Threads \cup {NoThread}
    OBVIOUS
  <2> QED
    BY <2>1 DEF TypeOK, GateStates
<1>2. Unsettled = {} /\ Running = {} /\ \A t \in Threads : RunningOn(t) = {}
  BY DEF Unsettled, Running, RunningOn, Tasks
<1>3. AccountingExact
  BY <1>2, FS_EmptySet DEF AccountingExact
<1>4. Phases /\ SettledOnce
  BY DEF Phases, SettledOnce, Tasks
<1>5. DrainedIsQuiet /\ AnsweredIsClosed /\ DrainedMeansQuiet
  BY DEF DrainedIsQuiet, AnsweredIsClosed, DrainedMeansQuiet
<1>6. Dated /\ Behind
  BY <1>2 DEF Dated, Behind
<1> QED
  BY <1>1, <1>3, <1>4, <1>5, <1>6 DEF Inv

\* While a thread that was told "drained", or is about to be, has not let the
\* gate be reopened, nobody else is inside a gated task.
LEMMA OthersIdle ==
  ASSUME Inv, NEW q \in Threads, Quiet(q), NEW t \in Threads, t # q
  PROVE  depth[t] = 0
<1>1. RunningOn(t) = {}
  BY DEF Quiet, RunningOn, Running
<1> QED
  BY <1>1, FS_EmptySet DEF Inv, AccountingExact

--------------------------------------------------------------------------------
(* One lemma per action of the mailboxes. *)

LEMMA PostInv ==
  ASSUME Inv, NEW t \in Threads, NEW k \in Tasks, Post(t, k)
  PROVE  Inv'
<1> USE DEF Post, Inv
<1>1. Unsettled' = Unsettled \cup {k} /\ k \notin Unsettled
      /\ Running' = Running /\ \A u \in Threads : RunningOn(u)' = RunningOn(u)
  BY DEF Unsettled, Running, RunningOn, TypeOK
<1>2. TypeOK'
  BY DEF TypeOK, Tasks, gateVars, quiesceVars, localVars
<1>3. AccountingExact'
  BY <1>1, AddTask, CountedSets DEF AccountingExact
<1>4. Phases' /\ SettledOnce'
  BY DEF Phases, SettledOnce, TypeOK, Tasks, quiesceVars, localVars
<1>5. gstate # "Closed" /\ (gstate = "Draining" => depth[t] > 0)
  BY DEF AcceptsPost
<1>6. ASSUME NEW q \in Threads, phase[q] = "closing", drained[q], ~overtaken[q]
      PROVE  FALSE
  <2>1. Quiet(q) /\ gstate = "Draining"
    BY <1>5, <1>6 DEF DrainedIsQuiet, Phases, TypeOK, GateStates
  <2>2. t # q
    BY <1>6 DEF InOwnCode
  <2>3. depth[t] = 0
    BY <2>1, <2>2, OthersIdle
  <2> QED
    BY <1>5, <2>1, <2>3
<1>7. \A u \in Threads : answer[u] # "drained"
  BY <1>5 DEF AnsweredIsClosed
<1>8. DrainedIsQuiet' /\ AnsweredIsClosed' /\ DrainedMeansQuiet'
  BY <1>6, <1>7 DEF DrainedIsQuiet, AnsweredIsClosed, DrainedMeansQuiet, quiesceVars, localVars
<1>9. Dated'
  BY DEF Dated, TypeOK, quiesceVars
<1>10. Behind'
  BY <1>1, <1>5 DEF Behind, Unsettled, TypeOK, quiesceVars, Tasks
<1> QED
  BY <1>2, <1>3, <1>4, <1>8, <1>9, <1>10

LEMMA ScheduleInv ==
  ASSUME Inv, NEW t \in Threads, NEW k \in Tasks, Schedule(t, k)
  PROVE  Inv'
<1> USE DEF Schedule, Inv, gateVars, quiesceVars, localVars
<1>1. Unsettled' = Unsettled /\ Running' = Running
      /\ \A u \in Threads : RunningOn(u)' = RunningOn(u)
  BY TasksAssumption DEF Unsettled, Running, RunningOn, TypeOK
<1>2. TypeOK'
  BY DEF TypeOK
<1>3. AccountingExact' /\ Phases' /\ SettledOnce'
  BY <1>1, TasksAssumption DEF AccountingExact, Phases, SettledOnce, TypeOK
<1>4. DrainedIsQuiet' /\ AnsweredIsClosed' /\ DrainedMeansQuiet'
  BY <1>1 DEF DrainedIsQuiet, AnsweredIsClosed, DrainedMeansQuiet, Quiet
<1>5. Dated'
  BY DEF Dated, TypeOK
<1>6. Behind'
  BY <1>1, TasksAssumption DEF Behind, Unsettled, TypeOK
<1> QED
  BY <1>2, <1>3, <1>4, <1>5, <1>6

\* Counting a wrapper out as it leaves its mailbox keeps the count of posts exact.
LEMMA SettleCounts ==
  ASSUME Inv, NEW k \in Tasks, status[k] = "queued", Unsettled' = Unsettled \ {k},
         pending' = IF k \in Posts THEN pending - 1 ELSE pending
  PROVE  pending' = Cardinality(Unsettled)' /\ pending' \in Nat
<1>1. pending = Cardinality(Unsettled) /\ pending \in Nat
  BY DEF Inv, AccountingExact, TypeOK
<1>2. CASE k \in Posts
  <2>1. k \in Unsettled
    BY <1>2 DEF Unsettled
  <2> QED
    BY <1>1, <1>2, <2>1, RemoveTask, CountedSets
<1>3. CASE k \notin Posts
  <2>1. Unsettled' = Unsettled
    BY <1>3 DEF Unsettled
  <2> QED
    BY <1>1, <1>3, <2>1
<1> QED
  BY <1>2, <1>3

\* A wrapper that is reached in its mailbox settles, since it had not before.
LEMMA SettlesNow ==
  ASSUME Inv, NEW k \in Tasks, status[k] = "queued", Settle(k)
  PROVE  /\ pending' = IF k \in Posts THEN pending - 1 ELSE pending
         /\ settled' = IF k \in Posts THEN [settled EXCEPT ![k] = TRUE] ELSE settled
         /\ settled' \in [Posts -> BOOLEAN]
BY DEF Inv, SettledOnce, Settle, TypeOK

LEMMA BeginInv ==
  ASSUME Inv, NEW t \in Threads, NEW k \in Tasks, Begin(t, k)
  PROVE  Inv'
<1> USE DEF Begin, Inv, quiesceVars, localVars
<1>0. /\ pending' = IF k \in Posts THEN pending - 1 ELSE pending
      /\ settled' = IF k \in Posts THEN [settled EXCEPT ![k] = TRUE] ELSE settled
      /\ settled' \in [Posts -> BOOLEAN]
  BY SettlesNow
<1>1. /\ Unsettled' = Unsettled \ {k}
      /\ Running' = Running \cup {k} /\ k \notin Running
      /\ RunningOn(t)' = RunningOn(t) \cup {k} /\ k \notin RunningOn(t)
      /\ \A u \in Threads \ {t} : RunningOn(u)' = RunningOn(u)
  BY DEF Unsettled, Running, RunningOn, TypeOK, Tasks
<1>2. pending' = Cardinality(Unsettled)' /\ pending' \in Nat
  BY <1>0, <1>1, SettleCounts
<1>3. TypeOK'
  BY <1>0, <1>2 DEF TypeOK
<1>4. AccountingExact'
  <2>1. running' = Cardinality(Running)'
    BY <1>1, AddTask, CountedSets DEF AccountingExact
  <2>2. depth'[t] = Cardinality(RunningOn(t)')
    BY <1>1, AddTask, CountedSets DEF AccountingExact, TypeOK
  <2>3. \A u \in Threads \ {t} : depth'[u] = Cardinality(RunningOn(u)')
    BY <1>1 DEF AccountingExact, TypeOK
  <2> QED
    BY <1>2, <2>1, <2>2, <2>3 DEF AccountingExact
<1>5. Phases' /\ SettledOnce'
  BY <1>0 DEF Phases, SettledOnce, TypeOK, MayPump
<1>6. gstate # "Closed" /\ (KindOf(k) # Posted => gstate = "Open")
  BY DEF MayRun, Posted, OneShotTimer, RepeatingTimer
<1>7. ASSUME NEW q \in Threads, phase[q] = "closing", drained[q], ~overtaken[q]
      PROVE  FALSE
  <2>1. Unsettled = {} /\ gstate # "Open"
    BY <1>7 DEF DrainedIsQuiet, Phases, Quiet
  <2>2. k \notin Posts
    BY <2>1 DEF Unsettled
  <2> QED
    BY <1>6, <2>1, <2>2 DEF KindOf, Posted, OneShotTimer, RepeatingTimer
<1>8. DrainedIsQuiet' /\ AnsweredIsClosed' /\ DrainedMeansQuiet'
  BY <1>6, <1>7 DEF DrainedIsQuiet, AnsweredIsClosed, DrainedMeansQuiet
<1>9. Dated'
  BY DEF Dated, TypeOK
<1>10. Behind'
  BY <1>1 DEF Behind
<1> QED
  BY <1>3, <1>4, <1>5, <1>8, <1>9, <1>10

\* Refusing or destroying a wrapper disturbs only the count of posts.
LEMMA DiscardInv ==
  ASSUME Inv, NEW k \in Tasks, status[k] \in {"queued", "over"},
         Forget(k) \/ Called(k), Unsettled' = Unsettled \ {k},
         pending' = Cardinality(Unsettled)' /\ pending' \in Nat,
         settled' \in [Posts -> BOOLEAN], SettledOnce',
         UNCHANGED <<gstate, epoch, running, depth, host, level, quiesceVars>>
  PROVE  Inv'
<1> USE DEF Inv, quiesceVars, localVars, Forget, Called
<1>1. Running' = Running /\ \A u \in Threads : RunningOn(u)' = RunningOn(u)
  <2>1. \A j \in Tasks \ {k} : status'[j] = status[j]
    BY DEF TypeOK
  <2>2. status'[k] # "running"
    BY TasksAssumption DEF TypeOK
  <2> QED
    BY <2>1, <2>2 DEF Running, RunningOn
<1>2. TypeOK'
  BY BoundsAssumption DEF TypeOK
<1>3. AccountingExact' /\ Phases'
  BY <1>1 DEF AccountingExact, Phases
<1>4. DrainedIsQuiet' /\ AnsweredIsClosed' /\ DrainedMeansQuiet'
  BY <1>1 DEF DrainedIsQuiet, AnsweredIsClosed, DrainedMeansQuiet, Quiet
<1>5. Dated'
  BY DEF Dated, TypeOK
<1>6. Behind'
  <2>1. \A j \in Unsettled' : j \in Unsettled /\ stamp'[j] = stamp[j] /\ born'[j] = born[j]
    BY CountedSets DEF TypeOK
  <2> QED
    BY <2>1 DEF Behind
<1> QED
  BY <1>2, <1>3, <1>4, <1>5, <1>6

LEMMA SkipInv ==
  ASSUME Inv, NEW t \in Threads, NEW k \in Tasks, Skip(t, k)
  PROVE  Inv'
<1> USE DEF Skip
<1>1. /\ pending' = IF k \in Posts THEN pending - 1 ELSE pending
      /\ settled' = IF k \in Posts THEN [settled EXCEPT ![k] = TRUE] ELSE settled
      /\ settled' \in [Posts -> BOOLEAN]
  BY SettlesNow
<1>2. /\ \A j \in Tasks \ {k} : status'[j] = status[j]
      /\ k \in Posts => status'[k] = "over"
      /\ k \notin Posts => status'[k] \in {"queued", "idle"}
  BY TasksAssumption DEF Called, Forget, Inv, TypeOK, Tasks
<1>3. Unsettled' = Unsettled \ {k}
  BY <1>2 DEF Unsettled, Tasks
<1>4. SettledOnce'
  BY <1>1, <1>2 DEF Inv, SettledOnce, TypeOK, Tasks
<1>5. pending' = Cardinality(Unsettled)' /\ pending' \in Nat
  BY <1>1, <1>3, SettleCounts
<1> QED
  BY <1>1, <1>3, <1>4, <1>5, DiscardInv

LEMMA DropInv ==
  ASSUME Inv, NEW k \in Tasks, Drop(k)
  PROVE  Inv'
<1> USE DEF Drop
<1>1. /\ \A j \in Tasks \ {k} : status'[j] = status[j]
      /\ status'[k] = "idle"
  BY DEF Forget, Inv, TypeOK
<1>2. Unsettled' = Unsettled \ {k}
  BY <1>1 DEF Unsettled, Tasks
<1>3. settled' \in [Posts -> BOOLEAN] /\ SettledOnce'
  BY <1>1 DEF Inv, SettledOnce, TypeOK, Tasks
<1>4. pending' = Cardinality(Unsettled)' /\ pending' \in Nat
  <2>1. CASE status[k] = "queued"
    <3>1. pending' = IF k \in Posts THEN pending - 1 ELSE pending
      BY <2>1 DEF Inv, SettledOnce
    <3> QED
      BY <1>2, <2>1, <3>1, SettleCounts
  <2>2. CASE status[k] = "over"
    <3>1. pending' = pending /\ Unsettled' = Unsettled
      BY <1>2, <2>2 DEF Inv, SettledOnce, Unsettled
    <3> QED
      BY <3>1 DEF Inv, AccountingExact, TypeOK
  <2> QED
    BY <2>1, <2>2
<1> QED
  BY <1>2, <1>3, <1>4, DiscardInv

LEMMA EndInv ==
  ASSUME Inv, NEW t \in Threads, NEW k \in Tasks, End(t, k)
  PROVE  Inv'
<1> USE DEF End, Inv, quiesceVars, localVars, Called, Forget
<1>1. /\ Unsettled' = Unsettled
      /\ Running' = Running \ {k} /\ k \in Running
      /\ RunningOn(t)' = RunningOn(t) \ {k} /\ k \in RunningOn(t)
      /\ \A u \in Threads \ {t} : RunningOn(u)' = RunningOn(u)
  <2>1. \A j \in Tasks \ {k} : status'[j] = status[j] /\ host'[j] = host[j]
    BY DEF TypeOK
  <2>2. /\ status[k] = "running" /\ host[k] = t
        /\ status'[k] # "running" /\ (k \in Posts => status'[k] = "over")
        /\ (k \notin Posts => status'[k] # "over")
    BY TasksAssumption DEF TypeOK
  <2>3. Unsettled' = Unsettled
    BY <2>1, <2>2 DEF Unsettled, Tasks
  <2>4. Running' = Running \ {k} /\ k \in Running
    BY <2>1, <2>2 DEF Running
  <2> QED
    BY <2>1, <2>2, <2>3, <2>4, CountedSets DEF RunningOn
<1>2. running' = Cardinality(Running)' /\ running' \in Nat
  <2>1. Cardinality(Running \ {k}) = Cardinality(Running) - 1
        /\ Cardinality(Running) \in Nat \ {0}
    BY <1>1, RemoveTask, CountedSets
  <2> QED
    BY <1>1, <2>1 DEF AccountingExact
<1>3. depth'[t] = Cardinality(RunningOn(t)') /\ depth'[t] \in Nat
  <2>1. Cardinality(RunningOn(t) \ {k}) = Cardinality(RunningOn(t)) - 1
        /\ Cardinality(RunningOn(t)) \in Nat \ {0}
    BY <1>1, RemoveTask, CountedSets
  <2>2. depth'[t] = depth[t] - 1 /\ depth[t] = Cardinality(RunningOn(t))
    BY DEF AccountingExact, TypeOK
  <2> QED
    BY <1>1, <2>1, <2>2
<1>4. TypeOK'
  BY <1>2, <1>3, BoundsAssumption DEF TypeOK
<1>5. AccountingExact'
  <2>1. \A u \in Threads \ {t} : depth'[u] = Cardinality(RunningOn(u)')
    BY <1>1 DEF AccountingExact, TypeOK
  <2> QED
    BY <1>1, <1>2, <1>3, <2>1 DEF AccountingExact
<1>6. Phases' /\ SettledOnce'
  <2>1. Phases'
    BY DEF Phases, TypeOK, InOwnCode
  <2>2. SettledOnce'
    BY TasksAssumption DEF SettledOnce, TypeOK, Tasks
  <2> QED
    BY <2>1, <2>2
<1>7. DrainedIsQuiet' /\ AnsweredIsClosed' /\ DrainedMeansQuiet'
  <2>1. \A q \in Threads : Quiet(q) => Quiet(q)'
    BY <1>1 DEF Quiet, TypeOK
  <2> QED
    BY <2>1 DEF DrainedIsQuiet, AnsweredIsClosed, DrainedMeansQuiet, TypeOK, Phases
<1>8. Dated'
  BY DEF Dated, TypeOK
<1>9. Behind'
  <2>1. \A j \in Unsettled' : j \in Unsettled /\ stamp'[j] = stamp[j] /\ born'[j] = born[j]
    <3>1. \A j \in Unsettled : j # k /\ j \in Tasks
      BY CountedSets DEF Unsettled
    <3> QED
      BY <1>1, <3>1 DEF TypeOK
  <2> QED
    BY <2>1 DEF Behind
<1> QED
  BY <1>4, <1>5, <1>6, <1>7, <1>8, <1>9

--------------------------------------------------------------------------------
(* The actions of QuiesceForTeardown and ReopenAfterTeardown.  They move no  *)
(* task, so the counts stay as they are.                                     *)

LEMMA SameTasks ==
  ASSUME Inv, UNCHANGED <<pending, running, taskVars>>
  PROVE  /\ AccountingExact' /\ SettledOnce'
         /\ Unsettled' = Unsettled /\ Running' = Running
         /\ \A t \in Threads : Quiet(t) => Quiet(t)'
BY DEF Inv, taskVars, AccountingExact, SettledOnce, Unsettled, Running, RunningOn, Quiet

LEMMA QuiesceEnterInv ==
  ASSUME Inv, NEW t \in Threads, QuiesceEnter(t)
  PROVE  Inv'
<1> USE DEF QuiesceEnter, Inv
<1>1. AccountingExact' /\ SettledOnce' /\ Unsettled' = Unsettled
  BY SameTasks
<1> USE DEF taskVars
<1>2. TypeOK'
  BY DEF TypeOK, GateStates
<1>3. Phases'
  BY DEF Phases, TypeOK
<1>4. DrainedIsQuiet' /\ AnsweredIsClosed' /\ DrainedMeansQuiet'
  <2>1. \A q \in Threads : phase'[q] = "closing" => phase[q] = "closing"
    BY DEF TypeOK
  <2>2. \A q \in Threads : ~(phase[q] = "closing" /\ ~overtaken[q])
    BY DEF Phases
  <2> QED
    BY <2>1, <2>2 DEF DrainedIsQuiet, AnsweredIsClosed, DrainedMeansQuiet
<1>5. Dated' /\ Behind'
  BY <1>1 DEF Dated, Behind, TypeOK
<1> QED
  BY <1>1, <1>2, <1>3, <1>4, <1>5

LEMMA QuiesceAgainInv ==
  ASSUME Inv, NEW t \in Threads, QuiesceAgain(t)
  PROVE  Inv'
<1> USE DEF QuiesceAgain, Inv
<1>1. /\ AccountingExact' /\ SettledOnce' /\ Unsettled' = Unsettled
      /\ \A u \in Threads : Quiet(u) => Quiet(u)'
  BY SameTasks DEF gateVars
<1> USE DEF taskVars, gateVars, localVars
<1>2. TypeOK'
  BY DEF TypeOK
<1>3. Phases'
  BY DEF Phases
<1>4. DrainedIsQuiet' /\ AnsweredIsClosed' /\ DrainedMeansQuiet'
  BY <1>1 DEF DrainedIsQuiet, AnsweredIsClosed, DrainedMeansQuiet, TypeOK, Phases
<1>5. Dated' /\ Behind'
  BY <1>1 DEF Dated, Behind
<1> QED
  BY <1>1, <1>2, <1>3, <1>4, <1>5

\* The test of the drain loop is strong enough: equal sizes and inclusion make
\* the caller's frames all the frames there are.
LEMMA TestMeansQuiet ==
  ASSUME Inv, NEW q \in Threads, QuiesceDrained(q)
  PROVE  Quiet(q)
<1>1. RunningOn(q) \in SUBSET Running /\ IsFiniteSet(Running)
  BY CountedSets, TaskSets
<1>2. /\ Cardinality(RunningOn(q)) \in Nat /\ Cardinality(Running) \in Nat
      /\ Cardinality(RunningOn(q)) <= Cardinality(Running)
      /\ Cardinality(Running) = Cardinality(RunningOn(q)) => Running = RunningOn(q)
  BY <1>1, FS_Subset, FS_CardinalityType
<1>3. Cardinality(Running) <= Cardinality(RunningOn(q))
  BY DEF QuiesceDrained, AtTest, Inv, AccountingExact
<1>4. Running = RunningOn(q)
  BY <1>2, <1>3
<1>5. Unsettled = {}
  <2>1. Cardinality(Unsettled) = 0
    BY DEF QuiesceDrained, Inv, AccountingExact
  <2> QED
    BY <2>1, CountedSets, TaskSets, FS_EmptySet
<1> QED
  BY <1>4, <1>5 DEF Quiet, RunningOn

\* Leaving the drain loop, quiet if as drained.
LEMMA LeaveLoopInv ==
  ASSUME Inv, NEW q \in Threads, NEW d \in BOOLEAN, AtTest(q), LeaveLoop(q, d),
         d => Quiet(q)
  PROVE  Inv'
<1> USE DEF LeaveLoop, AtTest, Inv
<1>1. /\ AccountingExact' /\ SettledOnce' /\ Unsettled' = Unsettled
      /\ \A u \in Threads : Quiet(u) => Quiet(u)'
  BY SameTasks DEF gateVars
<1> USE DEF taskVars, gateVars
<1>2. TypeOK'
  BY DEF TypeOK
<1>3. Phases'
  BY DEF Phases, TypeOK
<1>4. DrainedIsQuiet'
  BY <1>1 DEF DrainedIsQuiet, TypeOK
<1>5. AnsweredIsClosed' /\ DrainedMeansQuiet'
  BY <1>1 DEF AnsweredIsClosed, DrainedMeansQuiet
<1>6. Dated' /\ Behind'
  BY <1>1 DEF Dated, Behind
<1> QED
  BY <1>1, <1>2, <1>3, <1>4, <1>5, <1>6

LEMMA QuiesceDrainedInv ==
  ASSUME Inv, NEW q \in Threads, QuiesceDrained(q)
  PROVE  Inv'
BY TestMeansQuiet, LeaveLoopInv DEF QuiesceDrained

LEMMA QuiesceTimeoutInv ==
  ASSUME Inv, NEW q \in Threads, QuiesceTimeout(q)
  PROVE  Inv'
BY LeaveLoopInv DEF QuiesceTimeout

LEMMA QuiesceCloseInv ==
  ASSUME Inv, NEW q \in Threads, QuiesceClose(q)
  PROVE  Inv'
<1> DEFINE clean == drained[q] /\ ~overtaken[q]
<1> USE DEF QuiesceClose, Inv
<1>1. /\ AccountingExact' /\ SettledOnce' /\ Unsettled' = Unsettled
      /\ \A u \in Threads : Quiet(u) => Quiet(u)'
  BY SameTasks
<1> USE DEF taskVars
<1>2. PICK verdict \in {"drained", "overtaken", "none"} :
             /\ answer' = [answer EXCEPT ![q] = verdict]
             /\ verdict = "drained" => clean
  BY Zenon
<1>3. lastLate' = IF clean THEN lastLate ELSE closings + 1
  OBVIOUS
<1>4. TypeOK'
  <2>1. answer' \in [Threads -> {"none", "drained", "overtaken", "yes"}]
    BY <1>2 DEF TypeOK
  <2>2. lastLate' \in Nat
    BY <1>3 DEF TypeOK
  <2>3. /\ gstate' \in GateStates /\ closings' \in Nat
        /\ phase' \in [Threads -> {"none", "draining", "closing"}]
        /\ ownDepth' \in [Threads -> Nat]
        /\ drained' \in [Threads -> BOOLEAN] /\ overtaken' \in [Threads -> BOOLEAN]
    BY DEF TypeOK, GateStates
  <2> QED
    BY <2>1, <2>2, <2>3 DEF TypeOK
<1>5. Phases'
  BY DEF Phases, TypeOK
<1>6. DrainedIsQuiet' /\ AnsweredIsClosed' /\ DrainedMeansQuiet'
  <2>1. \A t \in Threads \ {q} : /\ phase'[t] = phase[t] /\ drained'[t] = drained[t]
                                /\ overtaken'[t] = overtaken[t] /\ answer'[t] = answer[t]
    BY <1>2 DEF TypeOK
  <2>2. phase'[q] = "none" /\ (answer'[q] = "drained" => Quiet(q))
    BY <1>2 DEF TypeOK, DrainedIsQuiet
  <2> QED
    BY <1>1, <2>1, <2>2 DEF DrainedIsQuiet, AnsweredIsClosed, DrainedMeansQuiet
<1>7. Dated'
  BY DEF Dated
<1>8. Behind'
  <2>1. CASE clean
    BY <1>1, <2>1 DEF Behind, DrainedIsQuiet, Quiet
  <2>2. CASE ~clean
    BY <1>1, <1>3, <2>2, CountedSets DEF Behind, TypeOK
  <2> QED
    BY <2>1, <2>2
<1> QED
  BY <1>1, <1>4, <1>5, <1>6, <1>7, <1>8

LEMMA ReopenInv ==
  ASSUME Inv, Reopen
  PROVE  Inv'
<1> USE DEF Reopen, EndTeardowns, Inv
<1>1. AccountingExact' /\ SettledOnce' /\ Unsettled' = Unsettled
  BY SameTasks
<1> USE DEF taskVars
<1>2. TypeOK'
  <2>1. closings' \in Nat /\ lastLate' \in Nat
    BY DEF TypeOK
  <2> QED
    BY <2>1, BoundsAssumption DEF TypeOK, GateStates
<1>3. Phases'
  BY DEF Phases, TypeOK
<1>4. DrainedIsQuiet' /\ AnsweredIsClosed' /\ DrainedMeansQuiet'
  BY DEF DrainedIsQuiet, AnsweredIsClosed, DrainedMeansQuiet
<1>5. Dated'
  BY DEF Dated, TypeOK
<1>6. Behind'
  <2>1. CASE gstate = "Draining"
    BY <1>1, <2>1, CountedSets DEF Behind, TypeOK
  <2>2. CASE gstate = "Closed"
    BY <1>1, <2>2 DEF Behind
  <2> QED
    BY <2>1, <2>2 DEF TypeOK, GateStates
<1> QED
  BY <1>1, <1>2, <1>3, <1>4, <1>5, <1>6

LEMMA StutterInv ==
  ASSUME Inv, UNCHANGED vars
  PROVE  Inv'
BY DEF vars, gateVars, taskVars, quiesceVars, localVars, SettledOnce, Inv, TypeOK, AccountingExact, Phases,
       DrainedIsQuiet, AnsweredIsClosed, DrainedMeansQuiet, Quiet, Dated, Behind,
       Unsettled, Running, RunningOn

LEMMA NextInv == Inv /\ [Next]_vars => Inv'
<1> SUFFICES ASSUME Inv, [Next]_vars PROVE Inv'
  OBVIOUS
<1>1. ASSUME NEW t \in Threads, NEW k \in Tasks,
             Post(t, k) \/ Schedule(t, k) \/ Begin(t, k) \/ Skip(t, k) \/ End(t, k)
      PROVE  Inv'
  BY <1>1, PostInv, ScheduleInv, BeginInv, SkipInv, EndInv
<1>2. ASSUME NEW k \in Tasks, Drop(k) PROVE Inv'
  BY <1>2, DropInv
<1>3. ASSUME NEW t \in Threads, QuiesceEnter(t) \/ QuiesceAgain(t) PROVE Inv'
  BY <1>3, QuiesceEnterInv, QuiesceAgainInv
<1>4. ASSUME NEW t \in Threads,
             QuiesceDrained(t) \/ QuiesceTimeout(t) \/ QuiesceClose(t)
      PROVE  Inv'
  BY <1>4, QuiesceDrainedInv, QuiesceTimeoutInv, QuiesceCloseInv
<1>6. CASE Reopen
  BY <1>6, ReopenInv
<1>5. CASE UNCHANGED vars
  BY <1>5, StutterInv
<1> QED
  BY <1>1, <1>2, <1>3, <1>4, <1>5, <1>6 DEF Next

LEMMA InvHolds == Spec => []Inv
BY InitInv, NextInv, PTL DEF Spec

--------------------------------------------------------------------------------
\* The gate's state stays well typed; in particular its counters never become
\* negative, so no post is settled twice by running, skipping and destruction.
THEOREM TypeCorrect == Spec => []TypeOK
<1>1. Inv => TypeOK
  BY DEF Inv
<1> QED
  BY <1>1, InvHolds, PTL

\* pending, running and every t_gated_depth are exact at every moment.
THEOREM AccountingCorrect == Spec => []AccountingExact
<1>1. Inv => AccountingExact
  BY DEF Inv
<1> QED
  BY <1>1, InvHolds, PTL

\* Once QuiesceForTeardown has returned true to a thread that drained the gate, no
\* other thread executes gated work, and none is queued, until the gate is reopened.
\* A call that the gate was reopened under is not one of these.
THEOREM TeardownSafe == Spec => []DrainedMeansQuiet
<1>1. Inv => DrainedMeansQuiet
  BY DEF Inv
<1> QED
  BY <1>1, InvHolds, PTL

\* No post or one-shot timer survives a teardown, whatever mailbox held it.
THEOREM StaleNeverStarts == Spec => StaleStaysDead
<1> DEFINE Step == \A k \in Posts \cup OneShots :
             status[k] = "queued" /\ status'[k] = "running" => born[k] = closings
<1>1. ASSUME Inv, [Next]_vars PROVE [Step]_vars
  <2> SUFFICES ASSUME NEW k \in Posts \cup OneShots,
                      status[k] = "queued", status'[k] = "running"
               PROVE  born[k] = closings
    OBVIOUS
  <2>1. PICK t \in Threads, j \in Tasks : Begin(t, j)
    BY <1>1 DEF Next, vars, taskVars, gateVars, Post, Schedule, Skip, End, Drop, Called,
      Forget, QuiesceEnter, QuiesceAgain, QuiesceDrained, QuiesceTimeout, LeaveLoop, QuiesceClose,
      Reopen, Inv, TypeOK, Tasks
  <2>2. j = k /\ k \in Tasks
    BY <1>1, <2>1 DEF Begin, Inv, TypeOK, Tasks
  <2>3. stamp[k] = epoch /\ gstate # "Closed"
    BY <2>1, <2>2, TasksAssumption
    DEF Begin, MayRun, KindOf, Posted, OneShotTimer, RepeatingTimer
  <2> QED
    BY <1>1, <2>2, <2>3 DEF Inv, Dated
<1> QED
  BY <1>1, InvHolds, PTL DEF Spec, StaleStaysDead

\* A teardown that drains loses no accepted post.
THEOREM DrainedLosesNothing == Spec => DiscardsOnlyWhenLate
<1> DEFINE Step == \A t \in Threads, k \in Posts : Skip(t, k) => lastLate > born[k]
<1>1. ASSUME Inv PROVE [Step]_vars
  <2> SUFFICES ASSUME NEW t \in Threads, NEW k \in Posts, Skip(t, k)
               PROVE  lastLate > born[k]
    OBVIOUS
  <2>1. k \in Unsettled
    BY DEF Skip, Unsettled
  <2>2. gstate = "Closed" \/ stamp[k] # epoch
    BY DEF Skip, MayRun, KindOf
  <2> QED
    BY <1>1, <2>1, <2>2 DEF Inv, Behind
<1> QED
  BY <1>1, InvHolds, PTL DEF DiscardsOnlyWhenLate
================================================================================
