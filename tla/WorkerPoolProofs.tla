--------------------------- MODULE WorkerPoolProofs ---------------------------
(***************************************************************************)
(* A WorkerPool is a PriorityMailbox for any workers, clients and tasks,   *)
(* and a Shutdown that answered true left it quiet.                        *)
(*                                                                         *)
(* The argument: live_workers is the number of workers that have not left, *)
(* so zero means all have; a running task has a worker of its own, which   *)
(* cannot leave before the task ends; and once the pool is stopped its     *)
(* queues stay empty.                                                      *)
(***************************************************************************)
EXTENDS WorkerPool, FiniteSetTheorems, TLAPS

States == {"check", "asleep", "run", "exited"}
Fates == {"new", "queued", "running", "ran", "dropped"}
Stopping == {"stopNotify", "wait", "waiting", "reap"}
Calls == {"none", "notifyOne", "notifyAll"} \cup Stopping

PoolTypes ==
  /\ queues \in [Lanes -> Seq(Tasks)]
  /\ stopped \in BOOLEAN /\ paused \in BOOLEAN /\ joinable \in BOOLEAN
  /\ at \in [Workers -> States]
  /\ fate \in [Tasks -> Fates] /\ host \in [Tasks -> Workers \cup {None}]
  /\ call \in [Threads -> Calls]
  /\ answer \in [Threads -> {"none", "true", "false"}]

Inside == {w \in Workers : at[w] # "exited"}
LiveExact == live = Cardinality(Inside)

\* A running task has a worker, and has it to itself.
Hosted ==
  /\ \A k \in Running : host[k] \in Workers /\ at[host[k]] = "run"
  /\ \A j, k \in Running : host[j] = host[k] => j = k

\* Nothing is queued after the stop, and whoever is in a Shutdown has stopped the pool.
Halted ==
  /\ stopped => \A l \in Lanes : queues[l] = <<>>
  /\ \A t \in Threads : call[t] \in Stopping => stopped

\* A true answer was given when all workers had left.
Answered ==
  \A t \in Threads : answer[t] = "true" => stopped /\ \A w \in Workers : at[w] = "exited"

PoolInv == PoolTypes /\ LiveExact /\ Hosted /\ Halted /\ Answered

MailboxStep == [Mailbox!Next]_(Mailbox!vars)

-------------------------------------------------------------------------------
\* live_workers is a number, and zero only when no worker is left.
LEMMA LiveMeaning ==
  ASSUME LiveExact
  PROVE  /\ live \in 0 .. Cardinality(Workers)
         /\ live = 0 => \A w \in Workers : at[w] = "exited"
<1>1. IsFiniteSet(Workers) /\ Inside \in SUBSET Workers
  BY WorkersAssumption DEF Inside
<1>2. IsFiniteSet(Inside) /\ Cardinality(Inside) <= Cardinality(Workers)
  BY <1>1, FS_Subset
<1>3. Cardinality(Inside) \in Nat /\ Cardinality(Workers) \in Nat
  BY <1>1, <1>2, FS_CardinalityType
<1>4. Cardinality(Inside) = 0 => Inside = {}
  BY <1>2, FS_EmptySet
<1>5. Inside = {} => \A w \in Workers : at[w] = "exited"
  BY DEF Inside
<1> QED
  BY <1>2, <1>3, <1>4, <1>5 DEF LiveExact

\* A step that leaves the workers' ends alone leaves the count exact.
LEMMA LiveKept ==
  ASSUME LiveExact, live' = live,
         \A w \in Workers : at'[w] = "exited" <=> at[w] = "exited"
  PROVE  LiveExact'
<1>1. Inside' = Inside
  BY DEF Inside
<1> QED
  BY <1>1 DEF LiveExact

LEMMA PoolInit == Init => PoolInv /\ Mailbox!Init
<1> SUFFICES ASSUME Init PROVE PoolInv /\ Mailbox!Init
  OBVIOUS
<1>1. PoolTypes
  <2>1. queues \in [Lanes -> Seq(Tasks)] /\ host \in [Tasks -> Workers \cup {None}]
    BY DEF Init
  <2> QED
    BY <2>1 DEF Init, PoolTypes, States, Fates, Calls
<1>2. Running = {}
  BY DEF Init, Running
<1>3. LiveExact
  <2>1. Inside = Workers
    BY DEF Init, Inside
  <2> QED
    BY <2>1 DEF Init, LiveExact
<1>4. Hosted /\ Halted /\ Answered
  BY <1>2 DEF Init, Hosted, Halted, Answered, Stopping
<1>5. Mailbox!Init
  BY <1>2 DEF Init, Mailbox!Init, Lanes, Mailbox!Lanes
<1> QED
  BY <1>1, <1>3, <1>4, <1>5 DEF PoolInv

-------------------------------------------------------------------------------
\* A step that moves threads only: a worker that runs a task goes on with it, none
\* leaves, and only a caller whose call stands in a Shutdown goes on in it.
LEMMA ThreadsMove ==
  ASSUME PoolInv, UNCHANGED <<queues, stopped, live, taskVars, answer>>,
         paused' \in BOOLEAN, joinable' \in BOOLEAN,
         at' \in [Workers -> States], call' \in [Threads -> Calls],
         \A w \in Workers : /\ at'[w] = "exited" <=> at[w] = "exited"
                            /\ at[w] = "run" => at'[w] = "run",
         \A t \in Threads : call'[t] \in Stopping => call[t] \in Stopping
  PROVE  PoolInv' /\ MailboxStep
<1> USE DEF PoolInv
<1>0. UNCHANGED <<queues, stopped, live, fate, host, answer>>
  BY DEF taskVars
<1>1. PoolTypes'
  BY <1>0 DEF PoolTypes
<1>2. Running' = Running
  BY <1>0 DEF Running
<1>3. LiveExact'
  BY LiveKept
<1>4. Hosted' /\ Halted' /\ Answered'
  BY <1>0, <1>2 DEF Hosted, Halted, Answered
<1>5. MailboxStep
  BY <1>0, <1>2 DEF MailboxStep, Mailbox!vars
<1> QED
  BY <1>1, <1>3, <1>4, <1>5

LEMMA PostStep ==
  ASSUME PoolInv, NEW t \in Threads, NEW k \in Tasks, Post(t, k)
  PROVE  PoolInv' /\ MailboxStep
<1> USE TasksAssumption DEF PoolInv, Post
<1>1. Append(queues[LaneOf[k]], k) \in Seq(Tasks)
  <2>1. queues[LaneOf[k]] \in Seq(Tasks)
    BY DEF PoolTypes
  <2> QED
    BY <2>1
<1>2. PoolTypes'
  BY <1>1 DEF PoolTypes, Fates, Calls
<1>3. Running' = Running
  BY DEF Running, PoolTypes
<1>4. LiveExact'
  BY LiveKept
<1>5. Hosted' /\ Halted' /\ Answered'
  BY <1>3 DEF Hosted, Halted, Answered, Stopping, PoolTypes
<1>6. Mailbox!Accept(k)
  BY <1>3 DEF Mailbox!Accept
<1> QED
  BY <1>2, <1>4, <1>5, <1>6 DEF MailboxStep, Mailbox!Next

LEMMA PostStoppedStep ==
  ASSUME PoolInv, NEW t \in Threads, NEW k \in Tasks, PostStopped(t, k)
  PROVE  PoolInv' /\ MailboxStep
<1> USE DEF PoolInv, PostStopped, poolVars
<1>1. PoolTypes'
  BY DEF PoolTypes, Fates
<1>2. Running' = Running
  BY DEF Running, PoolTypes
<1>3. LiveExact'
  BY LiveKept
<1>4. Hosted' /\ Halted' /\ Answered'
  BY <1>2 DEF Hosted, Halted, Answered
<1>5. Mailbox!Refuse(k)
  BY <1>2 DEF Mailbox!Refuse
<1> QED
  BY <1>1, <1>3, <1>4, <1>5 DEF MailboxStep, Mailbox!Next

LEMMA SwitchStep ==
  ASSUME PoolInv, NEW t \in Threads, Pause(t) \/ Resume(t)
  PROVE  PoolInv' /\ MailboxStep
<1>1. /\ UNCHANGED <<queues, stopped, live, taskVars, answer, at, joinable>>
      /\ paused' \in BOOLEAN
      /\ call' = call \/ call' = [call EXCEPT ![t] = "notifyAll"]
  BY DEF Pause, Resume
<1>2. call' \in [Threads -> Calls] /\ \A u \in Threads : call'[u] \in Stopping => call[u] \in Stopping
  BY <1>1 DEF PoolInv, PoolTypes, Calls, Stopping
<1> QED
  BY <1>1, <1>2, ThreadsMove DEF PoolInv, PoolTypes

LEMMA NotifyOneStep ==
  ASSUME PoolInv, NEW t \in Threads, NotifyOne(t)
  PROVE  PoolInv' /\ MailboxStep
<1>1. UNCHANGED <<queues, stopped, live, taskVars, answer, paused, joinable>>
  BY DEF NotifyOne, poolVars
<1>2. /\ at' \in [Workers -> States]
      /\ \A w \in Workers : /\ at'[w] = "exited" <=> at[w] = "exited"
                            /\ at[w] = "run" => at'[w] = "run"
  BY DEF NotifyOne, PoolInv, PoolTypes, States
<1>3. /\ call' \in [Threads -> Calls]
      /\ \A u \in Threads : call'[u] \in Stopping => call[u] \in Stopping
  BY DEF NotifyOne, PoolInv, PoolTypes, Calls, Stopping
<1> QED
  BY <1>1, <1>2, <1>3, ThreadsMove DEF PoolInv, PoolTypes

\* What a notification makes of a worker, and of a call.
LEMMA WokenMeaning ==
  /\ \A s \in States : /\ Woken(s) \in States
                       /\ Woken(s) = "exited" <=> s = "exited"
                       /\ s = "run" => Woken(s) = "run"
  /\ \A c \in Calls : Woken(c) \in Calls /\ (Woken(c) \in Stopping => c \in Stopping)
BY DEF Woken, States, Calls, Stopping

LEMMA NotifyAllStep ==
  ASSUME PoolInv, NEW t \in Threads, NotifyAll(t)
  PROVE  PoolInv' /\ MailboxStep
<1>1. /\ UNCHANGED <<queues, stopped, live, taskVars, answer, paused, joinable>>
      /\ call[t] \in {"notifyAll", "stopNotify"}
      /\ at' = [w \in Workers |-> Woken(at[w])]
      /\ call' = [u \in Threads |->
                    IF u # t THEN Woken(call[u])
                    ELSE IF call[t] = "stopNotify" THEN "wait" ELSE "none"]
  BY DEF NotifyAll, poolVars
<1>2. at \in [Workers -> States] /\ call \in [Threads -> Calls]
  BY DEF PoolInv, PoolTypes
<1>3. /\ at' \in [Workers -> States]
      /\ \A w \in Workers : /\ at'[w] = "exited" <=> at[w] = "exited"
                            /\ at[w] = "run" => at'[w] = "run"
  BY <1>1, <1>2, WokenMeaning
<1>4. ASSUME NEW u \in Threads
      PROVE  call'[u] \in Calls /\ (call'[u] \in Stopping => call[u] \in Stopping)
  <2>1. CASE u = t
    BY <1>1, <2>1 DEF Calls, Stopping
  <2>2. CASE u # t
    BY <1>1, <1>2, <2>2, WokenMeaning
  <2> QED
    BY <2>1, <2>2
<1>5. call' \in [Threads -> Calls]
  BY <1>1, <1>4
<1> QED
  BY <1>1, <1>3, <1>4, <1>5, ThreadsMove DEF PoolInv, PoolTypes

LEMMA SleepStep ==
  ASSUME PoolInv, NEW w \in Workers, Sleep(w)
  PROVE  PoolInv' /\ MailboxStep
<1>1. UNCHANGED <<queues, stopped, live, taskVars, answer, paused, joinable, call>>
  BY DEF Sleep, poolVars
<1>2. /\ at' \in [Workers -> States]
      /\ \A v \in Workers : /\ at'[v] = "exited" <=> at[v] = "exited"
                            /\ at[v] = "run" => at'[v] = "run"
  BY DEF Sleep, PoolInv, PoolTypes, States
<1> QED
  BY <1>1, <1>2, ThreadsMove DEF PoolInv, PoolTypes

-------------------------------------------------------------------------------
LEMMA DequeueStep ==
  ASSUME PoolInv, NEW w \in Workers, Dequeue(w)
  PROVE  PoolInv' /\ MailboxStep
<1> USE DEF PoolInv
<1>1. PICK l \in Lanes :
        /\ queues[l] # <<>>
        /\ queues["Critical"] # <<>> => l = "Critical"
        /\ queues["Normal"] # <<>> => l # "Background"
        /\ queues' = [queues EXCEPT ![l] = Tail(@)]
        /\ fate' = [fate EXCEPT ![Head(queues[l])] = "running"]
        /\ host' = [host EXCEPT ![Head(queues[l])] = w]
  BY DEF Dequeue
<1>2. /\ at[w] = "check" /\ ~stopped /\ at' = [at EXCEPT ![w] = "run"]
      /\ UNCHANGED <<stopped, paused, live, call, joinable, answer>>
  BY DEF Dequeue
<1> DEFINE k == Head(queues[l])
<1>3. k \in Tasks /\ Tail(queues[l]) \in Seq(Tasks)
  BY <1>1 DEF PoolTypes
<1>4. PoolTypes'
  BY <1>1, <1>2, <1>3 DEF PoolTypes, Fates, States
<1>5. /\ Running' = Running \cup {k}
      /\ host'[k] = w /\ \A j \in Running : j # k => host'[j] = host[j]
  BY <1>1, <1>3 DEF Running, PoolTypes, Fates
<1>6. LiveExact'
  BY <1>2, LiveKept DEF PoolTypes
<1>7. Hosted'
  <2>1. \A j \in Running : host[j] \in Workers \ {w} /\ at[host[j]] = "run"
    BY <1>2 DEF Hosted
  <2>2. at'[w] = "run" /\ \A v \in Workers \ {w} : at'[v] = at[v]
    BY <1>2 DEF PoolTypes
  <2> HIDE DEF k
  <2>3. \A j \in Running' : host'[j] \in Workers /\ at'[host'[j]] = "run"
    BY <1>5, <2>1, <2>2
  <2>4. \A i, j \in Running' : host'[i] = host'[j] => i = j
    BY <1>5, <2>1 DEF Hosted
  <2> QED
    BY <2>3, <2>4 DEF Hosted
<1>8. Halted' /\ Answered'
  BY <1>2 DEF Halted, Answered
<1>9. Mailbox!Start(l)
  BY <1>1, <1>2, <1>5 DEF Mailbox!Start, Mailbox!Above, Lanes
<1> QED
  BY <1>4, <1>6, <1>7, <1>8, <1>9 DEF MailboxStep, Mailbox!Next, Lanes, Mailbox!Lanes

LEMMA EndTaskStep ==
  ASSUME PoolInv, NEW w \in Workers, NEW k \in Tasks, EndTask(w, k)
  PROVE  PoolInv' /\ MailboxStep
<1> USE DEF PoolInv
<1>1. /\ at[w] = "run" /\ k \in Running /\ host[k] = w
      /\ fate' = [fate EXCEPT ![k] = "ran"] /\ host' = [host EXCEPT ![k] = None]
      /\ at' = [at EXCEPT ![w] = "check"]
      /\ UNCHANGED <<queues, stopped, paused, live, call, joinable, answer>>
  BY DEF EndTask, InCode, Running, poolVars
<1>2. PoolTypes'
  BY <1>1 DEF PoolTypes, Fates, States
<1>3. /\ Running' = Running \ {k}
      /\ \A j \in Running' : host'[j] = host[j]
  BY <1>1 DEF Running, PoolTypes
<1>4. LiveExact'
  BY <1>1, LiveKept DEF PoolTypes
<1>5. Hosted'
  <2>1. \A j \in Running' : host[j] \in Workers \ {w} /\ at[host[j]] = "run"
    BY <1>1, <1>3 DEF Hosted
  <2>2. \A v \in Workers \ {w} : at'[v] = at[v]
    BY <1>1 DEF PoolTypes
  <2> QED
    BY <1>3, <2>1, <2>2 DEF Hosted
<1>6. Halted' /\ Answered'
  BY <1>1 DEF Halted, Answered
<1>7. Mailbox!Finish(k)
  BY <1>1, <1>3 DEF Mailbox!Finish
<1> QED
  BY <1>2, <1>4, <1>5, <1>6, <1>7 DEF MailboxStep, Mailbox!Next

LEMMA ExitStep ==
  ASSUME PoolInv, NEW w \in Workers, Exit(w)
  PROVE  PoolInv' /\ MailboxStep
<1> USE DEF PoolInv
<1>1. /\ at[w] = "check" /\ live' = live - 1
      /\ at' = [v \in Workers |-> IF v = w THEN "exited" ELSE Woken(at[v])]
      /\ call' = [u \in Threads |-> Woken(call[u])]
      /\ UNCHANGED <<queues, stopped, paused, taskVars, joinable, answer>>
  BY DEF Exit
<1>2. at \in [Workers -> States] /\ call \in [Threads -> Calls]
  BY DEF PoolTypes
<1>3. /\ at' \in [Workers -> States] /\ at'[w] = "exited"
      /\ \A v \in Workers \ {w} : /\ at'[v] = "exited" <=> at[v] = "exited"
                                  /\ at[v] = "run" => at'[v] = "run"
  BY <1>1, <1>2, WokenMeaning DEF States
<1>4. /\ call' \in [Threads -> Calls]
      /\ \A u \in Threads : call'[u] \in Stopping => call[u] \in Stopping
  BY <1>1, <1>2, WokenMeaning
<1>5. PoolTypes'
  BY <1>1, <1>3, <1>4 DEF PoolTypes, taskVars
<1>6. Running' = Running /\ host' = host
  BY <1>1 DEF Running, taskVars
<1>7. LiveExact'
  <2>1. Inside' = Inside \ {w} /\ w \in Inside
    BY <1>1, <1>3 DEF Inside
  <2>2. IsFiniteSet(Inside)
    BY WorkersAssumption, FS_Subset DEF Inside
  <2>3. Cardinality(Inside \ {w}) = Cardinality(Inside) - 1
    BY <2>1, <2>2, FS_RemoveElement
  <2> QED
    BY <1>1, <2>1, <2>3 DEF LiveExact
<1>8. Hosted'
  BY <1>1, <1>3, <1>6 DEF Hosted
<1>9. Halted' /\ Answered'
  BY <1>1, <1>3, <1>4 DEF Halted, Answered
<1>10. MailboxStep
  BY <1>1, <1>6 DEF MailboxStep, Mailbox!vars, taskVars
<1> QED
  BY <1>5, <1>7, <1>8, <1>9, <1>10

-------------------------------------------------------------------------------
LEMMA ShutdownStep ==
  ASSUME PoolInv, NEW t \in Threads, Shutdown(t)
  PROVE  PoolInv' /\ MailboxStep
<1> USE DEF PoolInv, Shutdown
<1>1. PoolTypes'
  BY DEF PoolTypes, Fates, Calls, Stopping
<1>2. Running' = Running
  BY DEF Running, PoolTypes
<1>3. LiveExact'
  BY LiveKept
<1>4. Hosted' /\ Halted' /\ Answered'
  BY <1>2 DEF Hosted, Halted, Answered
<1>5. Mailbox!Close
  BY <1>2 DEF Mailbox!Close, Lanes, Mailbox!Lanes
<1> QED
  BY <1>1, <1>3, <1>4, <1>5 DEF MailboxStep, Mailbox!Next

\* An answer is given: true when live_workers is zero.
LEMMA AnswerStep ==
  ASSUME PoolInv, NEW t \in Threads, ShutdownAgain(t) \/ Reap(t)
  PROVE  PoolInv' /\ MailboxStep
<1> USE DEF PoolInv
<1>1. /\ UNCHANGED <<poolVars, at, taskVars>> /\ stopped
      /\ call' \in {call, [call EXCEPT ![t] = "none"]} /\ joinable' \in {joinable, FALSE}
      /\ \/ answer' = [answer EXCEPT ![t] = "true"] /\ live = 0
         \/ answer' = [answer EXCEPT ![t] = "false"]
  BY DEF ShutdownAgain, Reap, Halted, Stopping
<1>2. live = 0 => \A w \in Workers : at[w] = "exited"
  BY LiveMeaning
<1>3. PoolTypes'
  BY <1>1 DEF PoolTypes, Calls, poolVars, taskVars
<1>4. Running' = Running
  BY <1>1 DEF Running, taskVars
<1>5. LiveExact'
  BY <1>1, LiveKept DEF poolVars
<1>6. Hosted' /\ Halted'
  BY <1>1, <1>4 DEF Hosted, Halted, Stopping, PoolTypes, poolVars, taskVars
<1>7. Answered'
  BY <1>1, <1>2 DEF Answered, PoolTypes, poolVars
<1>8. MailboxStep
  BY <1>1, <1>4 DEF MailboxStep, Mailbox!vars, poolVars, taskVars
<1> QED
  BY <1>3, <1>5, <1>6, <1>7, <1>8

LEMMA WaitStep ==
  ASSUME PoolInv, NEW t \in Threads, WaitForWorkers(t) \/ BudgetOver(t)
  PROVE  PoolInv' /\ MailboxStep
<1>1. /\ UNCHANGED <<queues, stopped, live, taskVars, answer, paused, joinable, at>>
      /\ call[t] \in Stopping
      /\ \E c \in {"reap", "waiting"} : call' = [call EXCEPT ![t] = c]
  BY DEF WaitForWorkers, BudgetOver, poolVars, Stopping
<1>2. /\ call' \in [Threads -> Calls]
      /\ \A u \in Threads : call'[u] \in Stopping => call[u] \in Stopping
  BY <1>1 DEF PoolInv, PoolTypes, Calls, Stopping
<1> QED
  BY <1>1, <1>2, ThreadsMove DEF PoolInv, PoolTypes

-------------------------------------------------------------------------------
LEMMA PoolStep ==
  ASSUME PoolInv, [Next]_vars
  PROVE  PoolInv' /\ MailboxStep
<1>1. ASSUME NEW t \in Threads, NEW k \in Tasks, Post(t, k) \/ PostStopped(t, k)
      PROVE  PoolInv' /\ MailboxStep
  BY <1>1, PostStep, PostStoppedStep
<1>2. ASSUME NEW t \in Threads,
             \/ Pause(t) \/ Resume(t) \/ Shutdown(t) \/ ShutdownAgain(t) \/ BudgetOver(t)
             \/ CallStep(t)
      PROVE  PoolInv' /\ MailboxStep
  BY <1>2, SwitchStep, ShutdownStep, AnswerStep, WaitStep, NotifyOneStep, NotifyAllStep
     DEF CallStep
<1>3. ASSUME NEW w \in Workers, WorkerStep(w)
      PROVE  PoolInv' /\ MailboxStep
  BY <1>3, SleepStep, DequeueStep, ExitStep DEF WorkerStep
<1>4. ASSUME NEW w \in Workers, NEW k \in Tasks, EndTask(w, k)
      PROVE  PoolInv' /\ MailboxStep
  BY <1>4, EndTaskStep
<1>5. CASE UNCHANGED vars
  <2>1. /\ UNCHANGED <<queues, stopped, live, taskVars, answer, paused, joinable, at, call>>
    BY <1>5 DEF vars, poolVars
  <2> QED
    BY <2>1, ThreadsMove DEF PoolInv, PoolTypes
<1> QED
  BY <1>1, <1>2, <1>3, <1>4, <1>5 DEF Next

LEMMA PoolInvariance == Spec => []PoolInv
<1>1. Init => PoolInv
  BY PoolInit
<1>2. PoolInv /\ [Next]_vars => PoolInv'
  BY PoolStep
<1> QED
  BY <1>1, <1>2, PTL DEF Spec

\* Every reachable state of a pool is well typed; live_workers never goes below zero.
THEOREM TypeCorrect == Spec => []TypeOK
<1>1. PoolInv => TypeOK
  BY LiveMeaning DEF PoolInv, PoolTypes, TypeOK, States, Fates, Calls, Stopping
<1> QED
  BY <1>1, PoolInvariance, PTL

\* WorkerPool::Shutdown: true means that no task runs or is queued and that every
\* worker has left, however many callers shut down and post.
THEOREM ShutdownIsQuiet == Spec => []QuietAfterShutdown
<1>1. PoolInv => QuietAfterShutdown
  <2> SUFFICES ASSUME PoolInv, NEW t \in Threads, answer[t] = "true"
               PROVE  Running = {} /\ ~HasWork /\ \A w \in Workers : at[w] = "exited"
    BY DEF QuietAfterShutdown
  <2>1. stopped /\ \A w \in Workers : at[w] = "exited"
    BY DEF PoolInv, Answered
  <2>2. ~HasWork
    BY <2>1 DEF PoolInv, Halted, HasWork
  <2>3. Running = {}
    BY <2>1 DEF PoolInv, Hosted
  <2> QED
    BY <2>1, <2>2, <2>3
<1> QED
  BY <1>1, PoolInvariance, PTL

\* WorkerPool implements the priority mailbox, whatever its threads do.
THEOREM IsPriorityMailbox == Spec => ImplementsMailbox
<1>1. Init => Mailbox!Init
  BY PoolInit
<1>2. PoolInv /\ [Next]_vars => [Mailbox!Next]_(Mailbox!vars)
  BY PoolStep DEF MailboxStep
<1> QED
  BY <1>1, <1>2, PoolInvariance, PTL DEF Spec, ImplementsMailbox, Mailbox!Spec
===============================================================================
