---------------------------- MODULE OwnerThreadProofs ----------------------------
(***************************************************************************)
(* An OwnerThread is a SerialMailbox for any tasks and threads, and a stop *)
(* leaves nothing behind.                                                  *)
(*                                                                         *)
(* The mailbox's queue is tasks_ before the stop and the stopping call's   *)
(* deque after it; one of the two is always empty.  What is in it is       *)
(* queued, and in it once.  A dedicated thread that is not running a task  *)
(* leaves the owner idle, and the owner has at most one stopper.           *)
(***************************************************************************)
EXTENDS OwnerThread, FiniteSetTheorems, SequenceTheorems, TLAPS

\* The tasks of a deque are queued, each in it once.
Waiting(s) ==
  /\ \A i \in 1..Len(s) : fate[s[i]] = "queued"
  /\ \A i, j \in 1..Len(s) : s[i] = s[j] => i = j

Queues ==
  /\ Waiting(tasks) /\ Waiting(dropped)
  /\ IF stopped THEN tasks = <<>> ELSE dropped = <<>>

\* A dedicated owner runs one task at a time, on its own thread.
Loop ==
  /\ mode = "Manual" \/ ~started => loop = "none"
  /\ mode = "Dedicated" =>
       /\ loop # "run" => Running = {}
       /\ \A k \in Running : host[k] = Own
       /\ \A j, k \in Running : j = k

Stopper(t) == call[t] \in {"stopping", "join", "dropping"} \/ returned[t] = "stopped"

Stops ==
  /\ \A t \in Threads : Stopper(t) => stopped
  /\ \A t, u \in Threads : Stopper(t) /\ Stopper(u) => t = u
  /\ \A t \in Threads :
       call[t] = "dropping" /\ mode = "Dedicated" /\ t # Own =>
         loop \in {"none", "exited"}

Inv == TypeOK /\ Queues /\ Loop /\ Stops /\ StopLeavesNothing

MailboxStep == [Mailbox!Next]_(Mailbox!vars)

--------------------------------------------------------------------------------
LEMMA DepthNat == \A t : Depth(t) \in Nat
<1> SUFFICES ASSUME NEW t PROVE Depth(t) \in Nat
  OBVIOUS
<1>1. {k \in Running : host[k] = t} \subseteq Tasks
  BY DEF Running
<1> QED
  BY <1>1, TasksAssumption, FS_Subset, FS_CardinalityType DEF Depth

LEMMA InitInv == Init => Inv /\ Mailbox!Init
<1> SUFFICES ASSUME Init PROVE Inv /\ Mailbox!Init
  OBVIOUS
<1>1. TypeOK
  <2>1. <<>> \in Seq(Tasks)
    OBVIOUS
  <2>2. level \in [Tasks -> Nat] /\ host \in [Tasks -> Threads \cup {None}]
    BY DEF Init
  <2> QED
    BY <2>1, <2>2 DEF Init, TypeOK
<1>2. Running = {}
  BY DEF Init, Running
<1>3. Queues /\ Loop /\ Stops /\ StopLeavesNothing
  BY <1>2 DEF Init, Queues, Waiting, Loop, Stops, Stopper, StopLeavesNothing
<1>4. tasks \o dropped = <<>>
  BY DEF Init
<1>5. Mailbox!Init
  BY <1>2, <1>4 DEF Init, Mailbox!Init
<1> QED
  BY <1>1, <1>3, <1>5 DEF Inv

\* The mailbox's queue.
LEMMA QueueIs ==
  ASSUME Inv
  PROVE  tasks \o dropped = IF stopped THEN dropped ELSE tasks
BY ConcatEmptySeq DEF Inv, Queues, TypeOK

\* A step that leaves the deques, the fates and stopped alone is a stutter of the
\* mailbox.
LEMMA Stutter ==
  ASSUME UNCHANGED <<mode, tasks, dropped, stopped, fate>>
  PROVE  MailboxStep /\ Running' = Running /\ (Queues => Queues')
<1>1. Running' = Running
  BY DEF Running
<1>2. UNCHANGED Mailbox!vars
  BY <1>1 DEF Mailbox!vars
<1> QED
  BY <1>1, <1>2 DEF MailboxStep, Queues, Waiting

--------------------------------------------------------------------------------
LEMMA StartInv ==
  ASSUME Inv, NEW t \in Threads, Start(t)
  PROVE  Inv' /\ MailboxStep
<1> USE DEF Start, Inv, taskVars
<1>1. Queues' /\ MailboxStep /\ Running' = Running
  BY Stutter
<1>2. TypeOK' /\ Stops'
  BY DEF TypeOK, Stops, Stopper
<1>3. Loop' /\ StopLeavesNothing'
  BY <1>1 DEF Loop, InCode, StopLeavesNothing, Stops, Stopper, Running, TypeOK
<1> QED
  BY <1>1, <1>2, <1>3

LEMMA PushInv ==
  ASSUME Inv, NEW t \in Threads, NEW k \in Tasks, Post(t, k) \/ PostFront(t, k)
  PROVE  Inv' /\ MailboxStep
<1> PICK newTasks \in {Append(tasks, k), Cons(k, tasks)} : Push(t, k, newTasks)
  BY DEF Post, PostFront
<1> USE DEF Push, Inv
<1>1. tasks \in Seq(Tasks) /\ dropped = <<>>
  BY DEF TypeOK, Queues
<1>2. newTasks \in Seq(Tasks)
  <2>1. <<k>> \in Seq(Tasks)
    OBVIOUS
  <2>2. <<k>> \o tasks \in Seq(Tasks)
    BY <1>1, <2>1
  <2>3. Append(tasks, k) \in Seq(Tasks)
    BY <1>1
  <2> QED
    BY <2>2, <2>3 DEF Cons
<1>3. TypeOK'
  BY <1>2 DEF TypeOK
<1>4. Running' = Running
  BY DEF Running, TypeOK
<1>5. \A i \in 1..Len(tasks) : tasks[i] # k
  BY DEF Queues, Waiting
<1>6. /\ \A i \in 1..Len(newTasks) : fate'[newTasks[i]] = "queued"
      /\ \A i, j \in 1..Len(newTasks) : newTasks[i] = newTasks[j] => i = j
  <2>1. CASE newTasks = Append(tasks, k)
    BY <2>1, <1>1, <1>5 DEF Queues, Waiting, TypeOK
  <2>2. CASE newTasks = Cons(k, tasks)
    <3>1. /\ Len(newTasks) = Len(tasks) + 1
          /\ \A i \in 1..Len(newTasks) :
               newTasks[i] = IF i = 1 THEN k ELSE tasks[i - 1]
      BY <2>2, <1>1 DEF Cons
    <3>2. \A i \in 1..Len(newTasks) : i # 1 => i - 1 \in 1..Len(tasks)
      BY <3>1, <1>1
    <3>3. \A i \in 1..Len(newTasks) : fate'[newTasks[i]] = "queued"
      <4> SUFFICES ASSUME NEW i \in 1..Len(newTasks)
                   PROVE  fate'[newTasks[i]] = "queued"
        OBVIOUS
      <4>1. CASE i = 1
        BY <4>1, <3>1 DEF TypeOK
      <4>2. CASE i # 1
        <5>1. tasks[i - 1] \in Tasks /\ fate[tasks[i - 1]] = "queued"
          BY <4>2, <3>2, <1>1 DEF Queues, Waiting
        <5> QED
          BY <5>1, <4>2, <3>1 DEF TypeOK
      <4> QED
        BY <4>1, <4>2
    <3>4. ASSUME NEW i \in 1..Len(newTasks), NEW j \in 1..Len(newTasks),
                 newTasks[i] = newTasks[j]
          PROVE  i = j
      <4>1. i = 1 <=> j = 1
        BY <3>1, <3>2, <3>4, <1>5
      <4>2. i # 1 => i - 1 = j - 1
        BY <3>1, <3>2, <3>4, <4>1 DEF Queues, Waiting
      <4> QED
        BY <4>1, <4>2, <3>1
    <3> QED
      BY <3>3, <3>4
  <2> QED
    BY <2>1, <2>2
<1>7. Queues'
  BY <1>1, <1>6 DEF Queues, Waiting
<1>8. Loop' /\ Stops' /\ StopLeavesNothing'
  BY <1>4 DEF Loop, Stops, Stopper, StopLeavesNothing, TypeOK, InCode
<1>9. MailboxStep
  <2>1. (tasks \o dropped)' = newTasks /\ tasks \o dropped = tasks
    BY <1>1, <1>2, ConcatEmptySeq
  <2>2. Mailbox!Accept(k)
    BY <2>1, <1>4, <1>1 DEF Mailbox!Accept, Cons, Mailbox!Cons
  <2> QED
    BY <2>2 DEF MailboxStep, Mailbox!Next
<1> QED
  BY <1>3, <1>7, <1>8, <1>9

LEMMA PostStoppedInv ==
  ASSUME Inv, NEW t \in Threads, NEW k \in Tasks, PostStopped(t, k)
  PROVE  Inv' /\ MailboxStep
<1> USE DEF PostStopped, Inv, queueVars
<1>1. Running' = Running
  BY DEF Running, TypeOK
<1>2. TypeOK' /\ Stops' /\ Loop' /\ StopLeavesNothing'
  BY <1>1 DEF TypeOK, Stops, Stopper, Loop, StopLeavesNothing
<1>3. Queues'
  BY DEF Queues, Waiting, TypeOK
<1>4. Mailbox!Refuse(k)
  BY <1>1 DEF Mailbox!Refuse
<1> QED
  BY <1>2, <1>3, <1>4 DEF MailboxStep, Mailbox!Next

\* A notification, and the waking, sleeping and leaving of the thread.
LEMMA LoopMoves ==
  ASSUME Inv, UNCHANGED <<mode, queueVars, taskVars, dropped, returned>>,
         loop' = loop \/ {loop, loop'} \subseteq {"asleep", "check", "exited"},
         loop = "exited" => loop' = "exited",
         \A t \in Threads : call'[t] # call[t] => call[t] = "notify" /\ call'[t] = "none",
         TypeOK'
  PROVE  Inv' /\ MailboxStep
<1> USE DEF Inv, queueVars, taskVars
<1>1. Queues' /\ MailboxStep /\ Running' = Running
  BY Stutter
<1>2. Loop'
  BY <1>1 DEF Loop
<1>3. Stops'
  BY DEF Stops, Stopper, TypeOK
<1>4. StopLeavesNothing'
  BY <1>1 DEF StopLeavesNothing
<1> QED
  BY <1>1, <1>2, <1>3, <1>4

LEMMA NotifyInv ==
  ASSUME Inv, NEW t \in Threads, Notify(t)
  PROVE  Inv' /\ MailboxStep
<1>1. TypeOK'
  BY DEF Inv, Notify, Woken, TypeOK, queueVars, taskVars
<1>2. \A u \in Threads : call'[u] # call[u] => call[u] = "notify" /\ call'[u] = "none"
  BY DEF Inv, Notify, TypeOK
<1> QED
  BY <1>1, <1>2, LoopMoves DEF Notify, Woken

LEMMA ThreadMoves ==
  ASSUME Inv, Sleep \/ SpuriousWake \/ Exit
  PROVE  Inv' /\ MailboxStep
<1>1. TypeOK'
  BY DEF Inv, Sleep, SpuriousWake, Exit, TypeOK, queueVars, taskVars
<1> QED
  BY <1>1, LoopMoves DEF Sleep, SpuriousWake, Exit

--------------------------------------------------------------------------------
\* The front task starts: common to the thread and to a manual drain.
LEMMA TakeFacts ==
  ASSUME Inv, NEW t \in Threads, Take(t), loop' \in {loop, "run"}
  PROVE  /\ TypeOK' /\ Queues'
         /\ Head(tasks) \in Tasks /\ ~stopped
         /\ Running' = Running \cup {Head(tasks)}
         /\ host' = [host EXCEPT ![Head(tasks)] = t]
         /\ Stops' /\ StopLeavesNothing'
         /\ (mode = "Dedicated" => Running = {}) => Mailbox!Start
<1> USE DEF Take, Inv
<1>1. /\ tasks \in Seq(Tasks) /\ tasks # <<>> /\ dropped = <<>>
      /\ Head(tasks) \in Tasks /\ Tail(tasks) \in Seq(Tasks)
      /\ Head(tasks) = tasks[1] /\ Len(tasks) >= 1
      /\ Len(Tail(tasks)) = Len(tasks) - 1
      /\ \A i \in 1..Len(Tail(tasks)) : Tail(tasks)[i] = tasks[i + 1]
  BY HeadTailProperties DEF TypeOK, Queues
<1>2. Depth(t) + 1 \in Nat
  BY DepthNat
<1>3. TypeOK'
  BY <1>1, <1>2 DEF TypeOK
<1>4. Running' = Running \cup {Head(tasks)}
  BY <1>1 DEF Running, TypeOK
<1>5. Waiting(tasks)'
  <2>1. \A i \in 1..Len(Tail(tasks)) : i + 1 \in 1..Len(tasks) /\ i + 1 # 1
    BY <1>1
  <2>2. \A i \in 1..Len(Tail(tasks)) : Tail(tasks)[i] \in Tasks /\ Tail(tasks)[i] # tasks[1]
    BY <1>1, <2>1 DEF Queues, Waiting
  <2>3. \A i \in 1..Len(Tail(tasks)) : fate'[Tail(tasks)[i]] = "queued"
    BY <1>1, <2>1, <2>2 DEF Queues, Waiting, TypeOK
  <2>4. \A i, j \in 1..Len(Tail(tasks)) : Tail(tasks)[i] = Tail(tasks)[j] => i = j
    <3> SUFFICES ASSUME NEW i \in 1..Len(Tail(tasks)), NEW j \in 1..Len(Tail(tasks)),
                        Tail(tasks)[i] = Tail(tasks)[j]
                 PROVE  i = j
      OBVIOUS
    <3>1. i + 1 = j + 1
      BY <1>1, <2>1 DEF Queues, Waiting
    <3> QED
      BY <3>1
  <2> QED
    BY <2>3, <2>4 DEF Waiting
<1>6. Queues'
  BY <1>1, <1>5 DEF Queues, Waiting
<1>7. Stops' /\ StopLeavesNothing'
  BY DEF Stops, Stopper, StopLeavesNothing
<1>8. ASSUME mode = "Dedicated" => Running = {}
      PROVE  Mailbox!Start
  <2>1. tasks \o dropped = tasks /\ (tasks \o dropped)' = Tail(tasks)
    BY <1>1, ConcatEmptySeq
  <2> QED
    BY <2>1, <1>1, <1>4, <1>8 DEF Mailbox!Start
<1> QED
  BY <1>1, <1>3, <1>4, <1>6, <1>7, <1>8

LEMMA ThreadTakesInv ==
  ASSUME Inv, ThreadTakes
  PROVE  Inv' /\ MailboxStep
<1>0. Own \in Threads /\ Take(Own) /\ loop = "check" /\ loop' = "run"
  BY DEF ThreadTakes, Threads
<1>1. mode' = mode /\ mode = "Dedicated" /\ Running = {}
  BY <1>0 DEF Inv, Loop, TypeOK, Take
<1>2. Loop'
  <2>1. Head(tasks) \in Tasks /\ started'
    BY <1>0, <1>1, TakeFacts DEF Loop, Inv, Take
  <2>2. Running' = {Head(tasks)} /\ host' = [host EXCEPT ![Head(tasks)] = Own]
    BY <1>0, <1>1, TakeFacts
  <2> QED
    BY <1>0, <1>1, <2>1, <2>2 DEF Loop, Inv, TypeOK
<1> QED
  BY <1>0, <1>1, <1>2, TakeFacts DEF Inv, MailboxStep, Mailbox!Next

LEMMA RunOwnerTasksInv ==
  ASSUME Inv, NEW t \in Threads, RunOwnerTasks(t)
  PROVE  Inv' /\ MailboxStep
<1>0. Take(t) /\ loop' = loop /\ mode = "Manual" /\ mode' = mode
  BY DEF RunOwnerTasks, RunPending, Take
<1>1. Loop'
  BY <1>0 DEF Loop, Inv
<1> QED
  BY <1>0, <1>1, TakeFacts DEF Inv, MailboxStep, Mailbox!Next

LEMMA EndTaskInv ==
  ASSUME Inv, NEW t \in Threads, NEW k \in Tasks, EndTask(t, k)
  PROVE  Inv' /\ MailboxStep
<1> USE DEF EndTask, Inv, queueVars
<1>1. TypeOK'
  BY DEF TypeOK
<1>2. k \in Running /\ Running' = Running \ {k}
  BY DEF Running, TypeOK
<1>3. Queues'
  BY DEF Queues, Waiting, TypeOK
<1>4. t = Own => loop = "run" /\ mode = "Dedicated"
  BY DEF InCode, Loop, TypeOK
<1>5. Loop'
  BY <1>2, <1>4 DEF Loop, TypeOK, Running
<1>6. Stops' /\ StopLeavesNothing'
  BY <1>2, <1>4 DEF Stops, Stopper, StopLeavesNothing, Loop, TypeOK, Running
<1>7. Mailbox!Finish(k)
  BY <1>2 DEF Mailbox!Finish
<1> QED
  BY <1>1, <1>3, <1>5, <1>6, <1>7 DEF MailboxStep, Mailbox!Next

--------------------------------------------------------------------------------
LEMMA StopInv ==
  ASSUME Inv, NEW t \in Threads, Stop(t)
  PROVE  Inv' /\ MailboxStep
<1> USE DEF Stop, Inv, taskVars
<1>1. TypeOK' /\ Running' = Running
  BY DEF TypeOK, Running
<1>2. Queues'
  BY DEF Queues, Waiting
<1>3. Loop'
  BY <1>1 DEF Loop
<1>4. Stops' /\ StopLeavesNothing'
  BY DEF Stops, Stopper, StopLeavesNothing, TypeOK
<1>5. Mailbox!Close
  <2>1. (tasks \o dropped)' = tasks /\ tasks \o dropped = tasks
    BY ConcatEmptySeq DEF Queues, TypeOK
  <2> QED
    BY <2>1, <1>1 DEF Mailbox!Close
<1> QED
  BY <1>1, <1>2, <1>3, <1>4, <1>5 DEF MailboxStep, Mailbox!Next

LEMMA StopCallInv ==
  ASSUME Inv, NEW t \in Threads, StopAgain(t) \/ StopNotify(t) \/ Join(t) \/ StopReturns(t)
  PROVE  Inv' /\ MailboxStep
<1> USE DEF StopAgain, StopNotify, Join, StopReturns, Inv, queueVars, taskVars
<1>1. Queues' /\ MailboxStep /\ Running' = Running
  BY Stutter
<1>2. TypeOK'
  BY DEF TypeOK, Woken
<1>3. loop' = loop \/ (loop = "asleep" /\ loop' = "check")
  BY DEF Woken
<1>4. Loop'
  BY <1>1, <1>3 DEF Loop
<1>5. Stops'
  <2>1. CASE StopAgain(t)
    BY <2>1 DEF Stops, Stopper, TypeOK
  <2>2. CASE StopNotify(t)
    BY <2>2, <1>3 DEF Stops, Stopper, TypeOK, Loop
  <2>3. CASE Join(t) \/ StopReturns(t)
    BY <2>3 DEF Stops, Stopper, TypeOK
  <2> QED
    BY <2>1, <2>2, <2>3
<1>6. StopLeavesNothing'
  <2> SUFFICES ASSUME NEW u \in Threads, returned'[u] = "stopped"
               PROVE  /\ dropped = <<>> /\ tasks = <<>>
                      /\ mode = "Dedicated" /\ u # Own => loop' \in {"none", "exited"}
                      /\ mode = "Dedicated" => \A k \in Running : host[k] = Own /\ u = Own
    BY <1>1 DEF StopLeavesNothing
  <2>1. CASE returned[u] = "stopped"
    BY <2>1, <1>3 DEF StopLeavesNothing
  <2>2. CASE returned[u] # "stopped"
    <3>1. u = t /\ StopReturns(t)
      BY <2>2 DEF TypeOK
    <3> QED
      BY <3>1 DEF Queues, Stops, Stopper, Loop
  <2> QED
    BY <2>1, <2>2
<1> QED
  BY <1>1, <1>2, <1>4, <1>5, <1>6

LEMMA DropTaskInv ==
  ASSUME Inv, NEW t \in Threads, DropTask(t)
  PROVE  Inv' /\ MailboxStep
<1> USE DEF DropTask, Inv, queueVars
<1>1. /\ dropped \in Seq(Tasks) /\ dropped # <<>> /\ stopped /\ tasks = <<>>
      /\ Head(dropped) \in Tasks /\ Tail(dropped) \in Seq(Tasks)
      /\ Head(dropped) = dropped[1] /\ Len(dropped) >= 1
      /\ Len(Tail(dropped)) = Len(dropped) - 1
      /\ \A i \in 1..Len(Tail(dropped)) : Tail(dropped)[i] = dropped[i + 1]
  BY HeadTailProperties DEF TypeOK, Queues
<1>2. TypeOK'
  BY <1>1 DEF TypeOK
<1>3. fate[Head(dropped)] = "queued"
  BY <1>1 DEF Queues, Waiting
<1>4. Running' = Running
  BY <1>1, <1>3 DEF Running, TypeOK
<1>5. Waiting(dropped)'
  <2>1. \A i \in 1..Len(Tail(dropped)) : i + 1 \in 1..Len(dropped) /\ i + 1 # 1
    BY <1>1
  <2>2. \A i \in 1..Len(Tail(dropped)) :
          Tail(dropped)[i] \in Tasks /\ Tail(dropped)[i] # dropped[1]
    BY <1>1, <2>1 DEF Queues, Waiting
  <2>3. \A i \in 1..Len(Tail(dropped)) : fate'[Tail(dropped)[i]] = "queued"
    BY <1>1, <2>1, <2>2 DEF Queues, Waiting, TypeOK
  <2>4. \A i, j \in 1..Len(Tail(dropped)) : Tail(dropped)[i] = Tail(dropped)[j] => i = j
    <3> SUFFICES ASSUME NEW i \in 1..Len(Tail(dropped)), NEW j \in 1..Len(Tail(dropped)),
                        Tail(dropped)[i] = Tail(dropped)[j]
                 PROVE  i = j
      OBVIOUS
    <3>1. i + 1 = j + 1
      BY <1>1, <2>1 DEF Queues, Waiting
    <3> QED
      BY <3>1
  <2> QED
    BY <2>3, <2>4 DEF Waiting
<1>6. Queues'
  BY <1>1, <1>5 DEF Queues, Waiting
<1>7. Loop' /\ Stops'
  BY <1>4 DEF Loop, Stops, Stopper
<1>8. StopLeavesNothing'
  BY <1>1, <1>4 DEF StopLeavesNothing
<1>9. Mailbox!Drop
  <2>1. tasks \o dropped = dropped /\ (tasks \o dropped)' = Tail(dropped)
    BY <1>1, ConcatEmptySeq
  <2> QED
    BY <2>1, <1>1, <1>4 DEF Mailbox!Drop
<1> QED
  BY <1>2, <1>6, <1>7, <1>8, <1>9 DEF MailboxStep, Mailbox!Next

--------------------------------------------------------------------------------
LEMMA NextInv ==
  ASSUME Inv, [Next]_vars
  PROVE  Inv' /\ MailboxStep
<1>1. CASE UNCHANGED vars
  <2>1. Queues' /\ MailboxStep /\ Running' = Running
    BY <1>1, Stutter DEF vars, queueVars, taskVars, Inv
  <2> QED
    BY <1>1, <2>1 DEF vars, queueVars, taskVars, Inv, TypeOK, Loop, Stops, Stopper,
                      StopLeavesNothing
<1>2. ASSUME NEW t \in Threads, NEW k \in Tasks,
             Post(t, k) \/ PostFront(t, k) \/ PostStopped(t, k) \/ EndTask(t, k)
      PROVE  Inv' /\ MailboxStep
  BY <1>2, PushInv, PostStoppedInv, EndTaskInv
<1>3. ASSUME NEW t \in Threads,
             \/ Start(t) \/ Notify(t) \/ RunOwnerTasks(t)
             \/ Stop(t) \/ StopAgain(t) \/ StopNotify(t) \/ Join(t)
             \/ DropTask(t) \/ StopReturns(t)
      PROVE  Inv' /\ MailboxStep
  BY <1>3, StartInv, NotifyInv, RunOwnerTasksInv, StopInv, StopCallInv, DropTaskInv
<1>4. CASE Sleep \/ SpuriousWake \/ Exit
  BY <1>4, ThreadMoves
<1>5. CASE ThreadTakes
  BY <1>5, ThreadTakesInv
<1> QED
  BY <1>1, <1>2, <1>3, <1>4, <1>5 DEF Next

LEMMA Invariance == Spec => []Inv
<1>1. Init => Inv
  BY InitInv
<1>2. Inv /\ [Next]_vars => Inv'
  BY NextInv
<1> QED
  BY <1>1, <1>2, PTL DEF Spec

\* Every reachable state of an owner thread is well typed.
THEOREM TypeCorrect == Spec => []TypeOK
<1>1. Inv => TypeOK
  BY DEF Inv
<1> QED
  BY <1>1, Invariance, PTL

\* OwnerThread::Stop is final for whoever's call stopped the owner: no task is
\* left queued or running, but for a stop made from a task of the owner.
THEOREM StopIsFinal == Spec => []StopLeavesNothing
<1>1. Inv => StopLeavesNothing
  BY DEF Inv
<1> QED
  BY <1>1, Invariance, PTL

\* OwnerThread implements the serial mailbox, whatever its threads do.
THEOREM IsMailbox == Spec => ImplementsMailbox
<1>1. Init => Mailbox!Init
  BY InitInv
<1>2. Inv /\ [Next]_vars => [Mailbox!Next]_(Mailbox!vars)
  BY NextInv DEF MailboxStep
<1> QED
  BY <1>1, <1>2, Invariance, PTL DEF Spec, ImplementsMailbox, Mailbox!Spec
================================================================================
