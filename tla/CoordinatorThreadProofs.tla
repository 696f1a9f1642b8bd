------------------------- MODULE CoordinatorThreadProofs -------------------------
(***************************************************************************)
(* A CoordinatorThread for any threads, tasks, timers and intervals: it    *)
(* never sleeps past what it has to do, a one-shot cancelled in time never *)
(* calls back, and its mailbox is a PriorityMailbox.                       *)
(*                                                                         *)
(* The argument: only one caller is ever in a shutdown, and by the time it *)
(* waits for the exit the thread has been woken and cannot sleep again; so *)
(* a notify_one meant for the thread is never taken by that caller while   *)
(* the thread sleeps, and every notification ends a sleep.                 *)
(***************************************************************************)
EXTENDS CoordinatorThread, SequenceTheorems, WellFoundedInduction, TLAPS

\* The thread runs a task only while it says so, and has left for good when it is
\* flagged as having left.
OneRuns ==
  /\ loop # "task" => Running = {}
  /\ \A j, k \in Running : j = k
  /\ exited => loop \in {"exited", "none"}

\* An entry of timers_ has its time; a one-shot that was collected is spent.
Fires ==
  /\ loop = "callback" => due # <<>>
  /\ \A k \in ToSet(timers) : nextFire[k] # Never
  /\ \A k \in Timers \ Repeating : k \in firing \cup ToSet(due) => entry[k] = "spent"

\* One caller at a time is in a shutdown, and it waits only after it woke the thread.
Shutting == {"stopNotify", "wait", "waiting", "reap"}
Shutters ==
  /\ \A t \in Threads : call[t] \in Shutting => stopped
  /\ \A t, u \in Threads : call[t] \in Shutting /\ call[u] \in Shutting => t = u
  /\ \A t \in Threads : call[t] \in {"wait", "waiting", "reap"} =>
                          loop \notin {"asleep", "resting"}

Inv == TypeOK /\ OneRuns /\ Fires /\ Shutters /\ NoOversleep

MailboxStep == [Mailbox!Next]_(Mailbox!vars)

--------------------------------------------------------------------------------
(* Induction: a smallest number is among those that a claim is false for. *)

LEMMA Smallest ==
  ASSUME NEW X \in SUBSET Nat, X # {}
  PROVE  \E n \in X : \A m \in X : n <= m
<1>1. PICK n \in X : \A m \in X : ~(<<m, n>> \in OpToRel(<, Nat))
  BY NatLessThanWellFounded, WFMin
<1>2. \A m \in X : ~(m < n)
  BY <1>1 DEF OpToRel
<1> QED
  BY <1>2

\* The first index of 0..n that is in X.
LEMMA First ==
  ASSUME NEW n \in Nat, NEW X \in SUBSET (0..n), X # {}
  PROVE  \E i \in X : /\ i \in 0..n
                      /\ i # 0 => i \in 1..n /\ i - 1 \in 0..n /\ i - 1 \notin X
<1>1. X \in SUBSET Nat
  OBVIOUS
<1>2. PICK i \in X : \A j \in X : i <= j
  BY <1>1, Smallest
<1>3. i \in 0..n /\ i - 1 \notin X
  BY <1>1, <1>2
<1> QED
  BY <1>3

(* What Kept computes. *)

\* F holds what is kept of the first i entries of s, for i up to n.
IsKept(F, n, s, T) ==
  /\ F = [i \in 0..n |-> F[i]]
  /\ \A i \in 0..n :
       F[i] = IF i = 0 THEN <<>>
              ELSE IF s[i] \in T THEN Append(F[i - 1], s[i]) ELSE F[i - 1]

LEMMA KeptExists ==
  ASSUME NEW s, NEW T, NEW n \in Nat
  PROVE  \E F : IsKept(F, n, s, T)
<1> DEFINE X == {m \in Nat : ~ \E F : IsKept(F, m, s, T)}
<1> SUFFICES ASSUME X # {} PROVE FALSE
  OBVIOUS
<1>1. PICK m \in X : \A k \in X : m <= k
  BY Smallest
<1>2. m # 0
  <2>1. IsKept([i \in 0..0 |-> <<>>], 0, s, T)
    BY DEF IsKept
  <2> QED
    BY <1>1, <2>1
<1>3. m - 1 \in Nat /\ m - 1 \notin X
  BY <1>1, <1>2
<1>4. PICK F : IsKept(F, m - 1, s, T)
  BY <1>3
<1> DEFINE G == [i \in 0..m |-> IF i < m THEN F[i]
                   ELSE IF s[m] \in T THEN Append(F[m - 1], s[m]) ELSE F[m - 1]]
<1>5. IsKept(G, m, s, T)
  <2>1. ASSUME NEW i \in 0..m
        PROVE  G[i] = IF i = 0 THEN <<>>
                      ELSE IF s[i] \in T THEN Append(G[i - 1], s[i]) ELSE G[i - 1]
    <3>1. CASE i = m
      BY <1>1, <1>2, <3>1
    <3>2. CASE i # m
      <4>1. i \in 0..m - 1 /\ (i = 0 \/ i - 1 \in 0..m) /\ i < m /\ i - 1 < m
        BY <1>1, <3>2
      <4> QED
        BY <1>4, <4>1 DEF IsKept
    <3> QED
      BY <3>1, <3>2
  <2> QED
    BY <2>1 DEF IsKept
<1> QED
  BY <1>1, <1>5

LEMMA KeptToIs ==
  ASSUME NEW s, NEW T, Len(s) \in Nat
  PROVE  IsKept(KeptTo(s, T), Len(s), s, T)
<1>1. PICK G : IsKept(G, Len(s), s, T)
  BY KeptExists
<1>2. G = [i \in 0..Len(s) |->
             IF i = 0 THEN <<>>
             ELSE IF s[i] \in T THEN Append(G[i - 1], s[i]) ELSE G[i - 1]]
  BY <1>1 DEF IsKept
<1>3. KeptTo(s, T) =
        [i \in 0..Len(s) |->
           IF i = 0 THEN <<>>
           ELSE IF s[i] \in T THEN Append(KeptTo(s, T)[i - 1], s[i])
           ELSE KeptTo(s, T)[i - 1]]
  BY <1>2 DEF KeptTo
<1> QED
  BY <1>3 DEF IsKept
LEMMA KeptTyped ==
  ASSUME NEW S, NEW s \in Seq(S), NEW T
  PROVE  \A i \in 0..Len(s) : KeptTo(s, T)[i] \in Seq(S)
<1>1. Len(s) \in Nat /\ \A i \in 1..Len(s) : s[i] \in S
  BY LenProperties, ElementOfSeq
<1> DEFINE K == KeptTo(s, T)
           X == {i \in 0..Len(s) : K[i] \notin Seq(S)}
<1> SUFFICES ASSUME X # {} PROVE FALSE
  OBVIOUS
<1>2. IsKept(K, Len(s), s, T)
  BY <1>1, KeptToIs
<1> HIDE DEF K
<1>3. PICK i \in X : /\ i \in 0..Len(s)
                     /\ i # 0 => i \in 1..Len(s) /\ i - 1 \in 0..Len(s) /\ i - 1 \notin X
  <2>1. X \in SUBSET (0..Len(s))
    OBVIOUS
  <2> QED
    BY <1>1, <2>1, First
<1>4. i # 0
  <2>1. K[0] = <<>> /\ <<>> \in Seq(S)
    BY <1>1, <1>2 DEF IsKept
  <2> QED
    BY <1>3, <2>1
<1>5. K[i] = IF s[i] \in T THEN Append(K[i - 1], s[i]) ELSE K[i - 1]
  BY <1>2, <1>3, <1>4 DEF IsKept
<1>6. K[i - 1] \in Seq(S) /\ s[i] \in S
  BY <1>1, <1>3, <1>4
<1>7. K[i] \in Seq(S)
  BY <1>5, <1>6
<1> QED
  BY <1>3, <1>7

LEMMA KeptSeq ==
  ASSUME NEW S, NEW s \in Seq(S), NEW T
  PROVE  Kept(s, T) \in Seq(S)
<1>1. Len(s) \in 0..Len(s)
  OBVIOUS
<1> QED
  BY <1>1, KeptTyped DEF Kept

--------------------------------------------------------------------------------
(* Sequences. *)

LEMMA ToSetFacts ==
  ASSUME NEW S, NEW s \in Seq(S)
  PROVE  /\ \A x \in S : /\ Append(s, x) \in Seq(S)
                         /\ ToSet(Append(s, x)) = ToSet(s) \cup {x}
         /\ s # <<>> => /\ Head(s) \in S /\ Head(s) \in ToSet(s) /\ Tail(s) \in Seq(S)
                        /\ ToSet(Tail(s)) \subseteq ToSet(s)
         /\ ToSet(s) \subseteq S /\ ToSet(<<>>) = {} /\ <<>> \in Seq(S)
<1>1. Len(s) \in Nat /\ DOMAIN s = 1..Len(s) /\ \A i \in 1..Len(s) : s[i] \in S
  BY LenProperties, ElementOfSeq
<1>2. ASSUME NEW x \in S
      PROVE  Append(s, x) \in Seq(S) /\ ToSet(Append(s, x)) = ToSet(s) \cup {x}
  <2>1. /\ Append(s, x) \in Seq(S) /\ Len(Append(s, x)) = Len(s) + 1
        /\ \A i \in 1..Len(s) : Append(s, x)[i] = s[i]
        /\ Append(s, x)[Len(s) + 1] = x
    BY AppendProperties
  <2>2. DOMAIN Append(s, x) = 1..Len(s) + 1
    BY <2>1, LenProperties
  <2> QED
    BY <1>1, <2>1, <2>2 DEF ToSet
<1>3. ASSUME s # <<>>
      PROVE  /\ Head(s) \in S /\ Head(s) \in ToSet(s) /\ Tail(s) \in Seq(S)
             /\ ToSet(Tail(s)) \subseteq ToSet(s)
  <2>1. /\ Head(s) \in S /\ Tail(s) \in Seq(S) /\ Head(s) = s[1] /\ Len(s) # 0
        /\ Len(Tail(s)) = Len(s) - 1 /\ \A i \in 1..Len(Tail(s)) : Tail(s)[i] = s[i + 1]
    BY <1>3, HeadTailProperties, EmptySeq
  <2>2. DOMAIN Tail(s) = 1..Len(s) - 1
    BY <2>1, LenProperties
  <2>3. 1 \in 1..Len(s) /\ \A i \in 1..Len(s) - 1 : i + 1 \in 1..Len(s)
    BY <1>1, <2>1
  <2> QED
    BY <1>1, <2>1, <2>2, <2>3 DEF ToSet
<1>4. ToSet(s) \subseteq S
  BY <1>1 DEF ToSet
<1>5. ToSet(<<>>) = {} /\ <<>> \in Seq(S)
  BY DEF ToSet
<1> QED
  BY <1>2, <1>3, <1>4, <1>5

\* What is kept is what is in the sequence and to be kept.
LEMMA KeptMembers ==
  ASSUME NEW S, NEW s \in Seq(S), NEW T
  PROVE  ToSet(Kept(s, T)) = ToSet(s) \cap T
<1> DEFINE F == KeptTo(s, T)
           Upto(i) == {s[j] : j \in 1..i}
           X == {i \in 0..Len(s) : ToSet(F[i]) # Upto(i) \cap T}
<1>1. Len(s) \in Nat /\ DOMAIN s = 1..Len(s) /\ \A i \in 1..Len(s) : s[i] \in S
  BY LenProperties, ElementOfSeq
<1>2. IsKept(F, Len(s), s, T) /\ \A i \in 0..Len(s) : F[i] \in Seq(S)
  BY <1>1, KeptToIs, KeptTyped
<1>3. X = {}
  <2> SUFFICES ASSUME X # {} PROVE FALSE
    OBVIOUS
  <2>1. X \in SUBSET (0..Len(s))
    OBVIOUS
  <2> HIDE DEF F
  <2>2. PICK i \in X : /\ i \in 0..Len(s)
                       /\ i # 0 => i \in 1..Len(s) /\ i - 1 \in 0..Len(s) /\ i - 1 \notin X
    <3> HIDE DEF X
    <3> QED
      BY <1>1, <2>1, First
  <2>3. i # 0
    <3>1. F[0] = <<>>
      <4> HIDE DEF X, Upto
      <4>1. 0 \in 0..Len(s) /\ IsKept(F, Len(s), s, T)
        BY <1>1, <1>2
      <4> QED
        BY <4>1 DEF IsKept
    <3>2. ToSet(<<>>) = {} /\ Upto(0) = {}
      BY DEF ToSet
    <3> QED
      BY <2>2, <3>1, <3>2
  <2>4. F[i] = IF s[i] \in T THEN Append(F[i - 1], s[i]) ELSE F[i - 1]
    BY <1>2, <2>2, <2>3 DEF IsKept
  <2>5. ToSet(F[i - 1]) = Upto(i - 1) \cap T
    BY <2>2, <2>3
  <2>6. Upto(i) = Upto(i - 1) \cup {s[i]}
    <3>1. \A j \in 1..i : j = i \/ j \in 1..(i - 1)
      BY <2>2, <2>3
    <3>2. i \in 1..i /\ \A j \in 1..(i - 1) : j \in 1..i
      BY <2>2, <2>3
    <3> QED
      BY <3>1, <3>2
  <2>7. ToSet(Append(F[i - 1], s[i])) = ToSet(F[i - 1]) \cup {s[i]}
    <3>1. F[i - 1] \in Seq(S) /\ s[i] \in S
      BY <1>1, <1>2, <2>2, <2>3
    <3> QED
      BY <3>1, ToSetFacts
  <2>8. ToSet(F[i]) = Upto(i) \cap T
    <3> HIDE DEF Upto
    <3> QED
      BY <2>4, <2>5, <2>6, <2>7
  <2> QED
    BY <2>2, <2>8
<1>4. Len(s) \in 0..Len(s) /\ Upto(Len(s)) = ToSet(s)
  BY <1>1 DEF ToSet
<1> QED
  BY <1>3, <1>4 DEF Kept

--------------------------------------------------------------------------------
(* The thread's deadline and its wake-ups. *)

\* NextTimerDeadlineLocked finds the earliest, if there is any.
LEMMA DeadlineFacts ==
  ASSUME NEW live, NEW fire, \A k \in live : fire[k] \in Nat
  PROVE  /\ NextDeadline(live, fire) \in Nat \cup {Never}
         /\ \A k \in live : NextDeadline(live, fire) # Never /\ NextDeadline(live, fire) <= fire[k]
<1> DEFINE D == {fire[k] : k \in live}
<1>1. CASE live # {}
  <2>1. D \in SUBSET Nat /\ D # {}
    BY <1>1
  <2>2. \E d \in D : \A e \in D : d <= e
    <3> HIDE DEF D
    <3> QED
      BY <2>1, Smallest
  <2>3. \E d \in D : \A k \in live : d <= fire[k]
    BY <2>2
  <2>4. NextDeadline(live, fire) \in D /\ \A k \in live : NextDeadline(live, fire) <= fire[k]
    BY <1>1, <2>3 DEF NextDeadline
  <2> QED
    BY <2>1, <2>4 DEF Never
<1>2. CASE live = {}
  BY <1>2 DEF NextDeadline
<1> QED
  BY <1>1, <1>2

LEMMA LiveTimes ==
  ASSUME Inv
  PROVE  /\ \A k \in ToSet(timers) : k \in Timers /\ nextFire[k] \in Nat
         /\ \A k \in Live : nextFire[k] \in Nat
<1>1. ToSet(timers) \subseteq Timers
  <2>1. timers \in Seq(Timers)
    BY DEF Inv, TypeOK
  <2> QED
    BY <2>1, ToSetFacts
<1> QED
  BY <1>1 DEF Inv, TypeOK, Fires, Live

\* The thread turns to what it has to do, or waits no longer than for the next timer.
LEMMA TurnFacts ==
  ASSUME Inv, NEW clock, WaitOrTurn(clock, entry, nextFire)
  PROVE  /\ timers' \in Seq(Timers) /\ ToSet(timers') = Live
         /\ loop' \in {"top", "asleep"} /\ until' \in Nat \cup {Never}
         /\ loop' = "asleep" =>
              ~HasWork /\ \A k \in Live : until' # Never /\ until' <= nextFire[k]
<1> DEFINE left == Kept(timers, {k \in Timers : entry[k] = "live"})
           deadline == NextDeadline(ToSet(left), nextFire)
<1>1. left \in Seq(Timers) /\ ToSet(left) = Live
  <2>1. timers \in Seq(Timers)
    BY DEF Inv, TypeOK
  <2>2. ToSet(timers) \subseteq Timers
    BY LiveTimes
  <2>3. ToSet(left) = ToSet(timers) \cap {k \in Timers : entry[k] = "live"}
    BY <2>1, KeptMembers
  <2>4. left \in Seq(Timers)
    BY <2>1, KeptSeq
  <2> QED
    BY <2>2, <2>3, <2>4 DEF Live
<1>2. /\ timers' = left
      /\ loop' = IF HasWork \/ (deadline # Never /\ deadline <= clock) THEN "top"
                 ELSE "asleep"
      /\ until' = IF loop' = "asleep" THEN deadline ELSE Never
  BY DEF WaitOrTurn
<1>3. /\ NextDeadline(Live, nextFire) \in Nat \cup {Never}
      /\ \A k \in Live : /\ NextDeadline(Live, nextFire) # Never
                         /\ NextDeadline(Live, nextFire) <= nextFire[k]
  BY LiveTimes, DeadlineFacts
<1> HIDE DEF left
<1> QED
  BY <1>1, <1>2, <1>3

\* A step that leaves the mailbox alone.
LEMMA Unseen ==
  ASSUME stopped' = stopped, queues' = queues, fate' = fate
  PROVE  MailboxStep
BY DEF MailboxStep, Mailbox!vars, Running

LEMMA WokenFacts ==
  ASSUME Inv
  PROVE  /\ Woken \in {"none", "top", "task", "drain", "callback", "fired", "woken",
                       "rested", "exited"}
         /\ Woken = "task" <=> loop = "task"
         /\ Woken = "callback" <=> loop = "callback"
         /\ Woken = "none" <=> loop = "none"
         /\ Woken \in {"exited", "none"} <=> loop \in {"exited", "none"}
BY DEF Woken, Inv, TypeOK

\* Who is awake does not oversleep.
LEMMA Awake ==
  ASSUME loop' \notin {"asleep", "resting"}
  PROVE  NoOversleep'
BY DEF NoOversleep

LEMMA InitInv == Init => Inv /\ CancelHolds /\ Mailbox!Init
<1> SUFFICES ASSUME Init PROVE Inv /\ CancelHolds /\ Mailbox!Init
  OBVIOUS
<1> USE DEF Init
<1>1. TypeOK
  <2>1. queues \in [Lanes -> Seq(Tasks)] /\ timers \in Seq(Timers) /\ due \in Seq(Timers)
    OBVIOUS
  <2>2. 0 \in 0..MaxTime
    BY TimersAssumption
  <2> QED
    BY <2>1, <2>2 DEF TypeOK
<1>2. Running = {} /\ ToSet(timers) = {} /\ ToSet(due) = {}
  BY DEF Running, ToSet
<1>3. OneRuns /\ Fires /\ Shutters /\ NoOversleep /\ CancelHolds
  BY <1>2 DEF OneRuns, Fires, Shutters, Shutting, NoOversleep, CancelHolds
<1>4. Mailbox!Init
  BY <1>2 DEF Mailbox!Init, Lanes, Mailbox!Lanes
<1> QED
  BY <1>1, <1>3, <1>4 DEF Inv

\* Who sleeps on, sleeps no longer than it should.
LEMMA SleepKept ==
  ASSUME NoOversleep, loop' = loop, until' = until,
         Live' \subseteq Live, \A k \in Live' : nextFire'[k] = nextFire[k],
         (HasWork \/ stopped)' => HasWork \/ stopped \/ Notifying',
         (stopped \/ ~paused)' => stopped \/ ~paused \/ Notifying',
         Notifying => Notifying'
  PROVE  NoOversleep'
<1>1. ASSUME loop' = "asleep"
      PROVE  /\ \A k \in Live' : until' # Never /\ until' <= nextFire'[k]
             /\ (HasWork \/ stopped)' => Notifying'
  BY <1>1 DEF NoOversleep
<1>2. loop' = "resting" /\ (stopped \/ ~paused)' => Notifying'
  BY DEF NoOversleep
<1> QED
  BY <1>1, <1>2 DEF NoOversleep

LEMMA ShuttersKept ==
  ASSUME Shutters, \A t \in Threads : call'[t] \in Shutting => call[t] \in Shutting /\ stopped',
         \A t \in Threads : call'[t] \in {"wait", "waiting", "reap"} =>
                              loop' \notin {"asleep", "resting"}
  PROVE  Shutters'
BY DEF Shutters

--------------------------------------------------------------------------------
(* Calls. *)

LEMMA TickInv ==
  ASSUME Inv, Tick
  PROVE  Inv' /\ MailboxStep
<1> USE DEF Inv
<1>1. /\ UNCHANGED <<started, stopped, paused, exited, loop, until, looked, due, queues, fate,
                     timers, nextFire, entry, firing, call>>
      /\ now < MaxTime /\ now' = now + 1
  BY DEF Tick, flagVars, threadVars, boxVars, timerVars
<1>2. TypeOK'
  <2>1. now' \in 0..MaxTime
    BY <1>1, TimersAssumption DEF TypeOK
  <2> QED
    BY <1>1, <2>1 DEF TypeOK
<1>3. Running' = Running /\ Live' = Live /\ HasWork' = HasWork /\ Notifying' = Notifying
  BY <1>1 DEF Running, Live, HasWork, Notifying
<1>4. OneRuns' /\ Fires' /\ Shutters' /\ NoOversleep'
  BY <1>1, <1>3 DEF OneRuns, Fires, Shutters, NoOversleep
<1>5. MailboxStep
  BY <1>1, Unseen
<1> QED
  BY <1>2, <1>4, <1>5

LEMMA StartInv ==
  ASSUME Inv, NEW t \in Threads, Start(t)
  PROVE  Inv' /\ MailboxStep
<1> USE DEF Inv
<1>1. /\ UNCHANGED <<now, stopped, paused, until, looked, due, queues, fate, timers, nextFire,
                     entry, firing, call>>
      /\ ~started /\ ~stopped /\ loop = "none"
      /\ started' = TRUE /\ exited' = FALSE /\ loop' = "top"
  BY DEF Start, boxVars, timerVars, TypeOK
<1>2. TypeOK'
  BY <1>1 DEF TypeOK
<1>3. Running' = Running
  BY <1>1 DEF Running
<1>4. OneRuns' /\ Fires' /\ Shutters'
  BY <1>1, <1>3 DEF OneRuns, Fires, Shutters
<1>5. NoOversleep' /\ MailboxStep
  BY <1>1, Awake, Unseen
<1> QED
  BY <1>2, <1>4, <1>5

LEMMA PostInv ==
  ASSUME Inv, NEW t \in Threads, NEW k \in Tasks, Post(t, k)
  PROVE  Inv' /\ MailboxStep
<1> USE DEF Inv
<1>1. /\ UNCHANGED <<now, started, stopped, paused, exited, loop, until, looked, due, timers,
                     nextFire, entry, firing>>
      /\ call[t] = "none" /\ fate[k] = "new" /\ ~stopped
      /\ queues' = [queues EXCEPT ![LaneOf[k]] = Append(@, k)]
      /\ fate' = [fate EXCEPT ![k] = "queued"]
      /\ call' = [call EXCEPT ![t] = "notifyOne"]
  BY DEF Post, InCode, flagVars, threadVars, timerVars
<1>2. TypeOK'
  <2>1. LaneOf[k] \in Lanes /\ queues \in [Lanes -> Seq(Tasks)]
    BY TasksAssumption DEF TypeOK
  <2>2. Append(queues[LaneOf[k]], k) \in Seq(Tasks)
    BY <2>1, ToSetFacts
  <2>3. queues' \in [Lanes -> Seq(Tasks)]
    BY <1>1, <2>1, <2>2
  <2>4. fate' \in [Tasks -> {"new", "queued", "running", "ran", "dropped"}]
    BY <1>1 DEF TypeOK
  <2>5. call' \in [Threads -> {"none", "notifyOne", "notifyAll", "stopNotify", "wait",
                               "waiting", "reap"}]
    BY <1>1 DEF TypeOK
  <2> QED
    BY <1>1, <2>3, <2>4, <2>5 DEF TypeOK
<1>3. Running' = Running /\ Live' = Live
  BY <1>1 DEF Running, Live, TypeOK
<1>4. OneRuns' /\ Fires'
  BY <1>1, <1>3 DEF OneRuns, Fires
<1>5. call'[t] = "notifyOne" /\ \A u \in Threads \ {t} : call'[u] = call[u]
  BY <1>1 DEF TypeOK
<1>6. Shutters'
  BY <1>1, <1>5, ShuttersKept DEF Shutting, Shutters
<1>7. NoOversleep'
  <2>1. Notifying'
    BY <1>5 DEF Notifying
  <2> QED
    BY <1>1, <1>3, <2>1, SleepKept
<1>8. Mailbox!Accept(k)
  BY <1>1, <1>3 DEF Mailbox!Accept
<1> QED
  BY <1>2, <1>4, <1>6, <1>7, <1>8 DEF MailboxStep, Mailbox!Next

LEMMA PostStoppedInv ==
  ASSUME Inv, NEW t \in Threads, NEW k \in Tasks, PostStopped(t, k)
  PROVE  Inv' /\ MailboxStep
<1> USE DEF Inv
<1>1. /\ UNCHANGED <<now, started, stopped, paused, exited, loop, until, looked, due, queues,
                     timers, nextFire, entry, firing, call>>
      /\ fate[k] = "new" /\ stopped /\ fate' = [fate EXCEPT ![k] = "dropped"]
  BY DEF PostStopped, flagVars, threadVars, timerVars
<1>2. TypeOK'
  BY <1>1 DEF TypeOK
<1>3. Running' = Running /\ Live' = Live /\ HasWork' = HasWork /\ Notifying' = Notifying
  BY <1>1 DEF Running, Live, HasWork, Notifying, TypeOK
<1>4. OneRuns' /\ Fires' /\ Shutters' /\ NoOversleep'
  BY <1>1, <1>3 DEF OneRuns, Fires, Shutters, NoOversleep
<1>5. Mailbox!Refuse(k)
  BY <1>1, <1>3 DEF Mailbox!Refuse
<1> QED
  BY <1>2, <1>4, <1>5 DEF MailboxStep, Mailbox!Next

LEMMA ScheduleInv ==
  ASSUME Inv, NEW t \in Threads, NEW k \in Timers, Schedule(t, k)
  PROVE  Inv' /\ MailboxStep
<1> USE DEF Inv
<1>1. /\ UNCHANGED <<now, started, stopped, paused, exited, until, looked, due, queues, fate,
                     entry, firing, call>>
      /\ timers' = Append(timers, k)
      /\ nextFire' = [nextFire EXCEPT ![k] = now + IntervalOf[k]]
      /\ loop' = Woken
  BY DEF Schedule, flagVars, boxVars
<1>2. now + IntervalOf[k] \in Nat
  <2>1. now \in Nat /\ IntervalOf[k] \in Nat
    BY TimersAssumption DEF TypeOK
  <2> QED
    BY <2>1
<1>3. timers' \in Seq(Timers) /\ ToSet(timers') = ToSet(timers) \cup {k}
  <2>1. timers \in Seq(Timers)
    BY DEF TypeOK
  <2>2. Append(timers, k) \in Seq(Timers) /\ ToSet(Append(timers, k)) = ToSet(timers) \cup {k}
    BY <2>1, ToSetFacts
  <2> QED
    BY <1>1, <2>2
<1>4. /\ nextFire' \in [Timers -> Nat \cup {Never}]
      /\ \A j \in Timers : nextFire'[j] = IF j = k THEN now + IntervalOf[k] ELSE nextFire[j]
  BY <1>1, <1>2 DEF TypeOK
<1>5. TypeOK'
  <2>1. /\ loop' \in {"none", "top", "task", "drain", "callback", "fired", "woken", "rested",
                      "exited"}
        /\ loop' = "none" <=> loop = "none"
    BY <1>1, WokenFacts
  <2> QED
    BY <1>1, <1>3, <1>4, <2>1 DEF TypeOK
<1>6. Running' = Running
  BY <1>1 DEF Running
<1>7. OneRuns'
  BY <1>1, <1>6, WokenFacts DEF OneRuns
<1>8. Fires'
  <2>1. \A j \in ToSet(timers') : nextFire'[j] # Never
    BY <1>2, <1>3, <1>4, LiveTimes DEF Never
  <2>2. loop' = "callback" => due' # <<>>
    BY <1>1, WokenFacts DEF Fires
  <2> QED
    BY <1>1, <2>1, <2>2 DEF Fires
<1>9. loop' \notin {"asleep", "resting"}
  BY <1>1, WokenFacts
<1>10. Shutters'
  BY <1>1, <1>9 DEF Shutters
<1>11. NoOversleep' /\ MailboxStep
  BY <1>1, <1>9, Awake, Unseen
<1> QED
  BY <1>5, <1>7, <1>8, <1>10, <1>11

LEMMA CancelTimerInv ==
  ASSUME Inv, NEW t \in Threads, NEW k \in Timers, CancelTimer(t, k)
  PROVE  Inv' /\ MailboxStep
<1> USE DEF Inv
<1>1. /\ UNCHANGED <<now, started, stopped, paused, exited, loop, until, looked, due, queues,
                     fate, timers, nextFire, firing, call>>
      /\ entry[k] = "live" /\ entry' = [entry EXCEPT ![k] = "cancelled"]
  BY DEF CancelTimer, Live, flagVars, threadVars, boxVars
<1>2. TypeOK'
  BY <1>1 DEF TypeOK
<1>3. entry'[k] = "cancelled" /\ \A j \in Timers \ {k} : entry'[j] = entry[j]
  BY <1>1 DEF TypeOK
<1>4. Live' \subseteq Live
  BY <1>1, <1>3, LiveTimes DEF Live
<1>5. Running' = Running /\ HasWork' = HasWork /\ Notifying' = Notifying
  BY <1>1 DEF Running, HasWork, Notifying
<1>6. OneRuns' /\ Shutters'
  BY <1>1, <1>5 DEF OneRuns, Shutters
<1>7. Fires'
  BY <1>1, <1>3 DEF Fires
<1>8. NoOversleep' /\ MailboxStep
  BY <1>1, <1>4, <1>5, SleepKept, Unseen
<1> QED
  BY <1>2, <1>6, <1>7, <1>8

LEMMA SwitchInv ==
  ASSUME Inv, NEW t \in Threads, Pause(t) \/ Resume(t)
  PROVE  Inv' /\ MailboxStep
<1> USE DEF Inv
<1>1. /\ UNCHANGED <<now, started, stopped, exited, loop, until, looked, due, queues, fate,
                     timers, nextFire, entry, firing>>
      /\ call[t] = "none"
      /\ \/ paused' = TRUE /\ call' = call
         \/ paused' = FALSE /\ call' = [call EXCEPT ![t] = "notifyAll"]
  BY DEF Pause, Resume, InCode, threadVars, boxVars, timerVars
<1>2. TypeOK'
  <2>1. call' \in [Threads -> {"none", "notifyOne", "notifyAll", "stopNotify", "wait",
                               "waiting", "reap"}]
    BY <1>1 DEF TypeOK
  <2>2. paused' \in BOOLEAN
    BY <1>1
  <2> QED
    BY <1>1, <2>1, <2>2 DEF TypeOK
<1>3. Running' = Running /\ HasWork' = HasWork /\ Live' = Live
  BY <1>1 DEF Running, HasWork, Live
<1>4. OneRuns' /\ Fires'
  BY <1>1, <1>3 DEF OneRuns, Fires
<1>5. \A u \in Threads : call'[u] = call[u] \/ (u = t /\ call'[u] = "notifyAll")
  BY <1>1 DEF TypeOK
<1>6. Shutters'
  BY <1>1, <1>5, ShuttersKept DEF Shutting, Shutters
<1>7. /\ Notifying => Notifying'
      /\ paused' = FALSE => Notifying'
  BY <1>1, <1>5 DEF Notifying, TypeOK
<1>8. NoOversleep' /\ MailboxStep
  BY <1>1, <1>3, <1>7, SleepKept, Unseen
<1> QED
  BY <1>2, <1>4, <1>6, <1>8

\* A notification ends the thread's sleep: only a caller that waits for the exit could
\* take it instead, and while one does, the thread does not sleep.
LEMMA NotifyInv ==
  ASSUME Inv, NEW t \in Threads, Notify(t)
  PROVE  Inv' /\ MailboxStep
<1> USE DEF Inv
<1>1. /\ UNCHANGED <<now, started, stopped, paused, exited, until, looked, due, queues, fate,
                     timers, nextFire, entry, firing>>
      /\ call[t] \in {"notifyOne", "notifyAll", "stopNotify"}
  BY DEF Notify, flagVars, boxVars, timerVars
<1> DEFINE next == IF call[t] = "stopNotify" THEN "wait" ELSE "none"
           woken == [u \in Threads |-> IF u = t THEN next
                                       ELSE IF call[u] = "waiting" THEN "wait" ELSE call[u]]
           alone == [call EXCEPT ![t] = next]
<1>2. \/ loop' = Woken /\ call' \in {woken, alone}
      \/ loop' = loop /\ call' = woken /\ woken # alone
  BY DEF Notify
<1>3. next \in {"none", "wait"} /\ (next = "wait" <=> call[t] = "stopNotify")
  OBVIOUS
<1>4. woken # alone => \E u \in Threads : call[u] = "waiting"
  <2>1. alone = [u \in Threads |-> IF u = t THEN next ELSE call[u]]
    BY DEF TypeOK
  <2> QED
    BY <2>1
<1>5. loop' \notin {"asleep", "resting"}
  <2>1. CASE loop' = Woken
    BY <2>1, WokenFacts
  <2>2. CASE loop' = loop /\ woken # alone
    BY <1>4, <2>2 DEF Shutters
  <2> QED
    BY <1>2, <2>1, <2>2
<1>6. \A u \in Threads :
        /\ call'[u] \in {"none", "notifyOne", "notifyAll", "stopNotify", "wait", "waiting",
                         "reap"}
        /\ call'[u] \in Shutting => call[u] \in Shutting
  <2> HIDE DEF next
  <2>1. call' \in {woken, alone}
    BY <1>2
  <2> QED
    BY <1>1, <1>3, <2>1 DEF TypeOK, Shutting
<1>7. call' \in [Threads -> {"none", "notifyOne", "notifyAll", "stopNotify", "wait",
                             "waiting", "reap"}]
  <2>1. DOMAIN call' = Threads /\ call' = [u \in DOMAIN call' |-> call'[u]]
    BY <1>2 DEF TypeOK
  <2> QED
    BY <1>6, <2>1
<1>8. /\ loop' \in {"none", "top", "task", "drain", "callback", "fired", "asleep", "woken",
                    "resting", "rested", "exited"}
      /\ loop' = "none" <=> loop = "none"
      /\ loop' = "task" <=> loop = "task"
      /\ loop' = "callback" <=> loop = "callback"
      /\ loop' \in {"exited", "none"} <=> loop \in {"exited", "none"}
  BY <1>2, WokenFacts DEF TypeOK
<1>9. TypeOK'
  BY <1>1, <1>7, <1>8 DEF TypeOK
<1>10. Running' = Running
  BY <1>1 DEF Running
<1>11. OneRuns' /\ Fires'
  BY <1>1, <1>8, <1>10 DEF OneRuns, Fires
<1>12. Shutters'
  BY <1>1, <1>5, <1>6 DEF Shutters
<1>13. NoOversleep' /\ MailboxStep
  BY <1>1, <1>5, Awake, Unseen
<1> QED
  BY <1>9, <1>11, <1>12, <1>13

--------------------------------------------------------------------------------
(* ThreadMain. *)

LEMMA LeaveInv ==
  ASSUME Inv, Leave
  PROVE  Inv' /\ MailboxStep
<1> USE DEF Inv
<1>1. /\ UNCHANGED <<now, started, stopped, paused, until, queues, fate, nextFire, entry, firing>>
      /\ stopped /\ loop \in {"top", "drain", "fired"}
      /\ loop' = "exited" /\ exited' = TRUE /\ due' = <<>> /\ looked' = 0
      /\ call' = [u \in Threads |-> IF call[u] = "waiting" THEN "wait" ELSE call[u]]
      /\ timers' \in {<<>>, timers}
  BY DEF Leave, Exit, boxVars
<1>2. ToSet(timers') \subseteq ToSet(timers) /\ timers' \in Seq(Timers) /\ ToSet(due') = {}
  <2>1. ToSet(<<>>) = {} /\ <<>> \in Seq(Timers)
    BY DEF ToSet
  <2> QED
    BY <1>1, <2>1 DEF TypeOK
<1>3. /\ call' \in [Threads -> {"none", "notifyOne", "notifyAll", "stopNotify", "wait",
                                "waiting", "reap"}]
      /\ \A u \in Threads : call'[u] \in Shutting => call[u] \in Shutting
  BY <1>1 DEF TypeOK, Shutting
<1>4. TypeOK'
  <2>1. 0 \in 0..MaxTime /\ due' \in Seq(Timers)
    BY <1>1, TimersAssumption
  <2> QED
    BY <1>1, <1>2, <1>3, <2>1 DEF TypeOK
<1>5. Running' = Running
  BY <1>1 DEF Running
<1>6. OneRuns' /\ Fires'
  BY <1>1, <1>2, <1>5 DEF OneRuns, Fires
<1>7. Shutters'
  BY <1>1, <1>3, ShuttersKept
<1>8. NoOversleep' /\ MailboxStep
  BY <1>1, Awake, Unseen
<1> QED
  BY <1>4, <1>6, <1>7, <1>8

LEMMA RestInv ==
  ASSUME Inv, Rest
  PROVE  Inv' /\ MailboxStep
<1> USE DEF Inv
<1>1. /\ UNCHANGED <<now, started, stopped, paused, exited, until, looked, due, queues, fate,
                     timers, nextFire, entry, firing, call>>
      /\ ~stopped /\ paused /\ loop \in {"top", "rested"} /\ loop' = "resting"
  BY DEF Rest, flagVars, boxVars, timerVars
<1>2. TypeOK'
  BY <1>1 DEF TypeOK
<1>3. Running' = Running
  BY <1>1 DEF Running
<1>4. OneRuns' /\ Fires'
  BY <1>1, <1>3 DEF OneRuns, Fires
<1>5. Shutters'
  BY <1>1 DEF Shutters, Shutting
<1>6. NoOversleep' /\ MailboxStep
  BY <1>1, Unseen DEF NoOversleep, TypeOK
<1> QED
  BY <1>2, <1>4, <1>5, <1>6

LEMMA DequeueInv ==
  ASSUME Inv, Dequeue
  PROVE  Inv' /\ MailboxStep
<1> USE DEF Inv
<1>1. /\ UNCHANGED <<now, started, stopped, paused, exited, until, looked, due, timers,
                     nextFire, entry, firing, call>>
      /\ ~stopped /\ loop \in {"top", "drain"} /\ loop' = "task"
  BY DEF Dequeue, flagVars, timerVars
<1>2. PICK l \in Lanes :
        /\ queues[l] # <<>>
        /\ queues["Critical"] # <<>> => l = "Critical"
        /\ queues["Normal"] # <<>> => l # "Background"
        /\ queues' = [queues EXCEPT ![l] = Tail(@)]
        /\ fate' = [fate EXCEPT ![Head(queues[l])] = "running"]
  BY DEF Dequeue
<1> DEFINE k == Head(queues[l])
<1>3. k \in Tasks /\ Tail(queues[l]) \in Seq(Tasks)
  <2>1. queues[l] \in Seq(Tasks)
    BY DEF TypeOK
  <2> QED
    BY <1>2, <2>1, ToSetFacts
<1>4. TypeOK'
  <2>1. queues' \in [Lanes -> Seq(Tasks)]
    BY <1>2, <1>3 DEF TypeOK
  <2>2. fate' \in [Tasks -> {"new", "queued", "running", "ran", "dropped"}]
    BY <1>2, <1>3 DEF TypeOK
  <2> QED
    BY <1>1, <2>1, <2>2 DEF TypeOK
<1>5. Running = {} /\ Running' = Running \cup {k}
  BY <1>1, <1>2, <1>3 DEF OneRuns, Running, TypeOK
<1>6. OneRuns'
  BY <1>1, <1>5 DEF OneRuns
<1>7. Fires' /\ Shutters'
  BY <1>1 DEF Fires, Shutters
<1>8. NoOversleep'
  BY <1>1, Awake
<1>9. Mailbox!Start(l)
  BY <1>1, <1>2, <1>5 DEF Mailbox!Start, Mailbox!Above, Lanes
<1> QED
  BY <1>4, <1>6, <1>7, <1>8, <1>9 DEF MailboxStep, Mailbox!Next, Lanes, Mailbox!Lanes

LEMMA EndTaskInv ==
  ASSUME Inv, NEW k \in Tasks, EndTask(k)
  PROVE  Inv' /\ MailboxStep
<1> USE DEF Inv
<1>1. /\ UNCHANGED <<now, started, stopped, paused, exited, until, looked, due, queues, timers,
                     nextFire, entry, firing, call>>
      /\ loop = "task" /\ loop' = "drain" /\ fate[k] = "running"
      /\ fate' = [fate EXCEPT ![k] = "ran"]
  BY DEF EndTask, flagVars, timerVars
<1>2. TypeOK'
  BY <1>1 DEF TypeOK
<1>3. k \in Running /\ Running' = Running \ {k}
  BY <1>1 DEF Running, TypeOK
<1>4. OneRuns'
  BY <1>1, <1>3 DEF OneRuns
<1>5. Fires' /\ Shutters'
  BY <1>1 DEF Fires, Shutters
<1>6. NoOversleep'
  BY <1>1, Awake
<1>7. Mailbox!Finish(k)
  BY <1>1, <1>3 DEF Mailbox!Finish
<1> QED
  BY <1>2, <1>4, <1>5, <1>6, <1>7 DEF MailboxStep, Mailbox!Next

\* Who turns while nothing stops it turns to work, or to a sleep that is not too long.
LEMMA TurnSleep ==
  ASSUME Inv, ~stopped, WaitOrTurn(now, entry, nextFire) \/ WaitOrTurn(looked, entry, nextFire),
         UNCHANGED <<stopped, queues, nextFire, entry>>
  PROVE  /\ NoOversleep' /\ timers' \in Seq(Timers) /\ ToSet(timers') \subseteq ToSet(timers)
         /\ loop' \in {"top", "asleep"} /\ until' \in Nat \cup {Never}
<1>1. /\ timers' \in Seq(Timers) /\ ToSet(timers') = Live
      /\ loop' \in {"top", "asleep"} /\ until' \in Nat \cup {Never}
      /\ loop' = "asleep" =>
           ~HasWork /\ \A k \in Live : until' # Never /\ until' <= nextFire[k]
  BY TurnFacts
<1>2. Live' = Live /\ HasWork' = HasWork
  BY <1>1 DEF Live, HasWork
<1> QED
  BY <1>1, <1>2 DEF NoOversleep, Live

LEMMA CollectInv ==
  ASSUME Inv, Collect
  PROVE  Inv' /\ MailboxStep
<1> USE DEF Inv
<1> DEFINE collected == Kept(timers, {k \in Timers : Due(k)})
<1>1. /\ UNCHANGED <<now, started, stopped, paused, exited, queues, fate, call>>
      /\ ~stopped /\ loop \in {"top", "drain"} /\ ~HasWork
      /\ nextFire' = [k \in Timers |->
                        IF k \in ToSet(collected) /\ k \in Repeating THEN now + IntervalOf[k]
                        ELSE nextFire[k]]
      /\ entry' = [k \in Timers |->
                     IF k \in ToSet(collected) \ Repeating /\ entry[k] = "live" THEN "spent"
                     ELSE entry[k]]
      /\ IF collected = <<>>
           THEN WaitOrTurn(now, entry, nextFire) /\ UNCHANGED <<looked, due, firing>>
           ELSE /\ due' = collected /\ loop' = "callback" /\ looked' = now
                /\ firing' = firing \cup {Head(collected)}
                /\ UNCHANGED <<until, timers>>
  BY DEF Collect, flagVars, boxVars
<1>2. /\ collected \in Seq(Timers)
      /\ \A k \in ToSet(collected) : k \in Timers /\ k \in ToSet(timers) /\ entry[k] = "live"
  <2>1. timers \in Seq(Timers)
    BY DEF TypeOK
  <2>2. collected \in Seq(Timers)
    BY <2>1, KeptSeq
  <2>3. ToSet(collected) = ToSet(timers) \cap {k \in Timers : Due(k)}
    BY <2>1, KeptMembers
  <2> HIDE DEF collected
  <2> QED
    BY <2>2, <2>3 DEF Due
<1> HIDE DEF collected
<1>3. Running' = Running /\ HasWork' = HasWork
  BY <1>1 DEF Running, HasWork
<1>4. MailboxStep
  BY <1>1, Unseen
<1>5. CASE collected = <<>>
  <2>1. ToSet(collected) = {}
    BY <1>5 DEF ToSet
  <2>2. nextFire' = nextFire /\ entry' = entry
    BY <1>1, <2>1 DEF TypeOK
  <2>3. /\ NoOversleep' /\ timers' \in Seq(Timers) /\ ToSet(timers') \subseteq ToSet(timers)
        /\ loop' \in {"top", "asleep"} /\ until' \in Nat \cup {Never}
    BY <1>1, <1>5, <2>2, TurnSleep
  <2>4. TypeOK'
    BY <1>1, <1>5, <2>2, <2>3 DEF TypeOK
  <2>5. OneRuns' /\ Fires'
    BY <1>1, <1>3, <1>5, <2>2, <2>3 DEF OneRuns, Fires
  <2>6. Shutters'
    BY <1>1 DEF Shutters, Shutting
  <2> QED
    BY <1>4, <2>3, <2>4, <2>5, <2>6
<1>6. CASE collected # <<>>
  <2>1. /\ Head(collected) \in ToSet(collected) /\ Head(collected) \in Timers
        /\ due' = collected /\ loop' = "callback" /\ looked' = now
        /\ firing' = firing \cup {Head(collected)}
        /\ UNCHANGED <<until, timers>>
    BY <1>1, <1>2, <1>6, ToSetFacts
  <2>2. \A k \in Timers :
          /\ nextFire'[k] = nextFire[k] \/ nextFire'[k] \in Nat
          /\ entry'[k] = IF k \in ToSet(collected) \ Repeating THEN "spent" ELSE entry[k]
    <3>1. \A k \in Repeating : now + IntervalOf[k] \in Nat
      <4>1. now \in Nat /\ \A k \in Timers : IntervalOf[k] \in Nat
        BY TimersAssumption DEF TypeOK
      <4> QED
        BY <4>1, TimersAssumption
    <3> QED
      BY <1>1, <1>2, <3>1
  <2>3. TypeOK'
    <3>1. nextFire' \in [Timers -> Nat \cup {Never}]
      BY <1>1, <2>2 DEF TypeOK
    <3>2. entry' \in [Timers -> {"live", "spent", "cancelled"}]
      BY <1>1, <2>2 DEF TypeOK
    <3> QED
      BY <1>1, <1>2, <2>1, <3>1, <3>2 DEF TypeOK
  <2>4. OneRuns'
    BY <1>1, <1>3, <2>1 DEF OneRuns
  <2>5. Fires'
    <3>1. \A k \in ToSet(timers') : nextFire'[k] # Never
      BY <2>1, <2>2, LiveTimes DEF Never
    <3>2. ASSUME NEW k \in Timers \ Repeating, k \in firing' \cup ToSet(due')
          PROVE  entry'[k] = "spent"
      <4>1. k \in firing \/ k \in ToSet(collected)
        BY <2>1, <3>2
      <4> QED
        BY <2>2, <4>1 DEF Fires
    <3> QED
      BY <1>6, <2>1, <3>1, <3>2 DEF Fires
  <2>6. Shutters'
    BY <1>1, <2>1 DEF Shutters, Shutting
  <2>7. NoOversleep'
    BY <2>1, Awake
  <2> QED
    BY <1>4, <2>3, <2>4, <2>5, <2>6, <2>7
<1> QED
  BY <1>5, <1>6

LEMMA EndCallbackInv ==
  ASSUME Inv, EndCallback
  PROVE  Inv' /\ MailboxStep
<1> USE DEF Inv
<1>1. /\ UNCHANGED <<now, started, stopped, paused, exited, until, looked, queues, fate, timers,
                     nextFire, entry, firing, call>>
      /\ loop = "callback" /\ loop' = "fired" /\ due' = Tail(due)
  BY DEF EndCallback, flagVars, boxVars, timerVars
<1>2. due' \in Seq(Timers) /\ ToSet(due') \subseteq ToSet(due)
  <2>1. due \in Seq(Timers) /\ due # <<>>
    BY <1>1 DEF TypeOK, Fires
  <2> QED
    BY <1>1, <2>1, ToSetFacts
<1>3. TypeOK'
  BY <1>1, <1>2 DEF TypeOK
<1>4. Running' = Running
  BY <1>1 DEF Running
<1>5. OneRuns'
  BY <1>1, <1>4 DEF OneRuns
<1>6. Fires'
  BY <1>1, <1>2 DEF Fires
<1>7. Shutters' /\ NoOversleep' /\ MailboxStep
  BY <1>1, Awake, Unseen DEF Shutters
<1> QED
  BY <1>3, <1>5, <1>6, <1>7

LEMMA AfterCallbackInv ==
  ASSUME Inv, AfterCallback
  PROVE  Inv' /\ MailboxStep
<1> USE DEF Inv
<1>1. /\ UNCHANGED <<now, started, stopped, paused, exited, due, queues, fate, nextFire, entry,
                     call>>
      /\ ~stopped /\ loop = "fired"
      /\ IF due = <<>>
           THEN WaitOrTurn(looked, entry, nextFire) /\ looked' = 0 /\ UNCHANGED firing
           ELSE /\ loop' = "callback" /\ firing' = firing \cup {Head(due)}
                /\ UNCHANGED <<until, looked, timers>>
  BY DEF AfterCallback, flagVars, boxVars
<1>2. Running' = Running
  BY <1>1 DEF Running
<1>3. MailboxStep
  BY <1>1, Unseen
<1>4. Shutters'
  BY <1>1 DEF Shutters, Shutting
<1>5. CASE due = <<>>
  <2>1. /\ NoOversleep' /\ timers' \in Seq(Timers) /\ ToSet(timers') \subseteq ToSet(timers)
        /\ loop' \in {"top", "asleep"} /\ until' \in Nat \cup {Never}
    BY <1>1, <1>5, TurnSleep
  <2>2. TypeOK'
    <3>1. 0 \in 0..MaxTime
      BY TimersAssumption
    <3> QED
      BY <1>1, <1>5, <2>1, <3>1 DEF TypeOK
  <2>3. OneRuns' /\ Fires'
    BY <1>1, <1>2, <1>5, <2>1 DEF OneRuns, Fires
  <2> QED
    BY <1>3, <1>4, <2>1, <2>2, <2>3
<1>6. CASE due # <<>>
  <2>1. Head(due) \in Timers /\ Head(due) \in ToSet(due)
    BY <1>6, ToSetFacts DEF TypeOK
  <2>2. TypeOK'
    BY <1>1, <1>6, <2>1 DEF TypeOK
  <2>3. OneRuns' /\ Fires'
    BY <1>1, <1>2, <1>6, <2>1 DEF OneRuns, Fires
  <2>4. NoOversleep'
    BY <1>1, <1>6, Awake
  <2> QED
    BY <1>3, <1>4, <2>2, <2>3, <2>4
<1> QED
  BY <1>5, <1>6

LEMMA WakeInv ==
  ASSUME Inv, Wake \/ SpuriousWake
  PROVE  Inv' /\ MailboxStep
<1> USE DEF Inv
<1>1. /\ UNCHANGED <<now, started, stopped, paused, exited, looked, due, queues, fate, timers,
                     nextFire, entry, firing, call>>
      /\ loop \in {"asleep", "woken", "resting", "rested"}
      /\ loop' \in {"top", "woken", "rested"} /\ until' \in {until, Never}
  BY DEF Wake, SpuriousWake, Woken, flagVars, boxVars, timerVars, TypeOK
<1>2. TypeOK'
  BY <1>1 DEF TypeOK
<1>3. Running' = Running
  BY <1>1 DEF Running
<1>4. OneRuns' /\ Fires' /\ Shutters'
  BY <1>1, <1>3 DEF OneRuns, Fires, Shutters
<1>5. NoOversleep' /\ MailboxStep
  BY <1>1, Awake, Unseen
<1> QED
  BY <1>2, <1>4, <1>5

LEMMA SleepAgainInv ==
  ASSUME Inv, SleepAgain
  PROVE  Inv' /\ MailboxStep
<1> USE DEF Inv
<1>1. /\ UNCHANGED <<now, started, stopped, paused, exited, until, looked, due, queues, fate,
                     timers, nextFire, entry, firing, call>>
      /\ loop = "woken" /\ loop' = "asleep" /\ ~stopped /\ ~HasWork
      /\ ~Before(NextDeadline(Live, nextFire), until)
  BY DEF SleepAgain, flagVars, boxVars, timerVars
<1>2. TypeOK'
  BY <1>1 DEF TypeOK
<1>3. Running' = Running /\ Live' = Live /\ HasWork' = HasWork
  BY <1>1 DEF Running, Live, HasWork
<1>4. OneRuns' /\ Fires'
  BY <1>1, <1>3 DEF OneRuns, Fires
<1>5. Shutters'
  BY <1>1 DEF Shutters, Shutting
<1>6. \A k \in Live : until # Never /\ until <= nextFire[k]
  <2> DEFINE d == NextDeadline(Live, nextFire)
  <2>1. /\ d \in Nat \cup {Never} /\ \A k \in Live : d # Never /\ d <= nextFire[k]
        /\ \A k \in Live : nextFire[k] \in Nat
    BY LiveTimes, DeadlineFacts
  <2>2. until \in Nat \cup {Never}
    BY DEF TypeOK
  <2> HIDE DEF d
  <2>3. d # Never => until # Never /\ ~(d < until)
    BY <1>1 DEF Before, d
  <2> QED
    BY <2>1, <2>2, <2>3 DEF Never
<1>7. NoOversleep' /\ MailboxStep
  BY <1>1, <1>3, <1>6, Unseen DEF NoOversleep
<1> QED
  BY <1>2, <1>4, <1>5, <1>7

--------------------------------------------------------------------------------
(* Shutdown. *)

LEMMA ShutdownInv ==
  ASSUME Inv, NEW t \in Threads, Shutdown(t)
  PROVE  Inv' /\ MailboxStep
<1> USE DEF Inv
<1>1. /\ UNCHANGED <<now, started, paused, exited, loop, until, looked, due, timers, nextFire,
                     firing>>
      /\ call[t] = "none" /\ ~stopped /\ stopped' = TRUE
      /\ queues' = [l \in Lanes |-> <<>>]
      /\ fate' = [k \in Tasks |-> IF fate[k] = "queued" THEN "dropped" ELSE fate[k]]
      /\ entry' = [k \in Timers |-> IF k \in Live THEN "cancelled" ELSE entry[k]]
      /\ call' = [call EXCEPT ![t] = "stopNotify"]
  BY DEF Shutdown, InCode, threadVars
<1>2. TypeOK'
  <2>1. queues' \in [Lanes -> Seq(Tasks)]
    BY <1>1
  <2>2. fate' \in [Tasks -> {"new", "queued", "running", "ran", "dropped"}]
    BY <1>1 DEF TypeOK
  <2>3. entry' \in [Timers -> {"live", "spent", "cancelled"}]
    BY <1>1 DEF TypeOK
  <2>4. call' \in [Threads -> {"none", "notifyOne", "notifyAll", "stopNotify", "wait",
                               "waiting", "reap"}]
    BY <1>1 DEF TypeOK
  <2> QED
    BY <1>1, <2>1, <2>2, <2>3, <2>4 DEF TypeOK
<1>3. Running' = Running
  BY <1>1 DEF Running, TypeOK
<1>4. OneRuns'
  BY <1>1, <1>3 DEF OneRuns
<1>5. Fires'
  BY <1>1 DEF Fires, Live
<1>6. call'[t] = "stopNotify" /\ \A u \in Threads \ {t} : call'[u] = call[u]
  BY <1>1 DEF TypeOK
<1>7. Shutters'
  BY <1>1, <1>6 DEF Shutters, Shutting
<1>8. NoOversleep'
  <2>1. Notifying'
    BY <1>6 DEF Notifying
  <2>2. ASSUME NEW k \in ToSet(timers)
        PROVE  entry'[k] # "live"
    <3>1. k \in Timers
      BY LiveTimes
    <3> QED
      BY <1>1, <3>1 DEF Live
  <2>3. Live' \subseteq Live
    BY <1>1, <2>2 DEF Live
  <2> QED
    BY <1>1, <2>1, <2>3, SleepKept
<1>9. Mailbox!Close
  BY <1>1, <1>3 DEF Mailbox!Close, Lanes, Mailbox!Lanes
<1> QED
  BY <1>2, <1>4, <1>5, <1>7, <1>8, <1>9 DEF MailboxStep, Mailbox!Next

LEMMA WaitInv ==
  ASSUME Inv, NEW t \in Threads, WaitForExit(t) \/ BudgetOver(t) \/ Detach(t)
  PROVE  Inv' /\ MailboxStep
<1> USE DEF Inv
<1>1. /\ UNCHANGED <<now, started, stopped, paused, exited, loop, until, looked, due, queues,
                     fate, timers, nextFire, entry, firing>>
      /\ call[t] \in {"wait", "waiting", "reap"}
      /\ \E c \in {"waiting", "reap", "none"} : call' = [call EXCEPT ![t] = c]
  BY DEF WaitForExit, BudgetOver, Detach, flagVars, threadVars, boxVars, timerVars
<1>2. TypeOK'
  BY <1>1 DEF TypeOK
<1>3. Running' = Running /\ Live' = Live /\ HasWork' = HasWork
  BY <1>1 DEF Running, Live, HasWork
<1>4. OneRuns' /\ Fires'
  BY <1>1, <1>3 DEF OneRuns, Fires
<1>5. \A u \in Threads : call'[u] = call[u] \/ (u = t /\ call'[u] \in {"waiting", "reap", "none"})
  BY <1>1 DEF TypeOK
<1>6. loop \notin {"asleep", "resting"} /\ stopped
  BY <1>1 DEF Shutters, Shutting
<1>7. Shutters'
  BY <1>1, <1>5, <1>6, ShuttersKept DEF Shutting
<1>8. NoOversleep' /\ MailboxStep
  BY <1>1, <1>6, Awake, Unseen
<1> QED
  BY <1>2, <1>4, <1>7, <1>8

LEMMA JoinInv ==
  ASSUME Inv, NEW t \in Threads, Join(t)
  PROVE  Inv' /\ MailboxStep
<1> USE DEF Inv
<1>1. /\ UNCHANGED <<now, paused, exited, until, looked, due, queues, fate, nextFire, entry,
                     firing>>
      /\ call[t] = "reap" /\ exited /\ started' = FALSE /\ stopped' = FALSE
      /\ loop' = "none" /\ timers' = <<>> /\ call' = [call EXCEPT ![t] = "none"]
  BY DEF Join, boxVars
<1>2. stopped /\ \A u \in Threads : call[u] \in Shutting => u = t
  BY <1>1 DEF Shutters, Shutting
<1>3. TypeOK'
  <2>1. timers' \in Seq(Timers)
    BY <1>1
  <2>2. call' \in [Threads -> {"none", "notifyOne", "notifyAll", "stopNotify", "wait",
                               "waiting", "reap"}]
    BY <1>1 DEF TypeOK
  <2> QED
    BY <1>1, <2>1, <2>2 DEF TypeOK
<1>4. Running = {} /\ Running' = Running
  BY <1>1 DEF Running, OneRuns
<1>5. OneRuns'
  BY <1>1, <1>4 DEF OneRuns
<1>6. Fires'
  <2>1. ToSet(timers') = {}
    BY <1>1 DEF ToSet
  <2> QED
    BY <1>1, <2>1 DEF Fires
<1>7. Shutters'
  <2>1. \A u \in Threads : call'[u] \notin Shutting
    BY <1>1, <1>2 DEF TypeOK, Shutting
  <2> QED
    BY <2>1 DEF Shutters, Shutting
<1>8. NoOversleep'
  BY <1>1, Awake
<1>9. Mailbox!Reopen
  BY <1>1, <1>2, <1>4 DEF Mailbox!Reopen
<1> QED
  BY <1>3, <1>5, <1>6, <1>7, <1>8, <1>9 DEF MailboxStep, Mailbox!Next

--------------------------------------------------------------------------------
(* The specification. *)

LEMMA NextInv == Inv /\ [Next]_vars => Inv' /\ MailboxStep
<1> SUFFICES ASSUME Inv, [Next]_vars PROVE Inv' /\ MailboxStep
  OBVIOUS
<1>1. ASSUME NEW t \in Threads, NEW k \in Tasks, Post(t, k) \/ PostStopped(t, k)
      PROVE  Inv' /\ MailboxStep
  BY <1>1, PostInv, PostStoppedInv
<1>2. ASSUME NEW t \in Threads, NEW k \in Timers, Schedule(t, k) \/ CancelTimer(t, k)
      PROVE  Inv' /\ MailboxStep
  BY <1>2, ScheduleInv, CancelTimerInv
<1>3. ASSUME NEW t \in Threads, Start(t) \/ Pause(t) \/ Resume(t) \/ Shutdown(t)
      PROVE  Inv' /\ MailboxStep
  BY <1>3, StartInv, SwitchInv, ShutdownInv
<1>4. ASSUME NEW t \in Threads, BudgetOver(t) \/ CallStep(t)
      PROVE  Inv' /\ MailboxStep
  BY <1>4, NotifyInv, WaitInv, JoinInv DEF CallStep
<1>5. CASE ThreadStep
  BY <1>5, LeaveInv, RestInv, DequeueInv, CollectInv, AfterCallbackInv, WakeInv,
     SleepAgainInv DEF ThreadStep
<1>6. CASE Runs \/ EndCallback
  BY <1>6, EndTaskInv, EndCallbackInv DEF Runs
<1>7. CASE SpuriousWake \/ Tick
  BY <1>7, WakeInv, TickInv
<1>8. CASE UNCHANGED vars
  <2>1. UNCHANGED <<now, started, stopped, paused, exited, loop, until, looked, due, queues,
                    fate, timers, nextFire, entry, firing, call>>
    BY <1>8 DEF vars, flagVars, threadVars, boxVars, timerVars
  <2>2. Running' = Running /\ Live' = Live /\ HasWork' = HasWork /\ Notifying' = Notifying
    BY <2>1 DEF Running, Live, HasWork, Notifying
  <2>3. TypeOK' /\ OneRuns' /\ Fires' /\ Shutters' /\ NoOversleep'
    BY <2>1, <2>2 DEF Inv, TypeOK, OneRuns, Fires, Shutters, NoOversleep
  <2> QED
    BY <2>1, <2>3, Unseen DEF Inv
<1> QED
  BY <1>1, <1>2, <1>3, <1>4, <1>5, <1>6, <1>7, <1>8 DEF Next

LEMMA InvHolds == Spec => []Inv
<1>1. Inv /\ [Next]_vars => Inv'
  BY NextInv
<1>2. Init => Inv
  BY InitInv
<1> QED
  BY <1>1, <1>2, PTL DEF Spec

\* All variables keep their types; a coordinator is started exactly while it has a thread.
THEOREM TypeCorrect == Spec => []TypeOK
<1>1. Inv => TypeOK
  BY DEF Inv
<1> QED
  BY <1>1, InvHolds, PTL

\* The thread never waits past a timer, a task, a resume or a shutdown: no wake-up is
\* lost, whoever else waits on the same condition variable.
THEOREM NeverOversleeps == Spec => []NoOversleep
<1>1. Inv => NoOversleep
  BY DEF Inv
<1> QED
  BY <1>1, InvHolds, PTL

\* A one-shot that CancelTimer or Shutdown found waiting never calls back.
THEOREM CancelsHold == Spec => []CancelHolds
<1>1. Inv => CancelHolds
  BY DEF Inv, Fires, CancelHolds
<1> QED
  BY <1>1, InvHolds, PTL

\* CoordinatorThread implements the priority mailbox, over any number of restarts.
THEOREM IsPriorityMailbox == Spec => ImplementsMailbox
<1>1. Init => Inv /\ Mailbox!Init
  BY InitInv
<1>2. Inv /\ [Next]_vars => Inv' /\ [Mailbox!Next]_(Mailbox!vars)
  BY NextInv DEF MailboxStep
<1> QED
  BY <1>1, <1>2, PTL DEF Spec, ImplementsMailbox, Mailbox!Spec
================================================================================
