-------------------------- MODULE ThreadExecutorProofs --------------------------
(***************************************************************************)
(* A ThreadExecutor for any threads, tasks, timers and delays: its timers  *)
(* leave in the order of their deadlines, a Stop that returned left it at  *)
(* rest, and without its timers it is a SerialMailbox.                     *)
(*                                                                         *)
(* The argument: each queued task is once in the queue, or once in Stop's  *)
(* deque; an armed timer's id is among the deadlines until the stop; the   *)
(* ids grow from call to call, so a timer armed later is later than all    *)
(* that fired; and only the keeper is ever in a Stop.                      *)
(***************************************************************************)
EXTENDS ThreadExecutor, FiniteSetTheorems, SequenceTheorems, WellFoundedInduction, TLAPS

Distinct(s) == \A i, j \in 1..Len(s) : s[i] = s[j] => i = j

Running == {k \in Items : fate[k] = "running"}
Numbered == {j \in Timers : id[j] # 0}

Types ==
  /\ now \in 0..MaxTime /\ stopped \in BOOLEAN
  /\ queue \in Seq(Items) /\ dropped \in Seq(Items)
  /\ deadlines \subseteq Timers
  /\ when \in [Timers -> Nat] /\ id \in [Timers -> Nat]
  /\ fate \in [Items -> {"new", "armed", "queued", "running", "ran", "cancelled",
                         "dropped"}]
  /\ loop \in {"look", "asleep", "run", "exited"} /\ until \in Nat \cup {Never}
  /\ call \in [Threads -> {"none", "notify", "notifyWait", "notifyStop", "wait",
                           "standin", "join", "drop"}]
  /\ refused \subseteq Callers /\ missed \subseteq Timers

\* The thread runs one task at a time.
OneRuns ==
  /\ loop = "run" <=> \E k \in Items : fate[k] = "running"
  /\ \A j, k \in Running : j = k

\* A queued task is in one place, once.
Places ==
  /\ ToSet(queue) \cup ToSet(dropped) = {k \in Items : fate[k] = "queued"}
  /\ Distinct(queue) /\ Distinct(dropped)
  /\ IF stopped THEN queue = <<>> ELSE dropped = <<>>

\* An armed timer is waited for until the stop; ids are given one after the other.
Arming ==
  /\ \A k \in Items : fate[k] = "armed" => k \in Timers /\ (stopped \/ k \in deadlines)
  /\ \A k \in Timers : /\ fate[k] = "new" => id[k] = 0
                       /\ id[k] <= Cardinality(Numbered)

\* The keeper alone stops; until the thread has left, it is in that call.
StopCalls == {"notifyStop", "join", "drop"}
Stops ==
  /\ \A t \in Threads : call[t] \in StopCalls => t = Keeper /\ stopped
  /\ call[Keeper] = "drop" => loop = "exited"
  /\ stopped /\ call[Keeper] \notin StopCalls =>
       /\ loop = "exited" /\ dropped = <<>>
       /\ \A k \in Items : fate[k] # "armed"
  /\ loop = "exited" => stopped

\* A caller that was not refused loses its task only when the thread has left.
StandIns ==
  /\ \A c \in Callers : call[c] = "standin" => fate[c] = "dropped"
  /\ \A c \in Callers \ refused : fate[c] = "dropped" => loop = "exited"

Inv == Types /\ OneRuns /\ Places /\ Arming /\ DeadlineOrder /\ Stops /\ StandIns

MailboxStep == [Mailbox!Next]_(Mailbox!vars)

--------------------------------------------------------------------------------
(* Induction: a smallest number is among those that a claim is false for. *)

LEMMA Smallest ==
  ASSUME NEW X \in SUBSET Nat, X # {}
  PROVE  \E n \in X : \A m \in X : n <= m
<1>1. PICK n \in X : \A m \in X : ~(<<m, n>> \in OpToRel(<, Nat))
  BY NatLessThanWellFounded, WFMin
<1>2. \A m \in X : ~(m < n)
  BY <1>1 DEF OpToRel
<1> QED
  BY <1>2

\* The first index of 0..n that is in X.
LEMMA First ==
  ASSUME NEW n \in Nat, NEW X \in SUBSET (0..n), X # {}
  PROVE  \E i \in X : /\ i \in 0..n
                      /\ i # 0 => i \in 1..n /\ i - 1 \in 0..n /\ i - 1 \notin X
<1>1. X \in SUBSET Nat
  OBVIOUS
<1>2. PICK i \in X : \A j \in X : i <= j
  BY <1>1, Smallest
<1>3. i \in 0..n /\ i - 1 \notin X
  BY <1>1, <1>2
<1> QED
  BY <1>3

(* What Kept computes. *)

\* F holds what is kept of the first i entries of s, for i up to n.
IsKept(F, n, s, T) ==
  /\ F = [i \in 0..n |-> F[i]]
  /\ \A i \in 0..n :
       F[i] = IF i = 0 THEN <<>>
              ELSE IF s[i] \in T THEN Append(F[i - 1], s[i]) ELSE F[i - 1]

LEMMA KeptExists ==
  ASSUME NEW s, NEW T, NEW n \in Nat
  PROVE  \E F : IsKept(F, n, s, T)
<1> DEFINE X == {m \in Nat : ~ \E F : IsKept(F, m, s, T)}
<1> SUFFICES ASSUME X # {} PROVE FALSE
  OBVIOUS
<1>1. PICK m \in X : \A k \in X : m <= k
  BY Smallest
<1>2. m # 0
  <2>1. IsKept([i \in 0..0 |-> <<>>], 0, s, T)
    BY DEF IsKept
  <2> QED
    BY <1>1, <2>1
<1>3. m - 1 \in Nat /\ m - 1 \notin X
  BY <1>1, <1>2
<1>4. PICK F : IsKept(F, m - 1, s, T)
  BY <1>3
<1> DEFINE G == [i \in 0..m |-> IF i < m THEN F[i]
                   ELSE IF s[m] \in T THEN Append(F[m - 1], s[m]) ELSE F[m - 1]]
<1>5. IsKept(G, m, s, T)
  <2>1. ASSUME NEW i \in 0..m
        PROVE  G[i] = IF i = 0 THEN <<>>
                      ELSE IF s[i] \in T THEN Append(G[i - 1], s[i]) ELSE G[i - 1]
    <3>1. CASE i = m
      BY <1>1, <1>2, <3>1
    <3>2. CASE i # m
      <4>1. i \in 0..m - 1 /\ (i = 0 \/ i - 1 \in 0..m) /\ i < m /\ i - 1 < m
        BY <1>1, <3>2
      <4> QED
        BY <1>4, <4>1 DEF IsKept
    <3> QED
      BY <3>1, <3>2
  <2> QED
    BY <2>1 DEF IsKept
<1> QED
  BY <1>1, <1>5

LEMMA KeptToIs ==
  ASSUME NEW s, NEW T, Len(s) \in Nat
  PROVE  IsKept(KeptTo(s, T), Len(s), s, T)
<1>1. PICK G : IsKept(G, Len(s), s, T)
  BY KeptExists
<1>2. G = [i \in 0..Len(s) |->
             IF i = 0 THEN <<>>
             ELSE IF s[i] \in T THEN Append(G[i - 1], s[i]) ELSE G[i - 1]]
  BY <1>1 DEF IsKept
<1>3. KeptTo(s, T) =
        [i \in 0..Len(s) |->
           IF i = 0 THEN <<>>
           ELSE IF s[i] \in T THEN Append(KeptTo(s, T)[i - 1], s[i])
           ELSE KeptTo(s, T)[i - 1]]
  BY <1>2 DEF KeptTo
<1> QED
  BY <1>3 DEF IsKept

LEMMA KeptTyped ==
  ASSUME NEW S, NEW s \in Seq(S), NEW T
  PROVE  \A i \in 0..Len(s) : KeptTo(s, T)[i] \in Seq(S)
<1>1. Len(s) \in Nat /\ \A i \in 1..Len(s) : s[i] \in S
  BY LenProperties, ElementOfSeq
<1> DEFINE K == KeptTo(s, T)
           X == {i \in 0..Len(s) : K[i] \notin Seq(S)}
<1> SUFFICES ASSUME X # {} PROVE FALSE
  OBVIOUS
<1>2. IsKept(K, Len(s), s, T)
  BY <1>1, KeptToIs
<1> HIDE DEF K
<1>3. PICK i \in X : /\ i \in 0..Len(s)
                     /\ i # 0 => i \in 1..Len(s) /\ i - 1 \in 0..Len(s) /\ i - 1 \notin X
  <2>1. X \in SUBSET (0..Len(s))
    OBVIOUS
  <2> QED
    BY <1>1, <2>1, First
<1>4. i # 0
  <2>1. K[0] = <<>> /\ <<>> \in Seq(S)
    BY <1>1, <1>2 DEF IsKept
  <2> QED
    BY <1>3, <2>1
<1>5. K[i] = IF s[i] \in T THEN Append(K[i - 1], s[i]) ELSE K[i - 1]
  BY <1>2, <1>3, <1>4 DEF IsKept
<1>6. K[i - 1] \in Seq(S) /\ s[i] \in S
  BY <1>1, <1>3, <1>4
<1>7. K[i] \in Seq(S)
  BY <1>5, <1>6
<1> QED
  BY <1>3, <1>7

LEMMA KeptSeq ==
  ASSUME NEW S, NEW s \in Seq(S), NEW T
  PROVE  Kept(s, T) \in Seq(S)
<1>1. Len(s) \in 0..Len(s)
  OBVIOUS
<1> QED
  BY <1>1, KeptTyped DEF Kept

\* What is kept of a concatenation is what is kept of its parts.
LEMMA KeptConcat ==
  ASSUME NEW S, NEW s \in Seq(S), NEW t \in Seq(S), NEW T
  PROVE  Kept(s \o t, T) = Kept(s, T) \o Kept(t, T)
<1>0. ASSUME NEW p \in Seq(S), NEW q \in Seq(S), NEW x \in S
      PROVE  Append(p \o q, x) = p \o Append(q, x)
  <2>0. <<x>> \in Seq(S)
    OBVIOUS
  <2>1. PICK e \in Seq(S) : e = <<x>>
    BY <2>0, Zenon
  <2>2. \A r \in Seq(S) : Append(r, x) = r \o e
    BY <2>1, AppendIsConcat
  <2>3. (p \o q) \o e = p \o (q \o e)
    BY ConcatAssociative
  <2>4. p \o q \in Seq(S)
    OBVIOUS
  <2> QED
    BY <2>2, <2>3, <2>4
<1> DEFINE u == s \o t
           F == KeptTo(s, T)
           G == KeptTo(t, T)
           H == KeptTo(u, T)
<1>1. /\ u \in Seq(S) /\ Len(s) \in Nat /\ Len(t) \in Nat
      /\ Len(u) = Len(s) + Len(t)
      /\ \A i \in 1..Len(s) : u[i] = s[i]
      /\ \A i \in 1..Len(t) : u[Len(s) + i] = t[i]
  OBVIOUS
<1> HIDE DEF u
<1>2. /\ IsKept(F, Len(s), s, T) /\ IsKept(G, Len(t), t, T)
      /\ IsKept(H, Len(s) + Len(t), u, T)
  <2>1. Len(u) \in Nat
    BY <1>1
  <2>2. IsKept(F, Len(s), s, T) /\ IsKept(G, Len(t), t, T)
    BY <1>1, KeptToIs
  <2>3. IsKept(H, Len(u), u, T)
    BY <2>1, KeptToIs
  <2> QED
    BY <1>1, <2>2, <2>3
<1> HIDE DEF F, G, H
<1>3. \A i \in 0..Len(s) : F[i] \in Seq(S)
  BY KeptTyped DEF F
<1>4. \A i \in 0..Len(t) : G[i] \in Seq(S)
  BY KeptTyped DEF G
<1>5. \A i \in 0..Len(s) : H[i] = F[i]
  <2> DEFINE X == {i \in 0..Len(s) : H[i] # F[i]}
  <2> SUFFICES ASSUME X # {} PROVE FALSE
    OBVIOUS
  <2>1. PICK i \in X : /\ i \in 0..Len(s)
                       /\ i # 0 => i \in 1..Len(s) /\ i - 1 \in 0..Len(s) /\ i - 1 \notin X
    <3>1. X \in SUBSET (0..Len(s))
      OBVIOUS
    <3> QED
      BY <1>1, <3>1, First
  <2>2. i \in 0..Len(s) + Len(t)
    BY <1>1, <2>1
  <2>3. i # 0
    <3>1. 0 \in 0..Len(s) /\ 0 \in 0..Len(s) + Len(t)
      BY <1>1
    <3>2. F[0] = <<>> /\ H[0] = <<>>
      BY <1>2, <3>1 DEF IsKept
    <3> QED
      BY <2>1, <3>2
  <2>4. H[i - 1] = F[i - 1] /\ u[i] = s[i]
    BY <1>1, <2>1, <2>3
  <2>5. /\ F[i] = IF s[i] \in T THEN Append(F[i - 1], s[i]) ELSE F[i - 1]
        /\ H[i] = IF u[i] \in T THEN Append(H[i - 1], u[i]) ELSE H[i - 1]
    BY <1>2, <2>1, <2>2, <2>3 DEF IsKept
  <2> QED
    BY <2>1, <2>4, <2>5
<1>6. \A i \in 0..Len(t) : H[Len(s) + i] = F[Len(s)] \o G[i]
  <2> DEFINE X == {i \in 0..Len(t) : H[Len(s) + i] # F[Len(s)] \o G[i]}
  <2> SUFFICES ASSUME X # {} PROVE FALSE
    OBVIOUS
  <2>1. PICK i \in X : /\ i \in 0..Len(t)
                       /\ i # 0 => i \in 1..Len(t) /\ i - 1 \in 0..Len(t) /\ i - 1 \notin X
    <3>1. X \in SUBSET (0..Len(t))
      OBVIOUS
    <3> QED
      BY <1>1, <3>1, First
  <2>2. F[Len(s)] \in Seq(S) /\ H[Len(s)] = F[Len(s)]
    BY <1>1, <1>3, <1>5
  <2>3. i # 0
    <3>1. G[0] = <<>>
      <4>1. 0 \in 0..Len(t)
        BY <1>1
      <4> QED
        BY <1>2, <4>1 DEF IsKept
    <3>2. F[Len(s)] \o <<>> = F[Len(s)] /\ Len(s) + 0 = Len(s)
      BY <1>1, <2>2
    <3> QED
      BY <2>1, <2>2, <3>1, <3>2
  <2>4. /\ Len(s) + i \in 0..Len(s) + Len(t) /\ Len(s) + i # 0
        /\ (Len(s) + i) - 1 = Len(s) + (i - 1)
    BY <1>1, <2>1, <2>3
  <2>5. H[Len(s) + (i - 1)] = F[Len(s)] \o G[i - 1] /\ u[Len(s) + i] = t[i]
    BY <1>1, <2>1, <2>3
  <2>6. H[Len(s) + i] = IF t[i] \in T THEN Append(F[Len(s)] \o G[i - 1], t[i])
                        ELSE F[Len(s)] \o G[i - 1]
    <3>1. H[Len(s) + i] = IF u[Len(s) + i] \in T
                            THEN Append(H[(Len(s) + i) - 1], u[Len(s) + i])
                            ELSE H[(Len(s) + i) - 1]
      BY <1>2, <2>4 DEF IsKept
    <3> QED
      BY <2>4, <2>5, <3>1
  <2>7. G[i] = IF t[i] \in T THEN Append(G[i - 1], t[i]) ELSE G[i - 1]
    BY <1>2, <2>1, <2>3 DEF IsKept
  <2>8. G[i - 1] \in Seq(S) /\ t[i] \in S
    BY <1>4, <2>1, <2>3
  <2>9. Append(F[Len(s)] \o G[i - 1], t[i]) = F[Len(s)] \o Append(G[i - 1], t[i])
    <3> HIDE DEF X
    <3> QED
      BY <1>0, <2>2, <2>8
  <2> QED
    BY <2>1, <2>6, <2>7, <2>9
<1>7. Kept(s, T) = F[Len(s)] /\ Kept(t, T) = G[Len(t)] /\ Kept(u, T) = H[Len(s) + Len(t)]
  BY <1>1 DEF Kept, F, G, H
<1>8. Len(s) \in 0..Len(s) /\ Len(t) \in 0..Len(t)
  BY <1>1
<1>9. Kept(u, T) = Kept(s, T) \o Kept(t, T)
  BY <1>6, <1>7, <1>8
<1> QED
  BY <1>9 DEF u

\* What is kept of one entry, and of none that is in T.
LEMMA KeptOne ==
  ASSUME NEW x, NEW T
  PROVE  Kept(<<>>, T) = <<>> /\ Kept(<<x>>, T) = IF x \in T THEN <<x>> ELSE <<>>
<1>1. IsKept(KeptTo(<<>>, T), 0, <<>>, T) /\ IsKept(KeptTo(<<x>>, T), 1, <<x>>, T)
  <2>1. Len(<<>>) = 0 /\ Len(<<x>>) = 1
    OBVIOUS
  <2> QED
    BY <2>1, KeptToIs
<1>2. KeptTo(<<x>>, T)[0] = <<>> /\ KeptTo(<<>>, T)[0] = <<>>
  BY <1>1 DEF IsKept
<1>3. KeptTo(<<x>>, T)[1] = IF x \in T THEN Append(<<>>, x) ELSE <<>>
  BY <1>1, <1>2 DEF IsKept
<1> QED
  BY <1>2, <1>3 DEF Kept

LEMMA KeptNone ==
  ASSUME NEW s, NEW T, Len(s) \in Nat, \A i \in 1..Len(s) : s[i] \notin T
  PROVE  Kept(s, T) = <<>>
<1> DEFINE F == KeptTo(s, T)
           X == {i \in 0..Len(s) : F[i] # <<>>}
<1>1. IsKept(F, Len(s), s, T)
  BY KeptToIs
<1> HIDE DEF F
<1>2. X = {}
  <2> SUFFICES ASSUME X # {} PROVE FALSE
    OBVIOUS
  <2>1. PICK i \in X : /\ i \in 0..Len(s)
                       /\ i # 0 => i \in 1..Len(s) /\ i - 1 \in 0..Len(s) /\ i - 1 \notin X
    <3>1. X \in SUBSET (0..Len(s))
      OBVIOUS
    <3> QED
      BY <3>1, First
  <2> QED
    BY <1>1, <2>1 DEF IsKept
<1> QED
  BY <1>2 DEF Kept, F
--------------------------------------------------------------------------------
(* Queues. *)

LEMMA AppendFacts ==
  ASSUME NEW S, NEW s \in Seq(S), NEW x \in S, x \notin ToSet(s), Distinct(s)
  PROVE  /\ Append(s, x) \in Seq(S) /\ Distinct(Append(s, x))
         /\ ToSet(Append(s, x)) = ToSet(s) \cup {x}
<1>1. /\ Append(s, x) \in Seq(S) /\ Len(Append(s, x)) = Len(s) + 1 /\ Len(s) \in Nat
      /\ \A i \in 1..Len(s) : Append(s, x)[i] = s[i]
      /\ Append(s, x)[Len(s) + 1] = x
  BY AppendProperties
<1>2. DOMAIN s = 1..Len(s) /\ DOMAIN Append(s, x) = 1..Len(s) + 1
  BY <1>1
<1>3. ToSet(Append(s, x)) = ToSet(s) \cup {x}
  BY <1>1, <1>2 DEF ToSet
<1>4. Distinct(Append(s, x))
  <2> SUFFICES ASSUME NEW i \in 1..Len(s) + 1, NEW j \in 1..Len(s) + 1,
                      Append(s, x)[i] = Append(s, x)[j]
               PROVE  i = j
    BY <1>1 DEF Distinct
  <2>1. \A k \in 1..Len(s) : s[k] # x
    BY <1>2 DEF ToSet
  <2>2. \A k \in 1..Len(s) + 1 : k = Len(s) + 1 \/ k \in 1..Len(s)
    BY <1>1
  <2> QED
    BY <1>1, <2>1, <2>2 DEF Distinct
<1> QED
  BY <1>1, <1>3, <1>4

LEMMA TailFacts ==
  ASSUME NEW S, NEW s \in Seq(S), s # <<>>, Distinct(s)
  PROVE  /\ Head(s) \in S /\ Head(s) \in ToSet(s)
         /\ Tail(s) \in Seq(S) /\ Distinct(Tail(s))
         /\ ToSet(Tail(s)) = ToSet(s) \ {Head(s)}
<1>1. /\ Head(s) \in S /\ Tail(s) \in Seq(S) /\ Head(s) = s[1]
      /\ Len(s) \in Nat /\ Len(s) # 0 /\ Len(Tail(s)) = Len(s) - 1
      /\ \A i \in 1..Len(Tail(s)) : Tail(s)[i] = s[i + 1]
  BY HeadTailProperties, EmptySeq
<1>2. DOMAIN s = 1..Len(s) /\ DOMAIN Tail(s) = 1..Len(s) - 1
  BY <1>1
<1>3. 1 \in 1..Len(s) /\ \A i \in 1..Len(s) - 1 : i + 1 \in 1..Len(s) /\ i + 1 # 1
  BY <1>1
<1>4. \A j \in 1..Len(s) : j = 1 \/ (j - 1 \in 1..Len(s) - 1 /\ (j - 1) + 1 = j)
  BY <1>1
<1>5. Distinct(Tail(s))
  <2> SUFFICES ASSUME NEW i \in 1..Len(s) - 1, NEW j \in 1..Len(s) - 1,
                      Tail(s)[i] = Tail(s)[j]
               PROVE  i = j
    BY <1>1 DEF Distinct
  <2>1. s[i + 1] = s[j + 1]
    BY <1>1
  <2>2. i + 1 = j + 1
    BY <1>3, <2>1 DEF Distinct
  <2> QED
    BY <2>2
<1>6. ToSet(Tail(s)) = {s[i + 1] : i \in 1..Len(s) - 1}
  BY <1>1, <1>2 DEF ToSet
<1>7. ToSet(s) = {s[i] : i \in 1..Len(s)}
  BY <1>2 DEF ToSet
<1>8. ToSet(Tail(s)) = ToSet(s) \ {Head(s)}
  <2>1. \A i \in 1..Len(s) - 1 : s[i + 1] \in ToSet(s) /\ s[i + 1] # s[1]
    BY <1>3, <1>7 DEF Distinct
  <2>2. \A j \in 1..Len(s) : s[j] # s[1] => s[j] \in ToSet(Tail(s))
    BY <1>4, <1>6
  <2> QED
    BY <1>1, <1>6, <1>7, <2>1, <2>2
<1> QED
  BY <1>1, <1>3, <1>5, <1>7, <1>8

LEMMA EmptyFacts == Distinct(<<>>) /\ ToSet(<<>>) = {}
BY DEF Distinct, ToSet

LEMMA Members ==
  ASSUME Inv
  PROVE  /\ ToSet(queue) \subseteq Items /\ ToSet(dropped) \subseteq Items
         /\ \A i \in 1..Len(queue) : queue[i] \in Items /\ fate[queue[i]] = "queued"
         /\ Posts \subseteq Plain /\ Callers \subseteq Plain /\ Plain \subseteq Items
         /\ Timers \subseteq Items /\ Timers \cap Plain = {}
         /\ Keeper \in Threads /\ Callers \subseteq Threads
<1>1. \A s \in Seq(Items) : ToSet(s) \subseteq Items /\ \A i \in 1..Len(s) : s[i] \in ToSet(s)
  BY DEF ToSet
<1>2. \A i \in 1..Len(queue) : queue[i] \in Items /\ fate[queue[i]] = "queued"
  BY <1>1 DEF Inv, Types, Places
<1> QED
  BY <1>1, <1>2, TasksAssumption, ThreadsAssumption DEF Items, Plain, Threads, Inv, Types

LEMMA InitInv == Init => Inv /\ Mailbox!Init
<1> SUFFICES ASSUME Init PROVE Inv /\ Mailbox!Init
  OBVIOUS
<1> USE DEF Init
<1>1. Types
  <2>1. queue \in Seq(Items) /\ dropped \in Seq(Items) /\ 0 \in 0..MaxTime
    BY TimeAssumption
  <2>2. when \in [Timers -> Nat] /\ id \in [Timers -> Nat]
    OBVIOUS
  <2> QED
    BY <2>1, <2>2 DEF Types
<1>2. ToSet(queue) = {} /\ ToSet(dropped) = {} /\ Distinct(queue) /\ Distinct(dropped)
  BY EmptyFacts
<1>3. OneRuns /\ Places /\ Stops /\ StandIns
  BY <1>2, ThreadsAssumption
  DEF OneRuns, Running, Places, Stops, StopCalls, StandIns, Threads, Items
<1>4. Arming
  <2>1. Numbered = {} /\ Cardinality({}) = 0
    BY FS_EmptySet DEF Numbered
  <2> QED
    BY <2>1 DEF Arming, Items
<1>5. DeadlineOrder
  <2>1. \A j \in Timers : ~Left(j)
    BY DEF Left, Items
  <2> QED
    BY <2>1 DEF DeadlineOrder
<1>6. Mailbox!Init
  <2>1. queue \o dropped = <<>>
    OBVIOUS
  <2>2. Kept(queue \o dropped, Plain) = <<>>
    BY <2>1, KeptOne
  <2> QED
    BY <2>2 DEF Mailbox!Init, Plain
<1> QED
  BY <1>1, <1>3, <1>4, <1>5, <1>6 DEF Inv

\* A step that the mailbox does not see.
LEMMA Unseen ==
  ASSUME stopped' = stopped,
         Kept(queue \o dropped, Plain)' = Kept(queue \o dropped, Plain),
         \A k \in Plain : fate'[k] = fate[k]
  PROVE  MailboxStep
BY DEF MailboxStep, Mailbox!vars

--------------------------------------------------------------------------------
\* A step of the thread's waits or of a call: no task and no timer is touched.
LEMMA MovesInv ==
  ASSUME Inv,
         UNCHANGED <<now, stopped, queue, deadlines, when, id, fate, dropped, refused, missed>>,
         loop' \in {"look", "asleep", "run", "exited"}, until' \in Nat \cup {Never},
         loop' = "run" <=> loop = "run",
         loop = "exited" => loop' = "exited", loop' = "exited" => stopped,
         call' \in [Threads -> {"none", "notify", "notifyWait", "notifyStop", "wait",
                                "standin", "join", "drop"}],
         \A t \in Threads : call'[t] \in StopCalls <=> call[t] \in StopCalls,
         call'[Keeper] = "drop" => loop' = "exited",
         \A c \in Callers : call'[c] = "standin" => fate[c] = "dropped"
  PROVE  Inv' /\ MailboxStep
<1> USE DEF Inv
<1>1. Types'
  BY DEF Types
<1>2. OneRuns' /\ Places'
  BY DEF OneRuns, Running, Places
<1>3. Numbered' = Numbered
  BY DEF Numbered
<1>4. Arming'
  BY <1>3 DEF Arming
<1>5. DeadlineOrder'
  BY DEF DeadlineOrder, Left, Earlier
<1>6. Stops'
  BY Members DEF Stops
<1>7. StandIns'
  BY DEF StandIns
<1>8. MailboxStep
  BY Unseen
<1> QED
  BY <1>1, <1>2, <1>4, <1>5, <1>6, <1>7, <1>8

LEMMA NotifyInv ==
  ASSUME Inv, NEW t \in Threads, Notify(t)
  PROVE  Inv' /\ MailboxStep
<1>1. /\ UNCHANGED <<now, stopped, queue, deadlines, when, id, fate, dropped, refused,
                     missed, until>>
      /\ loop' = IF loop = "asleep" THEN "look" ELSE loop
      /\ call[t] \in {"notify", "notifyWait", "notifyStop"}
      /\ \E n \in {"none", "wait", "join"} : /\ call' = [call EXCEPT ![t] = n]
                                             /\ n = "join" <=> call[t] = "notifyStop"
  <2>1. /\ call[t] \in {"notify", "notifyWait", "notifyStop"}
        /\ call' = [call EXCEPT ![t] = AfterNotify[call[t]]]
        /\ AfterNotify[call[t]] = IF call[t] = "notify" THEN "none"
                                  ELSE IF call[t] = "notifyWait" THEN "wait" ELSE "join"
    BY DEF Notify, AfterNotify
  <2> QED
    BY <2>1 DEF Notify, timerVars, historyVars
<1>2. /\ call' \in [Threads -> {"none", "notify", "notifyWait", "notifyStop", "wait",
                                "standin", "join", "drop"}]
      /\ \A u \in Threads : /\ call'[u] \in StopCalls <=> call[u] \in StopCalls
                            /\ call'[u] \in {"drop", "standin"} => call'[u] = call[u]
  BY <1>1 DEF Inv, Types, StopCalls
<1>3. Keeper \in Threads /\ Callers \subseteq Threads
  BY Members
<1>4. /\ call'[Keeper] = "drop" => loop = "exited"
      /\ \A c \in Callers : call'[c] = "standin" => fate[c] = "dropped"
      /\ loop = "exited" => stopped
  BY <1>2, <1>3 DEF Inv, Stops, StandIns
<1>5. loop' \in {"look", "asleep", "run", "exited"} /\ until' \in Nat \cup {Never}
  BY <1>1 DEF Inv, Types
<1> QED
  BY <1>1, <1>2, <1>4, <1>5, MovesInv

LEMMA WaitsInv ==
  ASSUME Inv, NEW c \in Callers, WaitEnds(c) \/ StandInEnds(c)
  PROVE  Inv' /\ MailboxStep
<1>1. /\ UNCHANGED <<now, stopped, queue, deadlines, when, id, fate, dropped, refused,
                     missed, loop, until>>
      /\ call[c] \in {"wait", "standin"}
      /\ \E n \in {"none", "standin"} : /\ call' = [call EXCEPT ![c] = n]
                                        /\ n = "standin" => fate[c] = "dropped"
  BY DEF WaitEnds, StandInEnds, Settled, timerVars, threadVars, historyVars
<1>2. Keeper \in Threads /\ Callers \subseteq Threads
  BY Members
<1>3. /\ call' \in [Threads -> {"none", "notify", "notifyWait", "notifyStop", "wait",
                                "standin", "join", "drop"}]
      /\ \A u \in Threads : /\ call'[u] \in StopCalls <=> call[u] \in StopCalls
                            /\ call'[u] = "drop" => call[u] = "drop"
                            /\ call'[u] = "standin" => call[u] = "standin" \/ fate[u] = "dropped"
  BY <1>1, <1>2 DEF Inv, Types, StopCalls
<1>4. /\ call'[Keeper] = "drop" => loop = "exited"
      /\ \A d \in Callers : call'[d] = "standin" => fate[d] = "dropped"
      /\ loop = "exited" => stopped
  BY <1>2, <1>3 DEF Inv, Stops, StandIns
<1>5. loop' \in {"look", "asleep", "run", "exited"} /\ until' \in Nat \cup {Never}
  BY <1>1 DEF Inv, Types
<1> QED
  BY <1>1, <1>3, <1>4, <1>5, MovesInv

LEMMA ThreadMovesInv ==
  ASSUME Inv, Exit \/ TimedOut \/ SpuriousWake
  PROVE  Inv' /\ MailboxStep
<1>1. /\ UNCHANGED <<now, stopped, queue, deadlines, when, id, fate, dropped, refused,
                     missed, call>>
      /\ loop \in {"look", "asleep"} /\ loop' \in {"look", "exited"}
      /\ until' \in {until, Never} /\ (loop' = "exited" => stopped)
  BY DEF Exit, TimedOut, SpuriousWake, timerVars, historyVars
<1>2. /\ call' \in [Threads -> {"none", "notify", "notifyWait", "notifyStop", "wait",
                                "standin", "join", "drop"}]
      /\ until' \in Nat \cup {Never}
  BY <1>1 DEF Inv, Types
<1>3. /\ call'[Keeper] = "drop" => loop' = "exited"
      /\ \A c \in Callers : call'[c] = "standin" => fate[c] = "dropped"
  BY <1>1 DEF Inv, Stops, StandIns
<1> QED
  BY <1>1, <1>2, <1>3, MovesInv

LEMMA JoinedInv ==
  ASSUME Inv, Joined
  PROVE  Inv' /\ MailboxStep
<1>1. /\ UNCHANGED <<now, stopped, queue, deadlines, when, id, fate, dropped, refused,
                     missed, loop, until>>
      /\ call[Keeper] = "join" /\ loop = "exited"
      /\ call' = [call EXCEPT ![Keeper] = "drop"]
  BY DEF Joined, timerVars, threadVars, historyVars
<1>2. Keeper \in Threads /\ Callers \subseteq Threads
  BY Members
<1>3. /\ call' \in [Threads -> {"none", "notify", "notifyWait", "notifyStop", "wait",
                                "standin", "join", "drop"}]
      /\ \A u \in Threads : /\ call'[u] \in StopCalls <=> call[u] \in StopCalls
                            /\ call'[u] = "standin" => call[u] = "standin"
  BY <1>1, <1>2 DEF Inv, Types, StopCalls
<1>4. /\ \A d \in Callers : call'[d] = "standin" => fate[d] = "dropped"
      /\ loop = "exited" => stopped
  BY <1>2, <1>3 DEF Inv, Stops, StandIns
<1>5. loop' \in {"look", "asleep", "run", "exited"} /\ until' \in Nat \cup {Never}
  BY <1>1 DEF Inv, Types
<1> QED
  BY <1>1, <1>3, <1>4, <1>5, MovesInv

LEMMA TickInv ==
  ASSUME Inv, Tick
  PROVE  Inv' /\ MailboxStep
<1> USE DEF Inv
<1>1. /\ UNCHANGED <<stopped, queue, deadlines, when, id, fate, loop, until, dropped, call,
                     refused, missed>>
      /\ now < MaxTime /\ now' = now + 1
  BY DEF Tick, timerVars, threadVars, historyVars
<1>2. now \in Nat /\ now' \in 0..MaxTime /\ now <= now' /\ when \in [Timers -> Nat]
  BY <1>1, TimeAssumption DEF Types
<1>3. Types'
  BY <1>1, <1>2 DEF Types
<1>4. OneRuns' /\ Places' /\ Stops' /\ StandIns'
  BY <1>1 DEF OneRuns, Running, Places, Stops, StandIns
<1>5. Numbered' = Numbered
  BY <1>1 DEF Numbered
<1>6. Arming'
  BY <1>1, <1>5 DEF Arming
<1>7. DeadlineOrder'
  <2>1. now' \in Nat
    BY <1>2, TimeAssumption
  <2>2. \A j \in Timers : Left(j)' => when'[j] <= now'
    BY <1>1, <1>2, <2>1 DEF DeadlineOrder, Left
  <2> QED
    BY <1>1, <2>2 DEF DeadlineOrder, Left, Earlier
<1>8. MailboxStep
  BY <1>1, Unseen
<1> QED
  BY <1>3, <1>4, <1>6, <1>7, <1>8

--------------------------------------------------------------------------------
(* What the mailbox sees. *)

LEMMA KeptTail ==
  ASSUME NEW S, NEW s \in Seq(S), s # <<>>, NEW T
  PROVE  IF Head(s) \in T
           THEN /\ Kept(s, T) # <<>> /\ Head(Kept(s, T)) = Head(s)
                /\ Tail(Kept(s, T)) = Kept(Tail(s), T)
           ELSE Kept(Tail(s), T) = Kept(s, T)
<1> DEFINE h == Head(s)
           r == Tail(s)
<1>1. h \in S /\ r \in Seq(S) /\ <<h>> \in Seq(S) /\ s = <<h>> \o r
  OBVIOUS
<1> HIDE DEF h, r
<1>2. /\ Kept(s, T) = Kept(<<h>>, T) \o Kept(r, T) /\ Kept(r, T) \in Seq(S)
      /\ Kept(<<h>>, T) = IF h \in T THEN <<h>> ELSE <<>>
  <2>1. PICK p \in Seq(S) : p = <<h>>
    BY <1>1
  <2>3. Kept(p \o r, T) = Kept(p, T) \o Kept(r, T) /\ Kept(r, T) \in Seq(S)
    <3>1. r \in Seq(S)
      BY <1>1
    <3>2. Kept(p \o r, T) = Kept(p, T) \o Kept(r, T)
      BY <3>1, KeptConcat
    <3> QED
      BY <3>1, <3>2, KeptSeq
  <2>2. Kept(<<h>>, T) = IF h \in T THEN <<h>> ELSE <<>>
    BY KeptOne
  <2> QED
    BY <1>1, <2>1, <2>2, <2>3
<1>3. ASSUME NEW q \in Seq(S)
      PROVE  /\ <<h>> \o q # <<>> /\ Head(<<h>> \o q) = h /\ Tail(<<h>> \o q) = q
             /\ <<>> \o q = q
  BY <1>1
<1>4. IF h \in T THEN /\ Kept(s, T) # <<>> /\ Head(Kept(s, T)) = h
                       /\ Tail(Kept(s, T)) = Kept(r, T)
                  ELSE Kept(r, T) = Kept(s, T)
  BY <1>2, <1>3
<1> QED
  BY <1>4 DEF h, r

LEMMA KeptAppend ==
  ASSUME NEW S, NEW s \in Seq(S), NEW x \in S, NEW T
  PROVE  /\ Kept(s, T) \in Seq(S)
         /\ Kept(Append(s, x), T) = IF x \in T THEN Append(Kept(s, T), x) ELSE Kept(s, T)
<1>1. <<x>> \in Seq(S) /\ Append(s, x) = s \o <<x>>
  OBVIOUS
<1>2. /\ Kept(Append(s, x), T) = Kept(s, T) \o Kept(<<x>>, T) /\ Kept(s, T) \in Seq(S)
      /\ Kept(<<x>>, T) = IF x \in T THEN <<x>> ELSE <<>>
  <2>1. PICK p \in Seq(S) : p = <<x>>
    BY <1>1
  <2>2. Kept(<<x>>, T) = IF x \in T THEN <<x>> ELSE <<>>
    BY KeptOne
  <2>3. Kept(s \o p, T) = Kept(s, T) \o Kept(p, T) /\ Kept(s, T) \in Seq(S)
    <3>1. Kept(s \o p, T) = Kept(s, T) \o Kept(p, T)
      BY KeptConcat
    <3> QED
      BY <3>1, KeptSeq
  <2> QED
    BY <1>1, <2>1, <2>2, <2>3
<1>3. ASSUME NEW q \in Seq(S)
      PROVE  q \o <<x>> = Append(q, x) /\ q \o <<>> = q
  OBVIOUS
<1> QED
  BY <1>2, <1>3

\* Queue and deque are never filled both.
LEMMA Pending ==
  ASSUME Inv
  PROVE  queue \o dropped = IF stopped THEN dropped ELSE queue
<1>1. \A s \in Seq(Items) : s \o <<>> = s /\ <<>> \o s = s
  OBVIOUS
<1> QED
  BY <1>1 DEF Inv, Types, Places

--------------------------------------------------------------------------------
(* Posting. *)

LEMMA OfferInv ==
  ASSUME Inv, NEW t \in Threads, NEW k \in Plain,
         NEW announce \in {"notify", "notifyWait"}, NEW next \in {"none", "wait"},
         Offer(t, k, announce, next),
         refused \subseteq refused', refused' \subseteq Callers,
         stopped /\ k \in Callers => k \in refused'
  PROVE  Inv' /\ MailboxStep
<1> USE DEF Inv
<1>1. /\ UNCHANGED <<now, stopped, deadlines, when, id, loop, until, dropped, missed>>
      /\ call[t] = "none" /\ fate[k] = "new"
      /\ fate' = [fate EXCEPT ![k] = IF stopped THEN "dropped" ELSE "queued"]
      /\ queue' = IF stopped THEN queue ELSE Append(queue, k)
      /\ \E n \in {"none", "wait", "notify", "notifyWait"} : call' = [call EXCEPT ![t] = n]
  BY DEF Offer, InCode, timerVars, threadVars
<1>2. /\ k \in Items /\ k \notin Timers /\ k \notin ToSet(queue)
      /\ \A i \in 1..Len(queue) : queue[i] \in Items /\ queue[i] # k
      /\ \A j \in Timers : j \in Items /\ fate'[j] = fate[j]
  BY <1>1, Members DEF Types, Places
<1>3. /\ Append(queue, k) \in Seq(Items) /\ Distinct(Append(queue, k))
      /\ ToSet(Append(queue, k)) = ToSet(queue) \cup {k}
      /\ queue' \in Seq(Items)
  <2>1. queue \in Seq(Items) /\ Distinct(queue)
    BY DEF Types, Places
  <2>2. /\ Append(queue, k) \in Seq(Items) /\ Distinct(Append(queue, k))
        /\ ToSet(Append(queue, k)) = ToSet(queue) \cup {k}
    BY <1>2, <2>1, AppendFacts
  <2> QED
    BY <1>1, <2>1, <2>2
<1>4. Types'
  <2>1. call' \in [Threads -> {"none", "notify", "notifyWait", "notifyStop", "wait",
                               "standin", "join", "drop"}]
    BY <1>1 DEF Types
  <2>2. fate' \in [Items -> {"new", "armed", "queued", "running", "ran", "cancelled",
                             "dropped"}]
    BY <1>1 DEF Types
  <2> QED
    BY <1>1, <1>3, <2>1, <2>2 DEF Types
<1>5. /\ \A j \in Items \ {k} : fate'[j] = fate[j]
      /\ fate'[k] = IF stopped THEN "dropped" ELSE "queued"
  BY <1>1, <1>2 DEF Types
<1>6. OneRuns'
  BY <1>1, <1>2, <1>5 DEF OneRuns, Running
<1>7. Places'
  <2>1. CASE stopped
    BY <1>1, <1>2, <1>5, <2>1 DEF Places
  <2>2. CASE ~stopped
    BY <1>1, <1>2, <1>3, <1>5, <2>2 DEF Places
  <2> QED
    BY <2>1, <2>2
<1>8. Numbered' = Numbered
  BY <1>1 DEF Numbered
<1>9. Arming'
  BY <1>1, <1>2, <1>5, <1>8 DEF Arming
<1>10. DeadlineOrder'
  <2>1. \A m, n \in 1..Len(queue)' :
          m < n /\ {queue'[m], queue'[n]} \subseteq Timers => Earlier(queue'[m], queue'[n])
    <3>1. CASE stopped
      BY <1>1, <3>1 DEF DeadlineOrder
    <3>2. CASE ~stopped
      <4>1. /\ Len(queue') = Len(queue) + 1 /\ Len(queue) \in Nat
            /\ \A i \in 1..Len(queue) : queue'[i] = queue[i]
            /\ queue'[Len(queue) + 1] = k
        BY <1>1, <3>2, AppendProperties DEF Types
      <4>2. \A m \in 1..Len(queue') : queue'[m] \in Timers => m \in 1..Len(queue)
        BY <1>2, <4>1
      <4> QED
        BY <4>1, <4>2 DEF DeadlineOrder
    <3> QED
      BY <3>1, <3>2
  <2> QED
    BY <1>1, <1>2, <2>1 DEF DeadlineOrder, Left, Earlier
<1>11. Stops'
  <2>1. /\ \A u \in Threads : call'[u] \in StopCalls => call[u] \in StopCalls
        /\ call'[Keeper] = "drop" => call[Keeper] = "drop"
        /\ call'[Keeper] \notin StopCalls => call[Keeper] \notin StopCalls
    BY <1>1, Members DEF Types, StopCalls
  <2>2. \A j \in Items : fate'[j] = "armed" => fate[j] = "armed"
    BY <1>5
  <2> QED
    BY <1>1, <2>1, <2>2 DEF Stops
<1>12. StandIns'
  <2>1. \A c \in Callers : c \in Items /\ call'[c] = "standin" => call[c] = "standin"
    BY <1>1, Members DEF Types
  <2>2. \A c \in Callers : call[c] = "standin" => c # k
    BY <1>1 DEF StandIns
  <2>3. \A c \in Callers \ refused' : fate'[c] = "dropped" => fate[c] = "dropped"
    <3>1. \A c \in Callers : c \in Items
      BY Members
    <3> QED
      BY <1>5, <3>1
  <2> QED
    BY <1>1, <1>5, Members, <2>1, <2>2, <2>3 DEF StandIns
<1>13. MailboxStep
  <2>1. CASE stopped
    <3>1. Mailbox!Refuse(k)
      BY <1>1, <1>2, <1>5, <2>1 DEF Mailbox!Refuse, Types, Plain
    <3> QED
      BY <3>1 DEF MailboxStep, Mailbox!Next
  <2>2. CASE ~stopped
    <3>1. queue \o dropped = queue /\ (queue \o dropped)' = queue'
      <4>1. dropped = <<>> /\ \A s \in Seq(Items) : s \o <<>> = s
        BY <2>2 DEF Places
      <4> QED
        BY <1>1, <1>3, <4>1 DEF Types
    <3>2. Kept(queue', Plain) = Append(Kept(queue, Plain), k)
      <4>1. queue \in Seq(Items) /\ queue' = Append(queue, k)
        BY <1>1, <2>2 DEF Types
      <4> QED
        BY <1>2, <4>1, KeptAppend
    <3>3. Mailbox!Accept(k)
      <4>1. Kept(queue \o dropped, Plain)' = Append(Kept(queue \o dropped, Plain), k)
        BY <3>1, <3>2
      <4>2. [j \in Plain |-> fate'[j]] =
              [[j \in Plain |-> fate[j]] EXCEPT ![k] = "queued"]
        BY <1>5, <2>2, Members
      <4>3. {j \in Plain : fate'[j] = "running"} = {j \in Plain : fate[j] = "running"}
        BY <1>1, <1>5, <2>2, Members
      <4> QED
        BY <1>1, <2>2, <4>1, <4>2, <4>3 DEF Mailbox!Accept
    <3> QED
      BY <3>3 DEF MailboxStep, Mailbox!Next
  <2> QED
    BY <2>1, <2>2
<1> QED
  BY <1>4, <1>6, <1>7, <1>9, <1>10, <1>11, <1>12, <1>13

LEMMA PostInv ==
  ASSUME Inv, NEW t \in Threads, NEW k \in Posts, Post(t, k)
  PROVE  Inv' /\ MailboxStep
<1>1. /\ k \in Plain /\ k \notin Callers /\ refused' = refused /\ refused \subseteq Callers
      /\ Offer(t, k, "notify", "none")
  BY Members, TasksAssumption DEF Post, Inv, Types
<1> QED
  BY <1>1, OfferInv

LEMMA RunAndWaitInv ==
  ASSUME Inv, NEW c \in Callers, RunAndWait(c)
  PROVE  Inv' /\ MailboxStep
<1>1. /\ c \in Plain /\ c \in Threads /\ refused \subseteq Callers
      /\ refused' = IF stopped THEN refused \cup {c} ELSE refused
      /\ Offer(c, c, "notifyWait", "wait")
  BY Members DEF RunAndWait, Inv, Types
<1> QED
  BY <1>1, OfferInv

\* A timer's own step does not reach the mailbox.
LEMMA TimersUnseen ==
  ASSUME Inv, stopped' = stopped, queue' = queue, dropped' = dropped,
         \A k \in Plain : fate'[k] = fate[k]
  PROVE  MailboxStep
BY Unseen

LEMMA PostAfterInv ==
  ASSUME Inv, NEW t \in Threads, NEW k \in Timers, NEW d \in Delays, PostAfter(t, k, d)
  PROVE  Inv' /\ MailboxStep
<1> USE DEF Inv
<1>1. /\ UNCHANGED <<now, stopped, queue, loop, until, dropped, refused, missed>>
      /\ call[t] = "none" /\ fate[k] = "new"
      /\ k \in Items /\ k \notin Callers /\ k \notin Plain
      /\ Plain \subseteq Items /\ Callers \subseteq Items /\ Timers \subseteq Items
      /\ Callers \subseteq Threads /\ Keeper \in Threads
      /\ \A i \in 1..Len(queue) : queue[i] \in Items /\ fate[queue[i]] = "queued"
  BY Members, TasksAssumption DEF PostAfter, InCode, threadVars, historyVars
<1>2. CASE stopped
  <2>1. /\ fate' = [fate EXCEPT ![k] = "dropped"]
        /\ UNCHANGED <<deadlines, when, id, call>>
    BY <1>2 DEF PostAfter, timerVars
  <2>2. fate'[k] = "dropped" /\ \A j \in Items \ {k} : fate'[j] = fate[j]
    BY <1>1, <2>1 DEF Types
  <2>3. Types'
    BY <1>1, <2>1 DEF Types
  <2>4. OneRuns'
    BY <1>1, <2>2 DEF OneRuns, Running
  <2>5. Places'
    BY <1>1, <2>2 DEF Places
  <2>6. Numbered' = Numbered
    BY <2>1 DEF Numbered
  <2>7. Arming'
    BY <1>1, <2>1, <2>2, <2>6 DEF Arming
  <2>8. DeadlineOrder'
    BY <1>1, <2>1, <2>2 DEF DeadlineOrder, Left, Earlier
  <2>9. Stops'
    BY <1>1, <2>1, <2>2 DEF Stops
  <2>10. StandIns'
    BY <1>1, <2>1, <2>2 DEF StandIns
  <2>11. MailboxStep
    BY <1>1, <2>2, TimersUnseen
  <2> QED
    BY <2>3, <2>4, <2>5, <2>7, <2>8, <2>9, <2>10, <2>11
<1>3. CASE ~stopped
  <2>1. /\ id' = [id EXCEPT ![k] = 1 + Cardinality(Numbered)]
        /\ when' = [when EXCEPT ![k] = now + d]
        /\ deadlines' = deadlines \cup {k}
        /\ fate' = [fate EXCEPT ![k] = "armed"]
        /\ call' = [call EXCEPT ![t] = "notify"]
    BY <1>3 DEF PostAfter, Numbered
  <2>2. /\ id[k] = 0 /\ IsFiniteSet(Numbered) /\ Cardinality(Numbered) \in Nat
        /\ now \in Nat /\ d \in Nat
    <3>1. IsFiniteSet(Numbered)
      BY TasksAssumption, FS_Subset DEF Numbered
    <3>2. Cardinality(Numbered) \in Nat
      BY <3>1, FS_CardinalityType
    <3> QED
      BY <1>1, <3>1, <3>2, TimeAssumption DEF Arming, Types
  <2> DEFINE n == Cardinality(Numbered)
  <2>3. /\ fate'[k] = "armed" /\ when'[k] = now + d /\ id'[k] = 1 + n
        /\ \A j \in Items \ {k} : fate'[j] = fate[j]
        /\ \A j \in Timers \ {k} : when'[j] = when[j] /\ id'[j] = id[j]
    BY <1>1, <2>1 DEF Types
  <2>4. Types'
    <3>1. id' \in [Timers -> Nat] /\ when' \in [Timers -> Nat]
      <4>1. 1 + n \in Nat /\ now + d \in Nat
        BY <2>2
      <4> HIDE DEF n
      <4> QED
        BY <2>1, <4>1 DEF Types, n
    <3>2. /\ fate' \in [Items -> {"new", "armed", "queued", "running", "ran", "cancelled",
                                  "dropped"}]
          /\ call' \in [Threads -> {"none", "notify", "notifyWait", "notifyStop", "wait",
                                    "standin", "join", "drop"}]
          /\ deadlines' \subseteq Timers
      BY <2>1 DEF Types
    <3> QED
      BY <1>1, <3>1, <3>2 DEF Types
  <2>5. OneRuns'
    BY <1>1, <2>3 DEF OneRuns, Running
  <2>6. Places'
    BY <1>1, <2>3 DEF Places
  <2>7. Cardinality(Numbered') = n + 1
    <3>1. Numbered' = Numbered \cup {k} /\ k \notin Numbered
      BY <2>2, <2>3 DEF Numbered
    <3> QED
      BY <2>2, <3>1, FS_AddElement
  <2>8. Arming'
    <3>1. \A j \in Items : fate'[j] = "armed" => j \in Timers /\ (stopped' \/ j \in deadlines')
      BY <1>1, <2>1, <2>3 DEF Arming
    <3>2. ASSUME NEW j \in Timers
          PROVE  (fate'[j] = "new" => id'[j] = 0) /\ id'[j] <= Cardinality(Numbered')
      <4>1. CASE j = k
        BY <2>2, <2>3, <2>7, <4>1
      <4>2. CASE j # k
        <5>1. id[j] \in Nat /\ id[j] <= n /\ (fate[j] = "new" => id[j] = 0)
          BY DEF Arming, Types
        <5> QED
          BY <1>1, <2>2, <2>3, <2>7, <4>2, <5>1
      <4> QED
        BY <4>1, <4>2
    <3> QED
      BY <3>1, <3>2 DEF Arming
  <2>9. DeadlineOrder'
    <3>1. \A j \in Timers : Left(j)' => j # k /\ Left(j)
      BY <1>1, <2>3 DEF Left
    <3>2. \A j \in Timers : Left(j)' => when'[j] <= now'
      BY <1>1, <2>3, <3>1 DEF DeadlineOrder
    <3>3. ASSUME NEW i \in Timers, NEW j \in Timers, Left(i)', fate'[j] = "armed"
          PROVE  Earlier(i, j)'
      <4>1. Left(i) /\ i # k /\ when'[i] = when[i] /\ id'[i] = id[i]
        BY <2>3, <3>1, <3>3
      <4>2. CASE j = k
        <5>1. when[i] <= now /\ when[i] \in Nat /\ id[i] <= n /\ id[i] \in Nat
          BY <4>1 DEF DeadlineOrder, Arming, Types
        <5> QED
          BY <2>2, <2>3, <4>1, <4>2, <5>1 DEF Earlier
      <4>3. CASE j # k
        BY <1>1, <2>3, <3>3, <4>1, <4>3 DEF DeadlineOrder, Earlier
      <4> QED
        BY <4>2, <4>3
    <3>4. ASSUME NEW l \in 1..Len(queue), NEW m \in 1..Len(queue), l < m,
                 queue[l] \in Timers, queue[m] \in Timers
          PROVE  Earlier(queue[l], queue[m])'
      <4>1. queue[l] # k /\ queue[m] # k /\ Earlier(queue[l], queue[m])
        BY <1>1, <3>4 DEF DeadlineOrder
      <4> QED
        BY <1>1, <2>3, <3>4, <4>1 DEF Earlier
    <3>5. (\A l, m \in 1..Len(queue) :
             l < m /\ {queue[l], queue[m]} \subseteq Timers => Earlier(queue[l], queue[m]))'
      BY <1>1, <3>4
    <3> QED
      BY <3>2, <3>3, <3>5 DEF DeadlineOrder
  <2>10. Stops'
    <3>1. \A u \in Threads : call'[u] \in StopCalls => call[u] \in StopCalls
      BY <1>1, <2>1 DEF Types, StopCalls
    <3>2. call'[Keeper] = "drop" => call[Keeper] = "drop"
      BY <1>1, <2>1 DEF Types
    <3> QED
      BY <1>1, <1>3, <3>1, <3>2 DEF Stops
  <2>11. StandIns'
    <3>1. \A c \in Callers : call'[c] = "standin" => call[c] = "standin"
      BY <1>1, <2>1 DEF Types
    <3> QED
      BY <1>1, <2>3, <3>1 DEF StandIns
  <2>12. MailboxStep
    BY <1>1, <2>3, TimersUnseen
  <2> QED
    BY <2>4, <2>5, <2>6, <2>8, <2>9, <2>10, <2>11, <2>12
<1> QED
  BY <1>2, <1>3

LEMMA CancelTimerInv ==
  ASSUME Inv, NEW t \in Threads, NEW k \in Timers, CancelTimer(t, k)
  PROVE  Inv' /\ MailboxStep
<1> USE DEF Inv
<1>1. /\ UNCHANGED <<now, stopped, queue, deadlines, when, id, loop, until, dropped, call,
                     refused>>
      /\ ~stopped
      /\ \/ /\ fate[k] = "armed" /\ fate' = [fate EXCEPT ![k] = "cancelled"]
            /\ missed' = missed
         \/ fate' = fate /\ missed' = missed \cup {k}
      /\ k \in Items /\ k \notin Callers /\ k \notin Plain
      /\ Plain \subseteq Items /\ Callers \subseteq Items /\ Timers \subseteq Items
  BY Members, TasksAssumption DEF CancelTimer, timerVars, threadVars
<1>2. /\ \A j \in Items \ {k} : fate'[j] = fate[j]
      /\ fate'[k] = fate[k] \/ (fate[k] = "armed" /\ fate'[k] = "cancelled")
  BY <1>1 DEF Types
<1>3. Types'
  BY <1>1 DEF Types
<1>4. OneRuns'
  BY <1>1, <1>2 DEF OneRuns, Running
<1>5. Places'
  BY <1>1, <1>2 DEF Places
<1>6. Numbered' = Numbered
  BY <1>1 DEF Numbered
<1>7. Arming'
  BY <1>1, <1>2, <1>6 DEF Arming
<1>8. DeadlineOrder'
  <2>1. \A j \in Timers : /\ Left(j)' => Left(j)
                          /\ fate'[j] = "armed" => fate[j] = "armed"
    BY <1>1, <1>2 DEF Left
  <2> QED
    BY <1>1, <2>1 DEF DeadlineOrder, Earlier
<1>9. Stops'
  BY <1>1, <1>2 DEF Stops
<1>10. StandIns'
  BY <1>1, <1>2 DEF StandIns
<1>11. MailboxStep
  BY <1>1, <1>2, TimersUnseen
<1> QED
  BY <1>3, <1>4, <1>5, <1>7, <1>8, <1>9, <1>10, <1>11

--------------------------------------------------------------------------------
(* Stop. *)

LEMMA StopInv ==
  ASSUME Inv, Stop
  PROVE  Inv' /\ MailboxStep
<1> USE DEF Inv
<1>1. /\ UNCHANGED <<now, when, id, fate, loop, until, refused, missed>>
      /\ call[Keeper] = "none" /\ stopped' = TRUE
      /\ dropped' = queue /\ queue' = <<>> /\ deadlines' = {}
      /\ call' = [call EXCEPT ![Keeper] = "notifyStop"]
      /\ Keeper \in Threads /\ Callers \subseteq Threads
  BY Members DEF Stop, InCode, threadVars, historyVars
<1>2. dropped = <<>>
  BY <1>1 DEF Places, Stops, StopCalls
<1>3. Types'
  <2>1. queue' \in Seq(Items)
    BY <1>1
  <2> QED
    BY <1>1, <2>1 DEF Types
<1>4. OneRuns'
  BY <1>1 DEF OneRuns, Running
<1>5. Places'
  BY <1>1, <1>2, EmptyFacts DEF Places
<1>6. Numbered' = Numbered
  BY <1>1 DEF Numbered
<1>7. Arming'
  BY <1>1, <1>6 DEF Arming
<1>8. DeadlineOrder'
  <2>1. Len(queue') = 0
    BY <1>1
  <2> QED
    BY <1>1, <2>1 DEF DeadlineOrder, Left, Earlier
<1>9. /\ call'[Keeper] = "notifyStop"
      /\ \A u \in Threads \ {Keeper} : call'[u] = call[u]
  BY <1>1 DEF Types
<1>10. Stops'
  BY <1>1, <1>9 DEF Stops, StopCalls
<1>11. StandIns'
  BY <1>1, <1>9 DEF StandIns
<1>12. MailboxStep
  <2>1. (queue \o dropped)' = queue \o dropped
    <3>1. \A s \in Seq(Items) : s \o <<>> = s /\ <<>> \o s = s
      OBVIOUS
    <3> QED
      BY <1>1, <1>2, <3>1 DEF Types
  <2>2. CASE stopped
    BY <1>1, <2>1, <2>2, Unseen
  <2>3. CASE ~stopped
    <3>1. Mailbox!Close
      BY <1>1, <2>1, <2>3 DEF Mailbox!Close
    <3> QED
      BY <3>1 DEF MailboxStep, Mailbox!Next
  <2> QED
    BY <2>2, <2>3
<1> QED
  BY <1>3, <1>4, <1>5, <1>7, <1>8, <1>10, <1>11, <1>12

LEMMA DropTimersInv ==
  ASSUME Inv, DropTimers
  PROVE  Inv' /\ MailboxStep
<1> USE DEF Inv
<1>1. /\ UNCHANGED <<now, stopped, queue, deadlines, when, id, loop, until, dropped, call,
                     refused, missed>>
      /\ call[Keeper] = "drop" /\ stopped
      /\ fate' = [k \in Items |-> IF fate[k] = "armed" THEN "dropped" ELSE fate[k]]
      /\ Plain \subseteq Items /\ Callers \subseteq Plain /\ Timers \subseteq Items
      /\ Timers \cap Plain = {}
  BY Members DEF DropTimers, timerVars, threadVars, historyVars, Stops, StopCalls
<1>2. /\ \A k \in Items : fate'[k] = IF fate[k] = "armed" THEN "dropped" ELSE fate[k]
      /\ \A k \in Plain : fate'[k] = fate[k]
  BY <1>1 DEF Arming
<1>3. Types'
  BY <1>1 DEF Types
<1>4. OneRuns'
  BY <1>1, <1>2 DEF OneRuns, Running
<1>5. Places'
  BY <1>1, <1>2 DEF Places
<1>6. Numbered' = Numbered
  BY <1>1 DEF Numbered
<1>7. Arming'
  BY <1>1, <1>2, <1>6 DEF Arming
<1>8. DeadlineOrder'
  <2>1. \A j \in Timers : /\ Left(j)' => Left(j)
                          /\ fate'[j] = "armed" => fate[j] = "armed"
    BY <1>1, <1>2 DEF Left
  <2> QED
    BY <1>1, <2>1 DEF DeadlineOrder, Earlier
<1>9. Stops'
  BY <1>1, <1>2 DEF Stops
<1>10. StandIns'
  BY <1>1, <1>2 DEF StandIns
<1>11. MailboxStep
  BY <1>1, <1>2, TimersUnseen
<1> QED
  BY <1>3, <1>4, <1>5, <1>7, <1>8, <1>9, <1>10, <1>11

LEMMA DropTasksInv ==
  ASSUME Inv, DropTasks
  PROVE  Inv' /\ MailboxStep
<1> USE DEF Inv
<1>1. /\ UNCHANGED <<now, stopped, queue, deadlines, when, id, loop, until, refused, missed>>
      /\ call[Keeper] = "drop" /\ stopped /\ queue = <<>> /\ loop = "exited"
      /\ \A k \in Timers : fate[k] # "armed"
      /\ Plain \subseteq Items /\ Callers \subseteq Plain /\ Timers \subseteq Items
      /\ Keeper \in Threads /\ Callers \subseteq Threads
  BY Members DEF DropTasks, timerVars, threadVars, historyVars, Stops, StopCalls, Places
<1>2. CASE dropped = <<>>
  <2>1. call' = [call EXCEPT ![Keeper] = "none"] /\ UNCHANGED <<dropped, fate>>
    BY <1>2 DEF DropTasks
  <2>2. call'[Keeper] = "none" /\ \A u \in Threads \ {Keeper} : call'[u] = call[u]
    BY <1>1, <2>1 DEF Types
  <2>3. Types' /\ OneRuns' /\ Places'
    BY <1>1, <2>1 DEF Types, OneRuns, Running, Places
  <2>4. Numbered' = Numbered
    BY <1>1 DEF Numbered
  <2>5. Arming' /\ DeadlineOrder'
    BY <1>1, <2>1, <2>4 DEF Arming, DeadlineOrder, Left, Earlier
  <2>6. Stops'
    <3>1. \A k \in Items : fate[k] # "armed"
      BY <1>1 DEF Arming
    <3> QED
      BY <1>1, <1>2, <2>1, <2>2, <3>1 DEF Stops, StopCalls
  <2>7. StandIns'
    BY <1>1, <2>1, <2>2 DEF StandIns
  <2>8. MailboxStep
    BY <1>1, <2>1, Unseen
  <2> QED
    BY <2>3, <2>5, <2>6, <2>7, <2>8
<1>3. CASE dropped # <<>>
  <2> DEFINE k == Head(dropped)
  <2>1. /\ fate' = [fate EXCEPT ![k] = "dropped"] /\ dropped' = Tail(dropped) /\ call' = call
    BY <1>3 DEF DropTasks
  <2>2. /\ k \in ToSet(dropped) /\ k \in Items
        /\ Tail(dropped) \in Seq(Items) /\ Distinct(Tail(dropped))
        /\ ToSet(Tail(dropped)) = ToSet(dropped) \ {k}
    <3>1. dropped \in Seq(Items) /\ Distinct(dropped)
      BY DEF Types, Places
    <3> QED
      BY <1>3, <3>1, TailFacts
  <2> HIDE DEF k
  <2>3. /\ fate[k] = "queued" /\ fate'[k] = "dropped"
        /\ \A j \in Items \ {k} : fate'[j] = fate[j]
    BY <2>1, <2>2 DEF Types, Places
  <2>4. Types'
    BY <1>1, <2>1, <2>2 DEF Types
  <2>5. OneRuns'
    BY <1>1, <2>2, <2>3 DEF OneRuns, Running
  <2>6. Places'
    BY <1>1, <2>1, <2>2, <2>3, EmptyFacts DEF Places
  <2>7. Numbered' = Numbered
    BY <1>1 DEF Numbered
  <2>8. Arming'
    BY <1>1, <2>2, <2>3, <2>7 DEF Arming
  <2>9. DeadlineOrder'
    <3>1. \A j \in Timers : /\ Left(j)' => Left(j)
                            /\ fate'[j] = "armed" => fate[j] = "armed"
      BY <1>1, <2>3 DEF Left
    <3> QED
      BY <1>1, <3>1 DEF DeadlineOrder, Earlier
  <2>10. Stops'
    BY <1>1, <2>1, <2>2, <2>3 DEF Stops, StopCalls
  <2>11. StandIns'
    BY <1>1, <2>1, <2>2, <2>3 DEF StandIns
  <2>12. MailboxStep
    <3>1. queue \o dropped = dropped /\ (queue \o dropped)' = dropped'
      <4>1. \A s \in Seq(Items) : <<>> \o s = s
        OBVIOUS
      <4> QED
        BY <1>1, <2>1, <2>2, <4>1 DEF Types
    <3>2. IF k \in Plain
            THEN /\ Kept(dropped, Plain) # <<>> /\ Head(Kept(dropped, Plain)) = k
                 /\ Tail(Kept(dropped, Plain)) = Kept(dropped', Plain)
            ELSE Kept(dropped', Plain) = Kept(dropped, Plain)
      <4>1. dropped \in Seq(Items)
        BY DEF Types
      <4> QED
        BY <1>3, <2>1, <4>1, KeptTail DEF k
    <3>3. CASE k \in Plain
      <4> DEFINE q == Kept(queue \o dropped, Plain)
      <4>1. q # <<>> /\ Head(q) = k /\ Tail(q) = q'
        BY <3>1, <3>2, <3>3
      <4>2. [j \in Plain |-> fate'[j]] =
              [[j \in Plain |-> fate[j]] EXCEPT ![k] = "dropped"]
        BY <1>1, <2>3
      <4>3. {j \in Plain : fate'[j] = "running"} = {j \in Plain : fate[j] = "running"}
        BY <1>1, <2>3
      <4>4. Mailbox!Drop
        <5> HIDE DEF q
        <5> QED
          BY <1>1, <4>1, <4>2, <4>3 DEF Mailbox!Drop, q
      <4> QED
        BY <4>4 DEF MailboxStep, Mailbox!Next
    <3>4. CASE k \notin Plain
      BY <1>1, <2>3, <3>1, <3>2, <3>4, Unseen
    <3> QED
      BY <3>3, <3>4
  <2> QED
    BY <2>4, <2>5, <2>6, <2>8, <2>9, <2>10, <2>11, <2>12
<1> QED
  BY <1>2, <1>3

--------------------------------------------------------------------------------
(* Run. *)

\* What is fired is in the order of the deadlines.
LEMMA FiredFacts ==
  ASSUME Inv, NEW fired \in Fired
  PROVE  /\ fired \in Seq(Timers) /\ ToSet(fired) = DueArmed /\ Distinct(fired)
         /\ \A m, n \in 1..Len(fired) : m < n => Earlier(fired[m], fired[n])
<1>1. /\ fired \in [1..Cardinality(DueArmed) -> DueArmed] /\ ToSet(fired) = DueArmed
      /\ \A m, n \in 1..Cardinality(DueArmed) : m < n => Earlier(fired[m], fired[n])
  BY DEF Fired, InOrder
<1>2. DueArmed \subseteq Timers
  BY DEF DueArmed, Due, Inv, Types
<1>3. Cardinality(DueArmed) \in Nat
  BY <1>2, TasksAssumption, FS_Subset, FS_CardinalityType
<1>4. fired \in Seq(DueArmed) /\ Len(fired) = Cardinality(DueArmed)
  BY <1>1, <1>3
<1>5. fired \in Seq(Timers)
  BY <1>2, <1>4
<1>6. Distinct(fired)
  <2> SUFFICES ASSUME NEW m \in 1..Len(fired), NEW n \in 1..Len(fired), m # n,
                      fired[m] = fired[n]
               PROVE  FALSE
    BY DEF Distinct
  <2>1. m < n \/ n < m
    BY <1>3, <1>4
  <2>2. Earlier(fired[m], fired[m])
    BY <1>1, <1>4, <2>1
  <2>3. fired[m] \in Timers
    BY <1>1, <1>2, <1>4
  <2>4. when[fired[m]] \in Nat /\ id[fired[m]] \in Nat
    BY <2>3 DEF Inv, Types
  <2> QED
    BY <2>2, <2>4 DEF Earlier
<1> QED
  BY <1>1, <1>4, <1>5, <1>6

LEMMA ConcatFacts ==
  ASSUME NEW S, NEW p \in Seq(S), NEW q \in Seq(S),
         Distinct(p), Distinct(q), ToSet(p) \cap ToSet(q) = {}
  PROVE  /\ p \o q \in Seq(S) /\ Distinct(p \o q)
         /\ ToSet(p \o q) = ToSet(p) \cup ToSet(q)
<1>1. /\ p \o q \in Seq(S) /\ Len(p) \in Nat /\ Len(q) \in Nat
      /\ Len(p \o q) = Len(p) + Len(q)
      /\ \A i \in 1..Len(p) + Len(q) :
           (p \o q)[i] = IF i <= Len(p) THEN p[i] ELSE q[i - Len(p)]
  BY ConcatProperties, LenProperties
<1>2. /\ ToSet(p) = {p[i] : i \in 1..Len(p)} /\ ToSet(q) = {q[i] : i \in 1..Len(q)}
      /\ ToSet(p \o q) = {(p \o q)[i] : i \in 1..Len(p) + Len(q)}
  BY <1>1, LenProperties DEF ToSet
<1> DEFINE u == p \o q
<1> HIDE DEF u
<1>3. /\ \A i \in 1..Len(p) : i \in 1..Len(p) + Len(q) /\ u[i] = p[i]
      /\ \A i \in 1..Len(q) : Len(p) + i \in 1..Len(p) + Len(q) /\ u[Len(p) + i] = q[i]
  <2>1. ASSUME NEW i \in 1..Len(q)
        PROVE  /\ Len(p) + i \in 1..Len(p) + Len(q)
               /\ ~(Len(p) + i <= Len(p)) /\ (Len(p) + i) - Len(p) = i
    BY <1>1
  <2> QED
    BY <1>1, <2>1 DEF u
<1>4. ASSUME NEW i \in 1..Len(p) + Len(q)
      PROVE  \/ i \in 1..Len(p) /\ u[i] = p[i]
             \/ i - Len(p) \in 1..Len(q) /\ u[i] = q[i - Len(p)]
  BY <1>1 DEF u
<1>5. ToSet(u) = ToSet(p) \cup ToSet(q)
  BY <1>2, <1>3, <1>4 DEF u
<1>6. Distinct(u)
  <2> SUFFICES ASSUME NEW i \in 1..Len(p) + Len(q), NEW j \in 1..Len(p) + Len(q),
                      u[i] = u[j]
               PROVE  i = j
    BY <1>1 DEF Distinct, u
  <2>1. \A m \in 1..Len(p), n \in 1..Len(q) : p[m] # q[n]
    BY <1>2
  <2> QED
    BY <1>1, <1>4, <2>1 DEF Distinct
<1> QED
  BY <1>1, <1>5, <1>6 DEF u

\* The queue with what is fired: its timers are in the order of the deadlines.
LEMMA AllFacts ==
  ASSUME Inv, NEW fired \in Fired
  PROVE  /\ queue \o fired \in Seq(Items) /\ Distinct(queue \o fired)
         /\ ToSet(queue \o fired) = ToSet(queue) \cup DueArmed
         /\ \A m, n \in 1..Len(queue \o fired) :
              m < n /\ {(queue \o fired)[m], (queue \o fired)[n]} \subseteq Timers
                => Earlier((queue \o fired)[m], (queue \o fired)[n])
<1> USE DEF Inv
<1>1. /\ fired \in Seq(Timers) /\ ToSet(fired) = DueArmed /\ Distinct(fired)
      /\ \A m, n \in 1..Len(fired) : m < n => Earlier(fired[m], fired[n])
  BY FiredFacts
<1>2. /\ queue \in Seq(Items) /\ Distinct(queue)
      /\ \A i \in 1..Len(queue) : queue[i] \in Items /\ fate[queue[i]] = "queued"
  BY Members DEF Types, Places
<1>3. fired \in Seq(Items) /\ Len(fired) \in Nat /\ Len(queue) \in Nat
  <2>1. fired \in [1..Len(fired) -> Timers] /\ Len(fired) \in Nat /\ Len(queue) \in Nat
    BY <1>1, <1>2, LenProperties
  <2>2. fired \in [1..Len(fired) -> Items]
    BY <2>1, Members
  <2> QED
    BY <2>1, <2>2
<1>4. \A i \in 1..Len(fired) : fired[i] \in DueArmed
  BY <1>1, <1>3, LenProperties DEF ToSet
<1>5. DueArmed \subseteq Timers /\ \A k \in DueArmed : fate[k] = "armed"
  BY DEF DueArmed, Due, Types
<1>6. /\ queue \o fired \in Seq(Items) /\ Distinct(queue \o fired)
      /\ ToSet(queue \o fired) = ToSet(queue) \cup DueArmed
  <2>1. ToSet(queue) \cap ToSet(fired) = {}
    BY <1>1, <1>5 DEF Places
  <2> QED
    BY <1>1, <1>2, <1>3, <2>1, ConcatFacts
<1> DEFINE all == queue \o fired
<1>7. /\ Len(all) = Len(queue) + Len(fired)
      /\ \A i \in 1..Len(queue) + Len(fired) :
           all[i] = IF i <= Len(queue) THEN queue[i] ELSE fired[i - Len(queue)]
  BY <1>2, <1>3, ConcatProperties
<1> HIDE DEF all
<1>8. ASSUME NEW m \in 1..Len(all), NEW n \in 1..Len(all), m < n,
             all[m] \in Timers, all[n] \in Timers
      PROVE  Earlier(all[m], all[n])
  <2>1. CASE n <= Len(queue)
    <3>1. m \in 1..Len(queue) /\ n \in 1..Len(queue) /\ all[m] = queue[m] /\ all[n] = queue[n]
      BY <1>3, <1>7, <1>8, <2>1
    <3> QED
      BY <1>8, <3>1 DEF DeadlineOrder
  <2>2. CASE m <= Len(queue) /\ ~(n <= Len(queue))
    <3>1. /\ m \in 1..Len(queue) /\ n - Len(queue) \in 1..Len(fired)
          /\ all[m] = queue[m] /\ all[n] = fired[n - Len(queue)]
      BY <1>3, <1>7, <1>8, <2>2
    <3>2. Left(all[m]) /\ fate[all[n]] = "armed"
      BY <1>2, <1>4, <1>5, <3>1 DEF Left
    <3> QED
      BY <1>8, <3>2 DEF DeadlineOrder
  <2>3. CASE ~(m <= Len(queue))
    <3>1. /\ m - Len(queue) \in 1..Len(fired) /\ n - Len(queue) \in 1..Len(fired)
          /\ m - Len(queue) < n - Len(queue) /\ ~(n <= Len(queue))
      BY <1>3, <1>7, <1>8, <2>3
    <3>2. all[m] = fired[m - Len(queue)] /\ all[n] = fired[n - Len(queue)]
      BY <1>7, <2>3, <3>1
    <3> QED
      BY <1>1, <3>1, <3>2
  <2> QED
    BY <2>1, <2>2, <2>3
<1> QED
  BY <1>6, <1>8 DEF all

LEMMA TailOrder ==
  ASSUME NEW s \in Seq(Items), s # <<>>,
         \A m, n \in 1..Len(s) :
           m < n /\ {s[m], s[n]} \subseteq Timers => Earlier(s[m], s[n])
  PROVE  \A m, n \in 1..Len(Tail(s)) :
           m < n /\ {Tail(s)[m], Tail(s)[n]} \subseteq Timers
             => Earlier(Tail(s)[m], Tail(s)[n])
<1> DEFINE r == Tail(s)
<1>1. Len(s) \in Nat /\ Len(r) = Len(s) - 1 /\ \A i \in 1..Len(r) : r[i] = s[i + 1]
  BY HeadTailProperties, LenProperties
<1> HIDE DEF r
<1>2. ASSUME NEW m \in 1..Len(r), NEW n \in 1..Len(r), m < n
      PROVE  /\ m + 1 \in 1..Len(s) /\ n + 1 \in 1..Len(s) /\ m + 1 < n + 1
             /\ r[m] = s[m + 1] /\ r[n] = s[n + 1]
  BY <1>1, <1>2
<1> QED
  BY <1>2 DEF r

\* The thread takes the first task.
LEMMA TakeInv ==
  ASSUME Inv, NEW fired \in Fired, queue \o fired # <<>>,
         loop = "look", ~stopped, deadlines' = deadlines \ Due,
         queue' = Tail(queue \o fired), loop' = "run", until' = Never,
         fate' = [[k \in Items |-> IF k \in DueArmed THEN "queued" ELSE fate[k]]
                    EXCEPT ![Head(queue \o fired)] = "running"],
         UNCHANGED <<now, stopped, when, id, dropped, call, refused, missed>>
  PROVE  Inv' /\ MailboxStep
<1> USE DEF Inv
<1> DEFINE all == queue \o fired
           h == Head(all)
<1>1. /\ all \in Seq(Items) /\ Distinct(all) /\ all # <<>>
      /\ ToSet(all) = ToSet(queue) \cup DueArmed
      /\ \A m, n \in 1..Len(all) :
           m < n /\ {all[m], all[n]} \subseteq Timers => Earlier(all[m], all[n])
  BY AllFacts
<1>2. queue' = Tail(all)
  OBVIOUS
<1>3. fate' = [[k \in Items |-> IF k \in DueArmed THEN "queued" ELSE fate[k]]
                 EXCEPT ![h] = "running"]
  OBVIOUS
<1> HIDE DEF all
<1>4. /\ h \in Items /\ h \in ToSet(all)
      /\ Tail(all) \in Seq(Items) /\ Distinct(Tail(all))
      /\ ToSet(Tail(all)) = ToSet(all) \ {h}
  BY <1>1, TailFacts
<1> HIDE DEF h
<1>5. /\ fate'[h] = "running"
      /\ \A k \in Items \ {h} : fate'[k] = IF k \in DueArmed THEN "queued" ELSE fate[k]
  BY <1>3, <1>4
<1>6. /\ DueArmed \subseteq Timers /\ \A k \in DueArmed : fate[k] = "armed" /\ when[k] <= now
      /\ fate[h] = "queued" \/ h \in DueArmed
  BY <1>1, <1>4 DEF DueArmed, Due, Places, Types
<1>7. /\ Plain \subseteq Items /\ Callers \subseteq Plain /\ Timers \subseteq Items
      /\ Timers \cap Plain = {} /\ dropped = <<>> /\ ToSet(dropped) = {}
  BY Members, EmptyFacts DEF Places
<1>8. Types'
  <2>1. fate' \in [Items -> {"new", "armed", "queued", "running", "ran", "cancelled",
                             "dropped"}]
    BY <1>3, <1>4 DEF Types
  <2>2. queue' \in Seq(Items)
    BY <1>2, <1>4
  <2> QED
    BY <2>1, <2>2 DEF Types
<1>9. OneRuns'
  <2>1. \A k \in Items : fate[k] # "running"
    BY DEF OneRuns
  <2>2. \A k \in Items : fate'[k] = "running" <=> k = h
    BY <1>5, <2>1
  <2> QED
    BY <1>4, <2>2 DEF OneRuns, Running
<1>10. Places'
  <2>1. ToSet(queue') = (ToSet(queue) \cup DueArmed) \ {h}
    BY <1>1, <1>2, <1>4
  <2>2. \A k \in Items : fate'[k] = "queued" <=> k \in ToSet(queue')
    BY <1>5, <1>6, <1>7, <2>1 DEF Places
  <2>3. ToSet(queue') \subseteq Items
    BY <1>6, <1>7, <2>1, Members
  <2> QED
    BY <1>2, <1>4, <1>7, <2>2, <2>3 DEF Places
<1>11. Numbered' = Numbered
  BY DEF Numbered
<1>12. Arming'
  <2>1. ASSUME NEW k \in Items, fate'[k] = "armed"
        PROVE  k \in Timers /\ k \in deadlines'
    <3>1. k # h /\ k \notin DueArmed /\ fate[k] = "armed"
      BY <1>5, <2>1
    <3> QED
      BY <3>1 DEF Arming, DueArmed
  <2>2. \A k \in Timers : fate'[k] = "new" => fate[k] = "new"
    BY <1>5, <1>7
  <2> QED
    BY <1>11, <2>1, <2>2 DEF Arming
<1>13. DeadlineOrder'
  <2>1. \A j \in Timers : Left(j)' => Left(j) \/ j \in DueArmed
    BY <1>5, <1>6, <1>7 DEF Left
  <2>2. (\A j \in Timers : Left(j) => when[j] <= now)'
    BY <1>6, <2>1 DEF DeadlineOrder
  <2>3. ASSUME NEW j \in Timers, NEW k \in Timers, Left(j)', fate'[k] = "armed"
        PROVE  Earlier(j, k)'
    <3>1. fate[k] = "armed" /\ k \notin DueArmed
      BY <1>5, <1>7, <2>3
    <3>2. CASE Left(j)
      BY <3>1, <3>2 DEF DeadlineOrder, Earlier
    <3>3. CASE j \in DueArmed
      <4>1. when[j] <= now /\ ~(when[k] <= now)
        BY <1>6, <1>7, <3>1, <3>3 DEF Arming, DueArmed, Due
      <4>2. when[j] \in Nat /\ when[k] \in Nat /\ now \in Nat
        BY TimeAssumption DEF Types
      <4> QED
        BY <4>1, <4>2 DEF Earlier
    <3> QED
      BY <2>1, <2>3, <3>2, <3>3
  <2>4. (\A m, n \in 1..Len(queue) :
           m < n /\ {queue[m], queue[n]} \subseteq Timers => Earlier(queue[m], queue[n]))'
    <3>1. \A m, n \in 1..Len(Tail(all)) :
            m < n /\ {Tail(all)[m], Tail(all)[n]} \subseteq Timers
              => Earlier(Tail(all)[m], Tail(all)[n])
      BY <1>1, TailOrder
    <3> DEFINE r == Tail(all)
    <3>2. queue' = r /\ when' = when /\ id' = id
      BY <1>2
    <3> HIDE DEF r
    <3>3. ASSUME NEW m \in 1..Len(r), NEW n \in 1..Len(r), m < n,
                 r[m] \in Timers, r[n] \in Timers
          PROVE  Earlier(queue[m], queue[n])'
      <4>1. Earlier(r[m], r[n])
        BY <3>1, <3>3 DEF r
      <4>2. queue'[m] = r[m] /\ queue'[n] = r[n]
        BY <3>2
      <4> QED
        BY <3>2, <4>1, <4>2 DEF Earlier
    <3>4. Len(queue') = Len(r) /\ \A m \in 1..Len(r) : queue'[m] = r[m]
      BY <3>2
    <3> QED
      BY <3>3, <3>4
  <2> QED
    BY <2>2, <2>3, <2>4 DEF DeadlineOrder
<1>14. Stops'
  BY DEF Stops
<1>15. StandIns'
  <2>1. \A c \in Callers : fate'[c] = "dropped" <=> fate[c] = "dropped"
    BY <1>5, <1>6, <1>7
  <2>2. \A c \in Callers : call[c] = "standin" => fate[c] = "dropped"
    BY DEF StandIns
  <2> QED
    BY <2>1, <2>2 DEF StandIns
<1>16. MailboxStep
  <2> DEFINE q == Kept(queue \o dropped, Plain)
  <2>1. q = Kept(all, Plain)
    <3>1. queue \in Seq(Items) /\ fired \in Seq(Items)
      <4>1. fired \in [1..Len(fired) -> Timers] /\ Len(fired) \in Nat
        BY FiredFacts, LenProperties
      <4>2. fired \in [1..Len(fired) -> Items]
        BY <1>7, <4>1
      <4>3. fired \in Seq(Items)
        BY <4>1, <4>2
      <4> QED
        BY <4>3 DEF Types
    <3>2. Kept(all, Plain) = Kept(queue, Plain) \o Kept(fired, Plain)
      BY <3>1, KeptConcat DEF all
    <3>3. Kept(fired, Plain) = <<>>
      <4>1. Len(fired) \in Nat /\ \A i \in 1..Len(fired) : fired[i] \notin Plain
        BY <1>7, FiredFacts, LenProperties, ElementOfSeq
      <4> QED
        BY <4>1, KeptNone
    <3>4. Kept(queue, Plain) \in Seq(Items) /\ \A s \in Seq(Items) : s \o <<>> = s
      BY <3>1, KeptSeq
    <3> QED
      BY <1>7, <3>1, <3>2, <3>3, <3>4
  <2>2. q' = Kept(Tail(all), Plain)
    <3>1. \A s \in Seq(Items) : s \o <<>> = s
      OBVIOUS
    <3>2. Tail(all) \o <<>> = Tail(all)
      BY <1>4, <3>1
    <3>3. dropped' = <<>>
      BY <1>7
    <3> QED
      BY <1>2, <3>2, <3>3
  <2>3. IF h \in Plain
          THEN /\ Kept(all, Plain) # <<>> /\ Head(Kept(all, Plain)) = h
               /\ Tail(Kept(all, Plain)) = Kept(Tail(all), Plain)
          ELSE Kept(Tail(all), Plain) = Kept(all, Plain)
    BY <1>1, KeptTail DEF h
  <2> HIDE DEF q
  <2>4. CASE h \in Plain
    <3>1. q # <<>> /\ Head(q) = h /\ q' = Tail(q)
      BY <2>1, <2>2, <2>3, <2>4
    <3>2. [j \in Plain |-> fate'[j]] = [[j \in Plain |-> fate[j]] EXCEPT ![h] = "running"]
      BY <1>5, <1>6, <1>7
    <3>3. /\ {j \in Plain : fate[j] = "running"} = {}
          /\ {j \in Plain : fate'[j] = "running"} = {h}
      BY <1>5, <1>6, <1>7, <2>4 DEF OneRuns
    <3>4. Mailbox!Start
      BY <3>1, <3>2, <3>3 DEF Mailbox!Start, q
    <3> QED
      BY <3>4 DEF MailboxStep, Mailbox!Next
  <2>5. CASE h \notin Plain
    <3>1. \A j \in Plain : fate'[j] = fate[j]
      BY <1>5, <1>6, <1>7, <2>5
    <3> QED
      BY <2>1, <2>2, <2>3, <2>5, <3>1, Unseen DEF q
  <2> QED
    BY <2>4, <2>5
<1> QED
  BY <1>8, <1>9, <1>10, <1>12, <1>13, <1>14, <1>15, <1>16

\* The thread finds nothing to do and sleeps to the next deadline.
LEMMA SleepInv ==
  ASSUME Inv, NEW fired \in Fired, queue \o fired = <<>>,
         loop = "look", ~stopped, deadlines' = deadlines \ Due,
         loop' = "asleep",
         until' = IF deadlines \ Due = {} THEN Never
                  ELSE CHOOSE d \in {when[k] : k \in deadlines \ Due} :
                         \A k \in deadlines \ Due : d <= when[k],
         UNCHANGED <<now, stopped, queue, when, id, fate, dropped, call, refused, missed>>
  PROVE  Inv' /\ MailboxStep
<1> USE DEF Inv
<1>1. DueArmed = {}
  <2>1. ToSet(<<>>) = ToSet(queue) \cup DueArmed
    BY AllFacts
  <2> QED
    BY <2>1, EmptyFacts
<1>2. until' \in Nat \cup {Never}
  <2> DEFINE D == {when[k] : k \in deadlines \ Due}
  <2>1. CASE deadlines \ Due # {}
    <3>1. D \in SUBSET Nat /\ D # {}
      BY <2>1 DEF Types
    <3>2. \E d \in D : \A e \in D : d <= e
      <4> HIDE DEF D
      <4> QED
        BY <3>1, Smallest
    <3>3. \E d \in D : \A k \in deadlines \ Due : d <= when[k]
      BY <3>2
    <3>4. until' \in D
      BY <2>1, <3>3
    <3> QED
      BY <3>1, <3>4
  <2> QED
    BY <2>1
<1>3. Types'
  BY <1>2 DEF Types
<1>4. OneRuns' /\ Places' /\ Stops' /\ StandIns'
  BY DEF OneRuns, Running, Places, Stops, StandIns
<1>5. Numbered' = Numbered
  BY DEF Numbered
<1>6. Arming'
  BY <1>1, <1>5 DEF Arming, DueArmed
<1>7. DeadlineOrder'
  BY DEF DeadlineOrder, Left, Earlier
<1>8. MailboxStep
  BY Unseen
<1> QED
  BY <1>3, <1>4, <1>6, <1>7, <1>8

LEMMA LookInv ==
  ASSUME Inv, Look
  PROVE  Inv' /\ MailboxStep
<1>1. /\ loop = "look" /\ ~stopped /\ deadlines' = deadlines \ Due
      /\ UNCHANGED <<now, stopped, when, id, dropped, call, refused, missed>>
  BY DEF Look, historyVars
<1>2. PICK fired \in Fired :
        IF queue \o fired # <<>>
          THEN /\ queue' = Tail(queue \o fired) /\ loop' = "run" /\ until' = Never
               /\ fate' = [[k \in Items |-> IF k \in DueArmed THEN "queued" ELSE fate[k]]
                             EXCEPT ![Head(queue \o fired)] = "running"]
          ELSE /\ loop' = "asleep"
               /\ until' = IF deadlines \ Due = {} THEN Never
                           ELSE CHOOSE d \in {when[k] : k \in deadlines \ Due} :
                                  \A k \in deadlines \ Due : d <= when[k]
               /\ UNCHANGED <<queue, fate>>
  BY DEF Look
<1>3. CASE queue \o fired # <<>>
  BY <1>1, <1>2, <1>3, TakeInv
<1>4. CASE queue \o fired = <<>>
  BY <1>1, <1>2, <1>4, SleepInv
<1> QED
  BY <1>3, <1>4

LEMMA EndTaskInv ==
  ASSUME Inv, NEW k \in Items, EndTask(k)
  PROVE  Inv' /\ MailboxStep
<1> USE DEF Inv
<1>1. /\ UNCHANGED <<now, stopped, queue, deadlines, when, id, until, dropped, call, refused,
                     missed>>
      /\ loop = "run" /\ loop' = "look" /\ fate[k] = "running"
      /\ fate' = [fate EXCEPT ![k] = "ran"]
      /\ Plain \subseteq Items /\ Callers \subseteq Plain /\ Timers \subseteq Items
  BY Members DEF EndTask, InCode, timerVars, historyVars
<1>2. fate'[k] = "ran" /\ \A j \in Items \ {k} : fate'[j] = fate[j]
  BY <1>1 DEF Types
<1>3. Types'
  BY <1>1 DEF Types
<1>4. OneRuns'
  BY <1>1, <1>2 DEF OneRuns, Running
<1>5. Places'
  BY <1>1, <1>2 DEF Places
<1>6. Numbered' = Numbered
  BY <1>1 DEF Numbered
<1>7. Arming'
  BY <1>1, <1>2, <1>6 DEF Arming
<1>8. DeadlineOrder'
  <2>1. \A j \in Timers : /\ Left(j)' => Left(j)
                          /\ fate'[j] = "armed" => fate[j] = "armed"
    BY <1>1, <1>2 DEF Left
  <2> QED
    BY <1>1, <2>1 DEF DeadlineOrder, Earlier
<1>9. Stops'
  BY <1>1, <1>2 DEF Stops
<1>10. StandIns'
  BY <1>1, <1>2 DEF StandIns
<1>11. MailboxStep
  <2>1. CASE k \in Plain
    <3>1. [j \in Plain |-> fate'[j]] = [[j \in Plain |-> fate[j]] EXCEPT ![k] = "ran"]
      BY <1>1, <1>2
    <3>2. {j \in Plain : fate'[j] = "running"} = {j \in Plain : fate[j] = "running"} \ {k}
      BY <1>1, <1>2
    <3>3. Mailbox!Finish(k)
      BY <1>1, <2>1, <3>1, <3>2 DEF Mailbox!Finish
    <3> QED
      BY <2>1, <3>3 DEF MailboxStep, Mailbox!Next
  <2>2. CASE k \notin Plain
    BY <1>1, <1>2, <2>2, TimersUnseen
  <2> QED
    BY <2>1, <2>2
<1> QED
  BY <1>3, <1>4, <1>5, <1>7, <1>8, <1>9, <1>10, <1>11

--------------------------------------------------------------------------------
(* The specification. *)

LEMMA NextInv == Inv /\ [Next]_vars => Inv' /\ MailboxStep
<1> SUFFICES ASSUME Inv, [Next]_vars PROVE Inv' /\ MailboxStep
  OBVIOUS
<1>0. Clients \cup {Own} \subseteq Threads
  BY DEF Threads
<1>1. ASSUME NEW t \in Clients \cup {Own}, NEW k \in Posts, Post(t, k)
      PROVE  Inv' /\ MailboxStep
  BY <1>0, <1>1, PostInv
<1>2. ASSUME NEW t \in Clients \cup {Own}, NEW k \in Timers, CancelTimer(t, k)
      PROVE  Inv' /\ MailboxStep
  BY <1>0, <1>2, CancelTimerInv
<1>3. ASSUME NEW t \in Clients \cup {Own}, NEW k \in Timers, NEW d \in Delays, PostAfter(t, k, d)
      PROVE  Inv' /\ MailboxStep
  BY <1>0, <1>3, PostAfterInv
<1>4. ASSUME NEW t \in Threads, CallStep(t)
      PROVE  Inv' /\ MailboxStep
  BY <1>4, NotifyInv, WaitsInv DEF CallStep
<1>5. ASSUME NEW c \in Callers, RunAndWait(c)
      PROVE  Inv' /\ MailboxStep
  BY <1>5, RunAndWaitInv
<1>6. CASE ThreadStep \/ SpuriousWake
  BY <1>6, LookInv, ThreadMovesInv, EndTaskInv DEF ThreadStep
<1>7. CASE Stop \/ StopStep
  BY <1>7, StopInv, JoinedInv, DropTimersInv, DropTasksInv DEF StopStep
<1>8. CASE Tick
  BY <1>8, TickInv
<1>9. CASE UNCHANGED vars
  <2>1. /\ UNCHANGED <<now, stopped, queue, deadlines, when, id, fate, loop, until, dropped,
                       call, refused, missed>>
    BY <1>9 DEF vars, timerVars, threadVars, historyVars
  <2>2. /\ loop' \in {"look", "asleep", "run", "exited"} /\ until' \in Nat \cup {Never}
        /\ call' \in [Threads -> {"none", "notify", "notifyWait", "notifyStop", "wait",
                                  "standin", "join", "drop"}]
        /\ (loop = "exited" => stopped) /\ (call[Keeper] = "drop" => loop = "exited")
        /\ \A c \in Callers : call[c] = "standin" => fate[c] = "dropped"
    BY <2>1 DEF Inv, Types, Stops, StandIns
  <2> QED
    BY <2>1, <2>2, MovesInv
<1> QED
  BY <1>1, <1>2, <1>3, <1>4, <1>5, <1>6, <1>7, <1>8, <1>9 DEF Next

LEMMA InvHolds == Spec => []Inv
<1>1. Inv /\ [Next]_vars => Inv'
  BY NextInv
<1>2. Init => Inv
  BY InitInv
<1> QED
  BY <1>1, <1>2, PTL DEF Spec

\* All variables keep their types, and the thread is in a task exactly while a task
\* runs.
THEOREM TypeCorrect == Spec => []TypeOK
<1>1. Inv => TypeOK
  BY DEF Inv, Types, OneRuns, TypeOK
<1> QED
  BY <1>1, InvHolds, PTL

\* For any number of timers, delays and threads: timers leave for the queue no earlier
\* than their deadline, in the order of their deadlines and then of their calls, and
\* keep that order in the queue.
THEOREM FiresInOrder == Spec => []DeadlineOrder
<1>1. Inv => DeadlineOrder
  BY DEF Inv
<1> QED
  BY <1>1, InvHolds, PTL

\* A Stop that has returned leaves no thread and no task behind, and a caller stands in
\* for a dropped task only when the thread has left.
THEOREM RestsAfterStop == Spec => []RestAfterStop
<1>1. ASSUME Inv
      PROVE  RestAfterStop
  <2>1. ASSUME stopped, call[Keeper] = "none"
        PROVE  /\ loop = "exited"
               /\ \A k \in Items : fate[k] \notin {"armed", "queued", "running"}
    <3>1. /\ loop = "exited" /\ dropped = <<>> /\ queue = <<>>
          /\ \A k \in Items : fate[k] # "armed"
      BY <1>1, <2>1 DEF Inv, Stops, StopCalls, Places
    <3>2. \A k \in Items : fate[k] # "queued"
      BY <1>1, <3>1, EmptyFacts DEF Inv, Places
    <3>3. \A k \in Items : fate[k] # "running"
      BY <1>1, <3>1 DEF Inv, OneRuns
    <3> QED
      BY <3>1, <3>2, <3>3
  <2>2. \A c \in Callers : call[c] = "standin" /\ c \notin refused => loop = "exited"
    BY <1>1 DEF Inv, StandIns
  <2> QED
    BY <2>1, <2>2 DEF RestAfterStop
<1> QED
  BY <1>1, InvHolds, PTL

\* Without its timers, the executor is a serial mailbox, whatever fires in between.
THEOREM RefinesMailbox == Spec => ImplementsMailbox
<1>1. Init => Inv /\ Mailbox!Init
  BY InitInv
<1>2. Inv /\ [Next]_vars => Inv' /\ [Mailbox!Next]_(Mailbox!vars)
  BY NextInv DEF MailboxStep
<1> QED
  BY <1>1, <1>2, PTL DEF Spec, ImplementsMailbox, Mailbox!Spec
================================================================================
