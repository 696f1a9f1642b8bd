---------------------------- MODULE CommonProofs ----------------------------
(***************************************************************************)
(* Proofs about two headers of include/common that the other parts build   *)
(* on and that share no state: Lifetime.h (Lifetime) and ValueJson.h       *)
(* (DeepMerge), a section each.                                            *)
(***************************************************************************)
EXTENDS Lifetime, DeepMerge, FiniteSetTheorems, SequenceTheorems,
        WellFoundedInduction, TLAPS

----------------------------------------------------------------------------
(***************************************************************************)
(* InvalidateAndWait keeps its word for any number of threads and calls.   *)
(*                                                                         *)
(* inside is the size of the set of counted calls; a waiting thread's mine *)
(* is the size of its own part of that set.  When the load finds them      *)
(* equal the two sets are the same, so no other thread is inside a call;   *)
(* whoever is counted after that load compares with the new generation.    *)
(***************************************************************************)

\* A thread in InvalidateAndWait stands still, inside calls that it entered.
Waiters ==
  \A t \in Threads : waitAt[t] # "none" =>
    /\ mine[t] = Cardinality(Entered(t))
    /\ \A c \in Stack(t) : at[c] = "body"

\* Generations only grow.
Targets == \A t \in Threads : target[t] <= generation /\ assured[t] <= generation

Inv == TypeOK /\ InsideExact /\ Waiters /\ Targets /\ NoneRunsAfterReturn

--------------------------------------------------------------------------------
LEMMA CallSets ==
  ASSUME NEW S \in SUBSET Calls
  PROVE  IsFiniteSet(S) /\ Cardinality(S) \in Nat
BY CallsAssumption, FS_Subset, FS_CardinalityType

\* Counting one call more, and one call less.
LEMMA CountCall ==
  ASSUME NEW S \in SUBSET Calls, NEW c \in Calls
  PROVE  /\ Cardinality(S) \in Nat
         /\ c \notin S => Cardinality(S \cup {c}) = Cardinality(S) + 1
         /\ c \in S => /\ Cardinality(S \ {c}) = Cardinality(S) - 1
                       /\ Cardinality(S) >= 1
<1>1. IsFiniteSet(S) /\ Cardinality(S) \in Nat
  BY CallSets
<1>2. c \in S => Cardinality(S) # 0
  BY <1>1, FS_EmptySet
<1>3. c \notin S => Cardinality(S \cup {c}) = Cardinality(S) + 1
  BY <1>1, FS_AddElement
<1>4. c \in S => Cardinality(S \ {c}) = Cardinality(S) - 1
  BY <1>1, FS_RemoveElement
<1> QED
  BY <1>1, <1>2, <1>3, <1>4

LEMMA InitInv == Init => Inv
<1> SUFFICES ASSUME Init PROVE Inv
  OBVIOUS
<1>1. 0 \in 0..MaxGeneration
  BY GenerationAssumption
<1>2. TypeOK
  BY <1>1 DEF Init, TypeOK
<1>3. Inside = {}
  BY DEF Init, Inside
<1>4. InsideExact
  BY <1>3, FS_EmptySet DEF Init, InsideExact
<1>5. Waiters /\ Targets /\ NoneRunsAfterReturn
  BY DEF Init, Waiters, Targets, NoneRunsAfterReturn
<1> QED
  BY <1>2, <1>4, <1>5 DEF Inv

\* A call that moves without entering or leaving the count disturbs no waiter,
\* provided its own thread is not waiting.
LEMMA SameCount ==
  ASSUME Inv, Inside' = Inside, UNCHANGED <<inside, host, waitAt, mine>>,
         NEW t \in Threads, waitAt[t] = "none",
         \A c \in Calls : at'[c] = at[c] \/ (host[c] = t /\ c \in Stack(t))
                          \/ (at[c] \in {"unbound", "bound"}
                              /\ at'[c] \in {"unbound", "bound"})
  PROVE  InsideExact' /\ Waiters'
<1>1. InsideExact'
  BY DEF Inv, InsideExact
<1>2. \A u \in Threads : Entered(u)' = Entered(u)
  BY DEF Entered
<1>3. \A u \in Threads : waitAt[u] # "none" =>
        \A c \in Stack(u)' : c \in Stack(u) /\ at'[c] = at[c]
  BY DEF Stack
<1> QED
  BY <1>1, <1>2, <1>3 DEF Inv, Waiters

--------------------------------------------------------------------------------
LEMMA BindInv ==
  ASSUME Inv, NEW t \in Threads, NEW c \in Calls, Bind(t, c)
  PROVE  Inv'
<1> USE DEF Bind, Inv, stateVars, waitVars
<1>1. TypeOK'
  BY DEF TypeOK
<1>2. Inside' = Inside
  BY DEF Inside, TypeOK
<1>3. InsideExact' /\ Waiters'
  BY <1>2, SameCount DEF InCode, TypeOK
<1>4. Targets' /\ NoneRunsAfterReturn'
  BY DEF Targets, NoneRunsAfterReturn, TypeOK
<1> QED
  BY <1>1, <1>3, <1>4

LEMMA EnterInv ==
  ASSUME Inv, NEW t \in Threads, NEW c \in Calls, Enter(t, c)
  PROVE  Inv'
<1> USE DEF Enter, Inv, waitVars
<1>1. Stack(t) \in SUBSET Calls /\ Inside \in SUBSET Calls
  BY DEF Stack, Inside
<1>2. Cardinality(Stack(t)) + 1 \in Nat
  BY <1>1, CallSets
<1>3. TypeOK'
  BY <1>2 DEF TypeOK
<1>4. Inside' = Inside \cup {c} /\ c \notin Inside
  BY DEF Inside, TypeOK
<1>5. InsideExact'
  BY <1>1, <1>4, CountCall DEF InsideExact
<1>6. Waiters'
  <2> SUFFICES ASSUME NEW u \in Threads, waitAt[u] # "none"
               PROVE  /\ mine[u] = Cardinality(Entered(u)')
                      /\ \A d \in Stack(u)' : at'[d] = "body"
    BY DEF Waiters
  <2>1. u # t
    BY DEF InCode
  <2>2. Entered(u)' = Entered(u) /\ Stack(u)' = Stack(u)
    BY <1>4, <2>1 DEF Entered, Stack, Inside, TypeOK
  <2> QED
    BY <2>2 DEF Waiters, Stack, TypeOK
<1>7. Targets' /\ NoneRunsAfterReturn'
  BY DEF Targets, NoneRunsAfterReturn, TypeOK
<1> QED
  BY <1>3, <1>5, <1>6, <1>7

LEMMA CheckInv ==
  ASSUME Inv, NEW t \in Threads, NEW c \in Calls, Check(t, c)
  PROVE  Inv'
<1> USE DEF Check, Inv, stateVars, waitVars
<1>1. c \in Stack(t) /\ at[c] # "body"
  BY DEF Stack
<1>2. waitAt[t] = "none"
  BY <1>1 DEF Waiters
<1>3. TypeOK'
  BY DEF TypeOK
<1>4. Inside' = Inside
  BY DEF Inside, TypeOK
<1>5. InsideExact' /\ Waiters'
  BY <1>1, <1>2, <1>4, SameCount DEF TypeOK
<1>6. Targets'
  BY DEF Targets
<1>7. NoneRunsAfterReturn'
  BY DEF NoneRunsAfterReturn, Targets, TypeOK
<1> QED
  BY <1>3, <1>5, <1>6, <1>7

LEMMA FinishInv ==
  ASSUME Inv, NEW t \in Threads, NEW c \in Calls, Finish(t, c)
  PROVE  Inv'
<1> USE DEF Finish, Inv, stateVars, waitVars, Innermost
<1>1. c \in Stack(t)
  BY DEF Stack
<1>2. TypeOK'
  BY DEF TypeOK
<1>3. Inside' = Inside
  BY DEF Inside, TypeOK
<1>4. InsideExact' /\ Waiters'
  BY <1>1, <1>3, SameCount DEF InCode, TypeOK
<1>5. Targets' /\ NoneRunsAfterReturn'
  BY DEF Targets, NoneRunsAfterReturn, TypeOK
<1> QED
  BY <1>2, <1>4, <1>5

LEMMA LeaveInv ==
  ASSUME Inv, NEW t \in Threads, NEW c \in Calls, Leave(t, c)
  PROVE  Inv'
<1> USE DEF Leave, Inv, waitVars
<1>1. c \in Stack(t) /\ at[c] # "body"
  BY DEF Stack
<1>2. Inside' = Inside \ {c} /\ c \in Inside /\ Inside \in SUBSET Calls
  BY DEF Inside, TypeOK
<1>3. InsideExact' /\ inside' \in Nat
  BY <1>2, CountCall DEF InsideExact, TypeOK
<1>4. TypeOK'
  BY <1>3 DEF TypeOK
<1>5. Waiters'
  <2> SUFFICES ASSUME NEW u \in Threads, waitAt[u] # "none"
               PROVE  /\ mine[u] = Cardinality(Entered(u)')
                      /\ \A d \in Stack(u)' : at'[d] = "body"
    BY DEF Waiters
  <2>1. u # t
    BY <1>1 DEF Waiters
  <2>2. Entered(u)' = Entered(u) /\ Stack(u)' = Stack(u)
    BY <1>2, <2>1 DEF Entered, Stack, Inside, TypeOK
  <2> QED
    BY <2>1, <2>2 DEF Waiters, Stack, TypeOK
<1>6. Targets' /\ NoneRunsAfterReturn'
  BY DEF Targets, NoneRunsAfterReturn, TypeOK
<1> QED
  BY <1>3, <1>4, <1>5, <1>6

LEMMA NotifyInv ==
  ASSUME Inv, NEW t \in Threads, NEW c \in Calls, Notify(t, c)
  PROVE  Inv'
<1> USE DEF Notify, Inv, stateVars
<1>1. at[c] = "notifying" /\ at'[c] \in {"bound", "unbound"}
      /\ \A d \in Calls \ {c} : at'[d] = at[d] /\ host'[d] = host[d]
  BY DEF TypeOK
<1>2. TypeOK'
  <2>1. 0 \in 0..MaxGeneration
    BY GenerationAssumption
  <2>2. snapshot' \in [Calls -> 0..MaxGeneration]
        /\ at' \in [Calls -> {"unbound", "bound", "counted", "body", "leaving",
                              "notifying"}]
    BY <2>1 DEF TypeOK
  <2>3. waitAt' \in [Threads -> {"none", "load", "block", "asleep"}]
    BY DEF TypeOK
  <2> QED
    BY <2>2, <2>3 DEF TypeOK
<1>3. Inside' = Inside
  BY <1>1 DEF Inside
<1>4. InsideExact'
  BY <1>3 DEF InsideExact
<1>5. Waiters'
  <2> SUFFICES ASSUME NEW u \in Threads, waitAt'[u] # "none"
               PROVE  /\ mine[u] = Cardinality(Entered(u)')
                      /\ \A d \in Stack(u)' : at'[d] = "body"
    BY DEF Waiters
  <2>1. waitAt[u] # "none"
    BY DEF TypeOK
  <2>2. c \notin Inside /\ c \notin Inside'
    BY <1>1 DEF Inside
  <2>3. Entered(u)' = Entered(u)
    BY <1>1, <1>3, <2>2 DEF Entered, Inside
  <2>4. \A d \in Stack(u)' : d \in Stack(u) /\ at'[d] = at[d]
    BY <1>1 DEF Stack
  <2> QED
    BY <2>1, <2>3, <2>4 DEF Waiters
<1>6. Targets'
  BY DEF Targets
<1>7. NoneRunsAfterReturn'
  <2>1. \A d \in Calls : at'[d] = "body" =>
          at[d] = "body" /\ host'[d] = host[d] /\ snapshot'[d] = snapshot[d]
    BY <1>1 DEF TypeOK
  <2> QED
    BY <2>1 DEF NoneRunsAfterReturn
<1> QED
  BY <1>2, <1>4, <1>5, <1>6, <1>7

LEMMA InvalidateInv ==
  ASSUME Inv, NEW t \in Threads, Invalidate(t)
  PROVE  Inv'
<1> USE DEF Invalidate, Inv, callVars, waitVars
<1>1. TypeOK'
  BY GenerationAssumption DEF TypeOK
<1>2. InsideExact' /\ Waiters'
  BY DEF InsideExact, Waiters, Inside, Entered, Stack
<1>3. Targets' /\ NoneRunsAfterReturn'
  BY DEF Targets, NoneRunsAfterReturn, TypeOK
<1> QED
  BY <1>1, <1>2, <1>3

LEMMA InvalidateAndWaitInv ==
  ASSUME Inv, NEW t \in Threads, InvalidateAndWait(t)
  PROVE  Inv'
<1> USE DEF InvalidateAndWait, Inv, callVars
<1>1. Inside' = Inside /\ \A u \in Threads : Entered(u)' = Entered(u)
                                             /\ Stack(u)' = Stack(u)
  BY DEF Inside, Entered, Stack
<1>2. Cardinality(Entered(t)) \in Nat
  <2>1. Entered(t) \in SUBSET Calls
    BY DEF Entered, Inside
  <2> QED
    BY <2>1, CallSets
<1>3. TypeOK'
  BY <1>2, GenerationAssumption DEF TypeOK
<1>4. InsideExact' /\ Waiters'
  BY <1>1 DEF InsideExact, Waiters, InCode, TypeOK
<1>5. Targets' /\ NoneRunsAfterReturn'
  BY DEF Targets, NoneRunsAfterReturn, TypeOK
<1> QED
  BY <1>3, <1>4, <1>5

\* The load that ends the wait found no call of another thread in the count.
LEMMA QuietLoad ==
  ASSUME Inv, NEW t \in Threads, LoadQuiet(t)
  PROVE  \A c \in Inside : host[c] = t
<1>1. Entered(t) \in SUBSET Inside /\ Inside \in SUBSET Calls
  BY DEF Entered, Inside
<1>2. IsFiniteSet(Inside) /\ Cardinality(Inside) \in Nat
      /\ Cardinality(Entered(t)) \in Nat
  BY <1>1, CallSets
<1>3. Cardinality(Entered(t)) <= Cardinality(Inside)
      /\ (Cardinality(Inside) = Cardinality(Entered(t)) => Inside = Entered(t))
  BY <1>1, <1>2, FS_Subset
<1>4. Cardinality(Inside) <= Cardinality(Entered(t))
  BY DEF LoadQuiet, Inv, InsideExact, Waiters
<1>5. Inside = Entered(t)
  BY <1>2, <1>3, <1>4
<1> QED
  BY <1>5 DEF Entered

LEMMA LoadQuietInv ==
  ASSUME Inv, NEW t \in Threads, LoadQuiet(t)
  PROVE  Inv'
<1>1. \A c \in Inside : host[c] = t
  BY QuietLoad
<1> USE DEF LoadQuiet, Inv, stateVars, callVars
<1>2. TypeOK'
  BY GenerationAssumption DEF TypeOK
<1>3. InsideExact'
  BY DEF InsideExact, Inside
<1>4. Waiters'
  BY DEF Waiters, Inside, Entered, Stack, TypeOK
<1>5. Targets'
  BY GenerationAssumption DEF Targets, TypeOK
<1>6. NoneRunsAfterReturn'
  BY <1>1 DEF NoneRunsAfterReturn, Inside, TypeOK
<1> QED
  BY <1>2, <1>3, <1>4, <1>5, <1>6

\* The rest of the wait loop changes nothing that the invariant relates.
LEMMA WaitLoopInv ==
  ASSUME Inv, NEW t \in Threads, LoadBusy(t) \/ Block(t)
  PROVE  Inv'
<1> USE DEF LoadBusy, Block, Inv, stateVars, callVars
<1>1. TypeOK'
  BY DEF TypeOK
<1>2. \A u \in Threads : waitAt'[u] # "none" => waitAt[u] # "none"
  BY DEF TypeOK
<1>3. InsideExact' /\ Waiters'
  BY <1>2 DEF InsideExact, Waiters, Inside, Entered, Stack
<1>4. Targets' /\ NoneRunsAfterReturn'
  BY DEF Targets, NoneRunsAfterReturn
<1> QED
  BY <1>1, <1>3, <1>4

LEMMA NextInv == Inv /\ [Next]_vars => Inv'
<1> SUFFICES ASSUME Inv, [Next]_vars PROVE Inv'
  OBVIOUS
<1>1. ASSUME NEW t \in Threads, NEW c \in Calls,
             \/ Bind(t, c) \/ Enter(t, c) \/ Check(t, c)
             \/ Finish(t, c) \/ Leave(t, c) \/ Notify(t, c)
      PROVE  Inv'
  BY <1>1, BindInv, EnterInv, CheckInv, FinishInv, LeaveInv, NotifyInv
<1>2. ASSUME NEW t \in Threads,
             \/ Invalidate(t) \/ InvalidateAndWait(t)
             \/ LoadQuiet(t) \/ LoadBusy(t) \/ Block(t)
      PROVE  Inv'
  BY <1>2, InvalidateInv, InvalidateAndWaitInv, LoadQuietInv, WaitLoopInv
<1>3. CASE UNCHANGED vars
  BY <1>3 DEF vars, stateVars, callVars, waitVars, Inv, TypeOK, InsideExact, Waiters,
              Targets, NoneRunsAfterReturn, Inside, Entered, Stack
<1> QED
  BY <1>1, <1>2, <1>3 DEF Next

LEMMA InvHolds == Spec => []Inv
BY InitInv, NextInv, PTL DEF Spec

--------------------------------------------------------------------------------
\* The lifetime's state stays well typed.
THEOREM TypeCorrect == Spec => []TypeOK
<1>1. Inv => TypeOK
  BY DEF Inv
<1> QED
  BY <1>1, InvHolds, PTL

\* The count of calls in progress is exact, also for calls that found themselves
\* dead and for nested ones.
THEOREM CountCorrect == Spec => []InsideExact
<1>1. Inv => InsideExact
  BY DEF Inv
<1> QED
  BY <1>1, InvHolds, PTL

\* When InvalidateAndWait has returned, nothing bound before it runs on another
\* thread.
THEOREM InvalidationIsFinal == Spec => []NoneRunsAfterReturn
<1>1. Inv => NoneRunsAfterReturn
  BY DEF Inv
<1> QED
  BY <1>1, InvHolds, PTL

----------------------------------------------------------------------------
(***************************************************************************)
(* A merge makes what the overlay laid over the base says, for any number  *)
(* of objects, names and leaves.                                           *)
(*                                                                         *)
(* The heap is acyclic and nothing refers to an object that the program    *)
(* holds. A merge into b writes b and objects it makes itself; these refer *)
(* to what was below the base and the overlay, and to newer ones, so the   *)
(* heap stays acyclic and every other object keeps its document. After     *)
(* each field of the overlay, the fields of b are those of the reference   *)
(* for the fields merged so far. The induction over the depth of the calls *)
(* needs a rank of the objects that leaves a merge as many levels as there *)
(* are objects; the invariant of the program's heap has one.               *)
(*                                                                         *)
(* MergeTo, MergeFields, Kept, Trees and Overlaid are recursive functions: *)
(* each is shown to exist, and so to satisfy its equation, by a smallest   *)
(* argument without one.                                                   *)
(***************************************************************************)

\* A set of numbers has a smallest one.
LEMMA Smallest ==
    ASSUME NEW X \in SUBSET Nat, X # {}
    PROVE  \E n \in X : \A m \in X : n <= m
<1>1. PICK n \in X : \A m \in X : ~(<<m, n>> \in OpToRel(<, Nat))
  BY NatLessThanWellFounded, WFMin
<1>2. \A m \in X : ~(m < n)
  BY <1>1 DEF OpToRel
<1> QED  BY <1>2

\* A set of positions has a first one, and the one before is not in it.
LEMMA First ==
    ASSUME NEW n \in Nat, NEW X \in SUBSET (0 .. n), X # {}
    PROVE  \E i \in X : /\ i \in 0 .. n
                        /\ i # 0 => i \in 1 .. n /\ i - 1 \in 0 .. n /\ i - 1 \notin X
<1>1. X \in SUBSET Nat
  OBVIOUS
<1>2. PICK i \in X : \A j \in X : i <= j
  BY <1>1, Smallest
<1>3. i \in 0 .. n /\ i - 1 \notin X
  BY <1>1, <1>2
<1> QED  BY <1>3

\* What Kept leaves of a list: entries of it that are wanted, none twice.
IsKept(F, n, s, T) ==
    /\ F = [i \in 0 .. n |-> F[i]]
    /\ \A i \in 0 .. n :
         F[i] = IF i = 0 THEN <<>>
                ELSE IF s[i] \in T THEN Append(F[i - 1], s[i]) ELSE F[i - 1]

LEMMA KeptExists ==
    ASSUME NEW s, NEW T, NEW n \in Nat
    PROVE  \E F : IsKept(F, n, s, T)
<1> DEFINE X == {m \in Nat : ~ \E F : IsKept(F, m, s, T)}
<1> SUFFICES ASSUME X # {} PROVE FALSE
  OBVIOUS
<1>1. PICK m \in X : \A k \in X : m <= k
  BY Smallest
<1>2. m # 0
  <2>1. IsKept([i \in 0 .. 0 |-> <<>>], 0, s, T)
    BY DEF IsKept
  <2> QED  BY <1>1, <2>1
<1>3. m - 1 \in Nat /\ m - 1 \notin X
  BY <1>1, <1>2
<1>4. PICK F : IsKept(F, m - 1, s, T)
  BY <1>3
<1> DEFINE G == [i \in 0 .. m |-> IF i < m THEN F[i]
                   ELSE IF s[m] \in T THEN Append(F[m - 1], s[m]) ELSE F[m - 1]]
<1>5. IsKept(G, m, s, T)
  <2>1. ASSUME NEW i \in 0 .. m
        PROVE  G[i] = IF i = 0 THEN <<>>
                      ELSE IF s[i] \in T THEN Append(G[i - 1], s[i]) ELSE G[i - 1]
    <3>1. CASE i = m
      BY <1>1, <1>2, <3>1
    <3>2. CASE i # m
      <4>1. i \in 0 .. m - 1 /\ (i = 0 \/ i - 1 \in 0 .. m) /\ i < m /\ i - 1 < m
        BY <1>1, <3>2
      <4> QED  BY <1>4, <4>1 DEF IsKept
    <3> QED  BY <3>1, <3>2
  <2> QED  BY <2>1 DEF IsKept
<1> QED  BY <1>1, <1>5

LEMMA KeptToIs ==
    ASSUME NEW s, NEW T, Len(s) \in Nat
    PROVE  IsKept(KeptTo(s, T), Len(s), s, T)
<1>1. PICK G : IsKept(G, Len(s), s, T)
  BY KeptExists
<1>2. G = [i \in 0 .. Len(s) |->
             IF i = 0 THEN <<>>
             ELSE IF s[i] \in T THEN Append(G[i - 1], s[i]) ELSE G[i - 1]]
  BY <1>1 DEF IsKept
<1>3. KeptTo(s, T) =
        [i \in 0 .. Len(s) |->
           IF i = 0 THEN <<>>
           ELSE IF s[i] \in T THEN Append(KeptTo(s, T)[i - 1], s[i])
           ELSE KeptTo(s, T)[i - 1]]
  BY <1>2 DEF KeptTo
<1> QED  BY <1>3 DEF IsKept

LEMMA KeptIs ==
    ASSUME NEW S, NEW s \in Seq(S), NEW T, NEW r, r = Kept(s, T)
    PROVE  /\ r \in Seq(S)
           /\ \A a \in 1 .. Len(r) : r[a] \in T /\ \E b \in 1 .. Len(s) : r[a] = s[b]
           /\ (\A a, b \in 1 .. Len(s) : s[a] = s[b] => a = b) =>
                \A a, b \in 1 .. Len(r) : r[a] = r[b] => a = b
<1>1. Len(s) \in Nat /\ \A i \in 1 .. Len(s) : s[i] \in S
  BY LenProperties, ElementOfSeq
<1> DEFINE K == KeptTo(s, T)
           Own == \A a, b \in 1 .. Len(s) : s[a] = s[b] => a = b
           Good(q, i) == /\ q \in Seq(S)
                         /\ \A a \in 1 .. Len(q) : q[a] \in T /\ \E b \in 1 .. i : q[a] = s[b]
                         /\ Own => \A a, b \in 1 .. Len(q) : q[a] = q[b] => a = b
           X == {i \in 0 .. Len(s) : ~Good(K[i], i)}
<1>2. IsKept(K, Len(s), s, T)
  BY <1>1, KeptToIs
<1>3. X = {}
  <2> HIDE DEF K
  <2> SUFFICES ASSUME X # {} PROVE FALSE
    OBVIOUS
  <2>1. PICK i \in X : /\ i \in 0 .. Len(s)
                       /\ i # 0 => i \in 1 .. Len(s) /\ i - 1 \in 0 .. Len(s) /\ i - 1 \notin X
    <3>1. X \in SUBSET (0 .. Len(s))
      OBVIOUS
    <3> HIDE DEF X
    <3> QED  BY <1>1, <3>1, First
  <2>2. i # 0
    <3>1. K[0] = <<>>
      BY <1>1, <1>2 DEF IsKept
    <3>2. Good(K[0], 0)
      BY <3>1
    <3> QED  BY <2>1, <3>2
  <2> DEFINE p == K[i - 1]
  <2>3. Good(p, i - 1)
    BY <2>1, <2>2
  <2>4. K[i] = IF s[i] \in T THEN Append(p, s[i]) ELSE p
    BY <1>2, <2>1, <2>2 DEF IsKept
  <2>5. s[i] \in S /\ i \in Nat /\ i - 1 < i /\ i \in 1 .. Len(s) /\ i - 1 \in Nat
    BY <1>1, <2>1, <2>2
  <2> HIDE DEF p
  <2>6. p \in Seq(S) /\ Len(p) \in Nat
        /\ \A a \in 1 .. Len(p) : p[a] \in T /\ \E b \in 1 .. i - 1 : p[a] = s[b]
    BY <2>3
  <2>7. CASE s[i] \notin T
    <3>1. \A a \in 1 .. Len(p) : \E b \in 1 .. i : p[a] = s[b]
      BY <2>5, <2>6
    <3>2. Good(p, i)
      BY <2>3, <3>1
    <3>3. ~Good(K[i], i) /\ K[i] = p
      BY <2>1, <2>4, <2>7
    <3> HIDE DEF Good
    <3> QED  BY <3>2, <3>3
  <2>8. CASE s[i] \in T
    <3> DEFINE q == Append(p, s[i])
    <3>1. /\ q \in Seq(S) /\ Len(q) = Len(p) + 1 /\ q[Len(p) + 1] = s[i]
          /\ \A a \in 1 .. Len(p) : q[a] = p[a]
      BY <2>5, <2>6
    <3> HIDE DEF q
    <3>2. ASSUME NEW a \in 1 .. Len(q) PROVE q[a] \in T /\ \E b \in 1 .. i : q[a] = s[b]
      <4>1. CASE a = Len(p) + 1
        BY <2>5, <2>8, <3>1, <4>1
      <4>2. CASE a # Len(p) + 1
        <5>1. a \in 1 .. Len(p)
          BY <2>6, <3>1, <4>2
        <5>2. q[a] = p[a] /\ p[a] \in T /\ \E b \in 1 .. i - 1 : p[a] = s[b]
          BY <2>6, <3>1, <5>1
        <5> QED  BY <2>5, <5>2
      <4> QED  BY <4>1, <4>2
    <3>3. ASSUME Own, NEW a \in 1 .. Len(p) PROVE p[a] # s[i]
      <4>1. PICK b \in 1 .. i - 1 : p[a] = s[b]
        BY <2>6
      <4>2. b \in 1 .. Len(s) /\ b # i
        BY <1>1, <2>5
      <4> QED  BY <2>5, <3>3, <4>1, <4>2
    <3>4. ASSUME Own, NEW a \in 1 .. Len(q), NEW b \in 1 .. Len(q), q[a] = q[b] PROVE a = b
      <4>1. (a \in 1 .. Len(p) \/ a = Len(p) + 1) /\ (b \in 1 .. Len(p) \/ b = Len(p) + 1)
        BY <2>6, <3>1
      <4>2. \A e, f \in 1 .. Len(p) : p[e] = p[f] => e = f
        BY <2>3, <3>4
      <4> QED  BY <3>1, <3>3, <3>4, <4>1, <4>2
    <3>5. Good(q, i)
      BY <3>1, <3>2, <3>4
    <3>6. ~Good(K[i], i) /\ K[i] = q
      BY <2>1, <2>4, <2>8 DEF q
    <3> HIDE DEF Good
    <3> QED  BY <3>5, <3>6
  <2> QED  BY <2>7, <2>8
<1>4. Good(K[Len(s)], Len(s))
  <2> HIDE DEF Good, K
  <2> QED  BY <1>1, <1>3
<1>5. r = K[Len(s)]
  BY DEF Kept
<1> HIDE DEF K
<1> QED  BY <1>4, <1>5

----------------------------------------------------------------------------
Values == ({"object"} \X Nat) \cup ({"leaf"} \X Leaves)
Fields == Names \X Values
Heaps == Seq(Seq(Fields))

Objects(h) == 1 .. Len(h)
KeysOnce(s) == \A i, j \in 1 .. Len(s) : s[i][1] = s[j][1] => i = j
Refers(s, p) == \E i \in 1 .. Len(s) : s[i][2] = Ref(p)

\* Each key once; what is referred to exists.
HeapOK(h) == /\ h \in Heaps
             /\ \A o \in Objects(h) : /\ KeysOnce(h[o])
                                      /\ \A p : Refers(h[o], p) => p \in Objects(h)
\* Objects refer to objects of a smaller rank.
Descends(h, r, n) == /\ n \in Nat /\ r \in [Objects(h) -> 0 .. n]
                     /\ \A o, p \in Objects(h) : Refers(h[o], p) => r[p] < r[o]
Acyclic(h) == \E r, n : Descends(h, r, n)
Free(h, b) == \A o \in Objects(h) : ~Refers(h[o], b)

LEMMA FieldIs ==
    ASSUME NEW f \in Fields
    PROVE  f = <<f[1], f[2]>> /\ f[1] \in Names /\ f[2] \in Values
BY DEF Fields

LEMMA ValueIs ==
    ASSUME NEW v \in Values, IsRef(v)
    PROVE  v[2] \in Nat /\ v = Ref(v[2])
BY DEF Values, IsRef, Ref

LEMMA RefIs ==
    ASSUME NEW p \in Nat
    PROVE  Ref(p) \in Values /\ IsRef(Ref(p)) /\ Ref(p)[2] = p
BY DEF Values, IsRef, Ref

LEMMA ObjectIs ==
    ASSUME NEW h \in Heaps, NEW o \in Objects(h)
    PROVE  /\ Len(h) \in Nat /\ h[o] \in Seq(Fields) /\ Len(h[o]) \in Nat
           /\ \A i \in 1 .. Len(h[o]) : /\ h[o][i] \in Fields
                                        /\ h[o][i] = <<h[o][i][1], h[o][i][2]>>
                                        /\ h[o][i][1] \in Names /\ h[o][i][2] \in Values
<1>1. Len(h) \in Nat /\ h[o] \in Seq(Fields)
  BY DEF Heaps, Objects
<1>2. Len(h[o]) \in Nat /\ \A i \in 1 .. Len(h[o]) : h[o][i] \in Fields
  BY <1>1
<1> QED  BY <1>1, <1>2, FieldIs

LEMMA ReferredIs ==
    ASSUME NEW h, HeapOK(h), NEW o \in Objects(h), NEW i \in 1 .. Len(h[o]), IsRef(h[o][i][2])
    PROVE  /\ Refers(h[o], h[o][i][2][2]) /\ h[o][i][2][2] \in Objects(h)
           /\ h[o][i][2] = Ref(h[o][i][2][2])
<1>1. h[o][i][2] \in Values
  BY ObjectIs DEF HeapOK
<1>2. h[o][i][2] = Ref(h[o][i][2][2])
  BY <1>1, ValueIs
<1> QED  BY <1>2 DEF Refers, HeapOK

\* FiFoMap::set
LEMMA PositionIs ==
    ASSUME NEW s \in Seq(Fields), NEW k, Has(s, k)
    PROVE  /\ Position(s, k) \in 1 .. Len(s) /\ s[Position(s, k)][1] = k
           /\ Lookup(s, k) = s[Position(s, k)][2]
BY DEF Has, Position, Lookup

LEMMA PutIs ==
    ASSUME NEW s \in Seq(Fields), KeysOnce(s), NEW k \in Names, NEW v \in Values,
           NEW r, r = PutField(s, k, v), NEW e, e = <<k, v>>
    PROVE  /\ r \in Seq(Fields) /\ KeysOnce(r) /\ Has(r, k) /\ Len(s) <= Len(r)
           /\ Has(s, k) =>
                /\ Len(r) = Len(s) /\ r[Position(s, k)] = e
                /\ \A i \in 1 .. Len(s) : i # Position(s, k) => r[i] = s[i]
           /\ ~Has(s, k) =>
                /\ Len(r) = Len(s) + 1 /\ r[Len(r)] = e
                /\ \A i \in 1 .. Len(s) : r[i] = s[i]
           /\ \A i \in 1 .. Len(r) : r[i] = e \/ (i \in 1 .. Len(s) /\ r[i] = s[i])
<1>1. e \in Fields /\ Len(s) \in Nat /\ e[1] = k /\ e[2] = v
  BY DEF Fields
<1>2. CASE Has(s, k)
  <2> DEFINE j == Position(s, k)
  <2>1. j \in 1 .. Len(s) /\ s[j][1] = k
    BY <1>2, PositionIs
  <2>2. r = [s EXCEPT ![j] = e]
    BY <1>2 DEF PutField
  <2> HIDE DEF j
  <2>3. /\ r \in Seq(Fields) /\ Len(r) = Len(s) /\ r[j] = e
        /\ \A i \in 1 .. Len(s) : i # j => r[i] = s[i]
    BY <1>1, <2>1, <2>2
  <2>4. \A i \in 1 .. Len(s) : r[i][1] = s[i][1]
    BY <1>1, <2>1, <2>3
  <2>5. KeysOnce(r) /\ Has(r, k)
    BY <2>1, <2>3, <2>4 DEF KeysOnce, Has
  <2>6. \A i \in 1 .. Len(r) : r[i] = e \/ (i \in 1 .. Len(s) /\ r[i] = s[i])
    <3> TAKE i \in 1 .. Len(r)
    <3>1. i \in 1 .. Len(s) /\ (i # j => r[i] = s[i]) /\ r[j] = e
      BY <2>3
    <3>2. CASE i = j
      BY <3>1, <3>2
    <3>3. CASE i # j
      BY <3>1, <3>3
    <3> QED  BY <3>2, <3>3
  <2>7. j = Position(s, k)
    BY DEF j
  <2> QED  BY <1>1, <1>2, <2>3, <2>5, <2>6, <2>7
<1>3. CASE ~Has(s, k)
  <2>1. r = Append(s, e)
    BY <1>3 DEF PutField
  <2>2. /\ r \in Seq(Fields) /\ Len(r) = Len(s) + 1 /\ r[Len(r)] = e
        /\ \A i \in 1 .. Len(s) : r[i] = s[i]
    BY <1>1, <2>1
  <2>3. \A i \in 1 .. Len(s) : r[i][1] # k
    BY <1>3, <2>2 DEF Has
  <2>4. \A i \in 1 .. Len(r) : i = Len(r) \/ i \in 1 .. Len(s)
    BY <1>1, <2>2
  <2>5. KeysOnce(r) /\ Has(r, k)
    <3>1. Len(r) \in 1 .. Len(r) /\ r[Len(r)][1] = k
      BY <1>1, <2>2
    <3>2. ASSUME NEW i \in 1 .. Len(r), NEW j \in 1 .. Len(r), r[i][1] = r[j][1] PROVE i = j
      <4>1. CASE i \in 1 .. Len(s) /\ j \in 1 .. Len(s)
        BY <2>2, <3>2, <4>1 DEF KeysOnce
      <4> QED  BY <2>3, <2>4, <3>1, <3>2, <4>1
    <3> QED  BY <3>1, <3>2 DEF KeysOnce, Has
  <2>6. \A i \in 1 .. Len(r) : r[i] = e \/ (i \in 1 .. Len(s) /\ r[i] = s[i])
    <3> TAKE i \in 1 .. Len(r)
    <3>1. CASE i = Len(r)
      BY <2>2, <3>1
    <3>2. CASE i # Len(r)
      BY <2>2, <2>4, <3>2
    <3> QED  BY <3>1, <3>2
  <2>7. Len(s) <= Len(r)
    BY <1>1, <2>2
  <2> QED  BY <1>3, <2>2, <2>5, <2>6, <2>7
<1> QED  BY <1>2, <1>3

----------------------------------------------------------------------------
\* What Trees computes: each object's fields, with the document below each.
IsTrees(T, h, X) ==
    T = [o \in X |-> [i \in 1 .. Len(h[o]) |-> <<h[o][i][1], Unfolded(T, h[o][i][2])>>]]

Within(h, r, m) == {o \in Objects(h) : r[o] < m}

LEMMA TreesExist ==
    ASSUME NEW h, HeapOK(h), NEW r, NEW n, Descends(h, r, n), NEW m \in Nat
    PROVE  \E T : IsTrees(T, h, Within(h, r, m))
<1> DEFINE X == {k \in Nat : ~ \E T : IsTrees(T, h, Within(h, r, k))}
<1> SUFFICES ASSUME X # {} PROVE FALSE
  OBVIOUS
<1>1. PICK k \in X : \A l \in X : k <= l
  BY Smallest
<1>2. \A o \in Objects(h) : r[o] \in Nat
  BY DEF Descends
<1>3. k # 0
  <2>1. Within(h, r, 0) = {}
    BY <1>2 DEF Within
  <2>2. IsTrees([o \in {} |-> {}], h, {})
    BY DEF IsTrees
  <2> QED  BY <1>1, <2>1, <2>2
<1>4. k - 1 \in Nat /\ k - 1 \notin X
  BY <1>1, <1>3
<1>5. PICK T : IsTrees(T, h, Within(h, r, k - 1))
  BY <1>4
<1> DEFINE G == [o \in Within(h, r, k) |->
                   [i \in 1 .. Len(h[o]) |-> <<h[o][i][1], Unfolded(T, h[o][i][2])>>]]
<1>6. \A o \in Within(h, r, k - 1) : o \in Within(h, r, k) /\ G[o] = T[o]
  <2>1. \A o \in Within(h, r, k - 1) : o \in Within(h, r, k)
    BY <1>1, <1>2 DEF Within
  <2>2. \A o \in Within(h, r, k - 1) :
           T[o] = [i \in 1 .. Len(h[o]) |-> <<h[o][i][1], Unfolded(T, h[o][i][2])>>]
    BY <1>5 DEF IsTrees
  <2> QED  BY <2>1, <2>2
<1>7. ASSUME NEW o \in Within(h, r, k), NEW i \in 1 .. Len(h[o])
      PROVE  Unfolded(T, h[o][i][2]) = Unfolded(G, h[o][i][2])
  <2>1. CASE IsRef(h[o][i][2])
    <3> DEFINE p == h[o][i][2][2]
    <3>1. o \in Objects(h) /\ r[o] < k
      BY DEF Within
    <3>2. p \in Objects(h) /\ r[p] < r[o]
      BY <2>1, <3>1, ReferredIs DEF Descends
    <3>3. p \in Within(h, r, k - 1)
      BY <1>1, <1>2, <3>1, <3>2 DEF Within
    <3>4. G[p] = T[p]
      BY <1>6, <3>3
    <3> QED  BY <2>1, <3>4 DEF Unfolded
  <2>2. CASE ~IsRef(h[o][i][2])
    BY <2>2 DEF Unfolded
  <2> QED  BY <2>1, <2>2
<1>8. G = [o \in Within(h, r, k) |->
             [i \in 1 .. Len(h[o]) |-> <<h[o][i][1], Unfolded(G, h[o][i][2])>>]]
  <2> HIDE DEF G
  <2>1. \A o \in Within(h, r, k) :
           [i \in 1 .. Len(h[o]) |-> <<h[o][i][1], Unfolded(T, h[o][i][2])>>]
           = [i \in 1 .. Len(h[o]) |-> <<h[o][i][1], Unfolded(G, h[o][i][2])>>]
    BY <1>7
  <2> QED  BY <2>1 DEF G
<1> QED  BY <1>1, <1>8 DEF IsTrees

LEMMA TreesAre ==
    ASSUME NEW h, HeapOK(h), Acyclic(h)
    PROVE  /\ DOMAIN Trees(h) = Objects(h)
           /\ \A o \in Objects(h) :
                Trees(h)[o] = [i \in 1 .. Len(h[o]) |->
                                     <<h[o][i][1], Unfolded(Trees(h), h[o][i][2])>>]
<1>1. PICK r, n : Descends(h, r, n)
  BY DEF Acyclic
<1>2. n + 1 \in Nat /\ Within(h, r, n + 1) = 1 .. Len(h)
  BY <1>1 DEF Descends, Within, Objects
<1>3. PICK T : IsTrees(T, h, 1 .. Len(h))
  BY <1>1, <1>2, TreesExist
<1>4. Trees(h) = CHOOSE S : S = [o \in 1 .. Len(h) |->
         [i \in 1 .. Len(h[o]) |-> <<h[o][i][1], Unfolded(S, h[o][i][2])>>]]
  BY DEF Trees
<1>5. Trees(h) = [o \in 1 .. Len(h) |->
         [i \in 1 .. Len(h[o]) |-> <<h[o][i][1], Unfolded(Trees(h), h[o][i][2])>>]]
  BY <1>3, <1>4 DEF IsTrees
<1> QED  BY <1>5 DEF Objects
----------------------------------------------------------------------------
\* An overlay of two objects depends on the documents below them only.
LEMMA LookupIs ==
    ASSUME NEW s \in Seq(Fields), NEW k, Has(s, k)
    PROVE  /\ Lookup(s, k) \in Values
           /\ IsRef(Lookup(s, k)) => Refers(s, Lookup(s, k)[2])
<1>1. Position(s, k) \in 1 .. Len(s) /\ Lookup(s, k) = s[Position(s, k)][2]
  BY PositionIs
<1>2. s[Position(s, k)] \in Fields
  BY <1>1
<1>3. Lookup(s, k) \in Values
  BY <1>1, <1>2, FieldIs
<1>4. IsRef(Lookup(s, k)) => Lookup(s, k) = Ref(Lookup(s, k)[2])
  BY <1>3, ValueIs
<1> QED  BY <1>1, <1>3, <1>4 DEF Refers

LEMMA AddedIs ==
    ASSUME NEW a, NEW b \in Seq(Fields)
    PROVE  /\ Added(a, b) \in Seq(Fields) /\ Len(Added(a, b)) \in Nat
           /\ \A i \in 1 .. Len(Added(a, b)) : \E j \in 1 .. Len(b) : Added(a, b)[i] = b[j]
<1> DEFINE r == Added(a, b)
           T == {f \in ToSet(b) : ~Has(a, f[1])}
<1>1. r = Kept(b, T)
  BY DEF Added
<1> HIDE DEF r, T
<1>2. r \in Seq(Fields) /\ \A i \in 1 .. Len(r) : \E j \in 1 .. Len(b) : r[i] = b[j]
  BY <1>1, KeptIs
<1> QED  BY <1>2 DEF r

LEMMA SameOverlay ==
    ASSUME NEW a \in Seq(Fields), NEW b \in Seq(Fields), NEW S, NEW T, NEW D, NEW E,
           \A p \in Nat : Refers(a, p) \/ Refers(b, p) => S[p] = T[p],
           \A p, q \in Nat : Refers(a, p) /\ Refers(b, q) => D[<<p, q>>] = E[<<p, q>>]
    PROVE  Overlay(S, D, a, b) = Overlay(T, E, a, b)
<1>1. ASSUME NEW v \in Values, IsRef(v) => Refers(a, v[2]) \/ Refers(b, v[2])
      PROVE  Unfolded(S, v) = Unfolded(T, v)
  BY <1>1, ValueIs DEF Unfolded
<1>2. ASSUME NEW i \in 1 .. Len(a)
      PROVE  a[i][2] \in Values /\ (IsRef(a[i][2]) => Refers(a, a[i][2][2]))
  BY FieldIs, ValueIs DEF Refers
<1>3. ASSUME NEW i \in 1 .. Len(b)
      PROVE  b[i][2] \in Values /\ (IsRef(b[i][2]) => Refers(b, b[i][2][2]))
  BY FieldIs, ValueIs DEF Refers
<1>4. ASSUME NEW i \in 1 .. Len(a)
      PROVE  Unfolded(S, a[i][2]) = Unfolded(T, a[i][2])
  BY <1>1, <1>2
<1>5. ASSUME NEW i \in 1 .. Len(a), Has(b, a[i][1])
      PROVE  Laid(S, D, a[i][2], Lookup(b, a[i][1])) = Laid(T, E, a[i][2], Lookup(b, a[i][1]))
  <2> DEFINE w == Lookup(b, a[i][1])
  <2>1. w \in Values /\ (IsRef(w) => Refers(b, w[2]))
    BY <1>5, LookupIs
  <2>2. Unfolded(S, w) = Unfolded(T, w)
    BY <1>1, <2>1
  <2>3. IsRef(a[i][2]) /\ IsRef(w) => D[<<a[i][2][2], w[2]>>] = E[<<a[i][2][2], w[2]>>]
    BY <1>2, <2>1, ValueIs
  <2> HIDE DEF w
  <2> QED  BY <2>2, <2>3 DEF w, Laid
<1>6. ASSUME NEW i \in 1 .. Len(Added(a, b))
      PROVE  Unfolded(S, Added(a, b)[i][2]) = Unfolded(T, Added(a, b)[i][2])
  BY <1>1, <1>3, AddedIs
<1> DEFINE F(U, B) == [i \in 1 .. Len(a) |->
                         <<a[i][1], IF Has(b, a[i][1]) THEN Laid(U, B, a[i][2], Lookup(b, a[i][1]))
                                    ELSE Unfolded(U, a[i][2])>>]
           G(U) == [i \in 1 .. Len(Added(a, b)) |->
                      <<Added(a, b)[i][1], Unfolded(U, Added(a, b)[i][2])>>]
<1>7. F(S, D) = F(T, E)
  BY <1>4, <1>5
<1>8. G(S) = G(T)
  BY <1>6
<1> HIDE DEF F, G
<1>9. Overlay(S, D, a, b) = F(S, D) \o G(S) /\ Overlay(T, E, a, b) = F(T, E) \o G(T)
  BY DEF Overlay, F, G
<1> QED  BY <1>7, <1>8, <1>9

\* What Overlaid computes.
IsOverlaid(D, h, X) == D = [p \in X |-> Overlay(Trees(h), D, h[p[1]], h[p[2]])]

Pairs(h, r, m) == {p \in Objects(h) \X Objects(h) : r[p[1]] < m}

LEMMA RefersIs ==
    ASSUME NEW h, HeapOK(h), NEW o \in Objects(h), NEW p, Refers(h[o], p)
    PROVE  p \in Objects(h)
BY DEF HeapOK

LEMMA OverlaidExist ==
    ASSUME NEW h, HeapOK(h), NEW r, NEW n, Descends(h, r, n), NEW m \in Nat
    PROVE  \E D : IsOverlaid(D, h, Pairs(h, r, m))
<1> DEFINE X == {k \in Nat : ~ \E D : IsOverlaid(D, h, Pairs(h, r, k))}
<1> SUFFICES ASSUME X # {} PROVE FALSE
  OBVIOUS
<1>1. PICK k \in X : \A l \in X : k <= l
  BY Smallest
<1>2. \A o \in Objects(h) : r[o] \in Nat
  BY DEF Descends
<1>3. k # 0
  <2>1. Pairs(h, r, 0) = {}
    BY <1>2 DEF Pairs
  <2>2. IsOverlaid([p \in {} |-> {}], h, {})
    BY DEF IsOverlaid
  <2> QED  BY <1>1, <2>1, <2>2
<1>4. k - 1 \in Nat /\ k - 1 \notin X
  BY <1>1, <1>3
<1>5. PICK D : IsOverlaid(D, h, Pairs(h, r, k - 1))
  BY <1>4
<1> DEFINE T == Trees(h)
           G == [p \in Pairs(h, r, k) |-> Overlay(T, D, h[p[1]], h[p[2]])]
<1> HIDE DEF T
<1>6. \A p \in Pairs(h, r, k - 1) : p \in Pairs(h, r, k) /\ G[p] = D[p]
  <2>1. \A p \in Pairs(h, r, k - 1) : p \in Pairs(h, r, k)
    BY <1>1, <1>2 DEF Pairs
  <2>2. \A p \in Pairs(h, r, k - 1) : D[p] = Overlay(T, D, h[p[1]], h[p[2]])
    BY <1>5 DEF IsOverlaid, T
  <2> QED  BY <2>1, <2>2
<1>7. ASSUME NEW p \in Pairs(h, r, k)
      PROVE  Overlay(T, D, h[p[1]], h[p[2]]) = Overlay(T, G, h[p[1]], h[p[2]])
  <2>1. /\ p[1] \in Objects(h) /\ p[2] \in Objects(h) /\ r[p[1]] < k
        /\ h[p[1]] \in Seq(Fields) /\ h[p[2]] \in Seq(Fields)
    BY ObjectIs DEF Pairs, HeapOK
  <2>2. ASSUME NEW x \in Nat, NEW y \in Nat, Refers(h[p[1]], x), Refers(h[p[2]], y)
        PROVE  D[<<x, y>>] = G[<<x, y>>]
    <3>1. x \in Objects(h) /\ y \in Objects(h) /\ r[x] < r[p[1]]
      BY <2>1, <2>2, RefersIs DEF Descends
    <3>2. <<x, y>> \in Pairs(h, r, k - 1)
      <4>1. r[x] < k - 1
        <5>1. r[x] \in Nat /\ r[p[1]] \in Nat
          BY <1>2, <2>1, <3>1
        <5>2. k \in Nat /\ r[x] < r[p[1]] /\ r[p[1]] < k
          BY <1>1, <2>1, <3>1
        <5> QED  BY <5>1, <5>2
      <4> QED  BY <3>1, <4>1 DEF Pairs
    <3> QED  BY <1>6, <3>2
  <2> HIDE DEF G
  <2> QED  BY <2>1, <2>2, SameOverlay
<1>8. G = [p \in Pairs(h, r, k) |-> Overlay(T, G, h[p[1]], h[p[2]])]
  <2> HIDE DEF G
  <2> QED  BY <1>7 DEF G
<1> QED  BY <1>1, <1>8 DEF IsOverlaid, T

LEMMA OverlaidAre ==
    ASSUME NEW h, HeapOK(h), Acyclic(h), NEW o \in Objects(h), NEW p \in Objects(h)
    PROVE  Overlaid(h)[<<o, p>>] = Overlay(Trees(h), Overlaid(h), h[o], h[p])
<1>1. PICK r, n : Descends(h, r, n)
  BY DEF Acyclic
<1> DEFINE N == (1 .. Len(h)) \X (1 .. Len(h))
<1>2. n + 1 \in Nat /\ Pairs(h, r, n + 1) = N
  BY <1>1 DEF Descends, Pairs, Objects
<1>3. PICK D : IsOverlaid(D, h, N)
  BY <1>1, <1>2, OverlaidExist
<1>4. Overlaid(h) = CHOOSE S : S = [q \in N |-> Overlay(Trees(h), S, h[q[1]], h[q[2]])]
  BY DEF Overlaid
<1>5. Overlaid(h) = [q \in N |-> Overlay(Trees(h), Overlaid(h), h[q[1]], h[q[2]])]
  BY <1>3, <1>4 DEF IsOverlaid
<1>6. <<o, p>> \in N
  BY DEF Objects
<1> QED  BY <1>5, <1>6
----------------------------------------------------------------------------
\* What two heaps agree on has the same documents in both.
Agree(g, h, X) ==
    /\ X \subseteq Objects(g) /\ X \subseteq Objects(h)
    /\ \A x \in X : g[x] = h[x] /\ \A p : Refers(g[x], p) => p \in X

LEMMA SameFields ==
    ASSUME NEW g, NEW h, HeapOK(g), HeapOK(h), Acyclic(g), Acyclic(h),
           NEW x \in Objects(g), NEW y \in Objects(h), g[x] = h[y],
           \A p \in Nat : Refers(g[x], p) => Trees(g)[p] = Trees(h)[p]
    PROVE  Trees(g)[x] = Trees(h)[y]
<1>1. ASSUME NEW i \in 1 .. Len(g[x])
      PROVE  Unfolded(Trees(g), g[x][i][2]) = Unfolded(Trees(h), g[x][i][2])
  <2>1. g[x][i][2] \in Values
    BY ObjectIs DEF HeapOK
  <2> QED  BY <2>1, ValueIs DEF Unfolded, Refers
<1>2. Trees(g)[x] = [i \in 1 .. Len(g[x]) |-> <<g[x][i][1], Unfolded(Trees(g), g[x][i][2])>>]
  BY TreesAre
<1>3. Trees(h)[y] = [i \in 1 .. Len(h[y]) |-> <<h[y][i][1], Unfolded(Trees(h), h[y][i][2])>>]
  BY TreesAre
<1>4. Trees(h)[y] = [i \in 1 .. Len(g[x]) |-> <<g[x][i][1], Unfolded(Trees(h), g[x][i][2])>>]
  BY <1>3
<1> QED  BY <1>1, <1>2, <1>4

LEMMA TreesAgree ==
    ASSUME NEW g, NEW h, HeapOK(g), HeapOK(h), Acyclic(g), Acyclic(h), NEW X, Agree(g, h, X)
    PROVE  \A x \in X : Trees(g)[x] = Trees(h)[x]
<1>1. PICK r, n : Descends(g, r, n)
  BY DEF Acyclic
<1> DEFINE Bad == {x \in X : Trees(g)[x] # Trees(h)[x]}
           Ranks == {r[x] : x \in Bad}
<1> SUFFICES ASSUME Bad # {} PROVE FALSE
  OBVIOUS
<1>2. \A x \in X : x \in Objects(g) /\ x \in Objects(h) /\ r[x] \in Nat
  BY <1>1 DEF Descends, Agree
<1>3. Ranks \in SUBSET Nat /\ Ranks # {}
  BY <1>2
<1>4. PICK x \in Bad : \A y \in Bad : r[x] <= r[y]
  <2>1. PICK k \in Ranks : \A l \in Ranks : k <= l
    BY <1>3, Smallest
  <2> QED  BY <2>1
<1>5. ASSUME NEW p \in Nat, Refers(g[x], p) PROVE Trees(g)[p] = Trees(h)[p]
  <2>1. p \in X /\ r[p] < r[x]
    BY <1>1, <1>2, <1>5 DEF Agree, Descends
  <2>2. p \notin Bad
    BY <1>2, <1>4, <2>1
  <2> QED  BY <2>1, <2>2
<1>6. x \in X /\ g[x] = h[x]
  BY DEF Agree
<1>7. Trees(g)[x] = Trees(h)[x]
  BY <1>2, <1>5, <1>6, SameFields
<1> QED  BY <1>7

LEMMA OverlaidAgree ==
    ASSUME NEW g, NEW h, HeapOK(g), HeapOK(h), Acyclic(g), Acyclic(h), NEW X, Agree(g, h, X)
    PROVE  \A x, y \in X : Overlaid(g)[<<x, y>>] = Overlaid(h)[<<x, y>>]
<1>1. PICK r, n : Descends(g, r, n)
  BY DEF Acyclic
<1> DEFINE Bad == {x \in X : \E y \in X : Overlaid(g)[<<x, y>>] # Overlaid(h)[<<x, y>>]}
           Ranks == {r[x] : x \in Bad}
<1> SUFFICES ASSUME Bad # {} PROVE FALSE
  OBVIOUS
<1>2. \A x \in X : x \in Objects(g) /\ x \in Objects(h) /\ r[x] \in Nat
  BY <1>1 DEF Descends, Agree
<1>3. Ranks \in SUBSET Nat /\ Ranks # {}
  BY <1>2
<1>4. PICK x \in Bad : \A y \in Bad : r[x] <= r[y]
  <2>1. PICK k \in Ranks : \A l \in Ranks : k <= l
    BY <1>3, Smallest
  <2> QED  BY <2>1
<1>5. ASSUME NEW y \in X PROVE Overlaid(g)[<<x, y>>] = Overlaid(h)[<<x, y>>]
  <2>1. ASSUME NEW p \in Nat, NEW q \in Nat, Refers(g[x], p), Refers(g[y], q)
        PROVE  Overlaid(g)[<<p, q>>] = Overlaid(h)[<<p, q>>]
    <3>1. p \in X /\ q \in X /\ r[p] < r[x]
      BY <1>1, <1>2, <2>1 DEF Agree, Descends
    <3>2. p \notin Bad
      BY <1>2, <1>4, <3>1
    <3> QED  BY <3>1, <3>2
  <2>2. \A p \in Nat : Refers(g[x], p) \/ Refers(g[y], p) => Trees(g)[p] = Trees(h)[p]
    <3>1. \A p : Refers(g[x], p) \/ Refers(g[y], p) => p \in X
      BY DEF Agree
    <3> QED  BY <3>1, TreesAgree
  <2>3. g[x] = h[x] /\ g[y] = h[y] /\ g[x] \in Seq(Fields) /\ g[y] \in Seq(Fields)
    BY <1>2, ObjectIs DEF Agree, HeapOK
  <2>4. Overlay(Trees(g), Overlaid(g), g[x], g[y]) = Overlay(Trees(h), Overlaid(h), g[x], g[y])
    BY <2>1, <2>2, <2>3, SameOverlay
  <2> QED  BY <1>2, <2>3, <2>4, OverlaidAre
<1> QED  BY <1>5

----------------------------------------------------------------------------
\* The merge of v into b. X are the objects below both; b is below none.
Around(g, b, v, X) ==
    /\ HeapOK(g) /\ Acyclic(g) /\ b \in Objects(g) /\ v \in Objects(g) /\ Free(g, b)
    /\ X \subseteq Objects(g) \ {b}
    /\ \A x \in X \cup {b, v} : \A p : Refers(g[x], p) => p \in X

\* What it makes of the heap: nothing but b is written, and what is new refers to X
\* and to what is newer.
Grown(g, h, b, X) ==
    /\ HeapOK(h) /\ Len(g) <= Len(h)
    /\ \A x \in Objects(g) \ {b} : h[x] = g[x]
    /\ \A p : Refers(h[b], p) => p \in X \/ p \in Len(g) + 1 .. Len(h)
    /\ \A x \in Len(g) + 1 .. Len(h) : \A p : Refers(h[x], p) => p \in X \/ p \in x + 1 .. Len(h)

LEMMA LenHeap ==
    ASSUME NEW h, HeapOK(h)
    PROVE  Len(h) \in Nat
BY DEF HeapOK, Heaps

LEMMA GrownIsOK ==
    ASSUME NEW g, NEW h, NEW b, NEW v, NEW X, Around(g, b, v, X), Grown(g, h, b, X)
    PROVE  Acyclic(h) /\ Free(h, b)
<1>1. PICK r, n : Descends(g, r, n)
  BY DEF Around, Acyclic
<1>2. Len(g) \in Nat /\ Len(h) \in Nat /\ Len(g) <= Len(h) /\ n \in Nat
  BY <1>1, LenHeap DEF Around, Grown, Descends
<1>3. \A x \in Objects(g) : r[x] \in Nat /\ r[x] <= n
  BY <1>1 DEF Descends
<1> DEFINE m == n + Len(h) + 1
           s == [x \in Objects(h) |-> IF x = b THEN m
                                      ELSE IF x \in Objects(g) THEN r[x] ELSE n + 1 + Len(h) - x]
<1>4. b \in Objects(g) /\ b \in 1 .. Len(g) /\ b \notin X /\ X \subseteq Objects(g) /\ b \in Nat
  BY DEF Around, Objects
<1>5. ASSUME NEW x \in Objects(h)
      PROVE  /\ x \in Nat /\ x <= Len(h)
             /\ x \in Objects(g) \/ x \in Len(g) + 1 .. Len(h)
             /\ x \in Objects(g) => x <= Len(g)
  BY <1>2 DEF Objects
<1>6. s \in [Objects(h) -> 0 .. m] /\ m \in Nat
  BY <1>2, <1>3, <1>5
<1>7. ASSUME NEW x \in Objects(h), NEW p \in Objects(h), Refers(h[x], p)
      PROVE  p # b /\ s[p] < s[x]
  <2>1. CASE x = b
    <3>1. p # b
      BY <1>2, <1>4, <1>7, <2>1 DEF Grown
    <3>2. s[p] < m
      BY <1>2, <1>3, <1>5, <3>1
    <3> QED  BY <2>1, <3>1, <3>2
  <2>2. CASE x # b /\ x \in Objects(g)
    <3>1. Refers(g[x], p)
      BY <1>7, <2>2 DEF Grown
    <3>2. p \in Objects(g) /\ p # b
      BY <2>2, <3>1, RefersIs DEF Around, Free
    <3>3. r[p] < r[x]
      BY <1>1, <2>2, <3>1, <3>2 DEF Descends
    <3> QED  BY <2>2, <3>2, <3>3
  <2>3. CASE x # b /\ x \notin Objects(g)
    <3>1. x \in Len(g) + 1 .. Len(h)
      BY <1>5, <2>3
    <3>2. p \in X \/ p \in x + 1 .. Len(h)
      BY <1>7, <3>1 DEF Grown
    <3>3. s[x] = n + 1 + Len(h) - x /\ s[x] > n
      BY <1>2, <1>5, <2>3
    <3>4. CASE p \in X
      <4>1. p # b /\ p \in Objects(g) /\ s[p] = r[p]
        BY <1>4, <3>4
      <4>2. r[p] <= n /\ r[p] \in Nat
        BY <1>3, <4>1
      <4> QED  BY <1>2, <1>5, <3>3, <4>1, <4>2
    <3>5. CASE p \in x + 1 .. Len(h)
      <4>1. p > x /\ p > Len(g) /\ p # b
        BY <1>2, <1>4, <3>1, <3>5
      <4>2. p \notin Objects(g)
        BY <1>2, <1>5, <4>1
      <4>3. s[p] = n + 1 + Len(h) - p
        BY <4>1, <4>2
      <4> QED  BY <1>2, <1>5, <3>3, <4>1, <4>3
    <3> QED  BY <3>2, <3>4, <3>5
  <2> QED  BY <2>1, <2>2, <2>3
<1>8. \A o \in Objects(h) : ~Refers(h[o], b)
  <2>1. ASSUME NEW o \in Objects(h), Refers(h[o], b) PROVE FALSE
    <3>1. b \in Objects(h)
      BY <2>1, RefersIs DEF Grown
    <3> QED  BY <1>7, <2>1, <3>1
  <2> QED  BY <2>1
<1> HIDE DEF s, m
<1>9. Descends(h, s, m)
  BY <1>6, <1>7 DEF Descends
<1> QED  BY <1>8, <1>9 DEF Acyclic, Free

LEMMA OthersKeep ==
    ASSUME NEW g, NEW h, HeapOK(g), HeapOK(h), Acyclic(g), Acyclic(h), NEW b, Free(g, b),
           Len(g) <= Len(h), \A x \in Objects(g) \ {b} : h[x] = g[x]
    PROVE  \A x \in Objects(g) \ {b} : Trees(h)[x] = Trees(g)[x]
<1> DEFINE X == Objects(g) \ {b}
<1>1. Objects(g) \subseteq Objects(h)
  BY LenHeap DEF Objects
<1>2. \A x \in X : \A p : Refers(g[x], p) => p \in X
  BY RefersIs DEF Free
<1>3. Agree(g, h, X)
  BY <1>1, <1>2 DEF Agree
<1> HIDE DEF X
<1>4. \A x \in X : Trees(g)[x] = Trees(h)[x]
  BY <1>3, TreesAgree
<1> QED  BY <1>4 DEF X

LEMMA AppendIsSeq ==
    ASSUME NEW S, NEW s \in Seq(S), NEW e \in S, NEW r, r = Append(s, e)
    PROVE  /\ r \in Seq(S) /\ Len(r) = Len(s) + 1 /\ r[Len(s) + 1] = e
           /\ \A i \in 1 .. Len(s) : r[i] = s[i]
BY AppendProperties, LenProperties

\* A copy of an object below both.
IsCopy(C, G, y) == C = Append(G, G[y])

Copied(g, G, y, X) == y \in Objects(g) /\ G[y] = g[y] /\ \A p : Refers(g[y], p) => p \in X

LEMMA CopiedGrown ==
    ASSUME NEW g, NEW G, NEW b, NEW v, NEW X, Around(g, b, v, X), Grown(g, G, b, X),
           NEW y, Copied(g, G, y, X), NEW C, IsCopy(C, G, y)
    PROVE  /\ Grown(g, C, b, X) /\ Len(C) = Len(G) + 1
           /\ C[Len(C)] = g[y] /\ \A x \in Objects(G) : C[x] = G[x]
<1>1. Len(g) \in Nat /\ Len(G) \in Nat /\ Len(g) <= Len(G)
  BY LenHeap DEF Around, Grown
<1>2. y \in Objects(g) /\ y \in Objects(G) /\ b \in 1 .. Len(g) /\ G[y] = g[y]
  BY <1>1 DEF Around, Copied, Objects
<1>3. G \in Seq(Seq(Fields)) /\ G[y] \in Seq(Fields)
  BY <1>2, ObjectIs DEF Grown, HeapOK, Heaps
<1>4. /\ C \in Seq(Seq(Fields)) /\ Len(C) = Len(G) + 1 /\ C[Len(G) + 1] = g[y]
      /\ \A i \in 1 .. Len(G) : C[i] = G[i]
  BY <1>2, <1>3, AppendIsSeq DEF IsCopy
<1>5. \A p : Refers(g[y], p) => p \in X
  BY DEF Copied
<1>6. ASSUME NEW x \in Objects(C)
      PROVE  x \in Objects(G) \/ x = Len(G) + 1
  BY <1>1, <1>4 DEF Objects
<1>7. Objects(G) \subseteq Objects(C) /\ X \subseteq Objects(G)
  BY <1>1, <1>4 DEF Objects, Around
<1>8. HeapOK(C)
  <2>1. ASSUME NEW x \in Objects(C)
        PROVE  KeysOnce(C[x]) /\ \A p : Refers(C[x], p) => p \in Objects(C)
    <3>1. CASE x \in Objects(G)
      BY <1>4, <1>7, <3>1 DEF Grown, HeapOK, Objects
    <3>2. CASE x = Len(G) + 1
      BY <1>2, <1>4, <1>5, <1>7, <3>2 DEF Around, HeapOK
    <3> QED  BY <1>6, <3>1, <3>2
  <2> QED  BY <1>4, <2>1 DEF HeapOK, Heaps
<1>9. ASSUME NEW x \in Len(g) + 1 .. Len(C), NEW p, Refers(C[x], p)
      PROVE  p \in X \/ p \in x + 1 .. Len(C)
  <2>1. CASE x = Len(G) + 1
    BY <1>4, <1>5, <1>9, <2>1
  <2>2. CASE x # Len(G) + 1
    <3>1. x \in Len(g) + 1 .. Len(G) /\ C[x] = G[x]
      BY <1>1, <1>4, <2>2
    <3>2. p \in X \/ p \in x + 1 .. Len(G)
      BY <1>9, <3>1 DEF Grown
    <3> QED  BY <1>1, <1>4, <3>1, <3>2
  <2> QED  BY <2>1, <2>2
<1>10. ASSUME NEW p, Refers(C[b], p)
       PROVE  p \in X \/ p \in Len(g) + 1 .. Len(C)
  <2>1. C[b] = G[b]
    BY <1>1, <1>2, <1>4
  <2>2. p \in X \/ p \in Len(g) + 1 .. Len(G)
    BY <1>10, <2>1 DEF Grown
  <2> QED  BY <1>1, <1>4, <2>2
<1>11. \A x \in Objects(g) \ {b} : C[x] = g[x]
  BY <1>1, <1>4 DEF Grown, Objects
<1>12. Grown(g, C, b, X)
  BY <1>1, <1>4, <1>8, <1>9, <1>10, <1>11 DEF Grown
<1> QED  BY <1>2, <1>4, <1>12 DEF Objects

LEMMA CopyGrown ==
    ASSUME NEW g, NEW G, NEW b, NEW v, NEW X, Around(g, b, v, X), Grown(g, G, b, X),
           NEW y \in X, NEW C, IsCopy(C, G, y)
    PROVE  /\ Grown(g, C, b, X) /\ Len(C) = Len(G) + 1
           /\ C[Len(C)] = g[y] /\ \A x \in Objects(G) : C[x] = G[x]
<1>1. Copied(g, G, y, X)
  BY DEF Around, Grown, Copied
<1> QED  BY <1>1, CopiedGrown

LEMMA CopyAround ==
    ASSUME NEW g, NEW G, NEW b, NEW v, NEW X, Around(g, b, v, X), Grown(g, G, b, X),
           NEW y \in X, NEW C, IsCopy(C, G, y), NEW q \in X
    PROVE  Around(C, Len(C), q, X) /\ Agree(g, C, X)
<1>1. /\ Grown(g, C, b, X) /\ Len(C) = Len(G) + 1 /\ C[Len(C)] = g[y]
      /\ \A x \in Objects(G) : C[x] = G[x]
  BY CopyGrown
<1>2. Len(g) \in Nat /\ Len(G) \in Nat /\ Len(g) <= Len(G) /\ HeapOK(C) /\ HeapOK(G)
  BY <1>1, LenHeap DEF Around, Grown
<1>3. Acyclic(C)
  BY <1>1, GrownIsOK
<1>4. /\ X \subseteq Objects(g) /\ X \subseteq Objects(G) /\ X \subseteq Objects(C) \ {Len(C)}
      /\ Len(C) \in Objects(C)
  BY <1>1, <1>2 DEF Around, Objects
<1>5. \A x \in X : C[x] = g[x]
  BY <1>4 , <1>1 DEF Around, Grown
<1>6. \A x \in X \cup {Len(C)} : \A p : Refers(C[x], p) => p \in X
  BY <1>1, <1>5 DEF Around
<1>7. ASSUME NEW x \in Objects(C), Refers(C[x], Len(C)) PROVE FALSE
  <2>1. CASE x = Len(C)
    BY <1>4, <1>6, <1>7, <2>1
  <2>2. CASE x # Len(C)
    <3>1. x \in Objects(G) /\ Refers(G[x], Len(C))
      BY <1>1, <1>2, <1>7, <2>2 DEF Objects
    <3>2. Len(C) \in Objects(G)
      BY <1>2, <3>1, RefersIs
    <3> QED  BY <1>1, <1>2, <3>2 DEF Objects
  <2> QED  BY <2>1, <2>2
<1>8. \A x \in X : \A p : Refers(g[x], p) => p \in X
  BY <1>5, <1>6
<1> QED  BY <1>2, <1>3, <1>4, <1>5, <1>6, <1>7, <1>8 DEF Around, Free, Agree

\* The merge into a copy is also one of the merge it is part of.
LEMMA InnerGrown ==
    ASSUME NEW g, NEW G, NEW b, NEW v, NEW X, Around(g, b, v, X), Grown(g, G, b, X),
           NEW y \in X, NEW C, IsCopy(C, G, y), NEW M, Grown(C, M, Len(C), X)
    PROVE  /\ Grown(g, M, b, X) /\ Len(G) < Len(M) /\ Len(C) <= Len(M)
           /\ \A x \in Objects(G) : M[x] = G[x]
<1>1. /\ Grown(g, C, b, X) /\ Len(C) = Len(G) + 1 /\ C[Len(C)] = g[y]
      /\ \A x \in Objects(G) : C[x] = G[x]
  BY CopyGrown
<1>2. /\ Len(g) \in Nat /\ Len(G) \in Nat /\ Len(M) \in Nat
      /\ Len(g) <= Len(G) /\ Len(C) <= Len(M) /\ HeapOK(M)
  BY LenHeap DEF Around, Grown
<1>3. ASSUME NEW x \in Objects(G) PROVE M[x] = G[x] /\ x \in Nat /\ x <= Len(G)
  <2>1. x \in Objects(C) \ {Len(C)} /\ x \in Nat /\ x <= Len(G)
    BY <1>1, <1>2 DEF Objects
  <2>2. M[x] = C[x]
    BY <2>1 DEF Grown
  <2> QED  BY <1>1, <2>1, <2>2
<1>4. b \in Objects(G) /\ Objects(g) \subseteq Objects(G)
  BY <1>2 DEF Around, Objects
<1>5. ASSUME NEW x \in Len(g) + 1 .. Len(M), NEW p, Refers(M[x], p)
      PROVE  p \in X \/ p \in x + 1 .. Len(M)
  <2>1. CASE x <= Len(G)
    <3>1. x \in Objects(G) /\ x \in Len(g) + 1 .. Len(G) /\ M[x] = G[x]
      BY <1>2, <1>3, <2>1 DEF Objects
    <3>2. p \in X \/ p \in x + 1 .. Len(G)
      BY <1>5, <3>1 DEF Grown
    <3> QED  BY <1>1, <1>2, <3>2
  <2>2. CASE x = Len(C)
    BY <1>5, <2>2 DEF Grown
  <2>3. CASE x \in Len(C) + 1 .. Len(M)
    BY <1>5, <2>3 DEF Grown
  <2> QED  BY <1>1, <1>2, <2>1, <2>2, <2>3
<1>6. \A x \in Objects(g) \ {b} : M[x] = g[x]
  BY <1>3, <1>4 DEF Grown
<1>7. ASSUME NEW p, Refers(M[b], p)
      PROVE  p \in X \/ p \in Len(g) + 1 .. Len(M)
  <2>1. M[b] = G[b]
    BY <1>3, <1>4
  <2>2. p \in X \/ p \in Len(g) + 1 .. Len(G)
    BY <1>7, <2>1 DEF Grown
  <2> QED  BY <1>1, <1>2, <2>2
<1> QED  BY <1>1, <1>2, <1>3, <1>5, <1>6, <1>7 DEF Grown

\* A field of b is set, to a new object or to no object.
IsPut(H, M, b, k, u) == H = [M EXCEPT ![b] = PutField(M[b], k, u)]
Fresh(g, M, u) == IsRef(u) => u[2] \in Len(g) + 1 .. Len(M)

LEMMA SetGrown ==
    ASSUME NEW g, NEW M, NEW b, NEW v, NEW X, Around(g, b, v, X), Grown(g, M, b, X),
           NEW k \in Names, NEW u \in Values, Fresh(g, M, u), NEW H, IsPut(H, M, b, k, u)
    PROVE  /\ Grown(g, H, b, X) /\ Len(H) = Len(M) /\ H[b] = PutField(M[b], k, u)
           /\ \A x \in Objects(M) \ {b} : H[x] = M[x]
<1>1. Len(g) \in Nat /\ Len(M) \in Nat /\ Len(g) <= Len(M) /\ HeapOK(M)
  BY LenHeap DEF Around, Grown
<1>2. b \in Objects(M) /\ b \in 1 .. Len(M) /\ Objects(g) \subseteq Objects(M) /\ b \in 1 .. Len(g)
  BY <1>1 DEF Around, Objects
<1>3. M \in Seq(Seq(Fields)) /\ M[b] \in Seq(Fields) /\ KeysOnce(M[b])
  BY <1>1, <1>2, ObjectIs DEF HeapOK, Heaps
<1> DEFINE s == PutField(M[b], k, u)
           e == <<k, u>>
<1>4. e[2] = u /\ e = <<k, u>> /\ s = PutField(M[b], k, u)
  OBVIOUS
<1> HIDE DEF s, e
<1>5. /\ s \in Seq(Fields) /\ KeysOnce(s)
      /\ \A i \in 1 .. Len(s) : s[i] = e \/ (i \in 1 .. Len(M[b]) /\ s[i] = M[b][i])
  BY <1>3, <1>4, PutIs
<1>6. /\ H \in Seq(Seq(Fields)) /\ Len(H) = Len(M) /\ H[b] = s
      /\ \A x \in Objects(M) \ {b} : H[x] = M[x]
  BY <1>2, <1>3, <1>5 DEF s, Objects, IsPut
<1>7. Objects(H) = Objects(M)
  BY <1>6 DEF Objects
<1>8. ASSUME NEW p, Refers(s, p)
      PROVE  Refers(M[b], p) \/ p \in Len(g) + 1 .. Len(M)
  <2>1. PICK i \in 1 .. Len(s) : s[i][2] = Ref(p)
    BY <1>8 DEF Refers
  <2>2. CASE s[i] = e
    <3>1. IsRef(u) /\ u[2] = p
      BY <1>4, <2>1, <2>2 DEF Ref, IsRef
    <3> QED  BY <3>1 DEF Fresh
  <2>3. CASE i \in 1 .. Len(M[b]) /\ s[i] = M[b][i]
    BY <2>1, <2>3 DEF Refers
  <2> QED  BY <1>5, <2>2, <2>3
<1>9. HeapOK(H)
  <2>1. ASSUME NEW x \in Objects(H)
        PROVE  KeysOnce(H[x]) /\ \A p : Refers(H[x], p) => p \in Objects(H)
    <3>1. CASE x = b
      <4>1. ASSUME NEW p, Refers(s, p) PROVE p \in Objects(M)
        BY <1>1, <1>2, <1>8, <4>1 DEF HeapOK, Objects
      <4> QED  BY <1>5, <1>6, <1>7, <3>1, <4>1
    <3>2. CASE x # b
      BY <1>1, <1>6, <1>7, <3>2 DEF HeapOK
    <3> QED  BY <3>1, <3>2
  <2> QED  BY <1>6, <2>1 DEF HeapOK, Heaps
<1>10. ASSUME NEW x \in Len(g) + 1 .. Len(H), NEW p, Refers(H[x], p)
       PROVE  p \in X \/ p \in x + 1 .. Len(H)
  <2>1. x \in Objects(M) \ {b} /\ x \in Len(g) + 1 .. Len(M)
    BY <1>1, <1>2, <1>6 DEF Objects
  <2> QED  BY <1>6, <1>10, <2>1 DEF Grown
<1>11. \A p : Refers(H[b], p) => p \in X \/ p \in Len(g) + 1 .. Len(H)
  BY <1>6, <1>8 DEF Grown
<1>12. \A x \in Objects(g) \ {b} : H[x] = g[x]
  BY <1>2, <1>6 DEF Grown
<1>13. Grown(g, H, b, X)
  BY <1>1, <1>6, <1>9, <1>10, <1>11, <1>12 DEF Grown
<1> QED  BY <1>6, <1>13 DEF s

----------------------------------------------------------------------------
\* What a call does that merges v into b, if v has at most the given rank.
Sinks(w, g, v, X) == \A x \in X \cup {v} : \A p : Refers(g[x], p) => w[p] < w[x]
IsMerged(g, H, b, v, X) == Grown(g, H, b, X) /\ Trees(H)[b] = Overlaid(g)[<<b, v>>]
Does(Inner, w, m) ==
    \A g, b, v, X : Around(g, b, v, X) /\ Sinks(w, g, v, X) /\ w[v] <= m =>
      IsMerged(g, Inner[<<g, b, v>>], b, v, X)

\* What becomes of a field of the overlay.
Merged(g, b, k, val) ==
    IF Has(g[b], k) THEN Laid(Trees(g), Overlaid(g), Lookup(g[b], k), val)
    ELSE Unfolded(Trees(g), val)

Stored(g, G, H, b, X, k, val, u) ==
    /\ u \in Values /\ H[b] = PutField(G[b], k, u) /\ Grown(g, H, b, X) /\ Len(G) <= Len(H)
    /\ \A x \in Objects(G) \ {b} : H[x] = G[x]
    /\ Unfolded(Trees(H), u) = Merged(g, b, k, val)

LEMMA AroundIs ==
    ASSUME NEW g, NEW G, NEW b, NEW v, NEW X, Around(g, b, v, X), Grown(g, G, b, X)
    PROVE  /\ Len(g) \in Nat /\ Len(G) \in Nat /\ Len(g) <= Len(G)
           /\ HeapOK(g) /\ HeapOK(G) /\ Acyclic(g) /\ Acyclic(G) /\ Free(g, b) /\ Free(G, b)
           /\ b \in Objects(g) /\ b \in Objects(G) /\ b \notin X
           /\ X \subseteq Objects(g) /\ X \subseteq Objects(G) /\ Agree(g, G, X)
           /\ g[b] \in Seq(Fields) /\ G[b] \in Seq(Fields) /\ g[v] \in Seq(Fields)
           /\ KeysOnce(g[b]) /\ KeysOnce(G[b]) /\ KeysOnce(g[v])
           /\ b \in Nat /\ v \in Nat /\ v \in Objects(g)
<1>1. /\ Len(g) \in Nat /\ Len(G) \in Nat /\ Len(g) <= Len(G)
      /\ HeapOK(g) /\ HeapOK(G) /\ Acyclic(g) /\ Free(g, b)
  BY LenHeap DEF Around, Grown
<1>2. /\ b \in Objects(g) /\ b \in Objects(G) /\ b \notin X /\ v \in Objects(g)
      /\ X \subseteq Objects(g) /\ X \subseteq Objects(G) /\ b \in Nat /\ v \in Nat
  BY <1>1 DEF Around, Objects
<1>3. Acyclic(G) /\ Free(G, b)
  BY GrownIsOK
<1>4. Agree(g, G, X)
  BY <1>2 DEF Around, Grown, Agree
<1>5. /\ g[b] \in Seq(Fields) /\ G[b] \in Seq(Fields) /\ g[v] \in Seq(Fields)
      /\ KeysOnce(g[b]) /\ KeysOnce(G[b]) /\ KeysOnce(g[v])
  BY <1>1, <1>2, ObjectIs DEF HeapOK
<1> QED  BY <1>1, <1>2, <1>3, <1>4, <1>5

\* A value that is no object.
LEMMA LeafMerged ==
    ASSUME NEW g, NEW G, NEW b, NEW v, NEW X, Around(g, b, v, X), Grown(g, G, b, X),
           NEW k \in Names, NEW val \in Values, ~IsRef(val),
           NEW H, IsPut(H, G, b, k, val)
    PROVE  Stored(g, G, H, b, X, k, val, val)
<1>1. Fresh(g, G, val)
  BY DEF Fresh
<1>2. /\ Grown(g, H, b, X) /\ Len(H) = Len(G) /\ H[b] = PutField(G[b], k, val)
      /\ \A x \in Objects(G) \ {b} : H[x] = G[x]
  BY <1>1, SetGrown
<1>3. Len(G) \in Nat
  BY AroundIs
<1>4. Unfolded(Trees(H), val) = Merged(g, b, k, val)
  BY DEF Unfolded, Merged, Laid
<1> QED  BY <1>2, <1>3, <1>4 DEF Stored

\* The document of the copy, once a pointer to it was put into b.
LEMMA PointerMerged ==
    ASSUME NEW g, NEW G, NEW b, NEW v, NEW X, Around(g, b, v, X), Grown(g, G, b, X),
           NEW M, Grown(g, M, b, X), Len(G) < Len(M), \A x \in Objects(G) : M[x] = G[x],
           NEW k \in Names, NEW val,
           NEW c \in Len(G) + 1 .. Len(M),
           <<"object", Trees(M)[c]>> = Merged(g, b, k, val),
           NEW H, IsPut(H, M, b, k, Ref(c))
    PROVE  Stored(g, G, H, b, X, k, val, Ref(c))
<1>1. /\ Len(g) \in Nat /\ Len(G) \in Nat /\ Len(g) <= Len(G)
      /\ b \in Objects(g) /\ b \in Objects(G)
      /\ HeapOK(M) /\ Acyclic(M) /\ Free(M, b) /\ Len(M) \in Nat
  BY AroundIs
<1>2. c \in Nat /\ c \in Len(g) + 1 .. Len(M) /\ c \in Objects(M) \ {b}
  BY <1>1 DEF Objects
<1>3. Ref(c) \in Values /\ IsRef(Ref(c)) /\ Ref(c)[2] = c /\ Fresh(g, M, Ref(c))
  BY <1>2, RefIs DEF Fresh
<1>4. /\ Grown(g, H, b, X) /\ Len(H) = Len(M) /\ H[b] = PutField(M[b], k, Ref(c))
      /\ \A x \in Objects(M) \ {b} : H[x] = M[x]
  BY <1>2, <1>3, SetGrown
<1>5. HeapOK(H) /\ Acyclic(H)
  BY <1>4, AroundIs
<1>6. Trees(H)[c] = Trees(M)[c]
  <2>1. Len(M) <= Len(H)
    BY <1>1, <1>4
  <2>2. \A x \in Objects(M) \ {b} : Trees(H)[x] = Trees(M)[x]
    BY <1>1, <1>4, <1>5, <2>1, OthersKeep
  <2> QED  BY <1>2, <2>2
<1>7. Unfolded(Trees(H), Ref(c)) = Merged(g, b, k, val)
  BY <1>3, <1>6 DEF Unfolded
<1>8. M[b] = G[b] /\ Len(G) <= Len(H) /\ \A x \in Objects(G) \ {b} : H[x] = G[x]
  BY <1>1, <1>4 DEF Objects
<1> QED  BY <1>3, <1>4, <1>7, <1>8 DEF Stored

LEMMA AppendPut ==
    ASSUME NEW G \in Heaps, NEW a \in Seq(Fields), NEW b \in 1 .. Len(G),
           NEW s \in Seq(Fields)
    PROVE  Append([G EXCEPT ![b] = s], a) = [Append(G, a) EXCEPT ![b] = s]
<1> DEFINE P == [G EXCEPT ![b] = s]
           Q == Append(G, a)
           L == Append(P, a)
           R == [Q EXCEPT ![b] = s]
<1>1. G \in Seq(Seq(Fields)) /\ Len(G) \in Nat
  BY DEF Heaps
<1>2. /\ P \in Seq(Seq(Fields)) /\ Len(P) = Len(G) /\ P[b] = s
      /\ \A i \in 1 .. Len(G) : i # b => P[i] = G[i]
  BY <1>1
<1>3. /\ Q \in Seq(Seq(Fields)) /\ Len(Q) = Len(G) + 1 /\ Q[Len(G) + 1] = a
      /\ \A i \in 1 .. Len(G) : Q[i] = G[i]
  BY <1>1
<1> HIDE DEF P
<1>4. L = Append(P, a) /\ a \in Seq(Fields)
  OBVIOUS
<1> HIDE DEF L
<1>5. /\ L \in Seq(Seq(Fields)) /\ Len(L) = Len(G) + 1 /\ L[Len(G) + 1] = a
      /\ \A i \in 1 .. Len(G) : L[i] = P[i]
  <2>1. /\ L \in Seq(Seq(Fields)) /\ Len(L) = Len(P) + 1 /\ L[Len(P) + 1] = a
        /\ \A i \in 1 .. Len(P) : L[i] = P[i]
    <3>1. P \in Seq(Seq(Fields))
      BY <1>2
    <3> HIDE DEF Q, R
    <3> QED  BY <3>1, <1>4, AppendIsSeq
  <2> QED  BY <1>2, <2>1
<1> HIDE DEF Q
<1>6. b \in 1 .. Len(Q)
  BY <1>1, <1>3
<1>7. /\ R \in Seq(Seq(Fields)) /\ Len(R) = Len(G) + 1 /\ R[b] = s
      /\ \A i \in 1 .. Len(G) + 1 : i # b => R[i] = Q[i]
  BY <1>3, <1>6
<1> HIDE DEF R
<1>8. ASSUME NEW i \in 1 .. Len(G) + 1 PROVE L[i] = R[i]
  <2>1. CASE i = Len(G) + 1
    <3>1. i # b /\ L[i] = a /\ Q[i] = a
      BY <1>1, <1>3, <1>5, <2>1
    <3> QED  BY <1>7, <3>1
  <2>2. CASE i = b
    BY <1>1, <1>2, <1>5, <1>7, <2>2
  <2>3. CASE i # b /\ i \in 1 .. Len(G)
    BY <1>1, <1>2, <1>3, <1>5, <1>7, <2>3
  <2> QED  BY <1>1, <2>1, <2>2, <2>3
<1>9. L = R
  BY <1>5, <1>7, <1>8, SeqEqual
<1> QED  BY <1>9 DEF P, Q, L, R

LEMMA PutCopyIs ==
    ASSUME NEW G, HeapOK(G), NEW b \in Objects(G), NEW k \in Names, NEW a \in Seq(Fields)
    PROVE  IsPut(PutCopy(G, b, k, a), Append(G, a), b, k, Ref(Len(G) + 1))
<1> DEFINE C == Append(G, a)
           c == Len(G) + 1
           s == PutField(C[b], k, Ref(c))
           e == <<k, Ref(c)>>
<1>1. /\ G \in Seq(Seq(Fields)) /\ G \in Heaps /\ b \in 1 .. Len(G) /\ c \in Nat
      /\ G[b] \in Seq(Fields) /\ KeysOnce(G[b])
  BY ObjectIs DEF HeapOK, Heaps, Objects
<1>2. Ref(c) \in Values
  <2> HIDE DEF c
  <2> QED  BY <1>1, RefIs
<1>3. C[b] = G[b]
  BY <1>1, AppendIsSeq
<1>4. s = PutField(G[b], k, Ref(c)) /\ e = <<k, Ref(c)>>
  BY <1>3
<1>5. PutCopy(G, b, k, a) = Append([G EXCEPT ![b] = s], a)
  BY <1>4 DEF PutCopy
<1>6. s \in Seq(Fields)
  <2> HIDE DEF s, c, C, e
  <2> QED  BY <1>1, <1>2, <1>4, PutIs
<1>7. Append([G EXCEPT ![b] = s], a) = [C EXCEPT ![b] = s]
  <2> HIDE DEF s, c
  <2> QED  BY <1>1, <1>6, AppendPut
<1> QED  BY <1>5, <1>7 DEF IsPut

\* An object where the base has none: a copy of it.
LEMMA CopyMerged ==
    ASSUME NEW g, NEW G, NEW b, NEW v, NEW X, Around(g, b, v, X), Grown(g, G, b, X),
           NEW k \in Names, NEW val \in Values, IsRef(val), val[2] \in X,
           ~(Has(g[b], k) /\ IsRef(Lookup(g[b], k))),
           NEW H, H = PutCopy(G, b, k, G[val[2]])
    PROVE  \E u : Stored(g, G, H, b, X, k, val, u)
<1> DEFINE C == Append(G, G[val[2]])
           c == Len(G) + 1
<1>1. IsCopy(C, G, val[2])
  BY DEF IsCopy
<1>2. /\ Len(g) \in Nat /\ Len(G) \in Nat /\ Len(g) <= Len(G) /\ b \in Objects(G) /\ HeapOK(g)
      /\ Acyclic(g) /\ HeapOK(G) /\ X \subseteq Objects(g) /\ X \subseteq Objects(G)
  BY AroundIs
<1>3. IsPut(H, C, b, k, Ref(c))
  <2>1. G[val[2]] \in Seq(Fields)
    BY <1>2, ObjectIs DEF HeapOK
  <2> QED  BY <1>2, <2>1, PutCopyIs
<1> HIDE DEF C
<1>4. /\ Grown(g, C, b, X) /\ Len(C) = c /\ C[c] = g[val[2]]
      /\ \A x \in Objects(G) : C[x] = G[x]
  BY <1>1, CopyGrown
<1>5. HeapOK(C) /\ Acyclic(C) /\ Agree(g, C, X)
  BY <1>4, AroundIs
<1>6. c \in Objects(C) /\ c \in Len(G) + 1 .. Len(C) /\ Len(G) < Len(C)
  BY <1>2, <1>4 DEF Objects
<1>7. Trees(C)[c] = Trees(g)[val[2]]
  <2>1. \A p \in Nat : Refers(C[c], p) => Trees(C)[p] = Trees(g)[p]
    <3>1. \A p \in X : Trees(g)[p] = Trees(C)[p]
      BY <1>2, <1>5, TreesAgree
    <3>2. \A p : Refers(C[c], p) => p \in X
      BY <1>4, <1>5 DEF Agree
    <3> QED  BY <3>1, <3>2
  <2>2. val[2] \in Objects(g)
    BY <1>2
  <2> QED  BY <1>2, <1>4, <1>5, <1>6, <2>1, <2>2, SameFields
<1>8. <<"object", Trees(C)[c]>> = Merged(g, b, k, val)
  BY <1>7 DEF Merged, Laid, Unfolded
<1> HIDE DEF c
<1>9. Stored(g, G, H, b, X, k, val, Ref(c))
  BY <1>3, <1>4, <1>6, <1>8, PointerMerged
<1> QED  BY <1>9

\* An object where the base has one: a copy of that, merged into.
IsCall(M, Inner, C, o) == M = Inner[<<C, Len(C), o>>]

LEMMA ChildMerged ==
    ASSUME NEW g, NEW G, NEW b, NEW v, NEW X, Around(g, b, v, X), Grown(g, G, b, X),
           NEW w, NEW m, NEW Inner, Does(Inner, w, m), Sinks(w, g, v, X),
           NEW k \in Names, NEW val \in Values, IsRef(val), val[2] \in X, w[val[2]] <= m,
           Has(g[b], k), IsRef(Lookup(g[b], k)), NEW y, y = Lookup(g[b], k)[2],
           NEW C, IsCopy(C, G, y), NEW M, IsCall(M, Inner, C, val[2]),
           NEW H, IsPut(H, M, b, k, Ref(Len(C)))
    PROVE  Stored(g, G, H, b, X, k, val, Ref(Len(C)))
<1>1. /\ Len(g) \in Nat /\ Len(G) \in Nat /\ Len(g) <= Len(G) /\ b \in Objects(G) /\ HeapOK(g)
      /\ Acyclic(g) /\ HeapOK(G) /\ X \subseteq Objects(g) /\ X \subseteq Objects(G)
      /\ b \in Objects(g) /\ g[b] \in Seq(Fields)
  BY AroundIs
<1>2. y \in X
  <2>1. Refers(g[b], y)
    BY <1>1, LookupIs
  <2> QED  BY <2>1 DEF Around
<1>3. /\ Grown(g, C, b, X) /\ Len(C) = Len(G) + 1 /\ C[Len(C)] = g[y]
      /\ \A x \in Objects(G) : C[x] = G[x]
  BY <1>2, CopyGrown
<1>4. Around(C, Len(C), val[2], X) /\ Agree(g, C, X)
  BY <1>2, CopyAround
<1>5. Sinks(w, C, val[2], X)
  BY <1>4 DEF Sinks, Agree
<1>6. Grown(C, M, Len(C), X) /\ Trees(M)[Len(C)] = Overlaid(C)[<<Len(C), val[2]>>]
  BY <1>4, <1>5 DEF Does, IsCall, IsMerged
<1>7. /\ Grown(g, M, b, X) /\ Len(G) < Len(M) /\ Len(C) <= Len(M)
      /\ \A x \in Objects(G) : M[x] = G[x]
  BY <1>2, <1>6, InnerGrown
<1>8. Overlaid(C)[<<Len(C), val[2]>>] = Overlaid(g)[<<y, val[2]>>]
  <2>1. HeapOK(C) /\ Acyclic(C) /\ Len(C) \in Objects(C)
    BY <1>4 DEF Around
  <2>2. val[2] \in Objects(C) /\ val[2] \in Objects(g) /\ y \in Objects(g) /\ C[val[2]] = g[val[2]]
    BY <1>1, <1>2, <1>4 DEF Agree
  <2>3. g[y] \in Seq(Fields) /\ g[val[2]] \in Seq(Fields)
    BY <1>1, <2>2, ObjectIs DEF HeapOK
  <2>4. \A p : Refers(g[y], p) \/ Refers(g[val[2]], p) => p \in X
    BY <1>2 DEF Around
  <2>5. \A p \in X : Trees(g)[p] = Trees(C)[p]
    BY <1>1, <1>4, <2>1, TreesAgree
  <2>6. \A p, q \in X : Overlaid(g)[<<p, q>>] = Overlaid(C)[<<p, q>>]
    <3>1. Agree(g, C, X) /\ HeapOK(g) /\ HeapOK(C) /\ Acyclic(g) /\ Acyclic(C)
      BY <1>1, <1>4, <2>1
    <3>2. ASSUME NEW p \in X, NEW q \in X
          PROVE  Overlaid(g)[<<p, q>>] = Overlaid(C)[<<p, q>>]
      BY <3>1, OverlaidAgree
    <3> QED  BY <3>2
  <2>7. Overlay(Trees(C), Overlaid(C), g[y], g[val[2]])
        = Overlay(Trees(g), Overlaid(g), g[y], g[val[2]])
    BY <2>3, <2>4, <2>5, <2>6, SameOverlay
  <2>8. Overlaid(C)[<<Len(C), val[2]>>] = Overlay(Trees(C), Overlaid(C), C[Len(C)], C[val[2]])
    BY <2>1, <2>2, OverlaidAre
  <2>9. Overlaid(g)[<<y, val[2]>>] = Overlay(Trees(g), Overlaid(g), g[y], g[val[2]])
    BY <1>1, <2>2, OverlaidAre
  <2> QED  BY <1>3, <2>2, <2>7, <2>8, <2>9
<1>9. <<"object", Trees(M)[Len(C)]>> = Merged(g, b, k, val)
  BY <1>6, <1>8 DEF Merged, Laid
<1>10. Len(C) \in Len(G) + 1 .. Len(M)
  <2>1. Len(M) \in Nat
    BY <1>7, AroundIs
  <2> QED  BY <1>1, <1>3, <1>7, <2>1
<1> QED  BY <1>7, <1>9, <1>10, PointerMerged

LEMMA FieldMerged ==
    ASSUME NEW g, NEW G, NEW b, NEW v, NEW X, Around(g, b, v, X), Grown(g, G, b, X),
           NEW w \in [Nat -> Nat], NEW m \in Nat, NEW Inner, Does(Inner, w, m), Sinks(w, g, v, X),
           w[v] <= m + 1, NEW f, f \in Fields, \E i \in 1 .. Len(g[v]) : f = g[v][i],
           Has(G[b], f[1]) <=> Has(g[b], f[1]),
           Has(g[b], f[1]) => Lookup(G[b], f[1]) = Lookup(g[b], f[1])
    PROVE  \E u : Stored(g, G, MergeField(Inner, G, b, f), b, X, f[1], f[2], u)
<1> DEFINE k == f[1]
           val == f[2]
           H == MergeField(Inner, G, b, f)
<1>1. k \in Names /\ val \in Values
  BY FieldIs
<1>2. ASSUME IsRef(val) PROVE val[2] \in X /\ w[val[2]] <= m
  <2>1. Refers(g[v], val[2])
    BY <1>1, <1>2, ValueIs DEF Refers
  <2>2. val[2] \in X /\ w[val[2]] < w[v]
    BY <2>1 DEF Around, Sinks
  <2>3. v \in Nat /\ val[2] \in Nat
    BY <1>1, <1>2, ValueIs, AroundIs
  <2> HIDE DEF val
  <2>4. w[v] \in Nat /\ w[val[2]] \in Nat
    BY <2>3
  <2> DEFINE x == w[val[2]]
             y == w[v]
  <2>5. x \in Nat /\ y \in Nat /\ x < y /\ y <= m + 1
    BY <2>2, <2>4
  <2> HIDE DEF x, y
  <2>6. x <= m
    BY <2>5
  <2> QED  BY <2>2, <2>6 DEF x
<1>3. CASE ~IsRef(val)
  <2>1. IsPut(H, G, b, k, val)
    BY <1>3 DEF MergeField, IsPut
  <2> HIDE DEF k, val, H
  <2>2. Stored(g, G, H, b, X, k, val, val)
    BY <1>1, <1>3, <2>1, LeafMerged
  <2> QED  BY <2>2 DEF k, val, H
<1>4. CASE IsRef(val) /\ HasObject(G[b], k)
  <2> DEFINE y == Lookup(g[b], k)[2]
             C == Append(G, G[y])
             M == Inner[<<C, Len(C), val[2]>>]
  <2>1. Has(g[b], k) /\ IsRef(Lookup(g[b], k)) /\ y = Lookup(G[b], k)[2]
    BY <1>4 DEF HasObject
  <2>2. IsPut(H, M, b, k, Ref(Len(C)))
    BY <1>4, <2>1 DEF MergeField, IsPut
  <2>3. IsCopy(C, G, y) /\ y = Lookup(g[b], k)[2]
    BY DEF IsCopy
  <2>4. IsCall(M, Inner, C, val[2])
    BY DEF IsCall
  <2> HIDE DEF k, val, H, y, C, M
  <2>5. Stored(g, G, H, b, X, k, val, Ref(Len(C)))
    BY <1>1, <1>2, <1>4, <2>1, <2>2, <2>3, <2>4, ChildMerged
  <2> QED  BY <2>5 DEF k, val, H
<1>5. CASE IsRef(val) /\ ~HasObject(G[b], k)
  <2>1. H = PutCopy(G, b, k, G[val[2]])
    BY <1>5 DEF MergeField
  <2>2. ~(Has(g[b], k) /\ IsRef(Lookup(g[b], k)))
    BY <1>5 DEF HasObject
  <2> HIDE DEF k, val, H
  <2>3. \E u : Stored(g, G, H, b, X, k, val, u)
    BY <1>1, <1>2, <1>5, <2>1, <2>2, CopyMerged
  <2> QED  BY <2>3 DEF k, val, H
<1> QED  BY <1>3, <1>4, <1>5
----------------------------------------------------------------------------
\* The fields one after the other.
LEMMA KeyIs ==
    ASSUME NEW s \in Seq(Fields), KeysOnce(s), NEW j \in 1 .. Len(s), NEW k, k = s[j][1]
    PROVE  Has(s, k) /\ Position(s, k) = j /\ Lookup(s, k) = s[j][2]
<1>1. Has(s, k)
  BY DEF Has
<1>2. /\ Position(s, k) \in 1 .. Len(s) /\ s[Position(s, k)][1] = k
      /\ Lookup(s, k) = s[Position(s, k)][2]
  BY <1>1, PositionIs
<1>3. Position(s, k) = j
  BY <1>2 DEF KeysOnce
<1> QED  BY <1>1, <1>2, <1>3

Done(s, i, k) == \E m \in 1 .. i : s[m][1] = k

LaidTo(g, H, b, v, X, K, i) ==
    /\ Grown(g, H, b, X) /\ K \in Seq(Fields)
    /\ Len(H[b]) = Len(g[b]) + Len(K)
    /\ \A j \in 1 .. Len(g[b]) :
         /\ H[b][j][1] = g[b][j][1]
         /\ Done(g[v], i, g[b][j][1]) =>
              Unfolded(Trees(H), H[b][j][2]) = Merged(g, b, g[b][j][1], Lookup(g[v], g[b][j][1]))
         /\ ~Done(g[v], i, g[b][j][1]) => H[b][j] = g[b][j]
    /\ \A j \in 1 .. Len(K) :
         /\ H[b][Len(g[b]) + j][1] = K[j][1]
         /\ Unfolded(Trees(H), H[b][Len(g[b]) + j][2]) = Unfolded(Trees(g), K[j][2])
         /\ \E m \in 1 .. i : K[j] = g[v][m]

\* The base still has, under the key of the next field, what it began with.
IsKey(k, s, i) == k = s[i][1]

LEMMA NextIsNew ==
    ASSUME NEW g, NEW G, NEW b, NEW v, NEW X, Around(g, b, v, X), NEW i \in 1 .. Len(g[v]),
           NEW K, LaidTo(g, G, b, v, X, K, i - 1), NEW k, IsKey(k, g[v], i)
    PROVE  /\ Has(G[b], k) <=> Has(g[b], k)
           /\ Has(g[b], k) => /\ Lookup(G[b], k) = Lookup(g[b], k)
                              /\ Position(G[b], k) = Position(g[b], k)
           /\ ~Done(g[v], i - 1, k)
<1>1. /\ g[b] \in Seq(Fields) /\ G[b] \in Seq(Fields) /\ g[v] \in Seq(Fields)
      /\ KeysOnce(g[b]) /\ KeysOnce(G[b]) /\ KeysOnce(g[v])
  BY AroundIs DEF LaidTo
<1>2. Len(g[b]) \in Nat /\ Len(K) \in Nat /\ Len(g[v]) \in Nat /\ Len(G[b]) = Len(g[b]) + Len(K)
  BY <1>1 DEF LaidTo
<1>3. ASSUME NEW m \in 1 .. i - 1 PROVE g[v][m][1] # k
  <2>1. m \in 1 .. Len(g[v]) /\ m # i
    BY <1>2
  <2> QED  BY <1>1, <2>1 DEF KeysOnce, IsKey
<1>4. ~Done(g[v], i - 1, k)
  BY <1>3 DEF Done
<1>5. ASSUME NEW j \in 1 .. Len(G[b]), G[b][j][1] = k PROVE j \in 1 .. Len(g[b])
  <2> SUFFICES ASSUME j \notin 1 .. Len(g[b]) PROVE FALSE
    OBVIOUS
  <2> DEFINE q == j - Len(g[b])
  <2>1. q \in 1 .. Len(K) /\ j = Len(g[b]) + q
    BY <1>2
  <2> HIDE DEF q
  <2>2. K[q][1] = k /\ \E m \in 1 .. i - 1 : K[q] = g[v][m]
    BY <1>5, <2>1 DEF LaidTo
  <2> QED  BY <1>3, <2>2
<1>6. ASSUME NEW j \in 1 .. Len(g[b]), g[b][j][1] = k
      PROVE  /\ j \in 1 .. Len(G[b]) /\ G[b][j] = g[b][j]
             /\ Has(G[b], k) /\ Has(g[b], k)
             /\ Lookup(G[b], k) = Lookup(g[b], k) /\ Position(G[b], k) = Position(g[b], k)
  <2>1. j \in 1 .. Len(G[b])
    BY <1>2
  <2>2. G[b][j] = g[b][j]
    BY <1>4, <1>6 DEF LaidTo
  <2>3. Has(G[b], k) /\ Position(G[b], k) = j /\ Lookup(G[b], k) = G[b][j][2]
    BY <1>1, <1>6, <2>1, <2>2, KeyIs
  <2>4. Has(g[b], k) /\ Position(g[b], k) = j /\ Lookup(g[b], k) = g[b][j][2]
    BY <1>1, <1>6, KeyIs
  <2> QED  BY <2>1, <2>2, <2>3, <2>4
<1>7. ASSUME Has(g[b], k)
      PROVE  /\ Has(G[b], k) /\ Lookup(G[b], k) = Lookup(g[b], k)
             /\ Position(G[b], k) = Position(g[b], k)
  BY <1>6, <1>7 DEF Has
<1>8. ASSUME Has(G[b], k) PROVE Has(g[b], k)
  <2>1. PICK j \in 1 .. Len(G[b]) : G[b][j][1] = k
    BY <1>8 DEF Has
  <2>2. j \in 1 .. Len(g[b]) /\ g[b][j][1] = k
    BY <1>5, <2>1 DEF LaidTo
  <2> QED  BY <1>6, <2>2
<1> QED  BY <1>4, <1>7, <1>8

\* What the base held, it holds with the same documents after the next field.
LEMMA ValuesKeep ==
    ASSUME NEW g, NEW G, NEW b, NEW v, NEW X, Around(g, b, v, X), Grown(g, G, b, X),
           NEW H, NEW k, NEW val, NEW u, Stored(g, G, H, b, X, k, val, u)
    PROVE  \A j \in 1 .. Len(G[b]) : Unfolded(Trees(H), G[b][j][2]) = Unfolded(Trees(G), G[b][j][2])
<1>1. /\ HeapOK(G) /\ Acyclic(G) /\ Free(G, b) /\ b \in Objects(G)
  BY AroundIs
<1>2. HeapOK(H) /\ Acyclic(H) /\ Len(G) <= Len(H) /\ \A x \in Objects(G) \ {b} : H[x] = G[x]
  BY AroundIs DEF Stored
<1>3. \A x \in Objects(G) \ {b} : Trees(H)[x] = Trees(G)[x]
  BY <1>1, <1>2, OthersKeep
<1>4. ASSUME NEW j \in 1 .. Len(G[b]), IsRef(G[b][j][2])
      PROVE  Trees(H)[G[b][j][2][2]] = Trees(G)[G[b][j][2][2]]
  <2>1. Refers(G[b], G[b][j][2][2]) /\ G[b][j][2][2] \in Objects(G)
    BY <1>1, <1>4, ReferredIs
  <2>2. G[b][j][2][2] # b
    BY <1>1, <2>1 DEF Free
  <2> QED  BY <1>3, <2>1, <2>2
<1> QED  BY <1>4 DEF Unfolded

LEMMA FieldLaid ==
    ASSUME NEW g, NEW G, NEW b, NEW v, NEW X, Around(g, b, v, X), NEW i \in 1 .. Len(g[v]),
           NEW K, LaidTo(g, G, b, v, X, K, i - 1), NEW H, NEW u,
           Stored(g, G, H, b, X, g[v][i][1], g[v][i][2], u),
           NEW L, L = IF Has(g[b], g[v][i][1]) THEN K ELSE Append(K, g[v][i])
    PROVE  LaidTo(g, H, b, v, X, L, i)
<1> DEFINE f == g[v][i]
           k == f[1]
           a == g[b]
           c == G[b]
           d == H[b]
           e == <<k, u>>
           M(j) == Merged(g, b, a[j][1], Lookup(g[v], a[j][1]))
           Now(z) == Unfolded(Trees(H), z)
           Then(z) == Unfolded(Trees(G), z)
<1>1. /\ a \in Seq(Fields) /\ c \in Seq(Fields) /\ g[v] \in Seq(Fields)
      /\ KeysOnce(a) /\ KeysOnce(c) /\ KeysOnce(g[v])
  BY AroundIs DEF LaidTo
<1>2. /\ Len(a) \in Nat /\ Len(K) \in Nat /\ Len(g[v]) \in Nat /\ Len(c) = Len(a) + Len(K)
      /\ Len(c) \in Nat /\ K \in Seq(Fields)
  BY <1>1 DEF LaidTo
<1>3. f \in Fields /\ k \in Names /\ u \in Values
  BY <1>1, FieldIs DEF Stored
<1>4. /\ Has(c, k) <=> Has(a, k)
      /\ Has(a, k) => Position(c, k) = Position(a, k)
      /\ ~Done(g[v], i - 1, k)
  <2>1. IsKey(k, g[v], i)
    BY DEF IsKey
  <2> HIDE DEF f, k
  <2>2. /\ Has(G[b], k) <=> Has(g[b], k)
        /\ Has(g[b], k) => /\ Lookup(G[b], k) = Lookup(g[b], k)
                           /\ Position(G[b], k) = Position(g[b], k)
        /\ ~Done(g[v], i - 1, k)
    BY <2>1, NextIsNew
  <2> QED  BY <2>2
<1>5. \A j \in 1 .. Len(c) : Now(c[j][2]) = Then(c[j][2])
  <2>1. Grown(g, G, b, X)
    BY DEF LaidTo
  <2> QED  BY <2>1, ValuesKeep
<1>6. d = PutField(c, k, u) /\ Now(u) = Merged(g, b, k, f[2]) /\ Grown(g, H, b, X)
  BY DEF Stored
<1>7. Lookup(g[v], k) = f[2]
  BY <1>1, KeyIs
<1>8. i \in Nat /\ i - 1 \in Nat /\ i \in 1 .. i /\ \A m \in 1 .. i - 1 : m \in 1 .. i
  BY <1>2
<1>9. \A m \in 1 .. i : m = i \/ m \in 1 .. i - 1
  BY <1>2
<1>10. \A j \in 1 .. Len(a) : a[j][1] # k => (Done(g[v], i, a[j][1]) <=> Done(g[v], i - 1, a[j][1]))
  BY <1>8, <1>9 DEF Done
<1>11. Done(g[v], i, k)
  BY <1>8 DEF Done
<1>12. /\ \A j \in 1 .. Len(a) :
            /\ j \in 1 .. Len(c) /\ c[j][1] = a[j][1]
            /\ Done(g[v], i - 1, a[j][1]) => Then(c[j][2]) = M(j)
            /\ ~Done(g[v], i - 1, a[j][1]) => c[j] = a[j]
       /\ \A j \in 1 .. Len(K) :
            /\ Len(a) + j \in 1 .. Len(c) /\ c[Len(a) + j][1] = K[j][1]
            /\ Then(c[Len(a) + j][2]) = Unfolded(Trees(g), K[j][2])
            /\ \E m \in 1 .. i : K[j] = g[v][m]
  <2>1. ASSUME NEW j \in 1 .. Len(a)
        PROVE  /\ j \in 1 .. Len(c) /\ c[j][1] = a[j][1]
               /\ Done(g[v], i - 1, a[j][1]) => Then(c[j][2]) = M(j)
               /\ ~Done(g[v], i - 1, a[j][1]) => c[j] = a[j]
    <3>1. j \in 1 .. Len(c)
      BY <1>2
    <3> QED  BY <3>1 DEF LaidTo
  <2>2. ASSUME NEW j \in 1 .. Len(K)
        PROVE  /\ Len(a) + j \in 1 .. Len(c) /\ c[Len(a) + j][1] = K[j][1]
               /\ Then(c[Len(a) + j][2]) = Unfolded(Trees(g), K[j][2])
               /\ \E m \in 1 .. i : K[j] = g[v][m]
    <3>1. Len(a) + j \in 1 .. Len(c)
      BY <1>2
    <3>2. /\ c[Len(a) + j][1] = K[j][1]
          /\ Then(c[Len(a) + j][2]) = Unfolded(Trees(g), K[j][2])
          /\ \E m \in 1 .. i - 1 : K[j] = g[v][m]
      BY DEF LaidTo
    <3> QED  BY <1>8, <3>1, <3>2
  <2> QED  BY <2>1, <2>2
<1>13. e = <<k, u>> /\ e[1] = k /\ e[2] = u
  OBVIOUS
<1>14. f = g[v][i]
  OBVIOUS
<1> HIDE DEF a, c, d, f, k, e, M, Now, Then
<1>15. CASE Has(a, k)
  <2> DEFINE q == Position(a, k)
  <2>1. q \in 1 .. Len(a) /\ a[q][1] = k /\ q = Position(c, k)
    BY <1>1, <1>4, <1>15, PositionIs
  <2> HIDE DEF q
  <2>2. /\ Len(d) = Len(c) /\ d[q] = e
        /\ \A j \in 1 .. Len(c) : j # q => d[j] = c[j]
    BY <1>1, <1>3, <1>4, <1>6, <1>13, <1>15, <2>1, PutIs
  <2>3. L = K
    BY <1>15 DEF a, k, f
  <2>4. ASSUME NEW j \in 1 .. Len(a)
        PROVE  /\ d[j][1] = a[j][1]
               /\ Done(g[v], i, a[j][1]) => Now(d[j][2]) = M(j)
               /\ ~Done(g[v], i, a[j][1]) => d[j] = a[j]
    <3>1. CASE j = q
      <4>1. d[j] = e /\ a[j][1] = k
        BY <2>1, <2>2, <3>1
      <4> QED  BY <1>6, <1>7, <1>11, <1>13, <4>1 DEF M, a
    <3>2. CASE j # q
      <4>1. a[j][1] # k
        BY <1>1, <2>1, <3>2 DEF KeysOnce
      <4>2. d[j] = c[j]
        BY <1>12, <2>2, <3>2
      <4> QED  BY <1>5, <1>10, <1>12, <4>1, <4>2
    <3> QED  BY <3>1, <3>2
  <2>5. ASSUME NEW j \in 1 .. Len(L)
        PROVE  /\ d[Len(a) + j][1] = L[j][1]
               /\ Now(d[Len(a) + j][2]) = Unfolded(Trees(g), L[j][2])
               /\ \E m \in 1 .. i : L[j] = g[v][m]
    <3>1. Len(a) + j # q
      BY <1>2, <2>1, <2>3
    <3>2. d[Len(a) + j] = c[Len(a) + j]
      BY <1>12, <2>2, <2>3, <3>1
    <3>3. j \in 1 .. Len(K) /\ Len(a) + j \in 1 .. Len(c)
      BY <1>12, <2>3
    <3>4. /\ c[Len(a) + j][1] = K[j][1]
          /\ Now(c[Len(a) + j][2]) = Unfolded(Trees(g), K[j][2])
          /\ \E m \in 1 .. i : K[j] = g[v][m]
      BY <1>5, <1>12, <3>3
    <3> QED  BY <2>3, <3>2, <3>4
  <2>6. Len(d) = Len(a) + Len(L) /\ L \in Seq(Fields)
    BY <1>2, <2>2, <2>3
  <2> QED  BY <1>6, <2>4, <2>5, <2>6 DEF LaidTo, Now, M, a, d
<1>16. CASE ~Has(a, k)
  <2>1. /\ Len(d) = Len(c) + 1 /\ d[Len(c) + 1] = e
        /\ \A j \in 1 .. Len(c) : d[j] = c[j]
    <3>1. /\ Len(d) = Len(c) + 1 /\ d[Len(d)] = e
          /\ \A j \in 1 .. Len(c) : d[j] = c[j]
      BY <1>1, <1>3, <1>4, <1>6, <1>13, <1>16, PutIs
    <3> QED  BY <3>1
  <2>2. L = Append(K, f)
    BY <1>16 DEF a, k, f
  <2>3. /\ L \in Seq(Fields) /\ Len(L) = Len(K) + 1 /\ L[Len(K) + 1] = f
        /\ \A j \in 1 .. Len(K) : L[j] = K[j]
    BY <1>2, <1>3, <2>2, AppendIsSeq
  <2>4. ASSUME NEW j \in 1 .. Len(a)
        PROVE  /\ d[j][1] = a[j][1]
               /\ Done(g[v], i, a[j][1]) => Now(d[j][2]) = M(j)
               /\ ~Done(g[v], i, a[j][1]) => d[j] = a[j]
    <3>1. a[j][1] # k
      BY <1>16 DEF Has
    <3>2. d[j] = c[j]
      BY <1>12, <2>1
    <3> QED  BY <1>5, <1>10, <1>12, <3>1, <3>2
  <2>5. ASSUME NEW j \in 1 .. Len(L)
        PROVE  /\ d[Len(a) + j][1] = L[j][1]
               /\ Now(d[Len(a) + j][2]) = Unfolded(Trees(g), L[j][2])
               /\ \E m \in 1 .. i : L[j] = g[v][m]
    <3>1. CASE j = Len(K) + 1
      <4>1. Len(a) + j = Len(c) + 1
        BY <1>2, <3>1
      <4>2. d[Len(a) + j] = e /\ L[j] = f
        BY <2>1, <2>3, <3>1, <4>1
      <4>3. Now(u) = Unfolded(Trees(g), f[2])
        BY <1>6, <1>16 DEF Merged, a
      <4>4. f[1] = k
        BY DEF k
      <4> QED  BY <1>8, <1>13, <1>14, <4>2, <4>3, <4>4
    <3>2. CASE j # Len(K) + 1
      <4>1. j \in 1 .. Len(K)
        BY <1>2, <2>3, <3>2
      <4>2. L[j] = K[j] /\ d[Len(a) + j] = c[Len(a) + j]
        BY <1>12, <2>1, <2>3, <4>1
      <4> QED  BY <1>5, <1>12, <4>1, <4>2
    <3> QED  BY <3>1, <3>2
  <2>6. Len(d) = Len(a) + Len(L)
    BY <1>2, <2>1, <2>3
  <2> QED  BY <1>6, <2>3, <2>4, <2>5, <2>6 DEF LaidTo, Now, M, a, d
<1> QED  BY <1>15, <1>16

IsMergeFields(F, Inner, h, b, s, n) ==
    /\ F = [i \in 0 .. n |-> F[i]]
    /\ \A i \in 0 .. n : F[i] = IF i = 0 THEN h ELSE MergeField(Inner, F[i - 1], b, s[i])

LEMMA MergeFieldsExist ==
    ASSUME NEW Inner, NEW h, NEW b, NEW s, NEW n \in Nat
    PROVE  \E F : IsMergeFields(F, Inner, h, b, s, n)
<1> DEFINE X == {m \in Nat : ~ \E F : IsMergeFields(F, Inner, h, b, s, m)}
<1> SUFFICES ASSUME X # {} PROVE FALSE
  OBVIOUS
<1>1. PICK m \in X : \A k \in X : m <= k
  BY Smallest
<1>2. m # 0
  <2>1. IsMergeFields([i \in 0 .. 0 |-> h], Inner, h, b, s, 0)
    BY DEF IsMergeFields
  <2> QED  BY <1>1, <2>1
<1>3. m - 1 \in Nat /\ m - 1 \notin X
  BY <1>1, <1>2
<1>4. PICK F : IsMergeFields(F, Inner, h, b, s, m - 1)
  BY <1>3
<1> DEFINE G == [i \in 0 .. m |-> IF i < m THEN F[i] ELSE MergeField(Inner, F[m - 1], b, s[m])]
<1>5. IsMergeFields(G, Inner, h, b, s, m)
  <2>1. ASSUME NEW i \in 0 .. m
        PROVE  G[i] = IF i = 0 THEN h ELSE MergeField(Inner, G[i - 1], b, s[i])
    <3>1. CASE i = m
      BY <1>1, <1>2, <3>1
    <3>2. CASE i # m
      <4>1. i \in 0 .. m - 1 /\ (i = 0 \/ i - 1 \in 0 .. m) /\ i < m /\ i - 1 < m
        BY <1>1, <3>2
      <4> QED  BY <1>4, <4>1 DEF IsMergeFields
    <3> QED  BY <3>1, <3>2
  <2> QED  BY <2>1 DEF IsMergeFields
<1> QED  BY <1>1, <1>5

LEMMA MergeFieldsIs ==
    ASSUME NEW Inner, NEW h, NEW b, NEW s, Len(s) \in Nat
    PROVE  IsMergeFields(MergeFields(Inner, h, b, s), Inner, h, b, s, Len(s))
<1> DEFINE R == MergeFields(Inner, h, b, s)
<1>1. PICK G : IsMergeFields(G, Inner, h, b, s, Len(s))
  BY MergeFieldsExist
<1>2. G = [i \in 0 .. Len(s) |-> IF i = 0 THEN h ELSE MergeField(Inner, G[i - 1], b, s[i])]
  BY <1>1 DEF IsMergeFields
<1>3. R = [i \in 0 .. Len(s) |-> IF i = 0 THEN h ELSE MergeField(Inner, R[i - 1], b, s[i])]
  BY <1>2 DEF MergeFields
<1> QED  BY <1>3 DEF IsMergeFields

LEMMA BeginsLaid ==
    ASSUME NEW g, NEW b, NEW v, NEW X, Around(g, b, v, X)
    PROVE  LaidTo(g, g, b, v, X, <<>>, 0)
<1>1. Len(g) \in Nat /\ HeapOK(g) /\ g[b] \in Seq(Fields) /\ Len(g[b]) \in Nat
  BY LenHeap, ObjectIs DEF Around, HeapOK
<1>2. Grown(g, g, b, X)
  BY <1>1 DEF Around, Grown
<1>3. <<>> \in Seq(Fields) /\ Len(<<>>) = 0 /\ Len(g[b]) = Len(g[b]) + 0
  BY <1>1
<1>4. \A k : ~Done(g[v], 0, k)
  BY DEF Done
<1> HIDE DEF Fields
<1> QED  BY <1>2, <1>3, <1>4 DEF LaidTo

LEMMA NextMerged ==
    ASSUME NEW g, NEW G, NEW b, NEW v, NEW X, Around(g, b, v, X),
           NEW w \in [Nat -> Nat], NEW m \in Nat, NEW Inner, Does(Inner, w, m), Sinks(w, g, v, X),
           w[v] <= m + 1, NEW i \in 1 .. Len(g[v]), NEW K, LaidTo(g, G, b, v, X, K, i - 1),
           NEW f \in Fields, f = g[v][i]
    PROVE  \E u : Stored(g, G, MergeField(Inner, G, b, f), b, X, f[1], f[2], u)
<1> DEFINE k == f[1]
<1>1. IsKey(k, g[v], i) /\ \E j \in 1 .. Len(g[v]) : f = g[v][j]
  BY DEF IsKey
<1> HIDE DEF k
<1>2. /\ Has(G[b], k) <=> Has(g[b], k)
      /\ Has(g[b], k) => /\ Lookup(G[b], k) = Lookup(g[b], k)
                         /\ Position(G[b], k) = Position(g[b], k)
      /\ ~Done(g[v], i - 1, k)
  BY <1>1, NextIsNew
<1>3. Grown(g, G, b, X)
  BY DEF LaidTo
<1> QED  BY <1>1, <1>2, <1>3, FieldMerged DEF k

AllLaid(g, H, b, v, X) == LaidTo(g, H, b, v, X, Added(g[b], g[v]), Len(g[v]))

LEMMA FieldsLaid ==
    ASSUME NEW g, NEW b, NEW v, NEW X, Around(g, b, v, X),
           NEW w \in [Nat -> Nat], NEW m \in Nat, NEW Inner, Does(Inner, w, m), Sinks(w, g, v, X),
           w[v] <= m + 1
    PROVE  AllLaid(g, MergeFields(Inner, g, b, g[v])[Len(g[v])], b, v, X)
<1> DEFINE s == g[v]
           T == {f \in ToSet(s) : ~Has(g[b], f[1])}
           F == MergeFields(Inner, g, b, s)
           K == KeptTo(s, T)
           Good(i) == LaidTo(g, F[i], b, v, X, K[i], i)
           Bad == {i \in 0 .. Len(s) : ~Good(i)}
<1>1. s \in Seq(Fields) /\ Len(s) \in Nat /\ \A i \in 1 .. Len(s) : s[i] \in Fields
  <2>1. Grown(g, g, b, X)
    BY BeginsLaid DEF LaidTo
  <2>2. s \in Seq(Fields)
    BY <2>1, AroundIs
  <2> HIDE DEF s
  <2> QED  BY <2>2, LenProperties, ElementOfSeq
<1>2. IsMergeFields(F, Inner, g, b, s, Len(s)) /\ IsKept(K, Len(s), s, T)
  BY <1>1, MergeFieldsIs, KeptToIs
<1>3. ASSUME NEW i \in 1 .. Len(s) PROVE s[i] \in T <=> ~Has(g[b], s[i][1])
  <2>1. s[i] \in ToSet(s)
    <3> HIDE DEF s
    <3>1. DOMAIN s = 1 .. Len(s)
      BY <1>1, LenProperties
    <3> QED  BY <3>1 DEF ToSet
  <2> HIDE DEF s
  <2> QED  BY <2>1
<1>4. Added(g[b], g[v]) = K[Len(s)]
  BY DEF Added, Kept
<1> HIDE DEF F, K, T
<1>5. Bad = {}
  <2> SUFFICES ASSUME Bad # {} PROVE FALSE
    OBVIOUS
  <2>1. PICK i \in Bad : /\ i \in 0 .. Len(s)
                         /\ i # 0 => i \in 1 .. Len(s) /\ i - 1 \in 0 .. Len(s) /\ i - 1 \notin Bad
    <3>1. Bad \in SUBSET (0 .. Len(s))
      OBVIOUS
    <3> HIDE DEF Bad
    <3> QED  BY <1>1, <3>1, First
  <2>2. i # 0
    <3>1. 0 \in 0 .. Len(s)
      BY <1>1
    <3>2. F[0] = g
      BY <1>2, <3>1 DEF IsMergeFields
    <3>3. F[0] = g /\ K[0] = <<>>
      BY <1>2, <3>1, <3>2 DEF IsKept
    <3>4. Good(0)
      BY <3>3, BeginsLaid
    <3> QED  BY <2>1, <3>4
  <2> DEFINE G == F[i - 1]
             H == F[i]
             J == K[i - 1]
             L == K[i]
             f == s[i]
  <2>3. LaidTo(g, G, b, v, X, J, i - 1)
    BY <2>1, <2>2
  <2>4. /\ H = MergeField(Inner, G, b, f) /\ f \in Fields /\ f = g[v][i] /\ i \in 1 .. Len(g[v])
        /\ L = IF Has(g[b], g[v][i][1]) THEN J ELSE Append(J, g[v][i])
    BY <1>1, <1>2, <1>3, <2>1, <2>2 DEF IsMergeFields, IsKept
  <2>5. Grown(g, G, b, X)
    BY <2>3 DEF LaidTo
  <2> HIDE DEF G, J, L, H, f
  <2>6. PICK u : Stored(g, G, H, b, X, f[1], f[2], u)
    <3>1. \E u : Stored(g, G, MergeField(Inner, G, b, f), b, X, f[1], f[2], u)
      BY <2>3, <2>4, NextMerged
    <3> QED  BY <2>4, <3>1
  <2>7. LaidTo(g, H, b, v, X, L, i)
    <3>1. Stored(g, G, H, b, X, g[v][i][1], g[v][i][2], u)
      BY <2>4, <2>6
    <3> QED  BY <2>3, <2>4, <3>1, FieldLaid
  <2> QED  BY <2>1, <2>7 DEF H, L
<1>6. Good(Len(s))
  <2>1. Len(s) \in 0 .. Len(s)
    BY <1>1
  <2> HIDE DEF Good
  <2> QED  BY <2>1, <1>5
<1> QED  BY <1>4, <1>6 DEF F, AllLaid

IsList(P, m) == P = [i \in 1 .. m |-> P[i]]

LEMMA ConcatIs ==
    ASSUME NEW m \in Nat, NEW n \in Nat, NEW P, NEW Q, NEW R,
           IsList(P, m), IsList(Q, n), IsList(R, m + n),
           \A i \in 1 .. m : P[i] = R[i], \A i \in 1 .. n : Q[i] = R[m + i]
    PROVE  P \o Q = R
<1> DEFINE S == {R[i] : i \in 1 .. m + n}
<1>1. P \in Seq(S) /\ Len(P) = m
  <2>1. \A i \in 1 .. m : P[i] \in S
    <3>1. \A i \in 1 .. m : i \in 1 .. m + n
      OBVIOUS
    <3> QED  BY <3>1
  <2>2. P \in [1 .. m -> S]
    BY <2>1 DEF IsList
  <2> HIDE DEF S
  <2> QED  BY <2>2
<1>2. Q \in Seq(S) /\ Len(Q) = n
  <2>1. \A i \in 1 .. n : m + i \in 1 .. m + n
    OBVIOUS
  <2>2. \A i \in 1 .. n : Q[i] \in S
    BY <2>1
  <2>3. Q \in [1 .. n -> S]
    BY <2>2 DEF IsList
  <2> HIDE DEF S
  <2> QED  BY <2>3
<1>3. R \in Seq(S) /\ Len(R) = m + n
  <2>1. R \in [1 .. m + n -> S] /\ m + n \in Nat
    BY DEF IsList
  <2> HIDE DEF S
  <2> QED  BY <2>1
<1> DEFINE C == P \o Q
<1> HIDE DEF S
<1>4. C \in Seq(S) /\ Len(C) = m + n
      /\ \A i \in 1 .. m + n : C[i] = IF i <= m THEN P[i] ELSE Q[i - m]
  BY <1>1, <1>2, ConcatProperties
<1> HIDE DEF C
<1>5. ASSUME NEW i \in 1 .. m + n PROVE C[i] = R[i]
  <2>1. CASE i <= m
    <3>1. i \in 1 .. m
      BY <2>1
    <3> QED  BY <1>4, <2>1, <3>1
  <2>2. CASE ~(i <= m)
    <3>1. i - m \in 1 .. n /\ m + (i - m) = i
      BY <2>2
    <3> QED  BY <1>4, <2>2, <3>1
  <2> QED  BY <2>1, <2>2
<1>6. C = R
  BY <1>3, <1>4, <1>5, SeqEqual
<1> QED  BY <1>6 DEF C

LEMMA LaidIsOverlay ==
    ASSUME NEW g, NEW H, NEW b, NEW v, NEW X, Around(g, b, v, X),
           AllLaid(g, H, b, v, X)
    PROVE  IsMerged(g, H, b, v, X)
<1> DEFINE a == g[b]
           s == g[v]
           c == H[b]
           N == Added(a, s)
           Old(z) == Unfolded(Trees(g), z)
           Now(z) == Unfolded(Trees(H), z)
           Lay(j) == Laid(Trees(g), Overlaid(g), a[j][2], Lookup(s, a[j][1]))
           P == [j \in 1 .. Len(a) |->
                   <<a[j][1], IF Has(s, a[j][1]) THEN Lay(j) ELSE Old(a[j][2])>>]
           Q == [j \in 1 .. Len(N) |-> <<N[j][1], Old(N[j][2])>>]
           R == [j \in 1 .. Len(c) |-> <<c[j][1], Now(c[j][2])>>]
<1>1. /\ HeapOK(g) /\ HeapOK(H) /\ Acyclic(g) /\ Acyclic(H) /\ Free(g, b)
      /\ b \in Objects(g) /\ b \in Objects(H) /\ b \notin X /\ X \subseteq Objects(g)
      /\ a \in Seq(Fields) /\ s \in Seq(Fields) /\ v \in Objects(g) /\ KeysOnce(a)
      /\ Len(g) <= Len(H)
  BY AroundIs DEF AllLaid, LaidTo
<1>2. Len(a) \in Nat /\ Len(N) \in Nat /\ Len(c) = Len(a) + Len(N) /\ Len(s) \in Nat
  BY <1>1, AddedIs DEF AllLaid, LaidTo
<1>3. Trees(H)[b] = R
  BY <1>1, TreesAre
<1>4. Overlaid(g)[<<b, v>>] = P \o Q
  BY <1>1, OverlaidAre DEF Overlay
<1>5. ASSUME NEW j \in 1 .. Len(a)
      PROVE  Now(a[j][2]) = Old(a[j][2])
  <2>1. CASE IsRef(a[j][2])
    <3>1. Refers(a, a[j][2][2])
      BY <1>1, <2>1, ReferredIs
    <3>2. a[j][2][2] \in Objects(g) \ {b}
      BY <1>1, <3>1, RefersIs DEF Free
    <3>3. \A x \in Objects(g) \ {b} : H[x] = g[x]
      BY DEF AllLaid, LaidTo, Grown
    <3>4. \A x \in Objects(g) \ {b} : Trees(H)[x] = Trees(g)[x]
      BY <1>1, <3>3, OthersKeep
    <3> QED  BY <3>2, <3>4 DEF Unfolded
  <2> QED  BY <2>1 DEF Unfolded
<1>6. ASSUME NEW j \in 1 .. Len(a) PROVE P[j] = R[j]
  <2>1. j \in 1 .. Len(c)
    <3> HIDE DEF a, c, N
    <3> QED  BY <1>2
  <2>2. /\ c[j][1] = a[j][1]
        /\ Done(s, Len(s), a[j][1]) => Now(c[j][2]) = Merged(g, b, a[j][1], Lookup(s, a[j][1]))
        /\ ~Done(s, Len(s), a[j][1]) => c[j] = a[j]
    BY DEF AllLaid, LaidTo
  <2>3. Done(s, Len(s), a[j][1]) <=> Has(s, a[j][1])
    BY DEF Done, Has
  <2>4. Merged(g, b, a[j][1], Lookup(s, a[j][1])) = Lay(j)
    <3>1. Has(a, a[j][1]) /\ Lookup(a, a[j][1]) = a[j][2]
      BY <1>1, KeyIs
    <3> QED  BY <3>1 DEF Merged
  <2>5. Now(c[j][2]) = IF Has(s, a[j][1]) THEN Lay(j) ELSE Old(a[j][2])
    <3> HIDE DEF Lay, Now, Old
    <3> QED  BY <1>5, <2>2, <2>3, <2>4
  <2> HIDE DEF Lay, Now, Old, a, c, s
  <2> QED  BY <2>1, <2>2, <2>5
<1>7. ASSUME NEW j \in 1 .. Len(N) PROVE Q[j] = R[Len(a) + j]
  <2>1. Len(a) + j \in 1 .. Len(c)
    <3> HIDE DEF a, c, N
    <3> QED  BY <1>2
  <2>2. c[Len(a) + j][1] = N[j][1] /\ Now(c[Len(a) + j][2]) = Old(N[j][2])
    BY DEF AllLaid, LaidTo
  <2> HIDE DEF Lay, Now, Old, a, c, s, N
  <2> QED  BY <2>1, <2>2
<1>8. IsList(P, Len(a)) /\ IsList(Q, Len(N)) /\ IsList(R, Len(a) + Len(N))
  <2> HIDE DEF Lay, Now, Old, a, c, s, N
  <2> QED  BY <1>2 DEF IsList
<1>9. P \o Q = R
  <2> HIDE DEF P, Q, R, a, N, c, s
  <2> QED  BY <1>2, <1>6, <1>7, <1>8, ConcatIs
<1>10. Grown(g, H, b, X)
  BY DEF AllLaid, LaidTo
<1> QED  BY <1>3, <1>4, <1>9, <1>10 DEF IsMerged

----------------------------------------------------------------------------
\* The calls one in the other.
MergeFrom(Inner, c) == MergeFields(Inner, c[1], c[2], c[1][c[3]])[Len(c[1][c[3]])]
IsMergeTo(M, depth) ==
    /\ M = [n \in 0 .. depth |-> M[n]]
    /\ \A n \in 0 .. depth :
         M[n] = [c \in MergeCalls |-> IF n = 0 THEN c[1] ELSE MergeFrom(M[n - 1], c)]

LEMMA MergeToExists ==
    ASSUME NEW n \in Nat
    PROVE  \E M : IsMergeTo(M, n)
<1> DEFINE X == {m \in Nat : ~ \E M : IsMergeTo(M, m)}
<1> SUFFICES ASSUME X # {} PROVE FALSE
  OBVIOUS
<1>1. PICK m \in X : \A k \in X : m <= k
  BY Smallest
<1> HIDE DEF MergeCalls
<1>2. m # 0
  <2>1. IsMergeTo([i \in 0 .. 0 |-> [c \in MergeCalls |-> c[1]]], 0)
    BY DEF IsMergeTo
  <2> QED  BY <1>1, <2>1
<1>3. m - 1 \in Nat /\ m - 1 \notin X
  BY <1>1, <1>2
<1>4. PICK F : IsMergeTo(F, m - 1)
  BY <1>3
<1> DEFINE G == [i \in 0 .. m |-> IF i < m THEN F[i]
                                  ELSE [c \in MergeCalls |-> MergeFrom(F[m - 1], c)]]
<1>5. IsMergeTo(G, m)
  <2>1. ASSUME NEW i \in 0 .. m
        PROVE  G[i] = [c \in MergeCalls |-> IF i = 0 THEN c[1] ELSE MergeFrom(G[i - 1], c)]
    <3>1. CASE i = m
      <4>1. G[m] = [c \in MergeCalls |-> MergeFrom(F[m - 1], c)] /\ G[m - 1] = F[m - 1]
        BY <1>1, <1>2
      <4> QED  BY <1>2, <3>1, <4>1
    <3>2. CASE i # m
      <4>1. i \in 0 .. m - 1 /\ (i = 0 \/ i - 1 \in 0 .. m) /\ i < m /\ i - 1 < m
        BY <1>1, <3>2
      <4>2. G[i] = F[i] /\ (i = 0 \/ G[i - 1] = F[i - 1])
        BY <4>1
      <4>3. F[i] = [c \in MergeCalls |-> IF i = 0 THEN c[1] ELSE MergeFrom(F[i - 1], c)]
        BY <1>4, <4>1 DEF IsMergeTo
      <4> QED  BY <4>2, <4>3
    <3> QED  BY <3>1, <3>2
  <2>2. G = [i \in 0 .. m |-> G[i]]
    OBVIOUS
  <2> HIDE DEF G
  <2> QED  BY <2>1, <2>2 DEF IsMergeTo
<1> QED  BY <1>1, <1>5

LEMMA MergeToIs ==
    ASSUME NEW n \in Nat
    PROVE  IsMergeTo(MergeTo(n), n)
<1> DEFINE R == MergeTo(n)
<1>1. PICK G : IsMergeTo(G, n)
  BY MergeToExists
<1>2. G = [i \in 0 .. n |-> [c \in MergeCalls |-> IF i = 0 THEN c[1] ELSE MergeFrom(G[i - 1], c)]]
  BY <1>1 DEF IsMergeTo
<1>3. R = [i \in 0 .. n |-> [c \in MergeCalls |-> IF i = 0 THEN c[1] ELSE MergeFrom(R[i - 1], c)]]
  <2> HIDE DEF MergeCalls
  <2> QED  BY <1>2 DEF MergeTo, MergeFrom
<1> HIDE DEF R
<1>4. IsMergeTo(R, n)
  BY <1>3 DEF IsMergeTo
<1> QED  BY <1>4 DEF R

LEMMA MergeDoes ==
    ASSUME NEW n \in Nat, NEW w \in [Nat -> Nat], \A x \in Nat : w[x] # 0
    PROVE  Does(MergeTo(n)[n], w, n)
<1> DEFINE M == MergeTo(n)
           Bad == {i \in 0 .. n : ~Does(M[i], w, i)}
<1>1. IsMergeTo(M, n)
  BY MergeToIs
<1> HIDE DEF M
<1>2. Bad = {}
  <2> SUFFICES ASSUME Bad # {} PROVE FALSE
    OBVIOUS
  <2>1. PICK i \in Bad : /\ i \in 0 .. n
                         /\ i # 0 => i \in 1 .. n /\ i - 1 \in 0 .. n /\ i - 1 \notin Bad
    <3>1. Bad \in SUBSET (0 .. n)
      OBVIOUS
    <3> HIDE DEF Bad
    <3> QED  BY <3>1, First
  <2>2. ASSUME NEW g, NEW b, NEW v, NEW X, Around(g, b, v, X), Sinks(w, g, v, X), w[v] <= i
        PROVE  IsMerged(g, M[i][<<g, b, v>>], b, v, X)
    <3>1. Grown(g, g, b, X)
      BY <2>2, BeginsLaid DEF AllLaid, LaidTo
    <3>2. g \in Heaps /\ b \in Nat /\ v \in Nat
      BY <2>2, <3>1, AroundIs DEF HeapOK
    <3>3. i # 0
      BY <2>2, <3>2
    <3> DEFINE c == <<g, b, v>>
               m == i - 1
               Inner == M[m]
    <3>4. c \in MergeCalls
      BY <3>2 DEF MergeCalls, Heaps, Fields, Values
    <3>5. M[i] = [e \in MergeCalls |-> IF i = 0 THEN e[1] ELSE MergeFrom(M[i - 1], e)]
      BY <1>1, <2>1 DEF IsMergeTo
    <3>6. M[i][c] = MergeFrom(Inner, c)
      <4> HIDE DEF c
      <4> QED  BY <3>3, <3>4, <3>5
    <3>7. M[i][c] = MergeFields(Inner, g, b, g[v])[Len(g[v])]
      BY <3>6 DEF MergeFrom
    <3>8. Does(Inner, w, m) /\ m \in Nat /\ w[v] <= m + 1
      BY <2>1, <2>2, <3>3
    <3> HIDE DEF Inner, m, c
    <3>9. AllLaid(g, M[i][c], b, v, X)
      BY <2>2, <3>7, <3>8, FieldsLaid
    <3> HIDE DEF Bad
    <3> QED  BY <2>2, <3>9, LaidIsOverlay DEF c
  <2>3. Does(M[i], w, i)
    BY <2>2 DEF Does
  <2> QED  BY <2>1, <2>3
<1>3. n \in 0 .. n
  OBVIOUS
<1> QED  BY <1>2, <1>3 DEF M

----------------------------------------------------------------------------
\* The heap of the program: no object is below one that it holds, and the ranks leave
\* the calls of a merge as many levels as there are objects.
Shared(h) == Objects(h) \ HeldObjects
Leveled(h, r) ==
    /\ r \in [Objects(h) -> Nat]
    /\ \A o \in Objects(h) : /\ r[o] # 0
                             /\ o \in HeldObjects => r[o] = Len(h)
                             /\ o \notin HeldObjects => r[o] < Len(h)
                             /\ \A p : Refers(h[o], p) => r[p] < r[o]
MergeInv(h) ==
    /\ HeapOK(h) /\ Roots <= Len(h)
    /\ \A o \in Objects(h) : \A p : Refers(h[o], p) => p \in Shared(h)
    /\ \E r : Leveled(h, r)

LEMMA InvAround ==
    ASSUME NEW g, MergeInv(g), NEW b \in HeldObjects, NEW v \in HeldObjects
    PROVE  Around(g, b, v, Shared(g)) /\ Len(g) \in Nat /\ HeldObjects \subseteq Objects(g)
<1>1. Len(g) \in Nat /\ HeldObjects \subseteq Objects(g) /\ HeapOK(g)
  BY LenHeap, MergeAssumption DEF MergeInv, HeldObjects, Objects
<1>2. PICK r : Leveled(g, r)
  BY DEF MergeInv
<1>3. r \in [Objects(g) -> 0 .. Len(g)]
  <2>1. \A o \in Objects(g) : r[o] \in 0 .. Len(g)
    BY <1>1, <1>2 DEF Leveled
  <2> QED  BY <1>2, <2>1 DEF Leveled
<1>4. Acyclic(g)
  BY <1>1, <1>2, <1>3 DEF Acyclic, Descends, Leveled
<1>5. Free(g, b)
  BY DEF Free, MergeInv, Shared
<1>6. \A x \in Shared(g) \cup {b, v} : \A p : Refers(g[x], p) => p \in Shared(g)
  BY <1>1 DEF MergeInv, Shared
<1> QED  BY <1>1, <1>4, <1>5, <1>6 DEF Around, Shared

\* What writes one held object only, with references to no held one, keeps the invariant.
LEMMA GrownInv ==
    ASSUME NEW g, NEW h, MergeInv(g), NEW b \in HeldObjects, Grown(g, h, b, Shared(g))
    PROVE  MergeInv(h)
<1>1. /\ Len(g) \in Nat /\ Len(h) \in Nat /\ Len(g) <= Len(h) /\ HeapOK(g) /\ HeapOK(h)
      /\ Roots \in Nat /\ Roots <= Len(g) /\ Roots <= Len(h)
  BY LenHeap, MergeAssumption DEF MergeInv, Grown
<1>2. PICK r : Leveled(g, r)
  BY DEF MergeInv
<1>3. \A o \in Objects(g) : r[o] \in Nat /\ r[o] # 0 /\ r[o] <= Len(g)
                         /\ (o \notin HeldObjects => r[o] < Len(g))
  BY <1>1, <1>2 DEF Leveled
<1>4. ASSUME NEW x \in Objects(h)
      PROVE  /\ x \in Nat /\ x <= Len(h) /\ x # 0
             /\ x \in Objects(g) \/ x \in Len(g) + 1 .. Len(h)
             /\ x \in Objects(g) => x <= Len(g)
             /\ x \in HeldObjects => x \in Objects(g)
             /\ x \in HeldObjects <=> x <= Roots
  BY <1>1 DEF Objects, HeldObjects
<1>5. \A x \in Shared(g) : x \in Shared(h) /\ x \in Objects(g) /\ x \notin HeldObjects
  BY <1>1 DEF Shared, Objects
<1>6. \A x \in Len(g) + 1 .. Len(h) : x \in Shared(h) /\ x \notin Objects(g)
  BY <1>1 DEF Shared, Objects, HeldObjects
<1>7. b \in Objects(g) /\ b \in Objects(h)
  BY <1>1 DEF Objects, HeldObjects
<1>8. ASSUME NEW x \in Objects(h), NEW p, Refers(h[x], p)
      PROVE  \/ x \in Objects(g) /\ x # b /\ Refers(g[x], p) /\ p \in Shared(g)
             \/ x = b /\ (p \in Shared(g) \/ p \in Len(g) + 1 .. Len(h))
             \/ x \in Len(g) + 1 .. Len(h) /\ (p \in Shared(g) \/ p \in x + 1 .. Len(h))
  <2>1. CASE x = b
    BY <1>8, <2>1 DEF Grown
  <2>2. CASE x # b /\ x \in Objects(g)
    <3>1. h[x] = g[x]
      BY <2>2 DEF Grown
    <3> QED  BY <1>8, <2>2, <3>1 DEF MergeInv
  <2>3. CASE x \in Len(g) + 1 .. Len(h)
    BY <1>8, <2>3 DEF Grown
  <2> QED  BY <1>4, <2>1, <2>2, <2>3
<1>9. ASSUME NEW x \in Objects(h), NEW p, Refers(h[x], p) PROVE p \in Shared(h)
  <2>1. p \in Shared(g) \/ p \in Len(g) + 1 .. Len(h)
    BY <1>1, <1>4, <1>8, <1>9
  <2> QED  BY <1>5, <1>6, <2>1
<1> DEFINE s == [x \in Objects(h) |-> IF x \in HeldObjects THEN Len(h)
                                      ELSE IF x \in Objects(g) THEN r[x]
                                      ELSE Len(g) + Len(h) - x]
<1>10. ASSUME NEW x \in Objects(h)
       PROVE  /\ s[x] \in Nat /\ s[x] # 0
              /\ x \in HeldObjects => s[x] = Len(h)
              /\ x \notin HeldObjects => s[x] < Len(h)
  <2>1. CASE x \in HeldObjects
    BY <1>1, <1>4, <2>1
  <2>2. CASE x \notin HeldObjects /\ x \in Objects(g)
    BY <1>1, <1>3, <2>2
  <2>3. CASE x \notin HeldObjects /\ x \notin Objects(g)
    <3>1. x \in Len(g) + 1 .. Len(h) /\ s[x] = Len(g) + Len(h) - x
      BY <1>4, <2>3
    <3>2. Len(g) # 0
      BY <1>1, <1>7 DEF Objects
    <3> QED  BY <1>1, <2>3, <3>1, <3>2
  <2> QED  BY <2>1, <2>2, <2>3
<1>11. ASSUME NEW x \in Objects(h), NEW p, Refers(h[x], p) PROVE s[p] < s[x]
  <2>1. p \in Shared(h) /\ p \in Objects(h) /\ p \notin HeldObjects
    BY <1>9, <1>11 DEF Shared
  <2>2. s[p] < Len(h) /\ s[p] \in Nat /\ s[x] \in Nat
    BY <1>10, <2>1
  <2>3. CASE x \in HeldObjects
    BY <1>10, <2>2, <2>3
  <2>4. CASE x \notin HeldObjects /\ x \in Objects(g)
    <3>1. Refers(g[x], p) /\ p \in Shared(g)
      BY <1>1, <1>4, <1>6, <1>8, <1>11, <2>4
    <3>2. p \in Objects(g) /\ r[p] < r[x]
      BY <1>2, <1>5, <2>4, <3>1 DEF Leveled
    <3> QED  BY <2>1, <2>4, <3>2
  <2>5. CASE x \in Len(g) + 1 .. Len(h)
    <3>1. p \in Shared(g) \/ p \in x + 1 .. Len(h)
      BY <1>6, <1>7, <1>8, <1>11, <2>5
    <3>2. x \notin HeldObjects /\ x \notin Objects(g) /\ s[x] = Len(g) + Len(h) - x
      BY <1>6, <2>5 DEF Shared
    <3>3. CASE p \in Shared(g)
      <4>1. p \in Objects(g) /\ p \notin HeldObjects /\ s[p] = r[p]
        BY <1>5, <2>1, <3>3
      <4>2. r[p] < Len(g) /\ r[p] \in Nat
        BY <1>3, <4>1
      <4> QED  BY <1>1, <2>5, <3>2, <4>1, <4>2
    <3>4. CASE p \in x + 1 .. Len(h)
      <4>1. p \in Len(g) + 1 .. Len(h)
        BY <1>1, <2>5, <3>4
      <4>2. p \notin Objects(g) /\ s[p] = Len(g) + Len(h) - p
        BY <1>6, <2>1, <4>1
      <4> QED  BY <1>1, <2>5, <3>2, <3>4, <4>2
    <3> QED  BY <3>1, <3>3, <3>4
  <2> QED  BY <1>4, <2>3, <2>4, <2>5
<1>12. s \in [Objects(h) -> Nat]
  BY <1>10
<1> HIDE DEF s
<1>13. Leveled(h, s)
  BY <1>10, <1>11, <1>12 DEF Leveled
<1> QED  BY <1>1, <1>9, <1>13 DEF MergeInv

LEMMA MergeKeeps ==
    ASSUME NEW g, MergeInv(g), NEW b \in HeldObjects, NEW v \in HeldObjects
    PROVE  IsMerged(g, Merge(g, b, v), b, v, Shared(g))
<1> DEFINE X == Shared(g)
           n == Len(g)
           c == <<g, b, v>>
<1>1. Around(g, b, v, X) /\ n \in Nat /\ HeldObjects \subseteq Objects(g)
  BY InvAround
<1>2. PICK r : Leveled(g, r)
  BY DEF MergeInv
<1> DEFINE w == [x \in Nat |-> IF x \in Objects(g) THEN r[x] ELSE 1]
<1>3. \A x \in Objects(g) : x \in Nat /\ w[x] = r[x] /\ r[x] \in Nat /\ r[x] # 0 /\ r[x] <= n
  BY <1>1, <1>2 DEF Leveled, Objects
<1>4. w \in [Nat -> Nat] /\ \A x \in Nat : w[x] # 0
  <2>1. ASSUME NEW x \in Nat PROVE w[x] \in Nat /\ w[x] # 0
    <3>1. CASE x \in Objects(g)
      BY <1>3, <3>1
    <3>2. CASE x \notin Objects(g)
      BY <3>2
    <3> QED  BY <3>1, <3>2
  <2> QED  BY <2>1
<1> HIDE DEF w
<1>5. Sinks(w, g, v, X)
  <2>1. ASSUME NEW x \in X \cup {v}, NEW p, Refers(g[x], p) PROVE w[p] < w[x]
    <3>1. x \in Objects(g)
      BY <1>1 DEF Shared
    <3>2. p \in Objects(g) /\ r[p] < r[x]
      BY <1>2, <2>1, <3>1 DEF MergeInv, Shared, Leveled
    <3> QED  BY <1>3, <3>1, <3>2
  <2> QED  BY <2>1 DEF Sinks
<1>6. w[v] <= n
  BY <1>1, <1>3
<1>7. Does(MergeTo(n)[n], w, n)
  BY <1>1, <1>4, MergeDoes
<1>8. IsMerged(g, MergeTo(n)[n][<<g, b, v>>], b, v, X)
  BY <1>1, <1>5, <1>6, <1>7 DEF Does
<1> QED  BY <1>8 DEF Merge

LEMMA LeafKeeps ==
    ASSUME NEW g, MergeInv(g), NEW o \in HeldObjects, NEW k \in Names, NEW x \in Leaves,
           NEW h, h = [g EXCEPT ![o] = PutField(g[o], k, Leaf(x))]
    PROVE  Grown(g, h, o, Shared(g))
<1> DEFINE X == Shared(g)
           u == Leaf(x)
<1>1. Around(g, o, o, X)
  BY InvAround
<1>2. Grown(g, g, o, X)
  BY <1>1, BeginsLaid DEF LaidTo
<1>3. u \in Values /\ ~IsRef(u)
  BY DEF Values, Leaf, IsRef
<1> HIDE DEF u
<1>4. Fresh(g, g, u)
  BY <1>3 DEF Fresh
<1>5. IsPut(h, g, o, k, u)
  BY DEF IsPut, u
<1> QED  BY <1>1, <1>2, <1>3, <1>4, <1>5, SetGrown

LEMMA ObjectKeeps ==
    ASSUME NEW g, MergeInv(g), NEW o \in HeldObjects, NEW from \in HeldObjects, NEW k \in Names,
           NEW h, h = PutCopy(g, o, k, g[from])
    PROVE  Grown(g, h, o, Shared(g))
<1> DEFINE X == Shared(g)
           C == Append(g, g[from])
           u == Ref(Len(g) + 1)
<1>1. /\ Around(g, o, o, X) /\ Len(g) \in Nat /\ o \in Objects(g) /\ from \in Objects(g)
      /\ HeapOK(g) /\ g[from] \in Seq(Fields)
  BY InvAround, ObjectIs DEF MergeInv, HeapOK
<1>2. Grown(g, g, o, X)
  BY <1>1, BeginsLaid DEF LaidTo
<1>3. Copied(g, g, from, X) /\ IsCopy(C, g, from)
  BY <1>1 DEF Copied, MergeInv, IsCopy
<1>4. IsPut(h, C, o, k, u)
  BY <1>1, PutCopyIs
<1>5. u \in Values /\ u[2] = Len(g) + 1
  BY <1>1, RefIs
<1> HIDE DEF C, u
<1>6. Grown(g, C, o, X) /\ Len(C) = Len(g) + 1
  BY <1>1, <1>2, <1>3, CopiedGrown
<1>7. Fresh(g, C, u)
  BY <1>1, <1>5, <1>6 DEF Fresh
<1> QED  BY <1>1, <1>4, <1>5, <1>6, <1>7, SetGrown

LEMMA CopyKeeps ==
    ASSUME NEW g, MergeInv(g), NEW o \in HeldObjects, NEW from \in HeldObjects,
           NEW h, h = [g EXCEPT ![o] = g[from]]
    PROVE  Grown(g, h, o, Shared(g))
<1>1. /\ Len(g) \in Nat /\ o \in Objects(g) /\ from \in Objects(g)
      /\ HeapOK(g) /\ g[from] \in Seq(Fields) /\ g \in Seq(Seq(Fields))
  BY InvAround, ObjectIs DEF MergeInv, HeapOK, Heaps
<1>2. /\ h \in Seq(Seq(Fields)) /\ Len(h) = Len(g) /\ h[o] = g[from]
      /\ \A x \in Objects(g) \ {o} : h[x] = g[x]
  BY <1>1 DEF Objects
<1>3. Objects(h) = Objects(g)
  BY <1>2 DEF Objects
<1>4. \A x \in Objects(h) : \E y \in Objects(g) : h[x] = g[y]
  BY <1>1, <1>2, <1>3
<1>5. HeapOK(h)
  BY <1>1, <1>2, <1>3, <1>4 DEF HeapOK, Heaps
<1>6. \A p : Refers(h[o], p) => p \in Shared(g)
  BY <1>1, <1>2 DEF MergeInv
<1>7. Len(g) + 1 .. Len(h) = {}
  BY <1>1, <1>2
<1> QED  BY <1>1, <1>2, <1>5, <1>6, <1>7 DEF Grown

HeapInv == MergeInv(heap)

LEMMA HeapInitInv ==
    ASSUME MergeInit
    PROVE  HeapInv
<1>1. Roots \in Nat /\ heap = [o \in 1 .. Roots |-> <<>>]
  BY MergeAssumption DEF MergeInit, HeldObjects
<1>2. <<>> \in Seq(Fields) /\ Len(<<>>) = 0
  OBVIOUS
<1> HIDE DEF Fields
<1>3. heap \in Seq(Seq(Fields)) /\ Len(heap) = Roots
  <2>1. heap \in [1 .. Roots -> Seq(Fields)]
    BY <1>1, <1>2
  <2> QED  BY <1>1, <2>1
<1>4. Objects(heap) = HeldObjects /\ \A o \in HeldObjects : heap[o] = <<>>
  BY <1>1, <1>3 DEF Objects, HeldObjects
<1>5. \A o \in Objects(heap) : KeysOnce(heap[o]) /\ \A p : ~Refers(heap[o], p)
  <2>1. KeysOnce(<<>>) /\ \A p : ~Refers(<<>>, p)
    BY DEF KeysOnce, Refers
  <2> QED  BY <1>4, <2>1
<1>6. HeapOK(heap)
  BY <1>3, <1>5 DEF HeapOK, Heaps
<1> DEFINE r == [o \in Objects(heap) |-> Roots]
<1>7. Leveled(heap, r)
  <2>1. r \in [Objects(heap) -> Nat] /\ \A o \in Objects(heap) : r[o] = Roots
    BY <1>1
  <2>2. \A o \in Objects(heap) : Roots # 0
    BY <1>1, <1>3 DEF Objects
  <2> HIDE DEF r
  <2> QED  BY <1>3, <1>4, <1>5, <2>1, <2>2 DEF Leveled
<1>8. Roots <= Len(heap)
  BY <1>1, <1>3
<1> QED  BY <1>5, <1>6, <1>7, <1>8 DEF HeapInv, MergeInv

LEMMA HeapStepInv ==
    ASSUME HeapInv, [MergeNext]_mergeVars
    PROVE  HeapInv'
<1>1. CASE UNCHANGED mergeVars
  BY <1>1 DEF HeapInv, mergeVars
<1>2. CASE MergeNext
  <2>1. PICK o \in HeldObjects :
           \/ \E k \in Names, x \in Leaves : SetLeaf(o, k, x)
           \/ \E from \in HeldObjects : \/ MergeInto(o, from)
                                 \/ CopyFrom(o, from)
                                 \/ \E k \in Names : SetObject(o, k, from)
    BY <1>2 DEF MergeNext
  <2> SUFFICES Grown(heap, heap', o, Shared(heap))
    BY GrownInv DEF HeapInv
  <2>2. ASSUME NEW k \in Names, NEW x \in Leaves, SetLeaf(o, k, x)
        PROVE  Grown(heap, heap', o, Shared(heap))
    BY <2>2, LeafKeeps DEF SetLeaf, HeapInv
  <2>3. ASSUME NEW from \in HeldObjects, MergeInto(o, from)
        PROVE  Grown(heap, heap', o, Shared(heap))
    BY <2>3, MergeKeeps DEF MergeInto, HeapInv, IsMerged
  <2>4. ASSUME NEW from \in HeldObjects, CopyFrom(o, from)
        PROVE  Grown(heap, heap', o, Shared(heap))
    BY <2>4, CopyKeeps DEF CopyFrom, HeapInv
  <2>5. ASSUME NEW from \in HeldObjects, NEW k \in Names, SetObject(o, k, from)
        PROVE  Grown(heap, heap', o, Shared(heap))
    BY <2>5, ObjectKeeps DEF SetObject, HeapInv
  <2> QED  BY <2>1, <2>2, <2>3, <2>4, <2>5
<1> QED  BY <1>1, <1>2

LEMMA MergedRight ==
    ASSUME HeapInv, NEW base \in HeldObjects, NEW overlay \in HeldObjects, MergeInto(base, overlay)
    PROVE  /\ Trees(heap')[base] = Overlaid(heap)[<<base, overlay>>]
           /\ \A o \in HeldObjects \ {base} : Trees(heap')[o] = Trees(heap)[o]
<1> DEFINE h == heap'
           X == Shared(heap)
<1>1. IsMerged(heap, h, base, overlay, X)
  BY MergeKeeps DEF MergeInto, HeapInv
<1>2. Around(heap, base, overlay, X) /\ HeldObjects \subseteq Objects(heap)
  BY InvAround DEF HeapInv
<1> HIDE DEF h, X
<1>3. Grown(heap, h, base, X) /\ Trees(h)[base] = Overlaid(heap)[<<base, overlay>>]
  BY <1>1 DEF IsMerged
<1>4. /\ HeapOK(heap) /\ HeapOK(h) /\ Acyclic(heap) /\ Acyclic(h) /\ Free(heap, base)
      /\ Len(heap) <= Len(h)
  BY <1>2, <1>3, AroundIs
<1>5. \A x \in Objects(heap) \ {base} : h[x] = heap[x]
  BY <1>3 DEF Grown
<1>6. \A x \in Objects(heap) \ {base} : Trees(h)[x] = Trees(heap)[x]
  BY <1>4, <1>5, OthersKeep
<1> QED  BY <1>2, <1>3, <1>6 DEF h

\* A merge makes of the base what the overlay laid over it says and leaves the
\* documents of the other objects the program holds, however they share their children:
\* the heap is acyclic, nothing refers to a held object, and a merge writes the base and
\* its own copies only (ValueJson.h:87-101).
THEOREM MergeIsOverlay == MergeSpec => MergeOwnsResult
<1>1. MergeInit => HeapInv
  BY HeapInitInv
<1>2. HeapInv /\ [MergeNext]_mergeVars => HeapInv'
  BY HeapStepInv
<1>3. HeapInv /\ [MergeNext]_mergeVars =>
        [\A base, overlay \in HeldObjects :
           MergeInto(base, overlay) =>
             /\ Trees(heap')[base] = Overlaid(heap)[<<base, overlay>>]
             /\ \A o \in HeldObjects \ {base} : Trees(heap')[o] = Trees(heap)[o]]_mergeVars
  BY MergedRight
<1> QED  BY <1>1, <1>2, <1>3, PTL DEF MergeSpec, MergeOwnsResult
=============================================================================
