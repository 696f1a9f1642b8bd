---------------------------- MODULE RunAndWaitProofs ----------------------------
(***************************************************************************)
(* RunAndWait for any callers, servers, posts and reopenings: it returns   *)
(* after its task ran, twice at most and only for a reason; its wrapper is *)
(* not called behind its back unless another thread took it from a Manual  *)
(* owner; and it stands in for an owner at rest only when the owner runs   *)
(* nothing.                                                                *)
(*                                                                         *)
(* The argument follows one wrapper.  It is in one place at a time: the    *)
(* queue, the stopper's deque, or one thread's hands; while it is in any   *)
(* of them it has settled nothing, unless its task has ended; and only a   *)
(* caller with a Manual owner leaves its wait unsettled, with the wrapper  *)
(* in the queue or in the hands of another thread, which stole it.         *)
(***************************************************************************)
EXTENDS RunAndWait, SequenceTheorems, TLAPS

Distinct(s) == \A i, j \in 1 .. Len(s) : s[i] = s[j] => i = j

\* Where c's wrapper is.
Queued(i) == i \in ToSet(queue) \cup ToSet(dropped)
Popped(i) == \E r \in Runners : hand[r] = i /\ handAt[r] = "popped"
InBody(i) == \E r \in Runners : hand[r] = i /\ handAt[r] = "body"
Leaving(i) == \E r \in Runners : hand[r] = i /\ handAt[r] = "leaving"
InHand(i) == Popped(i) \/ InBody(i) \/ Leaving(i)

Types ==
  /\ mode \in {"Dedicated", "Manual"}
  /\ gstate \in GateStates /\ epoch \in 0..MaxEpoch /\ late \in BOOLEAN
  /\ stamp \in [Items -> 0..MaxEpoch]
  /\ registered \in BOOLEAN /\ exited \in BOOLEAN /\ posts \in 0..MaxPosts
  /\ stopAt \in {"none", "unregistered", "stopping", "dropping", "done"}
  /\ queue \in Seq(Items) /\ dropped \in Seq(Items)
  /\ hand \in [Runners -> Items \cup {None}]
  /\ handAt \in [Runners -> {"none", "popped", "body", "leaving"}]
  /\ pass \in [Runners -> {"out", "in", "ran"}]
  /\ at \in [Callers -> {"idle", "target", "push", "wait", "draining", "check",
                         "standin", "returned"}]
  /\ settled \in [Callers -> {"no", "ran", "dropped"}]
  /\ runs \in [Callers -> Nat] /\ threw \in [Callers -> BOOLEAN]
  /\ stolen \in [Callers -> BOOLEAN]

\* A stop empties the queue; the thread is joined when it holds nothing.
Stops ==
  /\ registered => stopAt = "none"
  /\ IF Stopped THEN queue = <<>> ELSE dropped = <<>>
  /\ exited => Stopped /\ hand[Loop] = None
  /\ mode = "Dedicated" /\ stopAt \in {"dropping", "done"} => exited

\* A wrapper is in one place.
Places ==
  /\ Distinct(queue) /\ Distinct(dropped)
  /\ \A r \in Runners : hand[r] = None <=> handAt[r] = "none"
  /\ \A r \in Runners : ~Queued(hand[r])
  /\ \A r, q \in Runners : hand[r] = hand[q] /\ hand[r] # None => r = q

\* Who runs the owner: its thread, or passes, a caller's from within its loop.
Drives ==
  /\ mode = "Dedicated" =>
       /\ \A r \in Runners : pass[r] = "out" /\ (r # Loop => hand[r] = None)
       /\ \A c \in Callers : at[c] # "draining" /\ ~stolen[c]
  /\ mode = "Manual" =>
       /\ \A r \in Runners : hand[r] # None => pass[r] = "ran"
       /\ \A c \in Callers : at[c] # "wait" /\ (pass[c] # "out" => at[c] = "draining")

\* What a caller's wrapper has done, by where it is and where the caller is.
Wrapper(c) ==
  /\ at[c] \in {"idle", "target", "push"} =>
       /\ settled[c] = "no" /\ ~threw[c] /\ runs[c] = 0 /\ ~stolen[c]
       /\ ~Queued(c) /\ ~InHand(c)
  /\ Queued(c) => settled[c] = "no" /\ ~stolen[c]
  /\ Queued(c) /\ mode = "Dedicated" => at[c] = "wait"
  /\ Popped(c) \/ InBody(c) => settled[c] = "no"
  /\ Popped(c) \/ InBody(c) => stolen[c] \/ at[c] \in {"wait", "draining"}
  /\ InHand(c) /\ mode = "Manual" => stolen[c] \/ hand[c] = c

Count(c) ==
  /\ runs[c] <= 2
  /\ at[c] \in {"wait", "draining", "check"} =>
       /\ Queued(c) \/ Popped(c) => runs[c] = 0 /\ ~threw[c]
       /\ InBody(c) => runs[c] = 1 /\ ~threw[c]
       /\ Leaving(c) => runs[c] = 1 /\ (settled[c] = "ran" \/ threw[c])
       /\ ~Queued(c) /\ ~InHand(c) => settled[c] # "no"
       /\ settled[c] = "ran" => runs[c] = 1
       /\ settled[c] = "dropped" => runs[c] = 0 \/ (runs[c] = 1 /\ threw[c])
       /\ at[c] = "check" /\ settled[c] = "no" => mode = "Manual"
  /\ at[c] \in {"standin", "returned"} =>
       /\ 1 <= runs[c]
       /\ Queued(c) \/ Popped(c) => runs[c] = 1 /\ ~threw[c]
       /\ runs[c] > 1 => threw[c] \/ stolen[c]

Callings == \A c \in Callers : Wrapper(c) /\ Count(c)

\* A gate that drained before it closed left nothing, and lets nothing in.
Shut ==
  gstate = "Closed" /\ ~late =>
    /\ queue = <<>> /\ dropped = <<>> /\ \A r \in Runners : hand[r] = None
    /\ \A c \in Callers : at[c] # "push" /\ (c \in Gated => at[c] \in Outside)

Inv == Types /\ Stops /\ Places /\ Drives /\ Callings /\ Shut

--------------------------------------------------------------------------------
(* Queues. *)

LEMMA AppendFacts ==
  ASSUME NEW S, NEW s \in Seq(S), NEW x \in S, x \notin ToSet(s), Distinct(s)
  PROVE  /\ Append(s, x) \in Seq(S) /\ Distinct(Append(s, x))
         /\ ToSet(Append(s, x)) = ToSet(s) \cup {x}
<1>1. /\ Append(s, x) \in Seq(S) /\ Len(Append(s, x)) = Len(s) + 1 /\ Len(s) \in Nat
      /\ \A i \in 1 .. Len(s) : Append(s, x)[i] = s[i]
      /\ Append(s, x)[Len(s) + 1] = x
  BY AppendProperties
<1>2. DOMAIN s = 1 .. Len(s) /\ DOMAIN Append(s, x) = 1 .. Len(s) + 1
  BY <1>1
<1>3. ToSet(Append(s, x)) = ToSet(s) \cup {x}
  BY <1>1, <1>2 DEF ToSet
<1>4. Distinct(Append(s, x))
  <2> SUFFICES ASSUME NEW i \in 1 .. Len(s) + 1, NEW j \in 1 .. Len(s) + 1,
                      Append(s, x)[i] = Append(s, x)[j]
               PROVE  i = j
    BY <1>1 DEF Distinct
  <2>1. \A k \in 1 .. Len(s) : s[k] # x
    BY <1>2 DEF ToSet
  <2>2. \A k \in 1 .. Len(s) + 1 : k = Len(s) + 1 \/ k \in 1 .. Len(s)
    BY <1>1
  <2> QED
    BY <1>1, <2>1, <2>2 DEF Distinct
<1> QED
  BY <1>1, <1>3, <1>4

LEMMA TailFacts ==
  ASSUME NEW S, NEW s \in Seq(S), s # <<>>, Distinct(s)
  PROVE  /\ Head(s) \in S /\ Head(s) \in ToSet(s)
         /\ Tail(s) \in Seq(S) /\ Distinct(Tail(s))
         /\ ToSet(Tail(s)) = ToSet(s) \ {Head(s)}
<1>1. /\ Head(s) \in S /\ Tail(s) \in Seq(S) /\ Head(s) = s[1]
      /\ Len(s) \in Nat /\ Len(s) # 0 /\ Len(Tail(s)) = Len(s) - 1
      /\ \A i \in 1 .. Len(Tail(s)) : Tail(s)[i] = s[i + 1]
  BY HeadTailProperties, EmptySeq
<1>2. DOMAIN s = 1 .. Len(s) /\ DOMAIN Tail(s) = 1 .. Len(s) - 1
  BY <1>1
<1>3. 1 \in 1 .. Len(s) /\ \A i \in 1 .. Len(s) - 1 : i + 1 \in 1 .. Len(s) /\ i + 1 # 1
  BY <1>1
<1>4. \A j \in 1 .. Len(s) : j = 1 \/ (j - 1 \in 1 .. Len(s) - 1 /\ (j - 1) + 1 = j)
  BY <1>1
<1>5. Distinct(Tail(s))
  <2> SUFFICES ASSUME NEW i \in 1 .. Len(s) - 1, NEW j \in 1 .. Len(s) - 1,
                      Tail(s)[i] = Tail(s)[j]
               PROVE  i = j
    BY <1>1 DEF Distinct
  <2>1. s[i + 1] = s[j + 1]
    BY <1>1
  <2>2. i + 1 = j + 1
    BY <1>3, <2>1 DEF Distinct
  <2> QED
    BY <2>2
<1>6. ToSet(Tail(s)) = {s[i + 1] : i \in 1 .. Len(s) - 1}
  BY <1>1, <1>2 DEF ToSet
<1>7. ToSet(s) = {s[i] : i \in 1 .. Len(s)}
  BY <1>2 DEF ToSet
<1>8. ToSet(Tail(s)) = ToSet(s) \ {Head(s)}
  <2>1. \A i \in 1 .. Len(s) - 1 : s[i + 1] \in ToSet(s) /\ s[i + 1] # s[1]
    BY <1>3, <1>7 DEF Distinct
  <2>2. \A j \in 1 .. Len(s) : s[j] # s[1] => s[j] \in ToSet(Tail(s))
    BY <1>4, <1>6
  <2> QED
    BY <1>1, <1>6, <1>7, <2>1, <2>2
<1> QED
  BY <1>1, <1>3, <1>5, <1>7, <1>8

LEMMA EmptyFacts == Distinct(<<>>) /\ ToSet(<<>>) = {}
BY DEF Distinct, ToSet

LEMMA Members ==
  ASSUME Inv
  PROVE  /\ ToSet(queue) \subseteq Items /\ ToSet(dropped) \subseteq Items
         /\ None \notin Items /\ Callers \subseteq Items
         /\ Loop \in Runners /\ Callers \subseteq Runners /\ Loop \notin Callers
         /\ queue = <<>> => ToSet(queue) = {}
         /\ dropped = <<>> => ToSet(dropped) = {}
<1>1. \A s \in Seq(Items) : ToSet(s) \subseteq Items
  BY DEF ToSet
<1> QED
  BY <1>1, EmptyFacts, ConstantsAssumption DEF Items, Runners, Inv, Types

--------------------------------------------------------------------------------
(* Hands. *)

\* A wrapper is in one hand, at one stage.
LEMMA OneHand ==
  ASSUME Inv, NEW c \in Callers
  PROVE  /\ \A r \in Runners : hand[r] = c =>
              /\ InHand(c)
              /\ Popped(c) <=> handAt[r] = "popped"
              /\ InBody(c) <=> handAt[r] = "body"
              /\ Leaving(c) <=> handAt[r] = "leaving"
              /\ ~Queued(c)
         /\ InHand(c) => ~Queued(c)
<1>1. c # None
  BY Members
<1>2. ASSUME NEW r \in Runners, hand[r] = c
      PROVE  /\ Popped(c) <=> handAt[r] = "popped"
             /\ InBody(c) <=> handAt[r] = "body"
             /\ Leaving(c) <=> handAt[r] = "leaving"
  BY <1>1, <1>2 DEF Inv, Places, Popped, InBody, Leaving
<1>3. ASSUME NEW r \in Runners, hand[r] = c
      PROVE  InHand(c) /\ ~Queued(c)
  BY <1>1, <1>2, <1>3 DEF Inv, Types, Places, InHand
<1>4. InHand(c) => \E r \in Runners : hand[r] = c
  BY DEF InHand, Popped, InBody, Leaving
<1> QED
  BY <1>2, <1>3, <1>4

\* One thread's hand changes: a wrapper it neither held nor holds is where it was.
LEMMA OtherHands ==
  ASSUME Types, NEW r \in Runners, NEW x, NEW y,
         hand' = [hand EXCEPT ![r] = x], handAt' = [handAt EXCEPT ![r] = y],
         NEW d \in Callers, d # x, hand[r] # d
  PROVE  /\ Popped(d)' <=> Popped(d)
         /\ InBody(d)' <=> InBody(d)
         /\ Leaving(d)' <=> Leaving(d)
         /\ hand[d] = d => hand'[d] = d
<1>1. \A q \in Runners : q # r => hand'[q] = hand[q] /\ handAt'[q] = handAt[q]
  BY DEF Types
<1>2. hand'[r] = x
  BY DEF Types
<1>3. d \in Runners
  BY DEF Runners
<1> QED
  BY <1>1, <1>2, <1>3 DEF Popped, InBody, Leaving

\* The wrapper that comes to a hand, or that changes its stage there.
LEMMA ThisHand ==
  ASSUME Types, NEW r \in Runners, NEW d \in Callers, NEW y,
         hand' = [hand EXCEPT ![r] = d], handAt' = [handAt EXCEPT ![r] = y],
         \A q \in Runners : hand[q] = d => q = r
  PROVE  /\ Popped(d)' <=> y = "popped"
         /\ InBody(d)' <=> y = "body"
         /\ Leaving(d)' <=> y = "leaving"
         /\ hand'[r] = d
<1>1. \A q \in Runners : q # r => hand'[q] = hand[q]
  BY DEF Types
<1>2. hand'[r] = d /\ handAt'[r] = y
  BY DEF Types
<1> QED
  BY <1>1, <1>2 DEF Popped, InBody, Leaving

\* The wrapper that leaves a hand.
LEMMA EmptyHand ==
  ASSUME Types, NEW r \in Runners, NEW d \in Callers, NEW y, d # None,
         hand' = [hand EXCEPT ![r] = None], handAt' = [handAt EXCEPT ![r] = y],
         \A q \in Runners : hand[q] = d => q = r
  PROVE  ~Popped(d)' /\ ~InBody(d)' /\ ~Leaving(d)'
<1>1. \A q \in Runners : q # r => hand'[q] = hand[q]
  BY DEF Types
<1>2. hand'[r] = None
  BY DEF Types
<1> QED
  BY <1>1, <1>2 DEF Popped, InBody, Leaving

\* A thread's stage alone changes.
LEMMA SameHand ==
  ASSUME Types, NEW r \in Runners
  PROVE  hand = [hand EXCEPT ![r] = hand[r]]
BY DEF Types

\* Hands that a step leaves alone.
LEMMA StillHands ==
  ASSUME hand' = hand, handAt' = handAt
  PROVE  \A d \in Callers : /\ Popped(d)' <=> Popped(d)
                            /\ InBody(d)' <=> InBody(d)
                            /\ Leaving(d)' <=> Leaving(d)
                            /\ hand[d] = d => hand'[d] = d
BY DEF Popped, InBody, Leaving

\* A caller that a step leaves alone, wrapper included.
LEMMA Apart ==
  ASSUME NEW d \in Callers, Wrapper(d), Count(d), mode' = mode,
         at'[d] = at[d], settled'[d] = settled[d], runs'[d] = runs[d], threw'[d] = threw[d],
         stolen'[d] = stolen[d], Queued(d)' <=> Queued(d), Popped(d)' <=> Popped(d),
         InBody(d)' <=> InBody(d), Leaving(d)' <=> Leaving(d), hand[d] = d => hand'[d] = d
  PROVE  Wrapper(d)' /\ Count(d)'
BY DEF Wrapper, Count, InHand

LEMMA InitInv == Init => Inv
<1> SUFFICES ASSUME Init PROVE Inv
  OBVIOUS
<1> USE ConstantsAssumption DEF Init
<1>1. Types
  <2>1. queue \in Seq(Items) /\ dropped \in Seq(Items)
    OBVIOUS
  <2>2. stamp \in [Items -> 0 .. MaxEpoch] /\ epoch \in 0 .. MaxEpoch /\ posts \in 0 .. MaxPosts
    OBVIOUS
  <2>3. runs \in [Callers -> Nat]
    OBVIOUS
  <2>4. hand \in [Runners -> Items \cup {None}]
    OBVIOUS
  <2> QED
    BY <2>1, <2>2, <2>3, <2>4 DEF Types, GateStates
<1>2. /\ \A i \in Items \cup {None} : ~Queued(i)
      /\ \A c \in Callers : ~Queued(c) /\ ~Popped(c) /\ ~InBody(c) /\ ~Leaving(c)
  BY EmptyFacts DEF Queued, Popped, InBody, Leaving
<1>3. Stops /\ Places /\ Drives /\ Shut
  <2>1. Stops /\ Shut
    BY DEF Stops, Stopped, Shut, Runners
  <2>2. Places
    BY <1>2, EmptyFacts DEF Places
  <2>3. Drives
    BY DEF Drives, Runners
  <2> QED
    BY <2>1, <2>2, <2>3
<1>4. Callings
  BY <1>2 DEF Callings, Wrapper, Count, InHand
<1> QED
  BY <1>1, <1>3, <1>4 DEF Inv

--------------------------------------------------------------------------------
(* The caller's steps. *)

LEMMA CallInv ==
  ASSUME Inv, NEW c \in Callers, Call(c)
  PROVE  Inv'
<1> USE Members DEF Inv
<1>1. /\ UNCHANGED <<mode, gstate, epoch, stamp, late, registered, stopAt, dropped, exited,
                     queue, hand, handAt, pass>>
      /\ at[c] \in Outside /\ posts < MaxPosts /\ posts' = posts + 1
      /\ c \in Gated => gstate # "Closed"
      /\ ~Alive(c)
      /\ settled' = [settled EXCEPT ![c] = "no"] /\ threw' = [threw EXCEPT ![c] = FALSE]
      /\ stolen' = [stolen EXCEPT ![c] = FALSE]
      /\ \/ at' = [at EXCEPT ![c] = "target"] /\ runs' = [runs EXCEPT ![c] = 0]
         \/ at' = [at EXCEPT ![c] = "standin"] /\ runs' = [runs EXCEPT ![c] = 1]
  BY DEF Call, gateVars, stopVars, runVars
<1>2. Types'
  <2>1. runs' \in [Callers -> Nat]
    <3>1. \E n \in {0, 1} : runs' = [runs EXCEPT ![c] = n]
      BY <1>1
    <3> QED
      BY <3>1 DEF Types
  <2>2. at' \in [Callers -> {"idle", "target", "push", "wait", "draining", "check",
                            "standin", "returned"}]
    <3>1. \E a \in {"target", "standin"} : at' = [at EXCEPT ![c] = a]
      BY <1>1
    <3> QED
      BY <3>1 DEF Types
  <2>3. settled' \in [Callers -> {"no", "ran", "dropped"}]
    BY <1>1 DEF Types
  <2>4. threw' \in [Callers -> BOOLEAN] /\ stolen' \in [Callers -> BOOLEAN]
    BY <1>1 DEF Types
  <2>5. UNCHANGED <<mode, gstate, epoch, stamp, late, registered, stopAt, dropped, exited,
                    queue, hand, handAt, pass>>
    BY <1>1
  <2>6. posts' \in 0 .. MaxPosts
    BY <1>1, ConstantsAssumption DEF Types
  <2> QED
    BY <2>1, <2>2, <2>3, <2>4, <2>5, <2>6 DEF Types
<1>3. ~Queued(c) /\ ~InHand(c)
  BY <1>1 DEF Alive, Accepted, HandsAt, Queued, InHand, Popped, InBody, Leaving
<1>4. Stops' /\ Places'
  BY <1>1 DEF Stops, Stopped, Places, Queued
<1>5. Drives' /\ Shut'
  <2>1. pass[c] = "out" \/ mode # "Manual"
    BY <1>1 DEF Drives, Outside
  <2>2. Drives'
    BY <1>1, <2>1 DEF Types, Drives
  <2>3. Shut'
    BY <1>1 DEF Types, Shut
  <2> QED
    BY <2>2, <2>3
<1>9. \A d \in Callers : /\ Popped(d)' <=> Popped(d)
                         /\ InBody(d)' <=> InBody(d)
                         /\ Leaving(d)' <=> Leaving(d)
                         /\ hand[d] = d => hand'[d] = d
  BY <1>1, StillHands
<1>6. Callings'
  <2>1. Wrapper(c)' /\ Count(c)'
    <3>1. ~Queued(c)' /\ ~InHand(c)' /\ ~Popped(c)' /\ ~InBody(c)' /\ ~Leaving(c)'
      BY <1>1, <1>3, <1>9 DEF Queued, InHand
    <3>2. /\ settled'[c] = "no" /\ ~threw'[c] /\ ~stolen'[c]
          /\ (at'[c] = "target" /\ runs'[c] = 0) \/ (at'[c] = "standin" /\ runs'[c] = 1)
      BY <1>1 DEF Types
    <3> QED
      BY <3>1, <3>2 DEF Wrapper, Count
  <2>2. ASSUME NEW d \in Callers, d # c PROVE Wrapper(d)' /\ Count(d)'
    BY <1>1, <2>2, <1>9, Apart DEF Types, Callings, Queued
  <2> QED
    BY <2>1, <2>2 DEF Callings
<1> QED
  BY <1>2, <1>4, <1>5, <1>6

\* A step of the caller that moves no wrapper into the queue.
LEMMA PostToInv ==
  ASSUME Inv, NEW c \in Callers, PostTo(c)
  PROVE  Inv'
<1> USE Members DEF Inv
<1>1. /\ UNCHANGED <<mode, gstate, epoch, late, registered, stopAt, dropped, exited,
                     queue, hand, handAt, pass, posts, runs, threw, stolen>>
      /\ at[c] = "target"
      /\ \/ /\ AcceptsPost(gstate, IF c \in Gated THEN 1 ELSE 0)
            /\ at' = [at EXCEPT ![c] = "push"] /\ stamp' = [stamp EXCEPT ![c] = epoch]
            /\ settled' = settled
         \/ /\ at' = [at EXCEPT ![c] = WaitAt] /\ stamp' = stamp
            /\ settled' = Settle(c, "dropped")
  BY DEF PostTo, ownerVars, stopVars, workVars, runVars
<1>2. Types'
  <2>1. at' \in [Callers -> {"idle", "target", "push", "wait", "draining", "check",
                            "standin", "returned"}]
    BY <1>1 DEF Types, WaitAt
  <2>2. stamp' \in [Items -> 0 .. MaxEpoch]
    <3>1. stamp' \in {stamp, [stamp EXCEPT ![c] = epoch]}
      BY <1>1
    <3>2. stamp \in [Items -> 0 .. MaxEpoch] /\ epoch \in 0 .. MaxEpoch
      BY DEF Types
    <3> QED
      BY <3>1, <3>2
  <2>3. settled' \in [Callers -> {"no", "ran", "dropped"}]
    BY <1>1 DEF Types, Settle
  <2> QED
    BY <1>1, <2>1, <2>2, <2>3 DEF Types
<1>3. /\ ~Queued(c) /\ ~InHand(c) /\ settled[c] = "no" /\ runs[c] = 0 /\ ~threw[c]
      /\ ~stolen[c]
  BY <1>1 DEF Callings, Wrapper
<1>4. Stops' /\ Places'
  BY <1>1 DEF Stops, Stopped, Places, Queued
<1>5. Drives' /\ Shut'
  <2>1. pass[c] = "out" \/ mode # "Manual"
    BY <1>1 DEF Drives
  <2>2. Drives'
    BY <1>1, <2>1 DEF Types, Drives, WaitAt
  <2>3. Shut'
    BY <1>1 DEF Types, Shut, WaitAt, AcceptsPost, Outside
  <2> QED
    BY <2>2, <2>3
<1>9. \A d \in Callers : /\ Popped(d)' <=> Popped(d)
                         /\ InBody(d)' <=> InBody(d)
                         /\ Leaving(d)' <=> Leaving(d)
                         /\ hand[d] = d => hand'[d] = d
  BY <1>1, StillHands
<1>6. Callings'
  <2>1. Wrapper(c)' /\ Count(c)'
    <3>1. ~Queued(c)' /\ ~InHand(c)' /\ ~Popped(c)' /\ ~InBody(c)' /\ ~Leaving(c)'
      BY <1>1, <1>3, <1>9 DEF Queued, InHand
    <3>2. /\ runs'[c] = 0 /\ ~threw'[c] /\ ~stolen'[c]
          /\ \/ at'[c] = "push" /\ settled'[c] = "no"
             \/ at'[c] \in {"wait", "draining"} /\ settled'[c] = "dropped"
      BY <1>1, <1>3 DEF Types, WaitAt, Settle
    <3> QED
      BY <3>1, <3>2 DEF Wrapper, Count
  <2>2. ASSUME NEW d \in Callers, d # c PROVE Wrapper(d)' /\ Count(d)'
    BY <1>1, <2>2, <1>9, Apart DEF Types, Callings, Queued, Settle
  <2> QED
    BY <2>1, <2>2 DEF Callings
<1> QED
  BY <1>2, <1>4, <1>5, <1>6

LEMMA PushInv ==
  ASSUME Inv, NEW c \in Callers, Push(c)
  PROVE  Inv'
<1> USE Members DEF Inv
<1>1. /\ UNCHANGED <<mode, gstate, epoch, stamp, late, registered, stopAt, dropped, exited,
                     hand, handAt, pass, posts, runs, threw, stolen>>
      /\ at[c] = "push" /\ at' = [at EXCEPT ![c] = WaitAt]
  BY DEF Push, gateVars, stopVars, runVars
<1>2. /\ ~Queued(c) /\ ~InHand(c) /\ settled[c] = "no" /\ runs[c] = 0 /\ ~threw[c]
      /\ ~stolen[c] /\ \A r \in Runners : hand[r] # c
  BY <1>1, OneHand DEF Callings, Wrapper
<1>3. \/ Stopped /\ settled' = Settle(c, "dropped") /\ queue' = queue
      \/ ~Stopped /\ settled' = settled /\ queue' = Append(queue, c)
  BY DEF Push
<1>4. /\ queue' \in Seq(Items) /\ Distinct(queue)'
      /\ ToSet(queue)' = ToSet(queue) \cup (IF Stopped THEN {} ELSE {c})
  <2>1. queue \in Seq(Items) /\ Distinct(queue) /\ c \in Items /\ c \notin ToSet(queue)
    BY <1>2 DEF Types, Places, Queued
  <2>2. CASE Stopped
    BY <1>3, <2>1, <2>2
  <2>3. CASE ~Stopped
    <3>1. /\ Append(queue, c) \in Seq(Items) /\ Distinct(Append(queue, c))
          /\ ToSet(Append(queue, c)) = ToSet(queue) \cup {c}
      BY <2>1, AppendFacts
    <3> QED
      BY <1>3, <2>3, <3>1
  <2> QED
    BY <2>2, <2>3
<1>5. Types'
  <2>1. at' \in [Callers -> {"idle", "target", "push", "wait", "draining", "check",
                            "standin", "returned"}]
    BY <1>1 DEF Types, WaitAt
  <2>2. settled' \in [Callers -> {"no", "ran", "dropped"}]
    <3>1. settled' = settled \/ settled' = Settle(c, "dropped")
      BY <1>3
    <3>2. Settle(c, "dropped") \in [Callers -> {"no", "ran", "dropped"}]
      BY DEF Types, Settle
    <3> QED
      BY <3>1, <3>2 DEF Types
  <2> QED
    BY <1>1, <1>4, <2>1, <2>2 DEF Types
<1>6. Stops' /\ Places'
  BY <1>1, <1>2, <1>3, <1>4 DEF Stops, Stopped, Places, Queued
<1>7. Drives' /\ Shut'
  <2>1. pass[c] = "out" \/ mode # "Manual"
    BY <1>1 DEF Drives
  <2> QED
    BY <1>1, <2>1 DEF Types, Drives, Shut, WaitAt
<1>9. \A d \in Callers : /\ Popped(d)' <=> Popped(d)
                         /\ InBody(d)' <=> InBody(d)
                         /\ Leaving(d)' <=> Leaving(d)
                         /\ hand[d] = d => hand'[d] = d
  BY <1>1, StillHands
<1>8. Callings'
  <2>1. Wrapper(c)' /\ Count(c)'
    <3>1. ~InHand(c)' /\ ~Popped(c)' /\ ~InBody(c)' /\ ~Leaving(c)'
      BY <1>2, <1>9 DEF InHand
    <3>2. /\ runs'[c] = 0 /\ ~threw'[c] /\ ~stolen'[c]
          /\ at'[c] = IF mode' = "Manual" THEN "draining" ELSE "wait"
          /\ \/ Queued(c)' /\ settled'[c] = "no"
             \/ ~Queued(c)' /\ settled'[c] = "dropped"
      BY <1>1, <1>2, <1>3, <1>4 DEF Types, WaitAt, Settle, Queued
    <3> QED
      BY <3>1, <3>2 DEF Wrapper, Count
  <2>2. ASSUME NEW d \in Callers, d # c PROVE Wrapper(d)' /\ Count(d)'
    BY <1>1, <1>3, <1>4, <2>2, <1>9, Apart DEF Types, Callings, Queued, Settle
  <2> QED
    BY <2>1, <2>2 DEF Callings
<1> QED
  BY <1>5, <1>6, <1>7, <1>8

\* The caller leaves its wait.
LEMMA LeavesInv ==
  ASSUME Inv, NEW c \in Callers, Waited(c) \/ DrainOver(c)
  PROVE  Inv'
<1> USE Members DEF Inv
<1>1. /\ UNCHANGED <<mode, gstate, epoch, stamp, late, registered, stopAt, dropped, exited,
                     queue, hand, handAt, pass, posts, settled, runs, threw, stolen>>
      /\ at' = [at EXCEPT ![c] = "check"]
      /\ \/ at[c] = "wait" /\ settled[c] # "no"
         \/ at[c] = "draining" /\ pass[c] = "out"
  BY DEF Waited, DrainOver, GoesOn, gateVars, ownerVars, stopVars, workVars, runVars
<1>2. Types' /\ Stops' /\ Places'
  BY <1>1 DEF Types, Stops, Stopped, Places, Queued
<1>3. Drives' /\ Shut'
  <2>1. pass[c] = "out"
    BY <1>1 DEF Drives, Types
  <2>2. Drives'
    BY <1>1, <2>1 DEF Types, Drives
  <2>3. Shut'
    BY <1>1 DEF Types, Shut, Outside
  <2> QED
    BY <2>2, <2>3
<1>9. \A d \in Callers : /\ Popped(d)' <=> Popped(d)
                         /\ InBody(d)' <=> InBody(d)
                         /\ Leaving(d)' <=> Leaving(d)
                         /\ hand[d] = d => hand'[d] = d
  BY <1>1, StillHands
<1>4. Callings'
  <2>1. Wrapper(c)' /\ Count(c)'
    <3>1. settled[c] # "no" \/ (mode = "Manual" /\ hand[c] # c)
      BY <1>1 DEF Drives, Types
    <3>2. InHand(c) => settled[c] # "no" \/ stolen[c]
      BY <3>1 DEF Callings, Wrapper
    <3>3. at'[c] = "check" /\ at[c] \in {"wait", "draining"}
      BY <1>1 DEF Types
    <3>4. /\ Queued(c)' <=> Queued(c)
          /\ Queued(c) => settled[c] = "no"
      BY <1>1 DEF Queued, Callings, Wrapper
    <3> QED
      BY <1>1, <1>9, <3>1, <3>2, <3>3, <3>4 DEF Callings, Wrapper, Count, InHand
  <2>2. ASSUME NEW d \in Callers, d # c PROVE Wrapper(d)' /\ Count(d)'
    BY <1>1, <2>2, <1>9, Apart DEF Types, Callings, Queued
  <2> QED
    BY <2>1, <2>2 DEF Callings
<1> QED
  BY <1>2, <1>3, <1>4

LEMMA CheckRanInv ==
  ASSUME Inv, NEW c \in Callers, CheckRan(c)
  PROVE  Inv'
<1> USE Members DEF Inv
<1>1. /\ UNCHANGED <<mode, gstate, epoch, stamp, late, registered, stopAt, dropped, exited,
                     queue, hand, handAt, pass, posts, settled, threw, stolen>>
      /\ at[c] = "check"
      /\ \/ /\ settled[c] = "ran"
            /\ at' = [at EXCEPT ![c] = "returned"] /\ runs' = runs
         \/ /\ settled[c] # "ran"
            /\ at' = [at EXCEPT ![c] = "standin"] /\ runs' = [runs EXCEPT ![c] = @ + 1]
  BY DEF CheckRan, gateVars, ownerVars, stopVars, workVars, runVars
<1>2. Types'
  <2>1. runs' \in [Callers -> Nat]
    <3>1. runs[c] + 1 \in Nat
      BY DEF Types
    <3>2. runs' \in {runs, [runs EXCEPT ![c] = runs[c] + 1]}
      BY <1>1
    <3> QED
      BY <3>1, <3>2 DEF Types
  <2>2. at' \in [Callers -> {"idle", "target", "push", "wait", "draining", "check",
                            "standin", "returned"}]
    BY <1>1 DEF Types
  <2> QED
    BY <1>1, <2>1, <2>2 DEF Types
<1>3. Stops' /\ Places'
  BY <1>1 DEF Stops, Stopped, Places, Queued
<1>4. Drives' /\ Shut'
  <2>1. pass[c] = "out"
    BY <1>1 DEF Drives, Types
  <2>2. Drives'
    BY <1>1, <2>1 DEF Types, Drives
  <2>3. Shut'
    BY <1>1 DEF Types, Shut, Outside
  <2> QED
    BY <2>2, <2>3
<1>9. \A d \in Callers : /\ Popped(d)' <=> Popped(d)
                         /\ InBody(d)' <=> InBody(d)
                         /\ Leaving(d)' <=> Leaving(d)
                         /\ hand[d] = d => hand'[d] = d
  BY <1>1, StillHands
<1>5. Callings'
  <2>1. Wrapper(c) /\ Count(c)
    BY DEF Callings
  <2>3. /\ Queued(c)' <=> Queued(c)
        /\ at'[c] \in {"standin", "returned"}
        /\ runs[c] \in Nat
        /\ settled'[c] = settled[c] /\ threw'[c] = threw[c] /\ stolen'[c] = stolen[c]
        /\ mode' = mode
    BY <1>1 DEF Queued, Types
  <2>4. Wrapper(c)'
    <3>1. mode # "Dedicated" \/ ~Queued(c)
      BY <1>1, <2>1 DEF Wrapper
    <3>2. Popped(c) \/ InBody(c) => stolen[c]
      BY <1>1, <2>1 DEF Wrapper
    <3>3. hand[c] = c => hand'[c] = c
      BY <1>1
    <3> QED
      BY <1>1, <1>9, <2>1, <2>3, <3>1, <3>2, <3>3 DEF Wrapper, InHand
  <2>5. Count(c)'
    <3>1. \/ runs[c] = 0
          \/ runs[c] = 1 /\ (settled[c] = "ran" \/ threw[c] \/ stolen[c])
      BY <1>1, <2>1, <2>3 DEF Count, Wrapper, InHand, Types
    <3>2. settled[c] = "ran" => runs[c] = 1 /\ ~Queued(c) /\ ~Popped(c)
      BY <1>1, <2>1 DEF Count, Wrapper
    <3>3. Queued(c) \/ Popped(c) => runs[c] = 0 /\ ~threw[c]
      BY <1>1, <2>1 DEF Count
    <3>4. runs'[c] = IF settled[c] = "ran" THEN runs[c] ELSE runs[c] + 1
      BY <1>1 DEF Types
    <3> QED
      BY <1>9, <2>3, <3>1, <3>2, <3>3, <3>4 DEF Count
  <2>2. ASSUME NEW d \in Callers, d # c PROVE Wrapper(d)' /\ Count(d)'
    BY <1>1, <2>2, <1>9, Apart DEF Types, Callings, Queued
  <2> QED
    BY <2>4, <2>5, <2>2 DEF Callings
<1> QED
  BY <1>2, <1>3, <1>4, <1>5

LEMMA StandInEndsInv ==
  ASSUME Inv, NEW c \in Callers, StandInEnds(c)
  PROVE  Inv'
<1> USE Members DEF Inv
<1>1. /\ UNCHANGED <<mode, gstate, epoch, stamp, late, registered, stopAt, dropped, exited,
                     queue, hand, handAt, pass, posts, settled, runs, threw, stolen>>
      /\ at[c] = "standin" /\ at' = [at EXCEPT ![c] = "returned"]
  BY DEF StandInEnds, GoesOn, gateVars, ownerVars, stopVars, workVars, runVars
<1>2. Types' /\ Stops' /\ Places'
  BY <1>1 DEF Types, Stops, Stopped, Places, Queued
<1>3. Drives' /\ Shut'
  <2>1. pass[c] = "out" \/ mode # "Manual"
    BY <1>1 DEF Drives
  <2>2. Drives'
    BY <1>1, <2>1 DEF Types, Drives
  <2>3. Shut'
    BY <1>1 DEF Types, Shut, Outside
  <2> QED
    BY <2>2, <2>3
<1>9. \A d \in Callers : /\ Popped(d)' <=> Popped(d)
                         /\ InBody(d)' <=> InBody(d)
                         /\ Leaving(d)' <=> Leaving(d)
                         /\ hand[d] = d => hand'[d] = d
  BY <1>1, StillHands
<1>4. Callings'
  <2>1. Wrapper(c)' /\ Count(c)'
    <3>1. /\ Queued(c)' <=> Queued(c)
          /\ at'[c] = "returned"
          /\ hand[c] = c => hand'[c] = c
      BY <1>1 DEF Queued, Types
    <3> QED
      BY <1>1, <1>9, <3>1 DEF Callings, Wrapper, Count, InHand
  <2>2. ASSUME NEW d \in Callers, d # c PROVE Wrapper(d)' /\ Count(d)'
    BY <1>1, <2>2, <1>9, Apart DEF Types, Callings, Queued
  <2> QED
    BY <2>1, <2>2 DEF Callings
<1> QED
  BY <1>2, <1>3, <1>4

--------------------------------------------------------------------------------
(* The owner's steps. *)

LEMMA PostOtherInv ==
  ASSUME Inv, NEW k \in Others, PostOther(k)
  PROVE  Inv'
<1> USE Members DEF Inv
<1>1. /\ UNCHANGED <<mode, gstate, epoch, late, registered, stopAt, dropped, exited,
                     hand, handAt, pass, at, settled, runs, threw, stolen>>
      /\ ~Stopped /\ posts < MaxPosts /\ posts' = posts + 1 /\ gstate # "Closed"
      /\ ~Alive(k)
      /\ queue' = Append(queue, k) /\ stamp' = [stamp EXCEPT ![k] = epoch]
  BY DEF PostOther, stopVars, runVars, callVars, waitVars, AcceptsPost
<1>2. k \in Items /\ k \notin Callers /\ k # None /\ ~Queued(k)
  BY <1>1, ConstantsAssumption DEF Items, Alive, Accepted, Queued
<1>3. \A r \in Runners : hand[r] # k
  BY <1>1, <1>2 DEF Alive, Accepted, HandsAt, Places, Types
<1>4. /\ queue' \in Seq(Items) /\ Distinct(queue)'
      /\ ToSet(queue)' = ToSet(queue) \cup {k}
  <2>1. /\ Append(queue, k) \in Seq(Items) /\ Distinct(Append(queue, k))
        /\ ToSet(Append(queue, k)) = ToSet(queue) \cup {k}
    BY <1>2, AppendFacts DEF Types, Places, Queued
  <2> QED
    BY <1>1, <2>1
<1>5. Types'
  <2>1. posts' \in 0 .. MaxPosts
    BY <1>1, ConstantsAssumption DEF Types
  <2> QED
    BY <1>1, <1>2, <1>4, <2>1 DEF Types
<1>6. Stops' /\ Places'
  BY <1>1, <1>2, <1>3, <1>4 DEF Stops, Stopped, Places, Queued
<1>7. Drives' /\ Shut'
  BY <1>1 DEF Drives, Shut
<1>8. Callings'
  <2>1. ASSUME NEW d \in Callers PROVE Wrapper(d)' /\ Count(d)'
    <3>1. d # k
      BY <1>2
    <3>2. Queued(d)' <=> Queued(d)
      BY <1>1, <1>4, <3>1 DEF Queued
    <3>3. hand' = hand /\ handAt' = handAt
      BY <1>1
    <3> QED
      BY <1>1, <3>2, <3>3, StillHands, Apart DEF Callings
  <2> QED
    BY <2>1 DEF Callings
<1> QED
  BY <1>5, <1>6, <1>7, <1>8

LEMMA StartPassInv ==
  ASSUME Inv, NEW r \in Runners, StartPass(r)
  PROVE  Inv'
<1> USE Members DEF Inv
<1>1. /\ UNCHANGED <<mode, gstate, epoch, stamp, late, registered, stopAt, dropped, exited,
                     queue, hand, handAt, posts, at, settled, runs, threw, stolen>>
      /\ mode = "Manual" /\ pass[r] = "out" /\ (r \in Callers => at[r] = "draining")
      /\ pass' = [pass EXCEPT ![r] = "in"]
  BY DEF StartPass, gateVars, stopVars, callVars, waitVars
<1>2. Types' /\ Stops' /\ Places'
  BY <1>1 DEF Types, Stops, Stopped, Places, Queued
<1>3. Shut'
  BY <1>1 DEF Shut
<1>4. Drives'
  <2>1. ASSUME NEW q \in Runners, hand'[q] # None PROVE pass'[q] = "ran"
    BY <1>1, <2>1 DEF Drives, Types
  <2>2. ASSUME NEW c \in Callers, pass'[c] # "out" PROVE at'[c] = "draining"
    BY <1>1, <2>2 DEF Drives, Types
  <2> QED
    BY <1>1, <2>1, <2>2 DEF Drives
<1>5. Callings'
  <2>1. ASSUME NEW d \in Callers PROVE Wrapper(d)' /\ Count(d)'
    <3>1. (Queued(d)' <=> Queued(d)) /\ hand' = hand /\ handAt' = handAt
      BY <1>1 DEF Queued
    <3> QED
      BY <1>1, <3>1, StillHands, Apart DEF Callings
  <2> QED
    BY <2>1 DEF Callings
<1> QED
  BY <1>2, <1>3, <1>4, <1>5

LEMMA EndPassInv ==
  ASSUME Inv, NEW r \in Runners, EndPass(r)
  PROVE  Inv'
<1> USE Members DEF Inv
<1>1. /\ UNCHANGED <<mode, gstate, epoch, stamp, late, registered, stopAt, dropped, exited,
                     queue, hand, handAt, posts, settled, runs, threw, stolen>>
      /\ pass[r] # "out" /\ hand[r] = None
      /\ pass' = [pass EXCEPT ![r] = "out"]
      /\ at' = [c \in Callers |-> IF c = r /\ pass[r] = "in" THEN "check" ELSE at[c]]
  BY DEF EndPass, gateVars, stopVars
<1>2. mode = "Manual"
  BY <1>1 DEF Types, Drives
<1>3. \A c \in Callers : \/ at'[c] = at[c]
                         \/ c = r /\ at[c] = "draining" /\ at'[c] = "check"
  BY <1>1, <1>2 DEF Drives
<1>4. Types'
  <2>1. at' \in [Callers -> {"idle", "target", "push", "wait", "draining", "check",
                            "standin", "returned"}]
    BY <1>1 DEF Types
  <2> QED
    BY <1>1, <2>1 DEF Types
<1>5. Stops' /\ Places'
  BY <1>1 DEF Stops, Stopped, Places, Queued
<1>6. Shut'
  BY <1>1, <1>3 DEF Shut, Outside
<1>7. Drives'
  <2>1. ASSUME NEW q \in Runners, hand'[q] # None PROVE pass'[q] = "ran"
    BY <1>1, <1>2, <2>1 DEF Drives, Types
  <2>2. ASSUME NEW c \in Callers, pass'[c] # "out" PROVE at'[c] = "draining"
    BY <1>1, <1>2, <1>3, <2>2 DEF Drives, Types
  <2>3. \A c \in Callers : at'[c] # "wait"
    BY <1>2, <1>3 DEF Drives
  <2> QED
    BY <1>1, <1>2, <2>1, <2>2, <2>3 DEF Drives
<1>9. \A d \in Callers : /\ Popped(d)' <=> Popped(d)
                         /\ InBody(d)' <=> InBody(d)
                         /\ Leaving(d)' <=> Leaving(d)
                         /\ hand[d] = d => hand'[d] = d
  BY <1>1, StillHands
<1>8. Callings'
  <2> SUFFICES ASSUME NEW d \in Callers PROVE Wrapper(d)' /\ Count(d)'
    BY DEF Callings
  <2>1. (Queued(d)' <=> Queued(d)) /\ Wrapper(d) /\ Count(d)
    BY <1>1 DEF Queued, Callings
  <2>2. CASE at'[d] = at[d]
    BY <1>1, <1>9, <2>1, <2>2, Apart
  <2>3. CASE d = r /\ at[d] = "draining" /\ at'[d] = "check"
    <3>1. hand[d] # d
      BY <1>1, <2>3
    <3>2. InHand(d) => stolen[d]
      BY <1>2, <2>1, <3>1 DEF Wrapper
    <3>3. mode' = "Manual" /\ UNCHANGED <<settled, runs, threw, stolen>>
      BY <1>1, <1>2
    <3> QED
      BY <1>9, <2>1, <2>3, <3>1, <3>2, <3>3 DEF Wrapper, Count, InHand
  <2> QED
    BY <1>3, <2>2, <2>3
<1> QED
  BY <1>4, <1>5, <1>6, <1>7, <1>8

LEMMA PopInv ==
  ASSUME Inv, NEW r \in Runners, Pop(r)
  PROVE  Inv'
<1> USE Members DEF Inv
<1>1. /\ UNCHANGED <<mode, gstate, epoch, stamp, late, registered, stopAt, dropped, exited,
                     posts, at, settled, runs, threw>>
      /\ ~Stopped /\ queue # <<>> /\ hand[r] = None
      /\ IF mode = "Manual" THEN pass[r] # "out" ELSE r = Loop
      /\ queue' = Tail(queue)
      /\ pass' = [pass EXCEPT ![r] = IF mode = "Manual" THEN "ran" ELSE @]
  BY DEF Pop, gateVars, stopVars, waitVars
<1> DEFINE i == Head(queue)
<1>2. /\ hand' = [hand EXCEPT ![r] = i] /\ handAt' = [handAt EXCEPT ![r] = "popped"]
      /\ stolen' = [c \in Callers |-> stolen[c] \/ (mode = "Manual" /\ i = c /\ r # c)]
  BY DEF Pop
<1>3. /\ i \in Items /\ i # None /\ i \in ToSet(queue)
      /\ queue' \in Seq(Items) /\ Distinct(queue)'
      /\ ToSet(queue)' = ToSet(queue) \ {i}
  <2>1. /\ Head(queue) \in Items /\ Head(queue) \in ToSet(queue)
        /\ Tail(queue) \in Seq(Items) /\ Distinct(Tail(queue))
        /\ ToSet(Tail(queue)) = ToSet(queue) \ {Head(queue)}
    BY <1>1, TailFacts DEF Types, Places
  <2> QED
    BY <1>1, <2>1
<1> HIDE DEF i
<1>4. dropped = <<>> /\ ToSet(dropped) = {} /\ ~exited
  BY <1>1 DEF Stops
<1>5. \A q \in Runners : hand[q] # i
  BY <1>3 DEF Places, Queued
<1>6. \A q \in Runners : hand'[q] = (IF q = r THEN i ELSE hand[q])
                         /\ handAt'[q] = (IF q = r THEN "popped" ELSE handAt[q])
  BY <1>2 DEF Types
<1>7. Types'
  <2>1. pass' \in [Runners -> {"out", "in", "ran"}]
    BY <1>1 DEF Types
  <2>2. hand' \in [Runners -> Items \cup {None}]
    BY <1>2, <1>3 DEF Types
  <2>3. handAt' \in [Runners -> {"none", "popped", "body", "leaving"}]
    BY <1>2 DEF Types
  <2>4. stolen' \in [Callers -> BOOLEAN]
    BY <1>2 DEF Types
  <2> QED
    BY <1>1, <1>3, <2>1, <2>2, <2>3, <2>4 DEF Types
<1>8. Stops'
  BY <1>1, <1>4 DEF Stops, Stopped
<1>9. Places'
  <2>1. \A j : Queued(j)' <=> Queued(j) /\ j # i
    BY <1>1, <1>3, <1>4 DEF Queued
  <2>2. Distinct(queue)' /\ Distinct(dropped)'
    BY <1>1, <1>3 DEF Places
  <2>3. \A q \in Runners : hand'[q] = None <=> handAt'[q] = "none"
    BY <1>3, <1>6 DEF Places
  <2>4. \A q \in Runners : ~Queued(hand[q])' 
    BY <1>6, <2>1 DEF Places, Queued
  <2>5. \A p, q \in Runners : hand'[p] = hand'[q] /\ hand'[p] # None => p = q
    BY <1>5, <1>6 DEF Places
  <2> QED
    BY <2>2, <2>3, <2>4, <2>5 DEF Places
<1>10. Drives'
  <2>1. CASE mode = "Dedicated"
    <3>1. r = Loop /\ pass' = pass
      BY <1>1, <2>1 DEF Types
    <3>2. \A c \in Callers : stolen'[c] = stolen[c]
      BY <1>2, <2>1 DEF Types
    <3> QED
      BY <1>1, <1>6, <2>1, <3>1, <3>2 DEF Drives
  <2>2. CASE mode = "Manual"
    <3>1. \A q \in Runners : pass'[q] = IF q = r THEN "ran" ELSE pass[q]
      BY <1>1, <2>2 DEF Types
    <3> QED
      BY <1>1, <1>6, <2>2, <3>1 DEF Drives
  <2> QED
    BY <2>1, <2>2 DEF Types
<1>11. Shut'
  BY <1>1 DEF Shut
<1>12. Callings'
  <2> SUFFICES ASSUME NEW d \in Callers PROVE Wrapper(d)' /\ Count(d)'
    BY DEF Callings
  <2>1. Wrapper(d) /\ Count(d)
    BY DEF Callings
  <2>2. CASE d = i
    <3>1. Queued(d) /\ ~Queued(d)' /\ ~InHand(d)
      BY <1>1, <1>3, <1>4, <2>2, OneHand DEF Queued
    <3>2. Popped(d)' /\ ~InBody(d)' /\ ~Leaving(d)' /\ hand'[r] = d
      BY <1>2, <1>5, <2>2, ThisHand
    <3>3. stolen'[d] = (mode = "Manual" /\ r # d)
      BY <1>2, <2>1, <2>2, <3>1 DEF Wrapper, Types
    <3>4. ~stolen'[d] => at[d] \in {"wait", "draining"}
      <4>1. CASE mode = "Dedicated"
        BY <2>1, <3>1, <4>1 DEF Wrapper
      <4>2. CASE mode = "Manual"
        BY <1>1, <3>3, <4>2 DEF Drives
      <4> QED
        BY <4>1, <4>2 DEF Types
    <3>5. UNCHANGED <<mode, at, settled, runs, threw>>
      BY <1>1
    <3>6. Wrapper(d)'
      BY <2>1, <3>1, <3>2, <3>3, <3>4, <3>5 DEF Wrapper, InHand
    <3>7. Count(d)'
      BY <2>1, <3>1, <3>2, <3>5 DEF Count, InHand, Types
    <3> QED
      BY <3>6, <3>7
  <2>3. CASE d # i
    <3>1. Queued(d)' <=> Queued(d)
      BY <1>1, <1>3, <2>3 DEF Queued
    <3>2. stolen'[d] = stolen[d]
      BY <1>2, <2>3 DEF Types
    <3>3. hand[r] # d
      BY <1>1
    <3>4. /\ Popped(d)' <=> Popped(d)
          /\ InBody(d)' <=> InBody(d)
          /\ Leaving(d)' <=> Leaving(d)
          /\ hand[d] = d => hand'[d] = d
      BY <1>2, <2>3, <3>3, OtherHands
    <3>5. UNCHANGED <<mode, at, settled, runs, threw>>
      BY <1>1
    <3> QED
      BY <2>1, <3>1, <3>2, <3>4, <3>5, Apart
  <2> QED
    BY <2>2, <2>3
<1> QED
  BY <1>7, <1>8, <1>9, <1>10, <1>11, <1>12

\* A step that changes at most the stage of one thread's item leaves the rest alone.
LEMMA StageFacts ==
  ASSUME Inv, NEW r \in Runners, NEW y \in {"popped", "body", "leaving"},
         handAt[r] # "none", hand' = hand, handAt' = [handAt EXCEPT ![r] = y],
         UNCHANGED <<mode, registered, stopAt, queue, dropped, exited, pass, stolen, at>>
  PROVE  /\ Stops' /\ Places' /\ Drives'
         /\ hand' \in [Runners -> Items \cup {None}]
         /\ handAt' \in [Runners -> {"none", "popped", "body", "leaving"}]
         /\ \A d \in Callers :
              /\ Queued(d)' <=> Queued(d)
              /\ hand[r] # d => /\ Popped(d)' <=> Popped(d)
                                /\ InBody(d)' <=> InBody(d)
                                /\ Leaving(d)' <=> Leaving(d)
              /\ hand[r] = d => /\ Popped(d)' <=> y = "popped"
                                /\ InBody(d)' <=> y = "body"
                                /\ Leaving(d)' <=> y = "leaving"
<1> USE Members DEF Inv
<1>1. \A i : Queued(i)' <=> Queued(i)
  BY DEF Queued
<1>2. \A q \in Runners : handAt'[q] = IF q = r THEN y ELSE handAt[q]
  BY DEF Types
<1>3. Stops' /\ Drives'
  BY DEF Stops, Stopped, Drives
<1>4. Places'
  <2>1. \A q \in Runners : ~Queued(hand[q])'
    BY <1>1 DEF Places, Queued
  <2> QED
    BY <1>2, <2>1 DEF Places
<1>5. /\ hand' \in [Runners -> Items \cup {None}]
      /\ handAt' \in [Runners -> {"none", "popped", "body", "leaving"}]
  BY DEF Types
<1>6. hand' = [hand EXCEPT ![r] = hand[r]]
  BY SameHand
<1>7. ASSUME NEW d \in Callers, hand[r] # d
      PROVE  /\ Popped(d)' <=> Popped(d)
             /\ InBody(d)' <=> InBody(d)
             /\ Leaving(d)' <=> Leaving(d)
  BY <1>6, <1>7, OtherHands
<1>8. ASSUME NEW d \in Callers, hand[r] = d
      PROVE  /\ Popped(d)' <=> y = "popped"
             /\ InBody(d)' <=> y = "body"
             /\ Leaving(d)' <=> y = "leaving"
  <2>1. \A q \in Runners : hand[q] = d => q = r
    BY <1>8 DEF Places
  <2>2. hand' = [hand EXCEPT ![r] = d]
    BY <1>6, <1>8
  <2> QED
    BY <2>1, <2>2, ThisHand
<1> QED
  BY <1>1, <1>3, <1>4, <1>5, <1>7, <1>8

LEMMA RunWrapperInv ==
  ASSUME Inv, NEW r \in Runners, RunWrapper(r)
  PROVE  Inv'
<1> USE Members DEF Inv
<1>1. /\ UNCHANGED <<mode, gstate, epoch, stamp, late, registered, stopAt, dropped, exited,
                     queue, hand, pass, posts, at, settled, threw, stolen>>
      /\ handAt[r] = "popped" /\ handAt' = [handAt EXCEPT ![r] = "body"]
      /\ runs' = IF hand[r] \in Callers THEN [runs EXCEPT ![hand[r]] = @ + 1] ELSE runs
  BY DEF RunWrapper, gateVars, stopVars, waitVars
<1>2. /\ Stops' /\ Places' /\ Drives'
      /\ hand' \in [Runners -> Items \cup {None}]
      /\ handAt' \in [Runners -> {"none", "popped", "body", "leaving"}]
      /\ \A d \in Callers :
           /\ Queued(d)' <=> Queued(d)
           /\ hand[r] # d => /\ Popped(d)' <=> Popped(d)
                             /\ InBody(d)' <=> InBody(d)
                             /\ Leaving(d)' <=> Leaving(d)
           /\ hand[r] = d => ~Popped(d)' /\ InBody(d)' /\ ~Leaving(d)'
  BY <1>1, StageFacts
<1>3. runs' \in [Callers -> Nat]
  <2>1. CASE hand[r] \in Callers
    <3>1. runs[hand[r]] + 1 \in Nat
      BY <2>1 DEF Types
    <3> QED
      BY <1>1, <2>1, <3>1 DEF Types
  <2> QED
    BY <1>1, <2>1 DEF Types
<1>4. Types' /\ Shut'
  BY <1>1, <1>2, <1>3 DEF Types, Shut
<1>5. Callings'
  <2> SUFFICES ASSUME NEW d \in Callers PROVE Wrapper(d)' /\ Count(d)'
    BY DEF Callings
  <2>1. Wrapper(d) /\ Count(d) /\ UNCHANGED <<mode, hand, at, settled, threw, stolen>>
    BY <1>1 DEF Callings
  <2>2. CASE hand[r] = d
    <3>1. Popped(d) /\ ~InBody(d) /\ ~Leaving(d) /\ InHand(d) /\ ~Queued(d)
      BY <1>1, <2>2, OneHand
    <3>2. runs'[d] = runs[d] + 1
      BY <1>1, <2>2 DEF Types
    <3>3. InBody(d)' /\ ~Popped(d)' /\ ~Leaving(d)' /\ ~Queued(d)'
      BY <1>2, <2>2, <3>1
    <3>4. Wrapper(d)'
      BY <2>1, <3>1, <3>3 DEF Wrapper, InHand
    <3>5. Count(d)'
      <4>1. runs[d] \in Nat
        BY DEF Types
      <4> QED
        BY <2>1, <3>1, <3>2, <3>3, <4>1 DEF Count, Wrapper, InHand, Types
    <3> QED
      BY <3>4, <3>5
  <2>3. CASE hand[r] # d
    <3>1. runs'[d] = runs[d]
      BY <1>1, <2>3 DEF Types
    <3> QED
      BY <1>2, <2>1, <2>3, <3>1, Apart
  <2> QED
    BY <2>2, <2>3
<1> QED
  BY <1>2, <1>4, <1>5

\* The task ends, by returning or by throwing.
LEMMA BodyInv ==
  ASSUME Inv, NEW r \in Runners, BodyReturns(r) \/ BodyThrows(r)
  PROVE  Inv'
<1> USE Members DEF Inv
<1>1. /\ UNCHANGED <<mode, gstate, epoch, stamp, late, registered, stopAt, dropped, exited,
                     queue, hand, pass, posts, at, runs, stolen>>
      /\ handAt[r] = "body" /\ handAt' = [handAt EXCEPT ![r] = "leaving"]
      /\ \/ /\ settled' = IF hand[r] \in Callers THEN Settle(hand[r], "ran") ELSE settled
            /\ threw' = threw
         \/ /\ hand[r] \in Callers /\ threw' = [threw EXCEPT ![hand[r]] = TRUE]
            /\ settled' = settled
  BY DEF BodyReturns, BodyThrows, gateVars, stopVars, waitVars
<1>2. /\ Stops' /\ Places' /\ Drives'
      /\ hand' \in [Runners -> Items \cup {None}]
      /\ handAt' \in [Runners -> {"none", "popped", "body", "leaving"}]
      /\ \A d \in Callers :
           /\ Queued(d)' <=> Queued(d)
           /\ hand[r] # d => /\ Popped(d)' <=> Popped(d)
                             /\ InBody(d)' <=> InBody(d)
                             /\ Leaving(d)' <=> Leaving(d)
           /\ hand[r] = d => ~Popped(d)' /\ ~InBody(d)' /\ Leaving(d)'
  BY <1>1, StageFacts
<1>3. settled' \in [Callers -> {"no", "ran", "dropped"}]
  BY <1>1 DEF Types, Settle
<1>4. threw' \in [Callers -> BOOLEAN]
  BY <1>1 DEF Types
<1>5. Types' /\ Shut'
  BY <1>1, <1>2, <1>3, <1>4 DEF Types, Shut
<1>6. Callings'
  <2> SUFFICES ASSUME NEW d \in Callers PROVE Wrapper(d)' /\ Count(d)'
    BY DEF Callings
  <2>1. Wrapper(d) /\ Count(d) /\ UNCHANGED <<mode, hand, at, runs, stolen>>
    BY <1>1 DEF Callings
  <2>2. CASE hand[r] = d
    <3>1. ~Popped(d) /\ InBody(d) /\ ~Leaving(d) /\ InHand(d) /\ ~Queued(d)
      BY <1>1, <2>2, OneHand
    <3>2. settled[d] = "no"
      BY <2>1, <3>1 DEF Wrapper
    <3>3. \/ settled'[d] = "ran" /\ threw'[d] = threw[d]
          \/ settled'[d] = "no" /\ threw'[d] = TRUE
      BY <1>1, <2>2, <3>2 DEF Types, Settle
    <3>4. ~InBody(d)' /\ ~Popped(d)' /\ Leaving(d)' /\ ~Queued(d)'
      BY <1>2, <2>2, <3>1
    <3>5. Wrapper(d)'
      BY <2>1, <3>1, <3>4 DEF Wrapper, InHand
    <3>6. Count(d)'
      BY <2>1, <3>1, <3>2, <3>3, <3>4 DEF Count, Wrapper, InHand
    <3> QED
      BY <3>5, <3>6
  <2>3. CASE hand[r] # d
    <3>1. settled'[d] = settled[d] /\ threw'[d] = threw[d]
      BY <1>1, <2>3 DEF Types, Settle
    <3> QED
      BY <1>2, <2>1, <2>3, <3>1, Apart
  <2> QED
    BY <2>2, <2>3
<1> QED
  BY <1>2, <1>5, <1>6

\* A thread is done with its item, and the wrapper's destructor settles.
LEMMA DoneInv ==
  ASSUME Inv, NEW r \in Runners, SkipWrapper(r) \/ Leave(r)
  PROVE  Inv'
<1> USE Members DEF Inv
<1>1. /\ UNCHANGED <<mode, gstate, epoch, stamp, late, registered, stopAt, dropped, exited,
                     queue, pass, posts, at, runs, threw, stolen>>
      /\ handAt[r] \in {"popped", "leaving"}
      /\ hand' = [hand EXCEPT ![r] = None] /\ handAt' = [handAt EXCEPT ![r] = "none"]
      /\ settled' = IF hand[r] \in Callers THEN Settle(hand[r], "dropped") ELSE settled
  BY DEF SkipWrapper, Leave, LetGo, gateVars, stopVars, DropItem
<1>2. \A q \in Runners : hand'[q] = (IF q = r THEN None ELSE hand[q])
                         /\ handAt'[q] = (IF q = r THEN "none" ELSE handAt[q])
  BY <1>1 DEF Types
<1>3. Types'
  <2>1. settled' \in [Callers -> {"no", "ran", "dropped"}]
    BY <1>1 DEF Types, Settle
  <2>2. hand' \in [Runners -> Items \cup {None}]
    BY <1>1 DEF Types
  <2>3. handAt' \in [Runners -> {"none", "popped", "body", "leaving"}]
    BY <1>1 DEF Types
  <2> QED
    BY <1>1, <2>1, <2>2, <2>3 DEF Types
<1>4. Stops' /\ Drives' /\ Shut'
  <2>1. Stops'
    BY <1>1, <1>2 DEF Stops, Stopped
  <2>2. Drives'
    BY <1>1, <1>2 DEF Drives
  <2>3. Shut'
    BY <1>1, <1>2 DEF Shut
  <2> QED
    BY <2>1, <2>2, <2>3
<1>5. Places'
  <2>1. \A j : Queued(j)' <=> Queued(j)
    BY <1>1 DEF Queued
  <2>2. ~Queued(None)
    <3>1. \A j : Queued(j) => j \in Items
      BY DEF Queued
    <3> QED
      BY <3>1
  <2>3. \A q \in Runners : ~Queued(hand[q])'
    BY <1>2, <2>1, <2>2 DEF Places, Queued
  <2>4. \A p, q \in Runners : hand'[p] = hand'[q] /\ hand'[p] # None => p = q
    BY <1>2 DEF Places
  <2>5. \A q \in Runners : hand'[q] = None <=> handAt'[q] = "none"
    BY <1>2 DEF Places
  <2> QED
    BY <1>1, <2>3, <2>4, <2>5 DEF Places
<1>6. Callings'
  <2> SUFFICES ASSUME NEW d \in Callers PROVE Wrapper(d)' /\ Count(d)'
    BY DEF Callings
  <2>1. Wrapper(d) /\ Count(d) /\ UNCHANGED <<mode, at, runs, threw, stolen>> /\ d # None
    BY <1>1 DEF Callings
  <2>2. Queued(d)' <=> Queued(d)
    BY <1>1 DEF Queued
  <2>3. CASE hand[r] = d
    <3>1. InHand(d) /\ ~Queued(d) /\ ~InBody(d) /\ (Popped(d) \/ Leaving(d))
      BY <1>1, <2>3, OneHand
    <3>2. settled'[d] = IF settled[d] = "no" THEN "dropped" ELSE settled[d]
      BY <1>1, <2>3 DEF Types, Settle
    <3>3. ~Popped(d)' /\ ~InBody(d)' /\ ~Leaving(d)'
      <4>1. \A q \in Runners : hand[q] = d => q = r
        BY <2>1, <2>3 DEF Places
      <4> QED
        BY <1>1, <2>1, <4>1, EmptyHand
    <3>4. Wrapper(d)'
      BY <2>1, <2>2, <3>1, <3>3 DEF Wrapper, InHand
    <3>5. Count(d)'
      BY <2>1, <2>2, <3>1, <3>2, <3>3 DEF Count, Wrapper, InHand, Types
    <3> QED
      BY <3>4, <3>5
  <2>4. CASE hand[r] # d
    <3>1. settled'[d] = settled[d]
      BY <1>1, <2>4 DEF Types, Settle
    <3>2. /\ Popped(d)' <=> Popped(d)
          /\ InBody(d)' <=> InBody(d)
          /\ Leaving(d)' <=> Leaving(d)
          /\ hand[d] = d => hand'[d] = d
      BY <1>1, <2>1, <2>4, OtherHands
    <3> QED
      BY <2>1, <2>2, <3>1, <3>2, Apart
  <2> QED
    BY <2>3, <2>4
<1> QED
  BY <1>3, <1>4, <1>5, <1>6

--------------------------------------------------------------------------------
(* The stop's steps, and the gate's. *)

\* Callers that a step leaves alone altogether.
LEMMA AllApart ==
  ASSUME Inv, UNCHANGED <<mode, hand, handAt, at, settled, runs, threw, stolen>>,
         \A d \in Callers : Queued(d)' <=> Queued(d)
  PROVE  Callings'
<1> SUFFICES ASSUME NEW d \in Callers PROVE Wrapper(d)' /\ Count(d)'
  BY DEF Callings
<1>1. Wrapper(d) /\ Count(d)
  BY DEF Inv, Callings
<1> QED
  BY <1>1, StillHands, Apart

\* Unregister, ExitLoop, Joined: they move nothing.
LEMMA StopMovesInv ==
  ASSUME Inv, Unregister \/ ExitLoop \/ Joined
  PROVE  Inv'
<1> USE Members DEF Inv
<1>1. /\ UNCHANGED <<mode, gstate, epoch, stamp, late, dropped, queue, hand, handAt, pass,
                     posts, at, settled, runs, threw, stolen>>
      /\ \/ /\ stopAt = "none" /\ registered' = FALSE /\ stopAt' = "unregistered"
            /\ exited' = exited
         \/ /\ Stopped /\ hand[Loop] = None /\ exited' = TRUE
            /\ stopAt' = stopAt /\ registered' = registered
         \/ /\ stopAt = "stopping" /\ (mode = "Dedicated" => exited)
            /\ stopAt' = "dropping" /\ exited' = exited /\ registered' = registered
  BY DEF Unregister, ExitLoop, Joined, gateVars, workVars, runVars, callVars, waitVars
<1>2. Types'
  BY <1>1 DEF Types
<1>3. Places' /\ Drives' /\ Shut'
  BY <1>1 DEF Places, Queued, Drives, Shut
<1>4. Stops'
  BY <1>1 DEF Stops, Stopped
<1>5. Callings'
  BY <1>1, AllApart DEF Queued
<1> QED
  BY <1>2, <1>3, <1>4, <1>5

LEMMA StopOwnerInv ==
  ASSUME Inv, StopOwner
  PROVE  Inv'
<1> USE Members DEF Inv
<1>1. /\ UNCHANGED <<mode, gstate, epoch, stamp, late, registered, exited, hand, handAt, pass,
                     posts, at, settled, runs, threw, stolen>>
      /\ stopAt = "unregistered" /\ stopAt' = "stopping"
      /\ dropped' = queue /\ queue' = <<>>
  BY DEF StopOwner, gateVars, runVars, callVars, waitVars
<1>2. dropped = <<>> /\ ToSet(dropped)' = ToSet(queue) /\ ToSet(queue)' = {}
  BY <1>1, EmptyFacts DEF Stops, Stopped
<1>3. Types' /\ Drives' /\ Shut'
  BY <1>1 DEF Types, Drives, Shut
<1>4. \A i : Queued(i)' <=> Queued(i)
  BY <1>1, <1>2 DEF Queued
<1>5. Stops' /\ Places'
  <2>1. Stops'
    BY <1>1 DEF Stops, Stopped
  <2>2. \A r \in Runners : ~Queued(hand[r])'
    BY <1>1, <1>4 DEF Places, Queued
  <2> QED
    BY <1>1, <2>1, <2>2, EmptyFacts DEF Places
<1>6. Callings'
  BY <1>1, <1>4, AllApart
<1> QED
  BY <1>3, <1>5, <1>6

LEMMA DropQueuedInv ==
  ASSUME Inv, DropQueued
  PROVE  Inv'
<1> USE Members DEF Inv
<1>1. /\ UNCHANGED <<mode, gstate, epoch, stamp, late, registered, exited, queue, hand, handAt,
                     pass, posts, at, runs, threw, stolen>>
      /\ stopAt = "dropping"
  BY DEF DropQueued, gateVars, workVars, runVars
<1>2. CASE dropped = <<>>
  <2>1. stopAt' = "done" /\ dropped' = dropped /\ settled' = settled
    BY <1>2 DEF DropQueued
  <2>2. Types' /\ Places' /\ Drives' /\ Shut'
    BY <1>1, <2>1 DEF Types, Places, Queued, Drives, Shut
  <2>3. Stops'
    BY <1>1, <2>1 DEF Stops, Stopped
  <2>4. Callings'
    BY <1>1, <2>1, AllApart DEF Queued
  <2> QED
    BY <2>2, <2>3, <2>4
<1>3. CASE dropped # <<>>
  <2> DEFINE i == Head(dropped)
  <2>1. /\ dropped' = Tail(dropped) /\ stopAt' = stopAt
        /\ settled' = IF i \in Callers THEN Settle(i, "dropped") ELSE settled
    BY <1>3 DEF DropQueued, DropItem
  <2>2. /\ Head(dropped) \in Items /\ Head(dropped) \in ToSet(dropped)
        /\ Tail(dropped) \in Seq(Items) /\ Distinct(Tail(dropped))
        /\ ToSet(Tail(dropped)) = ToSet(dropped) \ {Head(dropped)}
    BY <1>3, TailFacts DEF Types, Places
  <2>3. /\ i \in Items /\ i \in ToSet(dropped)
        /\ dropped' \in Seq(Items) /\ Distinct(dropped)'
        /\ ToSet(dropped)' = ToSet(dropped) \ {i}
    BY <2>1, <2>2
  <2> HIDE DEF i
  <2>4. queue = <<>> /\ ToSet(queue) = {}
    BY <1>1 DEF Stops, Stopped
  <2>5. settled' \in [Callers -> {"no", "ran", "dropped"}]
    BY <2>1 DEF Types, Settle
  <2>6. \A j : Queued(j)' <=> Queued(j) /\ j # i
    BY <1>1, <2>3, <2>4 DEF Queued
  <2>7. Types' /\ Drives' /\ Shut'
    BY <1>1, <1>3, <2>1, <2>3, <2>5 DEF Types, Drives, Shut
  <2>8. Places'
    <3>1. \A r \in Runners : ~Queued(hand[r])'
      BY <1>1, <2>6 DEF Places, Queued
    <3> QED
      BY <1>1, <2>3, <3>1 DEF Places
  <2>9. Stops'
    BY <1>1, <2>1 DEF Stops, Stopped
  <2>10. Callings'
    <3> SUFFICES ASSUME NEW d \in Callers PROVE Wrapper(d)' /\ Count(d)'
      BY DEF Callings
    <3>1. Wrapper(d) /\ Count(d) /\ hand' = hand /\ handAt' = handAt
      BY <1>1 DEF Callings
    <3>2. CASE d = i
      <4>1. Queued(d) /\ ~Queued(d)'
        BY <2>3, <2>6, <3>2 DEF Queued
      <4>2. ~InHand(d)
        BY <4>1, OneHand
      <4>3. settled[d] = "no" /\ settled'[d] = "dropped"
        BY <2>1, <3>1, <3>2, <4>1 DEF Wrapper, Types, Settle
      <4>4. ~Popped(d)' /\ ~InBody(d)' /\ ~Leaving(d)' /\ ~Popped(d) /\ ~InBody(d)
            /\ ~Leaving(d)
        BY <3>1, <4>2, StillHands DEF InHand
      <4>5. UNCHANGED <<mode, at, runs, threw, stolen>>
        BY <1>1
      <4> QED
        BY <3>1, <4>1, <4>3, <4>4, <4>5 DEF Wrapper, Count, InHand
    <3>3. CASE d # i
      <4>1. Queued(d)' <=> Queued(d)
        BY <2>6, <3>3
      <4>2. settled'[d] = settled[d]
        BY <2>1, <3>3 DEF Types, Settle
      <4> QED
        BY <1>1, <3>1, <4>1, <4>2, StillHands, Apart
    <3> QED
      BY <3>2, <3>3
  <2> QED
    BY <2>7, <2>8, <2>9, <2>10
<1> QED
  BY <1>2, <1>3

LEMMA GateInv ==
  ASSUME Inv, Drain \/ CloseGate \/ Reopen
  PROVE  Inv'
<1> USE Members, ConstantsAssumption DEF Inv
<1>1. UNCHANGED <<stamp, mode, registered, stopAt, dropped, exited, queue, hand, handAt, pass,
                  posts, at, settled, runs, threw, stolen>>
  BY DEF Drain, CloseGate, Reopen, ownerVars, stopVars, workVars, runVars, callVars, waitVars
<1>2. Types'
  <2>1. gstate' \in GateStates /\ late' \in BOOLEAN
    BY DEF Drain, CloseGate, Reopen, GateStates, Types
  <2>2. epoch' \in 0 .. MaxEpoch
    <3>1. epoch' = epoch \/ (epoch < MaxEpoch /\ epoch' = epoch + 1)
      BY DEF Drain, CloseGate, Reopen
    <3> QED
      BY <3>1 DEF Types
  <2> QED
    BY <1>1, <2>1, <2>2 DEF Types
<1>3. Stops' /\ Places' /\ Drives'
  BY <1>1 DEF Stops, Stopped, Places, Queued, Drives
<1>4. Callings'
  BY <1>1, AllApart DEF Queued
<1>5. Shut'
  <2>1. CASE Drain \/ Reopen
    BY <2>1 DEF Drain, Reopen, Shut
  <2>2. CASE CloseGate
    <3> SUFFICES ASSUME Accepted = {}, Executing = {} PROVE Shut'
      BY <2>2 DEF CloseGate, Shut
    <3>1. \A r \in Runners : handAt[r] = "none"
      <4>1. HandsAt({"popped"}) = {} /\ HandsAt({"body", "leaving"}) = {}
        BY DEF Accepted, Executing
      <4>2. ASSUME NEW r \in Runners
            PROVE  handAt[r] \notin {"popped", "body", "leaving"}
        <5>1. /\ handAt[r] \in {"popped"} => hand[r] \in HandsAt({"popped"})
              /\ handAt[r] \in {"body", "leaving"} => hand[r] \in HandsAt({"body", "leaving"})
          BY DEF HandsAt
        <5> QED
          BY <4>1, <5>1
      <4> QED
        BY <4>2 DEF Types
    <3>2. \A r \in Runners : hand[r] = None
      BY <3>1 DEF Places
    <3>3. queue = <<>> /\ dropped = <<>>
      <4>1. ToSet(queue) = {} /\ ToSet(dropped) = {}
        BY DEF Accepted
      <4> QED
        BY <4>1, TailFacts DEF Types, Places
    <3>4. \A c \in Callers : at[c] # "push" /\ (c \in Gated => at[c] \in Outside)
      BY DEF Accepted, Executing
    <3> QED
      BY <1>1, <3>2, <3>3, <3>4 DEF Shut
  <2> QED
    BY <2>1, <2>2
<1> QED
  BY <1>2, <1>3, <1>4, <1>5

--------------------------------------------------------------------------------
LEMMA NextInv ==
  ASSUME Inv, [Next]_vars
  PROVE  Inv'
<1>1. ASSUME NEW c \in Callers, Call(c) \/ CallStep(c)
      PROVE  Inv'
  <2>1. c \in Runners
    BY DEF Runners
  <2> QED
    BY <1>1, <2>1, CallInv, PostToInv, PushInv, LeavesInv, CheckRanInv, StandInEndsInv,
       StartPassInv DEF CallStep
<1>2. ASSUME NEW k \in Others, PostOther(k)
      PROVE  Inv'
  BY <1>2, PostOtherInv
<1>3. ASSUME NEW r \in Runners, RunStep(r)
      PROVE  Inv'
  BY <1>3, PopInv, EndPassInv, RunWrapperInv, DoneInv, BodyInv DEF RunStep
<1>4. ASSUME NEW r \in Servers, StartPass(r)
      PROVE  Inv'
  BY <1>4, StartPassInv DEF Runners
<1>5. CASE ExitLoop \/ StopStep \/ Unregister
  BY <1>5, StopOwnerInv, StopMovesInv, DropQueuedInv DEF StopStep
<1>6. CASE Drain \/ CloseGate \/ Reopen
  BY <1>6, GateInv
<1>7. CASE UNCHANGED vars
  <2>1. UNCHANGED <<gstate, epoch, stamp, late, mode, registered, stopAt, dropped, exited,
                    queue, hand, handAt, pass, posts, at, settled, runs, threw, stolen>>
    BY <1>7 DEF vars, gateVars, ownerVars, stopVars, workVars, runVars, callVars, waitVars
  <2>2. Callings'
    BY <2>1, AllApart DEF Queued
  <2> QED
    BY <2>1, <2>2 DEF Inv, Types, Stops, Stopped, Places, Queued, Drives, Shut
<1> QED
  BY <1>1, <1>2, <1>3, <1>4, <1>5, <1>6, <1>7 DEF Next

LEMMA InvHolds == Spec => []Inv
<1> QED
  BY InitInv, NextInv, PTL DEF Spec

\* Every reachable state is well typed: no task of a call is started more than twice,
\* by the owner and by the caller.
THEOREM TypeCorrect == Spec => []TypeOK
<1>1. Inv => TypeOK
  <2> SUFFICES ASSUME Inv PROVE TypeOK
    OBVIOUS
  <2>1. \A c \in Callers : runs[c] \in 0 .. 2
    <3>1. \A c \in Callers : runs[c] \in Nat /\ runs[c] <= 2
      BY DEF Inv, Types, Callings, Count
    <3> QED
      BY <3>1
  <2>2. runs \in [Callers -> 0 .. 2]
    BY <2>1 DEF Inv, Types
  <2> QED
    BY <2>2 DEF Inv, Types, TypeOK
<1> QED
  BY <1>1, InvHolds, PTL

\* AppRuntime::RunAndWait: a caller comes back when its task has run, exactly once
\* unless it threw or another thread's pass had taken the wrapper from a Manual owner,
\* whatever the gate, the stop and the other callers did.
THEOREM RunsOnce == Spec => []RanOnce
<1>1. Inv => RanOnce
  BY DEF Inv, Callings, Count, RanOnce
<1> QED
  BY <1>1, InvHolds, PTL

\* The wrapper that refers to the caller's frame runs only while the caller waits,
\* always with a Dedicated owner (Drives: nothing is stolen from one), and with a
\* Manual owner unless another thread took it.
THEOREM FrameOutlivesWrapper ==
  Spec => [](/\ NoDanglingTask
             /\ mode = "Dedicated" => \A c \in Callers : ~stolen[c])
<1>1. Inv => NoDanglingTask
  <2> SUFFICES ASSUME Inv, NEW c \in Callers, NEW r \in Runners,
                      hand[r] = c, handAt[r] = "body", ~stolen[c]
               PROVE  at[c] \in {"wait", "draining"}
    BY DEF NoDanglingTask
  <2>1. InBody(c)
    BY DEF InBody
  <2> QED
    BY <2>1 DEF Inv, Callings, Wrapper
<1>2. Inv => (mode = "Dedicated" => \A c \in Callers : ~stolen[c])
  BY DEF Inv, Drives
<1> QED
  BY <1>1, <1>2, InvHolds, PTL

\* RunStandingIn: after a drained close, or the join of a Dedicated owner's thread,
\* the caller is alone with what the owner's tasks work on.
THEOREM StandsInAlone == Spec => []StandInAlone
<1>1. Inv => StandInAlone
  <2> SUFFICES ASSUME Inv, OwnerAtRest, NEW r \in Runners
               PROVE  handAt[r] # "body"
    BY DEF StandInAlone, HandsAt
  <2>1. hand[r] = None
    <3>1. CASE gstate = "Closed" /\ ~late
      BY <3>1 DEF Inv, Shut
    <3>2. CASE mode = "Dedicated" /\ stopAt \in {"dropping", "done"}
      BY <3>2 DEF Inv, Stops, Drives
    <3> QED
      BY <3>1, <3>2 DEF OwnerAtRest
  <2> QED
    BY <2>1 DEF Inv, Places
<1> QED
  BY <1>1, InvHolds, PTL
================================================================================
