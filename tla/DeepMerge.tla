------------------------------ MODULE DeepMerge ------------------------------
(***************************************************************************)
(* Objects in memory (Value.h) and DeepMergeObject (ValueJson.h): an       *)
(* object holds its children by shared pointers, so copies of it share     *)
(* them, and a merge must not write through one.                           *)
(***************************************************************************)
EXTENDS SeqFilter, SequencesExt

CONSTANTS Roots,    \* how many objects the program holds by value
          Names, Leaves,
          MaxHeap,  \* bound of the instance: objects ever allocated
          MaxTree   \* bound of the instance: fields below a root

ASSUME MergeAssumption == Roots \in Nat

VARIABLES heap   \* object -> its fields, <<key, value>> in their order; roots first

mergeVars == heap

HeldObjects == 1 .. Roots

\* A value is a shared pointer to an object, or anything else
Ref(r) == <<"object", r>>
Leaf(x) == <<"leaf", x>>
IsRef(v) == v[1] = "object"

\* FiFoMap::tryGet and set
Has(fields, k) == \E i \in 1 .. Len(fields) : fields[i][1] = k
Position(fields, k) == CHOOSE i \in 1 .. Len(fields) : fields[i][1] = k
Lookup(fields, k) == fields[Position(fields, k)][2]
PutField(fields, k, v) ==
    IF Has(fields, k) THEN [fields EXCEPT ![Position(fields, k)] = <<k, v>>]
    ELSE Append(fields, <<k, v>>)

\* Object::getObject
HasObject(fields, k) == Has(fields, k) /\ IsRef(Lookup(fields, k))

\* Object::set(key, const Object &): a new object with a copy of the fields,
\* shared pointers among them
PutCopy(h, o, k, fields) ==
    Append([h EXCEPT ![o] = PutField(h[o], k, Ref(Len(h) + 1))], fields)

\* What a merge is called with: a heap and two objects in it
MergeCalls == Seq(Seq(Names \X (({"object"} \X Nat) \cup ({"leaf"} \X Leaves)))) \X Nat \X Nat

\* Mutant for MergeOwnsResult: the child is merged into without a copy.
MergeFieldInPlace(Inner, h, base, field) ==
    LET k == field[1]
        v == field[2]
    IN  IF ~IsRef(v) THEN [h EXCEPT ![base] = PutField(@, k, v)]
        ELSE IF HasObject(h[base], k) THEN Inner[<<h, Lookup(h[base], k)[2], v[2]>>]
        ELSE PutCopy(h, base, k, h[v[2]])

\* One field of the overlay is merged into base; Inner merges two children. A child of
\* both is copied, merged into, and then put back.
MergeField(Inner, h, base, field) ==
    LET k == field[1]
        v == field[2]
        copied == Append(h, h[Lookup(h[base], k)[2]])
        merged == Inner[<<copied, Len(copied), v[2]>>]
    IN  IF ~IsRef(v) THEN [h EXCEPT ![base] = PutField(@, k, v)]
        ELSE IF HasObject(h[base], k)
             THEN [merged EXCEPT ![base] = PutField(@, k, Ref(Len(copied)))]
        ELSE PutCopy(h, base, k, h[v[2]])

\* The heap after the first i fields, for every i
MergeFields(Inner, h, base, fields) ==
    LET F[i \in 0 .. Len(fields)] ==
          IF i = 0 THEN h ELSE MergeField(Inner, F[i - 1], base, fields[i])
    IN  F

\* DeepMergeObject, which calls itself for the children. No object is below itself, so
\* the calls are at most as deep as there are objects.
MergeTo(depth) ==
    LET M[n \in 0 .. depth] ==
          [c \in MergeCalls |->
             IF n = 0 THEN c[1]
             ELSE MergeFields(M[n - 1], c[1], c[2], c[1][c[3]])[Len(c[1][c[3]])]]
    IN  M
Merge(h, base, overlay) == MergeTo(Len(h))[Len(h)][<<h, base, overlay>>]

----------------------------------------------------------------------------
\* The document below each object: Unfolded(T, v) is a value with its document in place
\* of the pointer
Unfolded(T, v) == IF IsRef(v) THEN <<"object", T[v[2]]>> ELSE v
Trees(h) ==
    LET T[o \in 1 .. Len(h)] == [i \in 1 .. Len(h[o]) |-> <<h[o][i][1], Unfolded(T, h[o][i][2])>>]
    IN  T

\* How many fields it has
Sizes(h) ==
    LET S[o \in 1 .. Len(h)] ==
          FoldLeft(LAMBDA n, f : n + 1 + (IF IsRef(f[2]) THEN S[f[2][2]] ELSE 0), 0, h[o])
    IN  S

----------------------------------------------------------------------------
MergeInit == heap = [o \in HeldObjects |-> <<>>]

Bounded == Len(heap') <= MaxHeap /\ \A o \in HeldObjects : Sizes(heap')[o] <= MaxTree

MergeInto(base, overlay) == heap' = Merge(heap, base, overlay) /\ Bounded

\* Object::set of anything but an object
SetLeaf(o, k, x) == heap' = [heap EXCEPT ![o] = PutField(heap[o], k, Leaf(x))] /\ Bounded

\* Object::set of an object, and a copy
SetObject(o, k, from) == heap' = PutCopy(heap, o, k, heap[from]) /\ Bounded
CopyFrom(o, from) == heap' = [heap EXCEPT ![o] = heap[from]] /\ Bounded

MergeNext ==
    \E o \in HeldObjects :
      \/ \E k \in Names, x \in Leaves : SetLeaf(o, k, x)
      \/ \E from \in HeldObjects :
           \/ MergeInto(o, from)
           \/ CopyFrom(o, from)
           \/ \E k \in Names : SetObject(o, k, from)

MergeSpec == MergeInit /\ [][MergeNext]_mergeVars

----------------------------------------------------------------------------
\* The reference: the document of p[2] laid over that of p[1]. A key of both keeps its
\* place and takes the overlay's value, or the one laid over the other if both are
\* objects; the keys of the overlay alone follow in their order.
Laid(T, D, v, w) == IF IsRef(v) /\ IsRef(w) THEN <<"object", D[<<v[2], w[2]>>]>> ELSE Unfolded(T, w)
Added(a, b) == Kept(b, {f \in ToSet(b) : ~Has(a, f[1])})
Overlay(T, D, a, b) ==
    [i \in 1 .. Len(a) |->
       <<a[i][1], IF Has(b, a[i][1]) THEN Laid(T, D, a[i][2], Lookup(b, a[i][1]))
                  ELSE Unfolded(T, a[i][2])>>]
    \o [i \in 1 .. Len(Added(a, b)) |-> <<Added(a, b)[i][1], Unfolded(T, Added(a, b)[i][2])>>]
Overlaid(h) ==
    LET D[p \in (1 .. Len(h)) \X (1 .. Len(h))] ==
          Overlay(Trees(h), D, h[p[1]], h[p[2]])
    IN  D

\* A merge makes of the base what the overlay laid over it says, key by key and in
\* the order of first insertion, and changes no other object the program holds,
\* however many of their children are shared by earlier copies and merges
\* (ValueJson.h:87-101).
MergeOwnsResult ==
    [][\A base, overlay \in HeldObjects :
         MergeInto(base, overlay) =>
           /\ Trees(heap')[base] = Overlaid(heap)[<<base, overlay>>]
           /\ \A o \in HeldObjects \ {base} : Trees(heap')[o] = Trees(heap)[o]]_mergeVars
=============================================================================
