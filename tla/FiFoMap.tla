------------------------------ MODULE FiFoMap ------------------------------
(***************************************************************************)
(* FiFoMap (FiFoMap.h), the container of every document object: a vector   *)
(* of entries in the order of first insertion, and a hash index from key   *)
(* to position, which every erase must renumber.                           *)
(***************************************************************************)
EXTENDS Integers, Sequences

CONSTANTS Keys, Vals, MaxEntries

ASSUME MaxEntriesAssumption == MaxEntries \in Nat

VARIABLES entries,   \* entries_: a sequence of [key, val]
          index      \* index_: position in entries of each key present

fifoVars == <<entries, index>>

FifoInit == entries = <<>> /\ index = [k \in {} |-> 0]

\* contains
Present(k) == k \in DOMAIN index

\* tryGet, at: what the index leads to
Found(k) == entries[index[k]].val

\* set: a known key keeps its place, a new one goes to the end
SetKey(k, v) ==
    IF Present(k)
    THEN /\ entries' = [entries EXCEPT ![index[k]].val = v]
         /\ UNCHANGED index
    ELSE /\ Len(entries) < MaxEntries          \* bound of the instance
         /\ entries' = Append(entries, [key |-> k, val |-> v])
         /\ index' = [q \in DOMAIN index \cup {k} |->
                        IF q = k THEN Len(entries) + 1 ELSE index[q]]

\* vector::erase of one position
Without(s, n) == [i \in 1 .. Len(s) - 1 |-> IF i < n THEN s[i] ELSE s[i + 1]]

\* Mutant for IndexExact: the entries behind keep their old numbers.
EraseUnnumbered(k) ==
    /\ Present(k)
    /\ entries' = Without(entries, index[k])
    /\ index' = [q \in DOMAIN index \ {k} |-> index[q]]

\* erase: the entries behind the erased one move up, and so do their numbers
EraseKey(k) ==
    /\ Present(k)
    /\ entries' = Without(entries, index[k])
    /\ index' = [q \in DOMAIN index \ {k} |->
                   IF index[q] > index[k] THEN index[q] - 1 ELSE index[q]]

ClearAll == entries' = <<>> /\ index' = [k \in {} |-> 0]

FifoNext == \/ \E k \in Keys, v \in Vals : SetKey(k, v)
            \/ \E k \in Keys : EraseKey(k)
            \/ ClearAll

FifoSpec == FifoInit /\ [][FifoNext]_fifoVars

----------------------------------------------------------------------------
EntryType == [key : Keys, val : Vals]

FifoTypeOK == /\ entries \in Seq(EntryType)
              /\ DOMAIN index \subseteq Keys
              /\ \A k \in DOMAIN index : index[k] \in 1 .. Len(entries)

\* Lookups and iteration agree: each key present is numbered with the one entry
\* that holds it, whatever was erased before (FiFoMap.h:101).
IndexExact == /\ \A k \in DOMAIN index : /\ index[k] \in 1 .. Len(entries)
                                         /\ entries[index[k]].key = k
              /\ \A i \in 1 .. Len(entries) : /\ entries[i].key \in DOMAIN index
                                              /\ index[entries[i].key] = i

\* Position of a key in the order of iteration, after a step
Later(k) == index'[k]

\* The order of iteration is that of first insertion: a step never changes the
\* order of two keys it keeps, and puts a new key behind all others.
OrderKept ==
    [][\A j, k \in DOMAIN index' :
         /\ j \in DOMAIN index /\ k \in DOMAIN index
              => (index[j] < index[k] <=> Later(j) < Later(k))
         /\ j \in DOMAIN index /\ k \notin DOMAIN index => Later(j) < Later(k)]_fifoVars
=============================================================================
