----------------------------- MODULE AtomicCell -----------------------------
(***************************************************************************)
(* What AtomicFileWrite promises (AtomicFileWrite.h:12-31): the file holds *)
(* the whole of what one writer put there, the last one's; a power cut     *)
(* may take back what was put last, but never a durable write that has     *)
(* returned without an error. Only a write without sync may leave a torn   *)
(* file behind then.                                                       *)
(***************************************************************************)
EXTENDS Integers, Sequences

CONSTANTS Writers, Loose,   \* one write each; those with Sync::None
          Old, Torn         \* what the file held before, and a torn content

VARIABLES puts,    \* what took effect, in order: the file holds the last
          kept,    \* how many of them no power cut takes back
          told,    \* writers that were told their write is durable
          failed   \* writers that were told it failed

CellInit == puts = <<Old>> /\ kept = 1 /\ told = {} /\ failed = {}

Seen(w, n) == \E i \in 1 .. n : puts[i] = w

Put(w) == /\ ~Seen(w, Len(puts)) /\ w \notin failed
          /\ puts' = Append(puts, w)
          /\ UNCHANGED <<kept, told, failed>>

\* The last puts reach the disk, and a writer may be told that its own has
Keep == /\ kept' \in kept .. Len(puts)
        /\ \/ UNCHANGED told
           \/ \E w \in Writers \ Loose : Seen(w, kept') /\ told' = told \cup {w}
        /\ UNCHANGED <<puts, failed>>

\* A write that nobody saw
Fail(w) == /\ ~Seen(w, Len(puts))
           /\ failed' = failed \cup {w}
           /\ UNCHANGED <<puts, kept, told>>

\* A loose write that survives may be torn
PowerCut == /\ \E n \in kept .. Len(puts) :
                 /\ kept' = n
                 /\ puts' \in {p \in [1 .. n -> Writers \cup {Old, Torn}] :
                                 \A i \in 1 .. n : \/ p[i] = puts[i]
                                                   \/ p[i] = Torn /\ puts[i] \in Loose}
            /\ UNCHANGED <<told, failed>>

CellNext == (\E w \in Writers : Put(w) \/ Fail(w)) \/ Keep \/ PowerCut
CellSpec == CellInit /\ [][CellNext]_<<puts, kept, told, failed>>
=============================================================================
