------------------------------- MODULE Results -------------------------------
(***************************************************************************)
(* ResultOrError (ResultOrError.hpp): raw storage for a value or an error, *)
(* and a flag that says which. Assignment ends the life of one object and  *)
(* begins that of another in the same bytes, and the copy may throw in     *)
(* between; so may the copy that static error() makes into a result whose  *)
(* flag is set already. The <void> specialisation stores errors only.      *)
(***************************************************************************)
EXTENDS Integers

CONSTANTS Results,      \* the result variables of the program
          VoidResults,  \* those of type ResultOrError<void>
          Payloads      \* what a value or an error carries

VARIABLES flag,      \* hasValue_ as "ok" or "error"; "none" where no result exists
          storage,   \* what lives in storage_: a [kind, payload], or None
          torn       \* results whose flag a throwing copy has left over raw storage

resultVars == <<flag, storage, torn>>

None == [kind |-> "nothing", payload |-> "none"]
Live(kind, p) == [kind |-> kind, payload |-> p]
MovedOut == "moved out"      \* payload of an object that was moved from

Exists(r) == flag[r] # "none"
Alike(r, q) == r \in VoidResults <=> q \in VoidResults

\* isOk, isError
IsOk(r) == flag[r] = "ok"

\* What a result holds: the void kind stores nothing beside an error
Kind(r, f) == IF f = "error" THEN "error" ELSE IF r \in VoidResults THEN "nothing" ELSE "value"

\* value(), operator* and error() hand out the storage or throw
Value(r) == IF IsOk(r) THEN storage[r] ELSE None
Error(r) == IF flag[r] = "error" THEN storage[r] ELSE None

\* operator-> hands out the storage whatever the flag says
Arrow(r) == storage[r]

----------------------------------------------------------------------------
ResultsInit == /\ flag = [r \in Results |-> "none"]
               /\ storage = [r \in Results |-> None]
               /\ torn = {}

\* Constructors from a value, from an error, and of a void success. One that
\* throws leaves no result behind.
Construct(r, f, p) ==
    /\ ~Exists(r)
    /\ flag' = [flag EXCEPT ![r] = f]
    /\ storage' = [storage EXCEPT ![r] =
                     IF Kind(r, f) = "nothing" THEN None ELSE Live(Kind(r, f), p)]
    /\ UNCHANGED torn

\* static error(const E &): a local result gets its flag before its error. If the
\* copy throws, the local result is destroyed with its flag on error: it is torn,
\* and nothing is said of what follows
MakeError(r, p) ==
    /\ ~Exists(r)
    /\ flag' = [flag EXCEPT ![r] = "error"]
    /\ \/ storage' = [storage EXCEPT ![r] = Live("error", p)] /\ UNCHANGED torn
       \/ storage' = [storage EXCEPT ![r] = None] /\ torn' = torn \cup {r}

\* What a copy or a move of a result takes along
Carried(r) == IF Kind(r, flag[r]) = "nothing" THEN None ELSE storage[r]

\* ResultOrError(const ResultOrError &)
CopyConstruct(r, from) ==
    /\ ~Exists(r) /\ Exists(from) /\ Alike(r, from) /\ from \notin torn
    /\ flag' = [flag EXCEPT ![r] = flag[from]]
    /\ storage' = [storage EXCEPT ![r] = Carried(from)]
    /\ UNCHANGED torn

\* A move leaves an object behind in the source; only the void kind forgets it,
\* and says success from then on
Gutted(o) == IF o = None THEN None ELSE [o EXCEPT !.payload = MovedOut]
AfterMove(from) == IF from \in VoidResults THEN "ok" ELSE flag[from]

\* ResultOrError(ResultOrError &&); what a void result forgot earlier is no part of it
MoveConstruct(r, from) ==
    /\ ~Exists(r) /\ Exists(from) /\ Alike(r, from) /\ from \notin torn
    /\ flag' = [flag EXCEPT ![r] = flag[from], ![from] = AfterMove(from)]
    /\ storage' = [storage EXCEPT ![r] = Carried(from),
                                  ![from] = Gutted(storage[from])]
    /\ UNCHANGED torn

\* operator=(const ResultOrError &): destroy, take the flag, construct - or throw
CopyAssign(r, from) ==
    /\ r # from /\ Exists(r) /\ Exists(from) /\ Alike(r, from)
    /\ r \notin torn /\ from \notin torn
    /\ flag' = [flag EXCEPT ![r] = flag[from]]
    /\ \/ storage' = [storage EXCEPT ![r] = Carried(from)] /\ UNCHANGED torn
       \/ /\ Carried(from) # None
          /\ storage' = [storage EXCEPT ![r] = None]
          /\ torn' = torn \cup {r}

\* Mutant for FlagHonest: the flag of the target stays.
MoveAssignKeepsFlag(r, from) ==
    /\ r # from /\ Exists(r) /\ Exists(from) /\ Alike(r, from)
    /\ r \notin torn /\ from \notin torn
    /\ flag' = [flag EXCEPT ![from] = AfterMove(from)]
    /\ storage' = [storage EXCEPT ![r] = Carried(from),
                                  ![from] = Gutted(storage[from])]
    /\ UNCHANGED torn

\* operator=(ResultOrError &&)
MoveAssign(r, from) ==
    /\ r # from /\ Exists(r) /\ Exists(from) /\ Alike(r, from)
    /\ r \notin torn /\ from \notin torn
    /\ flag' = [flag EXCEPT ![r] = flag[from], ![from] = AfterMove(from)]
    /\ storage' = [storage EXCEPT ![r] = Carried(from),
                                  ![from] = Gutted(storage[from])]
    /\ UNCHANGED torn

\* ~ResultOrError: destroys what the flag says is there
Destroy(r) ==
    /\ Exists(r) /\ r \notin torn
    /\ flag' = [flag EXCEPT ![r] = "none"]
    /\ storage' = [storage EXCEPT ![r] = None]
    /\ UNCHANGED torn

ResultsNext ==
    \E r \in Results :
      \/ \E p \in Payloads : MakeError(r, p) \/ \E f \in {"ok", "error"} : Construct(r, f, p)
      \/ Destroy(r)
      \/ \E from \in Results : \/ CopyConstruct(r, from) \/ MoveConstruct(r, from)
                               \/ CopyAssign(r, from) \/ MoveAssign(r, from)

ResultsSpec == ResultsInit /\ [][ResultsNext]_resultVars

----------------------------------------------------------------------------
\* Whatever was copied, moved and assigned before, the flag and the storage agree:
\* a checked accessor, and operator-> on a result that says ok, hands out a living
\* object of the kind it promises, and a destructor ends the life of one that is
\* there. A void result may have forgotten an error it was moved out of. Excepted
\* are results that a throwing copy tore, in an assignment or in static error():
\* the code's accessors and destructor then reach a dead object. Nothing is claimed
\* of operator-> on an error (ResultOrError.hpp:55-60, 89-101, 121-168, 173-180,
\* 204-209, 224-229, 237-262).
FlagHonest ==
    \A r \in Results \ torn :
      /\ IsOk(r) => \A o \in {Value(r), Arrow(r)} :
                      \/ o.kind = Kind(r, "ok")
                      \/ r \in VoidResults /\ o = Live("error", MovedOut)
      /\ flag[r] = "error" => Error(r).kind = "error"
      /\ ~Exists(r) => storage[r] = None
=============================================================================
