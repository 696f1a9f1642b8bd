--------------------------- MODULE AtomicFileWrite ---------------------------
(***************************************************************************)
(* AtomicFileWrite (AtomicFileWrite.cpp): writers of one path, each with a *)
(* temporary file of its own, on a file system that keeps contents and     *)
(* names in memory until they are synced. The path's directory may have to *)
(* be made first. Any call may fail, and the power may be cut between any  *)
(* two.                                                                    *)
(***************************************************************************)
EXTENDS Integers, Sequences

CONSTANTS Writers,    \* one call of Write each
          Loose,      \* those with Sync::None
          Parts,      \* parts of a file
          Retries     \* kRenameRetries; 0 on POSIX

ASSUME FileAssumption == /\ {"old", "torn"} \cap Writers = {}
                         /\ Parts \in Nat /\ Retries \in Nat

VARIABLES pc,         \* where each writer is in WriteBytes
          written,    \* parts of its file in memory
          synced,     \* parts of its file on disk
          temps,      \* writers whose temporary file has its name
          names,      \* whose file the path named, in order; the last is what readers open
          disk,       \* how many of these names the directory on disk has seen
          attempt,    \* renames refused so far
          unsynced,   \* writers whose name may not last, which nobody is told
          dir         \* the directory: missing, made and perhaps not on disk, or safe

fileVars == <<pc, written, synced, temps, names, disk, attempt, unsynced, dir>>

Old == "old"
Torn == "torn"
Durable(w) == w \notin Loose

FileInit == /\ pc = [w \in Writers |-> "start"]
            /\ written = [w \in Writers |-> 0] /\ synced = [w \in Writers |-> 0]
            /\ temps = {} /\ names = <<Old>> /\ disk = 1
            /\ attempt = [w \in Writers |-> 0] /\ unsynced = {}
            /\ dir \in {"missing", "safe"}

Go(w, from, to) == pc[w] = from /\ pc' = [pc EXCEPT ![w] = to]

\* create_directories: its error is not looked at, and what it makes is not synced
CreateDirectories(w) ==
    /\ Go(w, "start", "create")
    /\ dir' \in IF dir = "missing" THEN {"missing", "made"} ELSE {dir}
    /\ UNCHANGED <<written, synced, temps, names, disk, attempt, unsynced>>

\* WriteTemp: create, write part by part, close
CreateTemp(w) == /\ \/ /\ dir # "missing" /\ Go(w, "create", "write")
                       /\ temps' = temps \cup {w}
                    \/ Go(w, "create", "fail") /\ UNCHANGED temps
                 /\ UNCHANGED <<written, synced, names, disk, attempt, unsynced, dir>>

WritePart(w) ==
    /\ \/ /\ written[w] < Parts /\ Go(w, "write", "write")
          /\ written' = [written EXCEPT ![w] = @ + 1]
       \/ Go(w, "write", "fail") /\ UNCHANGED written
    /\ UNCHANGED <<synced, temps, names, disk, attempt, unsynced, dir>>

\* Mutant for ImplementsCell: the file is renamed before it is synced.
CloseTempUnsynced(w) == /\ written[w] = Parts
                        /\ Go(w, "write", "rename")
                        /\ UNCHANGED <<written, synced, temps, names, disk, attempt, unsynced, dir>>

CloseTemp(w) == /\ written[w] = Parts
                /\ Go(w, "write", IF Durable(w) THEN "fsync" ELSE "rename")
                /\ UNCHANGED <<written, synced, temps, names, disk, attempt, unsynced, dir>>

FsyncFile(w) ==
    /\ \/ Go(w, "fsync", "rename") /\ synced' = [synced EXCEPT ![w] = written[w]]
       \/ Go(w, "fsync", "fail") /\ UNCHANGED synced
    /\ UNCHANGED <<written, temps, names, disk, attempt, unsynced, dir>>

\* RenameOver: a refusal that passes is tried again, on Windows
RenameOver(w) ==
    /\ \/ /\ Go(w, "rename", IF Durable(w) THEN "fsyncdir" ELSE "ok")
          /\ names' = Append(names, w) /\ temps' = temps \ {w}
          /\ UNCHANGED attempt
       \/ /\ attempt[w] < Retries /\ Go(w, "rename", "rename")
          /\ attempt' = [attempt EXCEPT ![w] = @ + 1]
          /\ UNCHANGED <<names, temps>>
       \/ Go(w, "rename", "fail") /\ UNCHANGED <<names, temps, attempt>>
    /\ UNCHANGED <<written, synced, disk, unsynced, dir>>

\* FsyncDirectory tells nobody of a failure, and syncs the names in the directory,
\* not the directory's own
FsyncDirectory(w) ==
    /\ Go(w, "fsyncdir", "ok")
    /\ \/ /\ disk' = Len(names)
          /\ unsynced' = IF dir = "safe" THEN unsynced ELSE unsynced \cup {w}
       \/ unsynced' = unsynced \cup {w} /\ UNCHANGED disk
    /\ UNCHANGED <<written, synced, temps, names, attempt, dir>>

\* fail: the temporary file is removed, if that works
RemoveTemp(w) == /\ Go(w, "fail", "error")
                 /\ temps' \in {temps, temps \ {w}}
                 /\ UNCHANGED <<written, synced, names, disk, attempt, unsynced, dir>>

\* A power cut: of each file at least what was synced is left, of the names those
\* the directory has on disk and perhaps some more; a directory that was made may be
\* gone with everything in it; the writers are gone
PowerCut ==
    \E left \in IF dir = "made" THEN {"missing", "safe"} ELSE {dir} :
    \E n \in IF left = "safe" THEN disk .. Len(names) ELSE {1} :
      /\ dir' = left /\ temps' = IF left = "safe" THEN temps ELSE {}
      /\ names' = SubSeq(names, 1, n) /\ disk' = n
      /\ written' \in {f \in [Writers -> 0 .. Parts] :
                         \A w \in Writers : f[w] \in synced[w] .. written[w]}
      /\ synced' = written'
      /\ pc' = [w \in Writers |-> IF pc[w] \in {"start", "ok", "error"} THEN pc[w] ELSE "gone"]
      /\ UNCHANGED <<attempt, unsynced>>

FileNext == PowerCut \/ \E w \in Writers :
              \/ CreateDirectories(w) \/ CreateTemp(w) \/ WritePart(w) \/ CloseTemp(w)
              \/ FsyncFile(w) \/ RenameOver(w) \/ FsyncDirectory(w) \/ RemoveTemp(w)

FileSpec == FileInit /\ [][FileNext]_fileVars

----------------------------------------------------------------------------
\* What a reader of a file named by the path reads
ContentOf(x) == IF x = Old \/ written[x] = Parts THEN x ELSE Torn

\* How many of the names no power cut takes back
Lasting == IF dir = "safe" THEN disk ELSE 1

Cell == INSTANCE AtomicCell WITH
          puts <- [i \in 1 .. Len(names) |-> ContentOf(names[i])],
          kept <- Lasting,
          told <- {w \in Writers \ (Loose \cup unsynced) : pc[w] = "ok"},
          failed <- {w \in Writers : pc[w] = "error"}

\* Readers see the old content (or no file, if there was none) or the new, never a
\* part of one. A power cut takes back the last writes only, and tears none but those
\* without sync. A durable write that has returned is never taken back, if the
\* directory was there, on disk, when it was called, and could be synced: what
\* create_directories makes is not synced, and FsyncDirectory keeps its failure to
\* itself. One that has failed was never seen (AtomicFileWrite.h:16-29,
\* AtomicFileWrite.cpp:190-218).
ImplementsCell == Cell!CellSpec
=============================================================================
