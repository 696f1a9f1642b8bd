---------------------------- MODULE PriorityMailbox ----------------------------
(***************************************************************************)
(* What the runtime's priority mailboxes (WorkerPool, CoordinatorThread)   *)
(* promise: three lanes, first in first out within a lane, a higher lane   *)
(* before a lower; each accepted task starts once or is destroyed unrun    *)
(* when the mailbox closes; a serial one runs one task at a time.          *)
(***************************************************************************)
EXTENDS Sequences

CONSTANTS Tasks, LaneOf

VARIABLES
  serial,   \* tasks run one at a time
  open,     \* posts are accepted
  queues,   \* per lane, accepted and not started
  running,  \* started, not finished
  fate      \* "new", "queued", "running", "ran" or "dropped"

vars == <<serial, open, queues, running, fate>>

Lanes == {"Critical", "Normal", "Background"}
Above(l) == CASE l = "Critical" -> {}
              [] l = "Normal" -> {"Critical"}
              [] l = "Background" -> {"Critical", "Normal"}

Init ==
  /\ serial \in BOOLEAN /\ open = TRUE
  /\ queues = [l \in Lanes |-> <<>>]
  /\ running = {}
  /\ fate = [k \in Tasks |-> "new"]

Accept(k) ==
  /\ open /\ fate[k] = "new"
  /\ queues' = [queues EXCEPT ![LaneOf[k]] = Append(@, k)]
  /\ fate' = [fate EXCEPT ![k] = "queued"]
  /\ UNCHANGED <<serial, open, running>>

Refuse(k) ==
  /\ ~open /\ fate[k] = "new"
  /\ fate' = [fate EXCEPT ![k] = "dropped"]
  /\ UNCHANGED <<serial, open, queues, running>>

Start(l) ==
  /\ open /\ queues[l] # <<>>
  /\ \A h \in Above(l) : queues[h] = <<>>
  /\ serial => running = {}
  /\ queues' = [queues EXCEPT ![l] = Tail(@)]
  /\ running' = running \cup {Head(queues[l])}
  /\ fate' = [fate EXCEPT ![Head(queues[l])] = "running"]
  /\ UNCHANGED <<serial, open>>

Finish(k) ==
  /\ k \in running
  /\ running' = running \ {k}
  /\ fate' = [fate EXCEPT ![k] = "ran"]
  /\ UNCHANGED <<serial, open, queues>>

Close ==
  /\ open /\ open' = FALSE
  /\ queues' = [l \in Lanes |-> <<>>]
  /\ fate' = [k \in Tasks |-> IF fate[k] = "queued" THEN "dropped" ELSE fate[k]]
  /\ UNCHANGED <<serial, running>>

\* A mailbox that has closed and finished may be started over.
Reopen ==
  /\ ~open /\ running = {}
  /\ open' = TRUE
  /\ UNCHANGED <<serial, queues, running, fate>>

Next ==
  \/ \E k \in Tasks : Accept(k) \/ Refuse(k) \/ Finish(k)
  \/ \E l \in Lanes : Start(l)
  \/ Close \/ Reopen

Spec == Init /\ [][Next]_vars
================================================================================
