----------------------------- MODULE SerialMailbox ------------------------------
(***************************************************************************)
(* What a runtime mailbox promises to those who post to it, whatever its   *)
(* locks, threads and wake-ups: accepted tasks start in queue order, each  *)
(* once, one at a time if the mailbox is serial; once closed it starts     *)
(* nothing more, and what was queued or comes later is destroyed unrun.    *)
(***************************************************************************)
EXTENDS SequencesExt

CONSTANTS
  Tasks,
  Jumps    \* whether a task may be put before those queued

VARIABLES
  serial,   \* tasks run one at a time
  open,     \* posts are accepted
  queue,    \* accepted, not started
  running,  \* started, not finished
  fate      \* "new", "queued", "running", "ran" or "dropped"

vars == <<serial, open, queue, running, fate>>

Init ==
  /\ serial \in BOOLEAN
  /\ open = TRUE
  /\ queue = <<>>
  /\ running = {}
  /\ fate = [k \in Tasks |-> "new"]

Accept(k) ==
  /\ open /\ fate[k] = "new"
  /\ \/ queue' = Append(queue, k)
     \/ Jumps /\ queue' = Cons(k, queue)
  /\ fate' = [fate EXCEPT ![k] = "queued"]
  /\ UNCHANGED <<serial, open, running>>

Refuse(k) ==
  /\ ~open /\ fate[k] = "new"
  /\ fate' = [fate EXCEPT ![k] = "dropped"]
  /\ UNCHANGED <<serial, open, queue, running>>

Start ==
  /\ open /\ queue # <<>>
  /\ serial => running = {}
  /\ queue' = Tail(queue)
  /\ running' = running \cup {Head(queue)}
  /\ fate' = [fate EXCEPT ![Head(queue)] = "running"]
  /\ UNCHANGED <<serial, open>>

Finish(k) ==
  /\ k \in running
  /\ running' = running \ {k}
  /\ fate' = [fate EXCEPT ![k] = "ran"]
  /\ UNCHANGED <<serial, open, queue>>

Close ==
  /\ open /\ open' = FALSE
  /\ UNCHANGED <<serial, queue, running, fate>>

Drop ==
  /\ ~open /\ queue # <<>>
  /\ queue' = Tail(queue)
  /\ fate' = [fate EXCEPT ![Head(queue)] = "dropped"]
  /\ UNCHANGED <<serial, open, running>>

Next ==
  \/ \E k \in Tasks : Accept(k) \/ Refuse(k) \/ Finish(k)
  \/ Start \/ Close \/ Drop

Spec == Init /\ [][Next]_vars
================================================================================
