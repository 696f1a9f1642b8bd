--------------------------- MODULE MCCoordinatorThread ---------------------------
(* An instance of CoordinatorThread: a client, two tasks in two lanes, a one-shot *)
(* and a repeating timer, and a clock of three instants.                           *)
EXTENDS CoordinatorThread, TLC

CONSTANTS a, kn, kb, late, soon

MCClients == {a}
MCTasks == {kn, kb}
MCLaneOf == kn :> "Normal" @@ kb :> "Background"
MCTimers == {late, soon}
MCRepeating == {late}
MCIntervalOf == late :> 2 @@ soon :> 1
================================================================================
