------------------------------ MODULE MCRunAndWait -------------------------------
(* An instance of RunAndWait: one caller outside and one inside a gated task, *)
(* one other task for the owner, one thread that runs or drains it.           *)
EXTENDS RunAndWait

CONSTANTS ui, worker, loop, k1

MCCallers == {ui, worker}
MCGated == {worker}
MCOthers == {k1}
MCServers == {loop}
================================================================================
