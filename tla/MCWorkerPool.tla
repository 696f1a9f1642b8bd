------------------------------ MODULE MCWorkerPool -------------------------------
(* An instance of WorkerPool: two workers (the smallest pool), a client, *)
(* and three tasks in two lanes.  Tasks call the pool too.                *)
EXTENDS WorkerPool, TLC

CONSTANTS w1, w2, a, kn, kb, kb2

MCWorkers == {w1, w2}
MCClients == {a}
MCTasks == {kn, kb, kb2}
MCLaneOf == kn :> "Normal" @@ kb :> "Background" @@ kb2 :> "Background"
================================================================================
