---------------------------- MODULE MCTeardownGate -----------------------------
(* An instance of TeardownGate: a UI thread and a worker, two posts, a one- *)
(* shot and a repeating timer, one reopening.                              *)
EXTENDS TeardownGate, TLC

CONSTANTS ui, worker, p1, p2, o1, r1

MCThreads == {ui, worker}
MCPosts == {p1, p2}
MCOneShots == {o1}
MCRepeaters == {r1}
================================================================================
