---------------------------- MODULE MCThreadExecutor -----------------------------
(* An instance of ThreadExecutor: its keeper, a caller of RunAndWait, a post, and  *)
(* two timers that may be due together, in either order, or one during the other.  *)
EXTENDS ThreadExecutor

CONSTANTS keeper, caller, p1, t1, t2

MCClients == {keeper}
MCCallers == {caller}
MCPosts == {p1}
MCTimers == {t1, t2}
MCDelays == {0, 1}
================================================================================
