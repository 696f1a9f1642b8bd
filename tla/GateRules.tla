------------------------------- MODULE GateRules -------------------------------
(***************************************************************************)
(* The two decisions of the teardown gate of AppRuntime.cpp, shared by     *)
(* every module whose posts go through GateTask: whether a post is         *)
(* accepted, and whether a wrapped task still runs when its mailbox gets   *)
(* to it.                                                                  *)
(***************************************************************************)

EXTENDS Naturals

GateStates == {"Open", "Draining", "Closed"}

\* GateKind: what the wrapped callable is.
Posted == "Posted"
OneShotTimer == "OneShotTimer"
RepeatingTimer == "RepeatingTimer"

\* A post made by a thread inside gatedDepth gated tasks.  While draining,
\* only continuations (gatedDepth > 0) are accepted; a closed gate refuses all.
AcceptsPost(gstate, gatedDepth) ==
  /\ gstate # "Closed"
  /\ gstate = "Draining" => gatedDepth > 0

\* A callable of this kind, wrapped when the epoch was stamp, reached now.
MayRun(kind, gstate, epoch, stamp) ==
  \/ kind = Posted /\ gstate # "Closed" /\ epoch = stamp
  \/ kind = OneShotTimer /\ gstate = "Open" /\ epoch = stamp
  \/ kind = RepeatingTimer /\ gstate = "Open"
================================================================================
