------------------------------- MODULE MCLifetime --------------------------------
(* An instance of Lifetime: an owner and a host thread, three bound calls. *)
EXTENDS Lifetime

CONSTANTS owner, io, c1, c2, c3

MCThreads == {owner, io}
MCCalls == {c1, c2, c3}
================================================================================
