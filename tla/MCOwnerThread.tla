----------------------------- MODULE MCOwnerThread ------------------------------
(* An instance of OwnerThread: two client threads, three tasks. *)
EXTENDS OwnerThread

CONSTANTS a, b, k1, k2, k3

MCClients == {a, b}
MCTasks == {k1, k2, k3}
================================================================================
