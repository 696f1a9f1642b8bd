----------------------------- MODULE MCParts --------------------------------
(***************************************************************************)
(* Instances of the components that keep to themselves: those of MCData,   *)
(* and the services around the runtime: OwnerTasks, Drain, SettledWait,    *)
(* AtomicFileWrite, ManualExecutor, Metrics and Logger. They share no      *)
(* state, so each behaviour is one of one part, and the other parts rest.  *)
(***************************************************************************)
EXTENDS OwnerTasks, Drain, MCData, SettledWait, AtomicFileWrite, ManualExecutor, Metrics,
        Logger

\* Routes along the barrier's way, one of them back to the pool, and one of them to
\* the UI thread only; places 3 and 4 are owners, 5 is the UI thread
MCRoutes == {<<1, 2, 3>>, <<2, 4, 5>>, <<3, 4, 2>>, <<5>>}

\* Two observations, on a bound and above all of them
MCValueOf == [a |-> 1, b |-> 3]
MCBounds == <<1, 2>>

\* The names asked for: two children of the root, and each below the other
MCPaths == {<<"a">>, <<"b">>, <<"a", "b">>, <<"b", "a">>}

----------------------------------------------------------------------------
serviceVars == <<ownerTasksVars, drainVars, waitVars, fileVars, manualVars, metricsVars,
                 logVars>>
vars == <<part, dataVars, serviceVars>>

Init == /\ part \in DataParts \cup {"tasks", "drain", "wait", "file", "manual", "metrics",
                                   "logger"}
        /\ DataInit
        /\ OwnerTasksInit /\ DrainInit /\ SettledInit /\ FileInit
        /\ ManualInit /\ MetricsInit /\ LoggerInit
        /\ part # "tasks" => host = "owner"
        /\ part # "file" => dir = "safe"
        /\ part # "drain" => ~manual /\ \A j \in DOMAIN route : route[j] = <<5>>

ServiceNext ==
    \/ /\ part = "tasks" /\ OwnerTasksNext
       /\ UNCHANGED <<drainVars, waitVars, fileVars, manualVars, metricsVars, logVars>>
    \/ /\ part = "drain" /\ DrainNext
       /\ UNCHANGED <<ownerTasksVars, waitVars, fileVars, manualVars, metricsVars, logVars>>
    \/ /\ part = "wait" /\ SettledNext
       /\ UNCHANGED <<ownerTasksVars, drainVars, fileVars, manualVars, metricsVars, logVars>>
    \/ /\ part = "file" /\ FileNext
       /\ UNCHANGED <<ownerTasksVars, drainVars, waitVars, manualVars, metricsVars, logVars>>
    \/ /\ part = "manual" /\ ManualNext
       /\ UNCHANGED <<ownerTasksVars, drainVars, waitVars, fileVars, metricsVars, logVars>>
    \/ /\ part = "metrics" /\ MetricsNext
       /\ UNCHANGED <<ownerTasksVars, drainVars, waitVars, fileVars, manualVars, logVars>>
    \/ /\ part = "logger" /\ LoggerNext
       /\ UNCHANGED <<ownerTasksVars, drainVars, waitVars, fileVars, manualVars, metricsVars>>

Next == /\ UNCHANGED part
        /\ \/ DataNext /\ UNCHANGED serviceVars
           \/ ServiceNext /\ UNCHANGED dataVars

Spec == Init /\ [][Next]_vars

=============================================================================
