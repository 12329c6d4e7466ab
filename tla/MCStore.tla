-------------------------------- MODULE MCStore --------------------------------
(* Small instances for TLC of the Store's background jobs and of the gate with *)
(* the scans it asks for: two programs that share nothing, so that a behaviour *)
(* is one of the one or of the other.                                          *)
EXTENDS StoreJobs, GatedInstall

CONSTANTS search, updates, app, lib

\* A good file, and folders that are empty, in part unreadable, or reported in
\* more lines than the limit.
Samples == {{"good"}, {}, {"good", "unreadable"}, {"infected", "unreadable"}}

VARIABLE chosen

StoreInit ==
    /\ chosen \in {"jobs", "gate"}
    /\ JobsInit /\ Init
    /\ chosen = "jobs" =>
        /\ caller = "gate" /\ origin = "repo" /\ index = {app}
        /\ content = [f \in Files |-> {"good"}]

StoreNext ==
    \/ chosen = "jobs" /\ JobsNext /\ UNCHANGED <<chosen, vars>>
    \/ chosen = "gate" /\ Next /\ UNCHANGED <<chosen, storeVars>>

StoreSpec == StoreInit /\ [][StoreNext]_<<chosen, storeVars, vars>> /\ JobsFairness /\ Fairness
=============================================================================
