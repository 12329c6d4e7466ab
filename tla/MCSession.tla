------------------------------- MODULE MCSession -------------------------------
(* Small instances for TLC of three parts of the session that share nothing:    *)
(* the watcher, turned off and on again; the quarantine; and the notifications  *)
(* of the Command Center.  A behaviour is one of one of them.                   *)
EXTENDS ContinuousWatch, Quarantine, CommandCenter

VARIABLE chosen

SessionInit ==
    /\ chosen \in {"watch", "quarantine", "notifications"}
    /\ WatchInit /\ QuarantineInit /\ CenterInit
    /\ chosen # "watch" => present = {} /\ ~enabled

SessionNext ==
    \/ chosen = "watch" /\ WatchNext
       /\ UNCHANGED <<chosen, quarantineVars, centerVars>>
    \/ chosen = "quarantine" /\ QuarantineNext
       /\ UNCHANGED <<chosen, watchVars, centerVars>>
    \/ chosen = "notifications" /\ CenterNext
       /\ UNCHANGED <<chosen, watchVars, quarantineVars>>

SessionSpec ==
    SessionInit /\ [][SessionNext]_<<chosen, watchVars, quarantineVars, centerVars>>
=============================================================================
