------------------------------- MODULE MCSteady -------------------------------
(* Small instances for TLC of the two parts of the session that owe something   *)
(* in the end: the watcher while nothing is unplugged, and the overlays of the  *)
(* shell while nothing notifies.  A behaviour is one of the one or the other.   *)
EXTENDS ContinuousWatch, CommandCenter

VARIABLE chosen

\* The Command Center of a behaviour of the watcher: its first fetches are over
\* and named nothing.
AtRest ==
    /\ dock = "shown" /\ center = "hidden" /\ timers = "off"
    /\ installerVisibility = <<>> /\ installer = [i \in Installers |-> "new"]
    /\ lock = {} /\ fetcher = [k \in Fetches |-> NoThread] /\ lagging = [k \in Fetches |-> {}]
    /\ player = "off" /\ section = "off"
    /\ active = {} /\ past = {} /\ dismissing = "no"
    /\ list = {} /\ clearBefore = 0 /\ listed = {} /\ unread = {}
    /\ changes = 0 /\ failures = 0 /\ keys = 0

SteadyInit ==
    /\ WatchInit
    /\ \/ chosen = "watch" /\ AtRest
       \/ chosen = "overlays" /\ CenterInit /\ present = {} /\ ~enabled

SteadyNext ==
    \/ chosen = "watch" /\ WatchNext /\ UNCHANGED <<chosen, centerVars>>
    \/ chosen = "overlays" /\ CenterNext /\ UNCHANGED <<chosen, watchVars>>

\* The fairness of WatchFairSpec and of CenterFairSpec, each for the behaviours
\* that are its own.
SteadySpec ==
    /\ SteadyInit /\ [][SteadyNext]_<<chosen, watchVars, centerVars>>
    /\ WF_watchVars(chosen = "watch" /\ Daemon)
    /\ \A r \in Readers : WF_watchVars(chosen = "watch" /\ Reader(r))
    /\ WF_centerVars(chosen = "overlays" /\ Tick)
    /\ WF_centerVars(chosen = "overlays" /\ FetchMedia)
    /\ WF_centerVars(chosen = "overlays" /\ (ReadList \/ ReadHistory))
    /\ WF_centerVars(chosen = "overlays" /\ ApplyMedia)
    /\ WF_centerVars(chosen = "overlays" /\ ApplyNotifications)
=============================================================================
