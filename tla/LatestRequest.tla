--------------------------- MODULE LatestRequest ---------------------------
(***************************************************************************)
(* What a tab that answers requests in the background promises: it shows   *)
(* nothing or the answer to the newest request, never an older one, it     *)
(* changes nothing once its window is closed, and if the user waits the    *)
(* newest request is answered.                                             *)
(***************************************************************************)
EXTENDS Naturals

CONSTANTS Tabs, MaxRequests

VARIABLES
    wanted,  \* the newest request of each tab, 0 when there is none
    view,    \* the request whose answer each tab shows, 0 when it is blank
    closed   \* whether the window is closed

vars == <<wanted, view, closed>>

Init ==
    /\ wanted = [t \in Tabs |-> 0]
    /\ view = [t \in Tabs |-> 0]
    /\ closed = FALSE

\* The user asks for something else, or for nothing: the tab goes blank.
Ask(t) ==
    /\ ~closed
    /\ \E r \in 0..MaxRequests : wanted' = [wanted EXCEPT ![t] = r]
    /\ view' = [view EXCEPT ![t] = 0]
    /\ UNCHANGED closed

Answer(t) ==
    /\ ~closed /\ wanted[t] # 0
    /\ view' = [view EXCEPT ![t] = wanted[t]]
    /\ UNCHANGED <<wanted, closed>>

Close ==
    /\ ~closed
    /\ closed' = TRUE
    /\ UNCHANGED <<wanted, view>>

Next == Close \/ \E t \in Tabs : Ask(t) \/ Answer(t)

Safety == Init /\ [][Next]_vars

Spec == Safety /\ \A t \in Tabs : WF_vars(Answer(t))
=============================================================================
