-------------------------------- MODULE MCKeys --------------------------------
(* Small instances for TLC of the two programs whose keys and typed lines have  *)
(* to find their window or pane, with larger bounds than the rest of the        *)
(* desktop needs.  A behaviour is one of the one or of the other.               *)
EXTENDS Windows, Void

VARIABLE chosen

KeysInit ==
    /\ chosen \in {"windows", "void"}
    /\ WindowsInit /\ VoidInit
    /\ chosen = "windows" => engaged = "none"
    /\ chosen = "void" => scratch = {}

KeysNext ==
    \/ chosen = "windows" /\ WindowsNext /\ UNCHANGED <<chosen, voidVars>>
    \/ chosen = "void" /\ VoidNext /\ UNCHANGED <<chosen, windowsVars>>

KeysSpec == KeysInit /\ [][KeysNext]_<<chosen, windowsVars, voidVars>>

-----------------------------------------------------------------------------
\* The Void: however splits and exits interleave, every pane of a tab is in its
\* tree and one of them has the keyboard (split_pane, close_pane), and a command
\* is typed into the pane it was asked for in, as far as TypedWhereAsked says.
TypingReachesItsPane == PanesStayReachable /\ TypedWhereAsked
=============================================================================
