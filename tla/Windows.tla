-------------------------------- MODULE Windows --------------------------------
(***************************************************************************)
(* Window effects (darkos-window-fx.py): every key binding starts a        *)
(* process of its own, which asks Hyprland for what it needs, may show a   *)
(* strip or a box to choose from, and dispatches commands one by one.      *)
(* Several may run at a time, while the user opens, closes and focuses     *)
(* windows.                                                                *)
(***************************************************************************)
EXTENDS Naturals, FiniteSets, SequencesExt

CONSTANTS
    WindowIds, Presses,   \* windows; processes that may run at a time
    MaxPresses,           \* bound: key bindings pressed
    MaxFocuses            \* bound: other changes by the user

ASSUME WindowsConstants ==
    MaxPresses \in Nat /\ MaxFocuses \in Nat /\ IsFiniteSet(WindowIds) /\ WindowIds # {}

VARIABLES
    windowMode,  \* a window is "closed", "tiled", "floating" or "pinned", which floats too
    place,       \* the position and the size of a floating one
    scratch,     \* windows of a special workspace
    recent,      \* the open windows by focusHistoryID, the focused one first
    effect,      \* what each process does
    factor,      \* the zoom in quarters
    pressed, focuses,
    back,        \* history: switches in a row, the window they began at, and whether
                 \* one went nowhere
    floatedFirst \* history: windows that floated when picture-in-picture took them

windowsVars == <<windowMode, place, scratch, recent, effect, factor, pressed, focuses, back, floatedFirst>>

EffectKinds == {"switcher", "snap", "picker", "pip", "zoom"}
Modes == {"closed", "tiled", "floating", "pinned"}
Sides == {"left", "bottom-right"}
NoEffect == [does |-> "none", at |-> "ended", list |-> <<>>, saw |-> "none", side |-> "none"]

\* snap_rect and pip_rect: the corner, then the extent.
Rect(side) ==
    CASE side = "left" -> <<"origin", "tall">>
      [] side = "bottom-right" -> <<"middle", "quarter">>
      [] side = "pip" -> <<"corner", "small">>

FreePress == <<"free", "free">>
Zooms == {"in", "out", "reset", "toggle"}

WindowsTypeOK ==
    /\ windowMode \in [WindowIds -> Modes] /\ scratch \subseteq WindowIds
    /\ place \in [WindowIds -> {"free", "origin", "middle", "corner"} \X
                               {"free", "tall", "quarter", "small"}]
    /\ ToSet(recent) = {w \in WindowIds : windowMode[w] # "closed"} /\ IsInjective(recent)
    /\ DOMAIN effect = Presses
    /\ factor \in 4..16 /\ pressed \in 0..MaxPresses /\ focuses \in 0..MaxFocuses
    /\ back.times \in 0..2 /\ back.stayed \in {"never", "once"} /\ floatedFirst \subseteq WindowIds

WindowsInit ==
    /\ windowMode = [w \in WindowIds |-> "tiled"] /\ place = [w \in WindowIds |-> FreePress]
    /\ recent = SetToSeq(WindowIds)
    /\ scratch \in {{}} \cup {{w} : w \in WindowIds}
    /\ effect = [p \in Presses |-> NoEffect] /\ factor = 15 /\ pressed = 0 /\ focuses = 0
    /\ back = [from |-> recent[1], times |-> 0, stayed |-> "never"] /\ floatedFirst = {}

-----------------------------------------------------------------------------
(* Hyprland.                                                               *)

Focused(w) == w \in ToSet(recent) /\ recent' = <<w>> \o RemoveFirst(recent, w)

Active == IF recent = <<>> THEN {} ELSE {recent[1]}

ToggleFloating(ws) ==
    windowMode' = [w \in WindowIds |->
                 IF w \notin ws \/ windowMode[w] = "closed" THEN windowMode[w]
                 ELSE IF windowMode[w] = "tiled" THEN "floating" ELSE "tiled"]

Pin(ws) ==
    windowMode' = [w \in WindowIds |->
                 CASE w \in ws /\ windowMode[w] = "pinned" -> "floating"
                   [] w \in ws /\ windowMode[w] = "floating" -> "pinned"
                   [] OTHER -> windowMode[w]]

\* The k-th part of the place of those that float.
Put(ws, k, rect) ==
    place' = [w \in WindowIds |->
                  IF w \in ws /\ windowMode[w] \in {"floating", "pinned"}
                  THEN [place[w] EXCEPT ![k] = rect[k]] ELSE place[w]]

Forgotten ==
    [from |-> IF recent' = <<>> THEN back.from ELSE recent'[1], times |-> 0, stayed |-> back.stayed]

UserFocuses(w) ==
    /\ focuses < MaxFocuses /\ focuses' = focuses + 1
    /\ Focused(w) /\ back' = Forgotten
    /\ UNCHANGED <<windowMode, place, scratch, effect, factor, pressed, floatedFirst>>

WindowCloses(w) ==
    /\ focuses < MaxFocuses /\ focuses' = focuses + 1
    /\ windowMode[w] # "closed" /\ windowMode' = [windowMode EXCEPT ![w] = "closed"]
    /\ recent' = RemoveFirst(recent, w)
    /\ place' = [place EXCEPT ![w] = FreePress] /\ back' = Forgotten
    /\ floatedFirst' = floatedFirst \ {w}
    /\ UNCHANGED <<scratch, effect, factor, pressed>>

-----------------------------------------------------------------------------
(* The processes.                                                          *)

Hyprland == <<windowMode, place, scratch, recent, factor>>
Goes(p, step) == effect' = [effect EXCEPT ![p].at = step]
Ends(p) == effect' = [effect EXCEPT ![p] = NoEffect]

Press(p, what, side) ==
    /\ effect[p].does = "none" /\ pressed < MaxPresses /\ pressed' = pressed + 1
    /\ effect' = [effect EXCEPT ![p] = [NoEffect EXCEPT !.does = what, !.at = "reads",
                                                        !.side = side]]
    /\ UNCHANGED <<Hyprland, focuses, back, floatedFirst>>

\* visible_clients: where in the focus history.
Shown == {i \in 1..Len(recent) : recent[i] \notin scratch}

\* Sorted by focusHistoryID.
Visible ==
    [k \in 1..Cardinality(Shown) |->
         recent[CHOOSE i \in Shown : Cardinality({j \in Shown : j < i}) = k - 1]]

\* Seeded bug: in the order of the focus history.
FocusedFirst == Visible

\* ordered_switcher_clients.
Ordered == IF Len(Visible) > 1 THEN Tail(Visible) \o <<Visible[1]>> ELSE Visible

\* run_switcher, run_snap, run_pip and run_zoom ask Hyprland.  What the
\* switcher saw, the focused window, is history; a zoom that cannot be read is
\* taken for none.
Reads(p) ==
    /\ effect[p].at = "reads"
    /\ LET e == effect[p] IN
       \/ /\ e.does = "switcher"
          /\ IF Ordered = <<>> THEN Ends(p)
             ELSE effect' = [effect EXCEPT ![p].list = Ordered, ![p].at = "chooses",
                                           ![p].saw = recent[1]]
       \/ e.does = "picker" /\ Goes(p, "chooses")
       \/ /\ e.does \in {"snap", "pip"}
          /\ IF Active = {} THEN Ends(p)
             ELSE effect' = [effect EXCEPT
                   ![p].list = <<recent[1]>>,
                   ![p].at = CASE e.does = "pip" /\ windowMode[recent[1]] = "pinned" -> "unpins"
                               [] windowMode[recent[1]] = "tiled" -> "floats"
                               [] OTHER -> "sizes"]
       \/ /\ e.does = "zoom"
          /\ \E seen \in {factor, 4} : effect' = [effect EXCEPT ![p].at = "sets", ![p].saw = seen]
    /\ floatedFirst' =
           IF effect'[p].does # "pip" \/ windowMode[recent[1]] = "pinned" THEN floatedFirst
           ELSE IF windowMode[recent[1]] = "floating" THEN floatedFirst \cup {recent[1]}
           ELSE floatedFirst \ {recent[1]}
    /\ UNCHANGED <<Hyprland, pressed, focuses, back>>

\* The strip: Enter on a window of the list, which may be closed by now, or
\* hyprctl times out.  Only the switch to the first one of a list that is still
\* true is a step back.
Confirms(p, i) ==
    /\ effect[p].at = "chooses" /\ effect[p].does = "switcher" /\ i \in DOMAIN effect[p].list
    /\ Ends(p)
    /\ \/ UNCHANGED <<recent, back>>
       \/ LET w == effect[p].list[i]
              stays == i = 1 /\ Len(effect[p].list) > 1 /\ w = effect[p].saw
          IN /\ Focused(w)
             /\ LET next == IF i = 1 /\ back.times < 2 /\ Len(Visible) > 1 /\ effect[p].list = Ordered
                            THEN [back EXCEPT !.times = @ + 1] ELSE Forgotten
                IN back' = [next EXCEPT !.stayed = IF stays THEN "once" ELSE @]
    /\ UNCHANGED <<windowMode, place, scratch, factor, pressed, focuses, floatedFirst>>

\* Escape, or nothing to be read.
CancelsEffect(p) ==
    /\ effect[p].at = "chooses" \/ (effect[p].at = "reads" /\ effect[p].does # "zoom")
    /\ Ends(p) /\ UNCHANGED <<Hyprland, pressed, focuses, back, floatedFirst>>

\* The picker calls run_snap once its window is gone.
Picks(p, side) ==
    /\ effect[p].at = "chooses" /\ effect[p].does = "picker"
    /\ effect' = [effect EXCEPT ![p] = [NoEffect EXCEPT !.does = "snap", !.at = "reads",
                                                        !.side = side]]
    /\ UNCHANGED <<Hyprland, pressed, focuses, back, floatedFirst>>

\* A snap acts on what is active by then, picture-in-picture on its window.
Target(p) == IF effect[p].does = "snap" THEN Active ELSE ToSet(effect[p].list)

\* run_pip pins last; run_snap moves before it resizes.  What times out changes
\* nothing, and the next command is sent.
Dispatches(p) ==
    LET e == effect[p]
        first == IF e.does = "pip" THEN 2 ELSE 1
    IN \E ws \in {Target(p), {}} :
       \/ /\ e.at = "floats" /\ ToggleFloating(ws) /\ Goes(p, "sizes") /\ UNCHANGED place
       \/ /\ e.at = "sizes" /\ Put(ws, first, Rect(e.side)) /\ Goes(p, "moves")
          /\ UNCHANGED windowMode
       \/ /\ e.at = "moves" /\ Put(ws, 3 - first, Rect(e.side)) /\ UNCHANGED windowMode
          /\ IF e.does = "pip" THEN Goes(p, "pins") ELSE Ends(p)
       \/ e.at = "pins" /\ Pin(ws) /\ Ends(p) /\ UNCHANGED place
       \/ e.at = "unpins" /\ Pin(ws) /\ Goes(p, "tiles") /\ UNCHANGED place
       \/ e.at = "tiles" /\ ToggleFloating(ws) /\ Ends(p) /\ UNCHANGED place

\* next_zoom.
NextZoom(quarters, action) ==
    CASE action = "in" -> IF quarters < 16 THEN quarters + 1 ELSE 16
      [] action = "out" -> IF quarters > 4 THEN quarters - 1 ELSE 4
      [] action = "toggle" -> IF quarters > 4 THEN 4 ELSE 8
      [] OTHER -> 4

Sets(p) ==
    /\ effect[p].at = "sets"
    /\ factor' \in {NextZoom(effect[p].saw, effect[p].side), factor} /\ Ends(p)
    /\ UNCHANGED <<windowMode, place, scratch, recent>>

WindowsNext ==
    \/ \E w \in WindowIds : UserFocuses(w) \/ WindowCloses(w)
    \/ \E p \in Presses :
           \/ Press(p, "switcher", "none") \/ Press(p, "picker", "none") \/ Press(p, "pip", "pip")
           \/ \E side \in Sides : Press(p, "snap", side) \/ Picks(p, side)
           \/ \E action \in Zooms : Press(p, "zoom", action)
           \/ Reads(p) \/ CancelsEffect(p)
           \/ \E i \in DOMAIN effect[p].list : Confirms(p, i)
           \/ /\ Dispatches(p)
              /\ UNCHANGED <<scratch, recent, factor, pressed, focuses, back, floatedFirst>>
           \/ Sets(p) /\ UNCHANGED <<pressed, focuses, back, floatedFirst>>

WindowsSpec == WindowsInit /\ [][WindowsNext]_windowsVars

-----------------------------------------------------------------------------
\* Alt+Tab and Enter goes to another window than the strip was opened over,
\* whatever was focused or closed in between; and if nothing was, doing it again
\* comes back to where it began, with other effects under way and windows of
\* the special workspace in the focus history (unless it began at one of those).
AltTabReturns ==
    /\ back.stayed = "never"
    /\ back.times = 1 => recent[1] # back.from
    /\ back.times = 2 /\ back.from \notin scratch => recent[1] = back.from

\* "A window that was already floating before PiP stays floating" (the comment
\* of run_pip): the end of picture-in-picture does not tile it.
FloatingStaysFloating == \A w \in floatedFirst : windowMode[w] # "tiled"
=============================================================================
