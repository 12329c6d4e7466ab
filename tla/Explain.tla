-------------------------------- MODULE Explain --------------------------------
(***************************************************************************)
(* explain() of the assistant (actions.py): the text of the window at hand *)
(* that the brain is to explain.  Hyprland says which one is active, the   *)
(* frames of the accessible programs are scored by how well they fit, and  *)
(* the text is taken from the best one if there is only one; else it is    *)
(* the title of what is active by then.  The user may go to another window *)
(* at any time.                                                            *)
(***************************************************************************)
EXTENDS Naturals, FiniteSets

CONSTANTS
    OnScreen,        \* windows
    NoWindow,
    WindowTitles,          \* a title is a set of words, contained in another if it is a subset
    Programs,        \* classes of windows
    MaxSwitches      \* bound: changes of the active window

ASSUME ExplainConstants ==
    /\ MaxSwitches \in Nat /\ NoWindow \notin OnScreen /\ IsFiniteSet(OnScreen)
    /\ \A t \in WindowTitles : IsFiniteSet(t)

VARIABLES
    look,            \* what each window looks like; it does not change
    atWindow,        \* the active window
    explainStep,     \* "idle", "asks", "walks", "falls back" or "done"
    identity,        \* title and class that Hyprland said, <<>> if it failed
    explained,       \* the window whose text was returned
    wasActive,       \* history: the windows that were active meanwhile
    switches

explainVars == <<look, atWindow, explainStep, identity, explained, wasActive, switches>>

\* A program may not be accessible, call itself otherwise than its class, or not
\* tell which of its frames is active; a frame may have no text that is readable.
Frames == {"none", "renamed", "stateless", "full"}
Looks == [title : WindowTitles, class : Programs, frame : Frames, readable : {"yes", "no"}]

ExplainTypeOK ==
    /\ look \in [OnScreen -> Looks] /\ atWindow \in OnScreen
    /\ explainStep \in {"idle", "asks", "walks", "falls back", "done"}
    /\ identity = <<>> \/ \E w \in OnScreen : identity = <<look[w].title, look[w].class>>
    /\ explained \in OnScreen \cup {NoWindow} /\ wasActive \subseteq OnScreen
    /\ switches \in 0..MaxSwitches

ExplainInit ==
    /\ look \in [OnScreen -> Looks] /\ atWindow \in OnScreen
    /\ explainStep = "idle" /\ identity = <<>> /\ explained = NoWindow /\ wasActive = {} /\ switches = 0

-----------------------------------------------------------------------------
(* frame_score, for the identity that Hyprland said.                       *)

TitleScore(w) ==
    IF identity = <<>> \/ identity[1] = {} \/ look[w].title = {} THEN 0
    ELSE IF identity[1] = look[w].title THEN 100
    ELSE IF identity[1] \subseteq look[w].title \/ look[w].title \subseteq identity[1] THEN 70
    ELSE 0

\* Of a program that calls itself otherwise the names resemble each other.
ClassScore(w) ==
    IF identity = <<>> \/ identity[2] # look[w].class THEN 0
    ELSE IF look[w].frame = "renamed" THEN 35 ELSE 60

StateScore(w) == IF w = atWindow /\ look[w].frame # "stateless" THEN 75 ELSE 0

Score(w) == TitleScore(w) + ClassScore(w) + StateScore(w)

Fitting == {w \in OnScreen : look[w].frame # "none" /\ Score(w) > 0}
Best == {w \in Fitting : \A v \in Fitting : Score(v) <= Score(w)}

\* Seeded bug: the first of the best frames, however many there are.
FirstOfBest == Best

\* scoped_frames: the best one, if it is the only one.
ScopedFrames == IF Cardinality(Best) = 1 THEN Best ELSE {}

-----------------------------------------------------------------------------
ExplainCalled ==
    /\ explainStep = "idle" /\ explainStep' = "asks" /\ wasActive' = {atWindow}
    /\ UNCHANGED <<look, atWindow, identity, explained, switches>>

\* hyprctl may fail; then no frame fits by its name.
AsksHyprland ==
    /\ explainStep = "asks" /\ explainStep' = "walks"
    /\ identity' \in {<<>>, <<look[atWindow].title, look[atWindow].class>>}
    /\ UNCHANGED <<look, atWindow, explained, wasActive, switches>>

\* The process that walks the frames may fail, or find nothing.
WalksFrames ==
    /\ explainStep = "walks"
    /\ \/ \E w \in ScopedFrames :
              look[w].readable = "yes" /\ explained' = w /\ explainStep' = "done"
       \/ explainStep' = "falls back" /\ UNCHANGED explained
    /\ UNCHANGED <<look, atWindow, identity, wasActive, switches>>

\* _atspi_get_active_window_text: asks again; a window may have no title.
FallsBackOnTitle ==
    /\ explainStep = "falls back" /\ explainStep' = "done"
    /\ explained' \in {NoWindow} \cup (IF look[atWindow].title # {} THEN {atWindow} ELSE {})
    /\ UNCHANGED <<look, atWindow, identity, wasActive, switches>>

SwitchesWindow(w) ==
    /\ switches < MaxSwitches /\ switches' = switches + 1 /\ w # atWindow /\ explainStep # "done"
    /\ atWindow' = w /\ wasActive' = wasActive \cup {w}
    /\ UNCHANGED <<look, explainStep, identity, explained>>

ExplainNext ==
    \/ ExplainCalled \/ AsksHyprland \/ WalksFrames \/ FallsBackOnTitle
    \/ \E w \in OnScreen : SwitchesWindow(w)

ExplainSpec == ExplainInit /\ [][ExplainNext]_explainVars

-----------------------------------------------------------------------------
\* "A desktop-wide full-text walk can leak text from an unrelated background
\* application": what is explained is of a window that was active meanwhile, as
\* long as those are accessible under the names Hyprland knows, though they may
\* not tell that they are active, and others be called the same.
TextIsOfActive ==
    explained # NoWindow /\ (\A w \in wasActive : look[w].frame \notin {"none", "renamed"})
        => explained \in wasActive
=============================================================================
