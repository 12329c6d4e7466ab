--------------------------------- MODULE Activity ---------------------------------
(***************************************************************************)
(* The activity detector (activity_detector.py): a timer that starts a     *)
(* detection in a thread when none is under way, and the layout profile    *)
(* which the result chooses.                                               *)
(***************************************************************************)
EXTENDS Naturals

CONSTANTS
    CodingTitles, OtherTitles,   \* titles that have a profile's word in them, and not
    MaxFocusChanges, MaxStops    \* bounds

ASSUME ActivityConstants ==
    /\ "" \notin CodingTitles \cup OtherTitles /\ CodingTitles \cap OtherTitles = {}
    /\ MaxFocusChanges \in Nat /\ MaxStops \in Nat

Titles == CodingTitles \cup OtherTitles \cup {""}
ProfileAnswers == {"none", "default", "coding"}

VARIABLES
    active,        \* the title of the active window, "" on an empty desktop
    lastWindow,    \* _last_window
    layout,        \* _current_profile
    polling,       \* _running
    timers,        \* timeouts that will call _poll
    detection,     \* the thread: [at, title, profile], and whether the title is a new one
    shownFor,      \* history: the title that the last answer was about
    replaced,      \* history: an answer about lastWindow was replaced or dropped
    focusChanges, stops

activityVars == <<active, lastWindow, layout, polling, timers, detection, shownFor, replaced,
                  focusChanges, stops>>

ActivityTypeOK ==
    /\ active \in Titles /\ lastWindow \in Titles /\ layout \in {"default", "coding"}
    /\ polling \in {"off", "on"} /\ timers \in 0..MaxStops + 1
    /\ detection \in [at : {"none", "reads", "compares", "posted"}, title : Titles, profile : ProfileAnswers,
                      new : {"no", "yes"}]
    /\ shownFor \in Titles /\ replaced \in {"no", "yes"}
    /\ focusChanges \in 0..MaxFocusChanges /\ stops \in 0..MaxStops

NoDetection == [at |-> "none", title |-> "", profile |-> "none", new |-> "no"]

ActivityInit ==
    /\ active \in Titles /\ lastWindow = "" /\ layout = "default"
    /\ polling = "off" /\ timers = 0 /\ detection = NoDetection /\ shownFor = "" /\ replaced = "no"
    /\ focusChanges = 0 /\ stops = 0

ProfileOf(title) == IF title \in CodingTitles THEN "coding" ELSE "default"

\* _poll: one detection at a time.
Polls ==
    detection' = IF detection.at = "none" THEN [NoDetection EXCEPT !.at = "reads"] ELSE detection

ActivityStarts ==
    /\ polling = "off" /\ polling' = "on" /\ timers' = timers + 1 /\ Polls
    /\ UNCHANGED <<active, lastWindow, layout, shownFor, replaced, focusChanges, stops>>

\* A timer of an earlier start goes on when there was another start.
TimerPolls ==
    /\ timers > 0
    /\ IF polling = "on" THEN Polls /\ UNCHANGED timers
       ELSE timers' = timers - 1 /\ UNCHANGED detection
    /\ UNCHANGED <<active, lastWindow, layout, polling, shownFor, replaced, focusChanges, stops>>

ActivityStops ==
    /\ polling = "on" /\ stops < MaxStops /\ stops' = stops + 1 /\ polling' = "off"
    /\ UNCHANGED <<active, lastWindow, layout, timers, detection, shownFor, replaced, focusChanges>>

\* _get_active_window_title: hyprctl or AT-SPI, and "" when nothing answers.
ReadsTitle ==
    /\ detection.at = "reads"
    /\ \E title \in {active, ""} : detection' = [detection EXCEPT !.at = "compares", !.title = title]
    /\ UNCHANGED <<active, lastWindow, layout, polling, timers, shownFor, replaced, focusChanges, stops>>

\* Seeded bug: the title is remembered before it is compared.
RememberedFirst(title) == layout

\* The title of the last time has the profile it had.
Detected(title) == IF title = lastWindow THEN layout ELSE ProfileOf(title)

\* _detect_activity, in the thread.
DetectsActivity ==
    /\ detection.at = "compares"
    /\ LET title == detection.title IN
       IF title = ""
       THEN /\ detection' = [detection EXCEPT !.at = "posted", !.profile = "default"]
            /\ UNCHANGED lastWindow
       ELSE /\ detection' = [detection EXCEPT !.at = "posted", !.profile = Detected(title),
                                                   !.new = IF title = lastWindow THEN "no" ELSE "yes"]
            /\ lastWindow' = title
    /\ UNCHANGED <<active, layout, polling, timers, shownFor, replaced, focusChanges, stops>>

\* _apply_detected, in the main loop.
AppliesDetected ==
    /\ detection.at = "posted" /\ detection' = NoDetection
    /\ IF polling = "off" THEN UNCHANGED <<layout, shownFor>>
       ELSE layout' = detection.profile /\ shownFor' = detection.title
    /\ replaced' = IF (polling = "off" \/ detection.title = "") /\ lastWindow # "" THEN "yes"
                 ELSE IF polling = "on" /\ detection.new = "yes" THEN "no" ELSE replaced
    /\ UNCHANGED <<active, lastWindow, polling, timers, focusChanges, stops>>

FocusChanges(title) ==
    /\ focusChanges < MaxFocusChanges /\ focusChanges' = focusChanges + 1
    /\ title # active /\ active' = title
    /\ UNCHANGED <<lastWindow, layout, polling, timers, detection, shownFor, replaced, stops>>

ActivityNext ==
    \/ ActivityStarts \/ TimerPolls \/ ActivityStops \/ ReadsTitle \/ DetectsActivity \/ AppliesDetected
    \/ \E title \in Titles : FocusChanges(title)

ActivitySpec == ActivityInit /\ [][ActivityNext]_activityVars

-----------------------------------------------------------------------------
\* The layout suits the window the last answer was about ("detects foreground
\* app activity"), as long as that answer was not the second one about a title
\* whose first one an empty desktop or a stop had replaced.
LayoutFits == replaced = "no" => layout = ProfileOf(shownFor)
=============================================================================
