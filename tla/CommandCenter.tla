---------------------------- MODULE CommandCenter ----------------------------
(***************************************************************************)
(* The shell's two overlays, the dock and the Command Center               *)
(* (darkos_shell/surfaces.py and __init__.py): when they are shown, what   *)
(* they fetch on worker threads, and how the installer hides them.         *)
(*                                                                         *)
(* A fetch takes a lock without blocking, runs its commands on a thread,    *)
(* releases the lock and only then posts its result to the main loop.      *)
(* Posting and dispatching are one step here: what was posted early and is *)
(* dispatched late cannot be told from what is posted late.  The media     *)
(* section polls whether there is a player; the notification list is read  *)
(* in two commands, and only when the panel is opened.                     *)
(***************************************************************************)
EXTENDS Naturals, FiniteSets, FiniteSetsExt

CONSTANTS
    Installers,   \* runs of darkos-installer
    MaxNotes,     \* bound: notifications that arrive
    MaxChanges,   \* bound: times a player starts or ends
    MaxFailures,  \* bound: commands that fail or time out
    MaxKeys,   \* bound: times the panel is shown or hidden by a key
    MaxLag        \* bound: threads between their lock and their post

ASSUME CenterConstants ==
    MaxNotes \in Nat /\ MaxChanges \in Nat /\ MaxFailures \in Nat
    /\ MaxKeys \in Nat /\ MaxLag \in Nat \ {0}

Fetches == {"media", "notes"}
Notes == 1..MaxNotes
Shown == {"shown", "hidden"}

VARIABLES
    dock, center,    \* whether each overlay is shown
    installerVisibility, \* what it was before the installer, or <<>>
    installer,       \* where each run of darkos-installer is
    timers,          \* whether the panel's timers run
    lock, fetcher,    \* the non-blocking locks, and what their holders are doing
    lagging,         \* results of threads that have released their lock
    player, section, \* whether there is a player, and a media section
    active, past,    \* mako's notifications, and its history
    dismissing,      \* whether makoctl dismiss has been launched
    list, clearBefore,  \* _notifications and _clear_before_id
    listed,          \* history: every notification the panel has been told of
    unread,          \* history: those a failed fetch has left out
    changes, failures, keys

overlayVars == <<dock, center, installerVisibility, installer, timers>>
fetchVars == <<lock, fetcher, lagging>>
makoVars == <<active, past, dismissing>>
viewVars == <<section, list, clearBefore, listed, unread>>
centerBounds == <<changes, failures, keys>>
centerVars == <<overlayVars, fetchVars, player, makoVars, viewVars, centerBounds>>

Known == active \cup past
NoThread == [at |-> "none", seen |-> {}, since |-> {}, fine |-> TRUE]
Started == [NoThread EXCEPT !.at = "reading", !.since = Known]
Threads == [at : {"none", "reading", "second"}, seen : SUBSET Notes,
            since : SUBSET Notes, fine : BOOLEAN]
Result == [media : {"on", "off"}, ids : SUBSET Notes, since : SUBSET Notes, fine : BOOLEAN]

\* Overlays, locks, threads, results and views keep their types, and a lock is
\* held exactly while its thread still has a command to run.
CenterTypeOK ==
    /\ dock \in Shown /\ center \in Shown
    /\ installerVisibility \in {<<>>} \cup (Shown \X Shown)
    /\ installer \in [Installers -> {"new", "open", "done"}]
    /\ timers \in {"off", "on"}
    /\ lock = {k \in Fetches : fetcher[k].at # "none"}
    /\ fetcher \in [Fetches -> Threads]
    /\ \A k \in Fetches : lagging[k] \subseteq Result /\ Cardinality(lagging[k]) <= MaxLag
    /\ player \in {"on", "off"} /\ section \in {"on", "off"}
    /\ active \subseteq Notes /\ past \subseteq Notes /\ active \cap past = {}
    /\ dismissing \in {"no", "yes"}
    /\ list \subseteq Notes /\ clearBefore \in 0..MaxNotes
    /\ listed \subseteq Notes /\ unread \subseteq Notes
    /\ changes \in 0..MaxChanges /\ failures \in 0..MaxFailures
    /\ keys \in 0..MaxKeys

-----------------------------------------------------------------------------
(* Fetches.                                                                *)

\* acquire(blocking=False): nothing happens where a fetch is under way.
StartFetches(K) ==
    /\ lock' = lock \cup K
    /\ fetcher' = [k \in Fetches |-> IF k \in K \ lock THEN Started ELSE fetcher[k]]
    /\ lagging' = lagging

\* do_activate: the panel is mapped once while it is built, then hidden.
CenterInit ==
    /\ dock = "shown" /\ center = "hidden" /\ timers = "off"
    /\ installerVisibility = <<>> /\ installer = [i \in Installers |-> "new"]
    /\ lock = Fetches
    /\ fetcher = [k \in Fetches |-> [NoThread EXCEPT !.at = "reading"]]
    /\ lagging = [k \in Fetches |-> {}]
    /\ player = "off" /\ section = "off"
    /\ active = {} /\ past = {} /\ dismissing = "no"
    /\ list = {} /\ clearBefore = 0 /\ listed = {} /\ unread = {}
    /\ changes = 0 /\ failures = 0 /\ keys = 0

\* The timer of refresh_media, whose handler returns at once while the panel
\* is hidden.
Tick ==
    /\ timers = "on" /\ center = "shown" /\ "media" \notin lock
    /\ StartFetches({"media"})
    /\ UNCHANGED <<overlayVars, player, makoVars, viewVars, centerBounds>>

\* Seeded bug: the lock is only released after a command that worked.
ReleasedIfFine(k, fine) == IF fine THEN lock \ {k} ELSE lock

Released(k, fine) == lock \ {k}

\* command_output() gives None where the command is missing, takes longer than
\* a second and a half, or has another status than 0.
Answers(fine) ==
    /\ failures' = IF fine THEN failures ELSE failures + 1
    /\ failures' <= MaxFailures

\* The last command is back, or has failed: finally releases the lock and the
\* thread goes on with its result.
Ends(k, fine, result) ==
    /\ Cardinality(lagging["media"]) + Cardinality(lagging["notes"]) < MaxLag
    /\ Answers(fine)
    /\ lock' = Released(k, fine)
    /\ fetcher' = [fetcher EXCEPT ![k] = NoThread]
    /\ lagging' = [lagging EXCEPT ![k] = @ \cup {result}]
    /\ UNCHANGED <<overlayVars, player, makoVars, viewVars, changes, keys>>

\* _fetch_media: playerctl fails where there is no player, or is too slow.
FetchMedia ==
    /\ fetcher["media"].at = "reading"
    /\ \E fine \in BOOLEAN :
           Ends("media", fine, [media |-> IF fine THEN player ELSE "off",
                                ids |-> {}, since |-> {}, fine |-> fine])

\* Seeded bug: the history is read first, and not the list after it.
HistoryFirst == past

FirstCommand == active
SecondCommand == past

\* _fetch_notifications: makoctl list, whose failure counts as an empty list ...
ReadList ==
    /\ fetcher["notes"].at = "reading"
    /\ \E fine \in BOOLEAN :
           /\ Answers(fine)
           /\ fetcher' = [fetcher EXCEPT
                  !["notes"] = [@ EXCEPT !.at = "second", !.fine = fine,
                                         !.seen = IF fine THEN FirstCommand ELSE {}]]
    /\ UNCHANGED <<overlayVars, lock, lagging, player, makoVars, viewVars, changes,
                   keys>>

\* ... then makoctl history, and what either of them named, once.  The fetch
\* owes the panel what existed when it began; one with a failed command is to
\* account for everything there is when it ends.
ReadHistory ==
    LET t == fetcher["notes"] IN
    /\ t.at = "second"
    /\ \E fine \in BOOLEAN :
           Ends("notes", fine,
                [media |-> "off", fine |-> t.fine /\ fine,
                 ids |-> t.seen \cup (IF fine THEN SecondCommand ELSE {}),
                 since |-> IF t.fine /\ fine THEN t.since ELSE Known])

\* idle_add and _apply_media ...
ApplyMedia ==
    \E r \in lagging["media"] :
        /\ lagging' = [lagging EXCEPT !["media"] = @ \ {r}]
        /\ section' = r.media
        /\ UNCHANGED <<overlayVars, lock, fetcher, player, makoVars, list, clearBefore,
                       listed, unread, centerBounds>>

\* ... and _apply_notifications, which replaces the list.
ApplyNotifications ==
    \E r \in lagging["notes"] :
        /\ lagging' = [lagging EXCEPT !["notes"] = @ \ {r}]
        /\ list' = r.ids /\ listed' = listed \cup r.ids
        /\ unread' = unread \cup (r.since \ r.ids)
        /\ UNCHANGED <<overlayVars, lock, fetcher, player, makoVars, section, clearBefore,
                       centerBounds>>

-----------------------------------------------------------------------------
(* The overlays.                                                           *)

\* Seeded bug: the timers are left running when the panel is hidden.
TimersKept == timers

TimersStopped == "off"

\* show_all() and hide() with their map and unmap handlers: shown, the panel
\* reads at once and starts its timers; hidden, it stops them.
CenterBecomes(v) ==
    /\ center' = v
    /\ IF v = "shown" /\ center = "hidden"
       THEN timers' = "on" /\ StartFetches({"notes", "media"})
       ELSE /\ timers' = IF v = "hidden" THEN TimersStopped ELSE timers
            /\ UNCHANGED fetchVars

\* _toggle_window, from SUPER+H or the status bar (Escape hides it too).
ToggleCenter ==
    /\ keys < MaxKeys /\ keys' = keys + 1
    /\ CenterBecomes(IF center = "shown" THEN "hidden" ELSE "shown")
    /\ UNCHANGED <<dock, installerVisibility, installer, player, makoVars, viewVars,
                   changes, failures>>

\* Seeded bug: a second installer saves what the first one hid.
SavedAgain == <<dock, center>>

SavedOnce ==
    IF installerVisibility = <<>> THEN <<dock, center>> ELSE installerVisibility

\* set_installer_mode(True), when darkos-installer starts ...
InstallerStarts(i) ==
    /\ installer[i] = "new"
    /\ installer' = [installer EXCEPT ![i] = "open"]
    /\ installerVisibility' = SavedOnce
    /\ dock' = "hidden" /\ CenterBecomes("hidden")
    /\ UNCHANGED <<player, makoVars, viewVars, centerBounds>>

\* ... and set_installer_mode(False), from its EXIT trap.
InstallerExits(i) ==
    /\ installer[i] = "open"
    /\ installer' = [installer EXCEPT ![i] = "done"]
    /\ installerVisibility' = <<>>
    /\ IF installerVisibility = <<>>
       THEN UNCHANGED <<dock, center, timers, fetchVars>>
       ELSE /\ dock' = installerVisibility[1]
            /\ CenterBecomes(installerVisibility[2])
    /\ UNCHANGED <<player, makoVars, viewVars, centerBounds>>

\* Seeded bug: everything up to the newest of mako is hidden.
NewestOfAll == Max(Known \cup {0})

NewestListed == Max(list \cup {0})

\* clear_notifications: dismiss what mako shows, hide what the panel lists.
ClearNotifications ==
    /\ center = "shown" /\ dismissing = "no"
    /\ dismissing' = "yes"
    /\ clearBefore' = Max({clearBefore, NewestListed})
    /\ UNCHANGED <<overlayVars, fetchVars, player, active, past, section, list, listed,
                   unread, centerBounds>>

-----------------------------------------------------------------------------
(* mako and the player.                                                    *)

\* mako numbers notifications upwards.
NoteArrives ==
    /\ Cardinality(Known) < MaxNotes
    /\ active' = active \cup {Cardinality(Known) + 1}
    /\ UNCHANGED <<overlayVars, fetchVars, player, past, dismissing, viewVars, centerBounds>>

\* One expires, later than a fetch takes between its two commands.
NoteExpires(n) ==
    /\ n \in active /\ (fetcher["notes"].at = "none" \/ n \in fetcher["notes"].since)
    /\ active' = active \ {n} /\ past' = past \cup {n}
    /\ UNCHANGED <<overlayVars, fetchVars, player, dismissing, viewVars, centerBounds>>

\* makoctl dismiss --all gets to run.
Dismissed ==
    /\ dismissing = "yes" /\ dismissing' = "no"
    /\ active' = {} /\ past' = Known
    /\ UNCHANGED <<overlayVars, fetchVars, player, viewVars, centerBounds>>

\* A player starts or ends.
PlayerChanges ==
    /\ changes < MaxChanges /\ changes' = changes + 1
    /\ player' = IF player = "on" THEN "off" ELSE "on"
    /\ UNCHANGED <<overlayVars, fetchVars, makoVars, viewVars, failures, keys>>

Worker == FetchMedia \/ ReadList \/ ReadHistory

CenterNext ==
    \/ Tick \/ Worker \/ ApplyMedia \/ ApplyNotifications
    \/ ToggleCenter \/ ClearNotifications
    \/ \E i \in Installers : InstallerStarts(i) \/ InstallerExits(i)
    \/ NoteArrives \/ Dismissed \/ PlayerChanges
    \/ \E n \in Notes : NoteExpires(n)

CenterSpec == CenterInit /\ [][CenterNext]_centerVars

\* Threads, timers and the main loop run; nobody has to press a key or close an
\* installer, and nothing has to happen on the player.
CenterFairness ==
    /\ WF_centerVars(Tick) /\ WF_centerVars(FetchMedia)
    /\ WF_centerVars(ReadList \/ ReadHistory)
    /\ WF_centerVars(ApplyMedia) /\ WF_centerVars(ApplyNotifications)

CenterFairSpec == CenterSpec /\ CenterFairness

-----------------------------------------------------------------------------
(* Properties.                                                             *)

\* The list a fetch hands to the panel names every notification that existed
\* when the fetch began, although some move from mako's list to its history
\* between its two commands, unless one of the two commands failed.
ListComplete == \A r \in lagging["notes"] : r.fine => r.since \subseteq r.ids

\* "Dismiss what is on screen, and hide everything up to now": clearing hides
\* no notification the panel has never been told of, even if a stale list had
\* replaced a newer one.  The exception is what existed while a makoctl of the
\* panel failed and was missing from that fetch: the history alone may name a
\* newer notification than one in the list that could not be read.
NothingUnseenHidden == \A n \in Known : n <= clearBefore => n \in listed \cup unread

\* "Nothing runs while the panel is closed": hidden, it soon has no timer and
\* no thread that reads for it.
QuietWhenHidden ==
    (center = "hidden") ~> (center = "shown" \/
                              (timers = "off" /\ fetcher["media"] = NoThread
                                              /\ fetcher["notes"] = NoThread))

\* "... then keep it fresh while visible": whatever order results arrive in and
\* whichever commands fail, the media section comes to agree with the player.
MediaSettles == <>[](center = "shown") => <>[](section = player)

\* A hidden dock is one that some open installer hid and that is remembered as
\* shown: no second installer, toggle or early exit makes the shell forget it.
DockRemembered ==
    dock = "hidden" =>
        /\ \E i \in Installers : installer[i] = "open"
        /\ installerVisibility # <<>> /\ installerVisibility[1] = "shown"
=============================================================================
