---------------------------------- MODULE Gaming ----------------------------------
(***************************************************************************)
(* The Gaming Hub (darkos-gaming.py): a refresh of what is installed, the  *)
(* launches its buttons offer, and a request to Waydroid, each on a thread *)
(* of its own, with modal messages between them.                           *)
(***************************************************************************)
EXTENDS Naturals

CONSTANTS
    Launchers,       \* Steam, Lutris, Bottles
    MaxRefreshes,    \* bound: refreshes
    MaxMoves         \* bound: programs installed or removed meanwhile, launches

ASSUME GamingConstants == MaxRefreshes \in Nat /\ MaxMoves \in Nat /\ "waydroid" \notin Launchers

Buttons == Launchers \cup {"waydroid"}

VARIABLES
    present,         \* what is on the PATH
    sensitive,       \* the launch and the action buttons that can be pressed
    refreshButton,
    refreshing,      \* _refreshing
    statusWorker,    \* the worker: "none", "launchers", "actions", "posted"
    found,           \* what it has found, and _statuses
    waydroidPending, \* _waydroid_pending
    waydroidWorker,  \* "none", "asks", "opens", "failed", "opened"
    message,         \* the modal message: "none", or what is done after it
    windowOpen,
    refreshes, moves

gamingVars == <<present, sensitive, refreshButton, refreshing, statusWorker, found, waydroidPending,
                waydroidWorker, message, windowOpen, refreshes, moves>>

YesNo == {"yes", "no"}

GamingTypeOK ==
    /\ present \subseteq Buttons /\ sensitive \subseteq Buttons /\ found \subseteq Buttons
    /\ refreshButton \in YesNo /\ refreshing \in YesNo
    /\ statusWorker \in {"none", "launchers", "actions", "posted"}
    /\ waydroidPending \in YesNo
    /\ waydroidWorker \in {"none", "asks", "opens", "failed", "opened"}
    /\ message \in {"none", "refresh", "nothing"} /\ windowOpen \in YesNo
    /\ refreshes \in 0..MaxRefreshes /\ moves \in 0..MaxMoves

\* The window starts the first refresh itself.
GamingInit ==
    /\ present \in SUBSET Buttons /\ sensitive = {} /\ found = {}
    /\ refreshButton = "no" /\ refreshing = "yes" /\ statusWorker = "launchers"
    /\ waydroidPending = "no" /\ waydroidWorker = "none" /\ message = "none" /\ windowOpen = "yes"
    /\ refreshes = 0 /\ moves = 0

Moves == moves < MaxMoves /\ moves' = moves + 1
AtWindow == windowOpen = "yes" /\ message = "none"

\* _start_status_refresh, which makes every button insensitive.
StartsRefresh ==
    IF windowOpen = "no" \/ refreshing = "yes"
    THEN UNCHANGED <<refreshing, statusWorker, refreshButton, sensitive>>
    ELSE /\ refreshing' = "yes" /\ statusWorker' = "launchers"
         /\ refreshButton' = "no" /\ sensitive' = {}

RefreshesStatus ==
    /\ AtWindow /\ refreshButton = "yes" /\ refreshes < MaxRefreshes /\ refreshes' = refreshes + 1
    /\ StartsRefresh
    /\ UNCHANGED <<present, found, waydroidPending, waydroidWorker, message, windowOpen, moves>>

\* _probe_launcher, _probe_version, _probe_proton, _probe_waydroid: commands
\* with a time limit.  Whatever is raised counts as nothing found.
ProbesLaunchers ==
    /\ statusWorker = "launchers"
    /\ \/ found' = present \cap Launchers /\ statusWorker' = "actions"
       \/ found' = {} /\ statusWorker' = "posted"
    /\ UNCHANGED <<present, sensitive, refreshButton, refreshing, waydroidPending, waydroidWorker,
                   message, windowOpen, refreshes, moves>>

\* _collect_action_paths, later.
FindsActions ==
    /\ statusWorker = "actions" /\ statusWorker' = "posted"
    /\ found' = found \cup (present \cap {"waydroid"})
    /\ UNCHANGED <<present, sensitive, refreshButton, refreshing, waydroidPending, waydroidWorker,
                   message, windowOpen, refreshes, moves>>

\* Seeded bug: a request under way does not count.
EveryFound == found

\* A request to Waydroid keeps its button insensitive.
Pressable == IF waydroidPending = "yes" THEN found \ {"waydroid"} ELSE found

\* _apply_statuses.
StatusesApplied ==
    /\ statusWorker = "posted" /\ statusWorker' = "none"
    /\ IF windowOpen = "no" THEN UNCHANGED <<refreshing, sensitive, refreshButton>>
       ELSE refreshing' = "no" /\ sensitive' = Pressable /\ refreshButton' = "yes"
    /\ UNCHANGED <<present, found, waydroidPending, waydroidWorker, message, windowOpen, refreshes, moves>>

\* _launch and _launch_action of Wine: the command is looked up again, and what
\* cannot be started is told, and refreshed after.
Launches(program) ==
    /\ AtWindow /\ program \in sensitive \cap Launchers /\ Moves
    /\ \/ program \in present /\ UNCHANGED message
       \/ message' = "refresh"
    /\ UNCHANGED <<present, sensitive, refreshButton, refreshing, statusWorker, found, waydroidPending,
                   waydroidWorker, windowOpen, refreshes>>

\* _launch_action of Waydroid.
OpensWaydroid ==
    /\ AtWindow /\ "waydroid" \in sensitive /\ waydroidPending = "no" /\ Moves
    /\ IF "waydroid" \notin present
       THEN message' = "nothing" /\ UNCHANGED <<waydroidPending, waydroidWorker, sensitive>>
       ELSE /\ waydroidPending' = "yes" /\ waydroidWorker' = "asks"
            /\ sensitive' = sensitive \ {"waydroid"} /\ UNCHANGED message
    /\ UNCHANGED <<present, refreshButton, refreshing, statusWorker, found, windowOpen, refreshes>>

\* _run_waydroid_action: the status first, and the interface only of a running
\* session.
WaydroidWorks ==
    /\ waydroidWorker \in {"asks", "opens"}
    /\ waydroidWorker' \in IF waydroidWorker = "asks" THEN {"opens", "failed"} ELSE {"opened", "failed"}
    /\ UNCHANGED <<present, sensitive, refreshButton, refreshing, statusWorker, found, waydroidPending,
                   message, windowOpen, refreshes, moves>>

\* Seeded bug: a refresh under way is forgotten.
WithWaydroid == sensitive \cup {"waydroid"}

AfterRequest == IF refreshing = "yes" THEN sensitive \ {"waydroid"} ELSE sensitive \cup {"waydroid"}

\* _finish_waydroid_action.  A message over another one is read before it.
WaydroidFinished ==
    /\ waydroidWorker \in {"failed", "opened"} /\ waydroidWorker' = "none"
    /\ IF windowOpen = "no" THEN UNCHANGED <<waydroidPending, sensitive, message>>
       ELSE /\ waydroidPending' = "no" /\ sensitive' = AfterRequest
            /\ message' = IF waydroidWorker = "failed" /\ message = "none" THEN "nothing" ELSE message
    /\ UNCHANGED <<present, refreshButton, refreshing, statusWorker, found, windowOpen, refreshes, moves>>

MessageRead ==
    /\ message # "none" /\ message' = "none"
    /\ IF message = "refresh" THEN StartsRefresh
       ELSE UNCHANGED <<refreshing, statusWorker, refreshButton, sensitive>>
    /\ UNCHANGED <<present, found, waydroidPending, waydroidWorker, windowOpen, refreshes, moves>>

GamingCloses ==
    /\ AtWindow /\ windowOpen' = "no"
    /\ UNCHANGED <<present, sensitive, refreshButton, refreshing, statusWorker, found, waydroidPending,
                   waydroidWorker, message, refreshes, moves>>

ProgramMoves(program) ==
    /\ Moves /\ present' = IF program \in present THEN present \ {program} ELSE present \cup {program}
    /\ UNCHANGED <<sensitive, refreshButton, refreshing, statusWorker, found, waydroidPending,
                   waydroidWorker, message, windowOpen, refreshes>>

GamingNext ==
    \/ RefreshesStatus \/ ProbesLaunchers \/ FindsActions \/ StatusesApplied
    \/ OpensWaydroid \/ WaydroidWorks \/ WaydroidFinished \/ MessageRead \/ GamingCloses
    \/ \E program \in Launchers : Launches(program)
    \/ \E program \in Buttons : ProgramMoves(program)

GamingSpec == GamingInit /\ [][GamingNext]_gamingVars

-----------------------------------------------------------------------------
\* No button can be pressed while it is not known what is installed, nor
\* Waydroid's during a request; and whatever threads end in whatever order,
\* every button of a program that was found comes back.
ButtonsComeBack ==
    windowOpen = "yes" =>
        /\ refreshing = "yes" <=> statusWorker # "none"
        /\ refreshing = "yes" => sensitive = {} /\ refreshButton = "no"
        /\ waydroidPending = "yes" => "waydroid" \notin sensitive
        /\ waydroidPending = "yes" <=> waydroidWorker # "none"
        /\ refreshing = "no" => refreshButton = "yes" /\ found \ {"waydroid"} = sensitive \ {"waydroid"}
        /\ refreshing = "no" /\ waydroidPending = "no" =>
            found \cap {"waydroid"} \subseteq sensitive
=============================================================================
