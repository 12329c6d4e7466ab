----------------------------- MODULE SecurityTabs -----------------------------
(***************************************************************************)
(* The Shield and Quarantine tabs of Security Center (darkos-security.py): *)
(* one scan at a time in a thread, whose detections it moves to the        *)
(* quarantine, and the list of what is held there, read when something     *)
(* refreshes it, with buttons that restore or delete an entry.  Meanwhile  *)
(* continuous protection moves files there too, and the window may close.  *)
(* Each call of the quarantine is one step here; its own steps are in      *)
(* Quarantine.                                                             *)
(***************************************************************************)
EXTENDS Naturals, FiniteSets

CONSTANTS
    Flagged,       \* files that a scan would flag
    MaxScans       \* bound

ASSUME SecurityTabsConstants == MaxScans \in Nat /\ "none" \notin Flagged

VARIABLES
    fileAt,        \* where each file is: "in place", "held" or "deleted"
    tabsOpen,      \* not _closed: "yes" or "no"
    scanAt,        \* "none", "choosing", "scanning", "moving", "posted" or "stopped"
    scanCancel,    \* the event of the latest scan, "set" or "clear"
    scanButtons,   \* "on" or "off"
    cancelButton,  \* likewise
    toMove,        \* detections the worker has still to move
    quarantined,   \* those it has moved
    report,        \* "none", "scanning", "cancelled" or "done"
    listed,        \* the entries of the list
    said,          \* of the last button of a row: what, and of which file
    scans,
    cancelled,     \* history: whether this scan was cancelled by the user
    restoredNow,   \* history: entries restored since this scan began
    deletes        \* history: files whose deletion was asked for

tabsVars == <<fileAt, tabsOpen, scanAt, scanCancel, scanButtons, cancelButton, toMove, quarantined,
              report, listed, said, scans, cancelled, restoredNow, deletes>>
scanVars == <<scanAt, scanCancel, scanButtons, cancelButton, toMove, quarantined, report, scans, cancelled>>

Held == {f \in Flagged : fileAt[f] = "held"}

SecurityTabsTypeOK ==
    /\ fileAt \in [Flagged -> {"in place", "held", "deleted"}] /\ tabsOpen \in {"yes", "no"}
    /\ scanAt \in {"none", "choosing", "scanning", "moving", "posted", "stopped"}
    /\ scanCancel \in {"set", "clear"} /\ scanButtons \in {"on", "off"} /\ cancelButton \in {"on", "off"}
    /\ toMove \subseteq Flagged /\ quarantined \subseteq Flagged
    /\ report \in {"none", "scanning", "cancelled", "done"} /\ listed \subseteq Flagged
    /\ said \in {"nothing", "restored", "deleted", "failed"} \X (Flagged \cup {"none"})
    /\ scans \in 0..MaxScans /\ cancelled \in {"yes", "no", "by nobody"} /\ deletes \subseteq Flagged
    /\ restoredNow \subseteq Flagged

SecurityTabsInit ==
    /\ fileAt = [f \in Flagged |-> "in place"] /\ tabsOpen = "yes"
    /\ scanAt = "none" /\ scanCancel = "clear" /\ scanButtons = "on" /\ cancelButton = "off"
    /\ toMove = {} /\ quarantined = {} /\ report = "none" /\ listed = {} /\ said = <<"nothing", "none">>
    /\ scans = 0 /\ cancelled = "no" /\ restoredNow = {} /\ deletes = {}

-----------------------------------------------------------------------------
\* The chooser is modal; no button of the tabs can be pressed meanwhile.
AtTabs == tabsOpen = "yes" /\ scanAt # "choosing"

ChoosesScan ==
    /\ AtTabs /\ scanButtons = "on" /\ scans < MaxScans /\ scans' = scans + 1 /\ scanAt' = "choosing"
    /\ UNCHANGED <<fileAt, tabsOpen, scanCancel, scanButtons, cancelButton, toMove, quarantined, report,
                   listed, said, cancelled, restoredNow, deletes>>

\* Seeded bug: every scan has the event of the window.
SharedEvent == scanCancel

FreshEvent == "clear"

\* The rest of _choose_scan.
TargetChosen ==
    /\ tabsOpen = "yes" /\ scanAt = "choosing"
    /\ \/ /\ scanAt' = "none"
          /\ UNCHANGED <<scanCancel, scanButtons, cancelButton, quarantined, report, cancelled, restoredNow>>
       \/ /\ scanAt' = "scanning" /\ scanCancel' = FreshEvent /\ scanButtons' = "off"
          /\ cancelButton' = "on" /\ quarantined' = {} /\ report' = "scanning" /\ cancelled' = "no"
          /\ restoredNow' = {}
    /\ UNCHANGED <<fileAt, tabsOpen, toMove, listed, said, scans, deletes>>

CancelsScan ==
    /\ AtTabs /\ cancelButton = "on" /\ scanCancel' = "set" /\ cancelled' = "yes"
    /\ UNCHANGED <<fileAt, tabsOpen, scanAt, scanButtons, cancelButton, toMove, quarantined, report,
                   listed, said, scans, restoredNow, deletes>>

\* scan_path: a scan ends cancelled only once its event is set.
ScanReturns ==
    /\ scanAt = "scanning"
    /\ \/ scanAt' = "moving" /\ toMove' \in SUBSET {f \in Flagged : fileAt[f] = "in place"}
          /\ UNCHANGED cancelled
       \/ scanCancel = "set" /\ scanAt' = "stopped" /\ UNCHANGED toMove
          /\ cancelled' = IF cancelled = "yes" \/ tabsOpen = "no" THEN "yes" ELSE "by nobody"
    /\ UNCHANGED <<fileAt, tabsOpen, scanCancel, scanButtons, cancelButton, quarantined, report,
                   listed, said, scans, restoredNow, deletes>>

\* scan_and_quarantine: a file that cannot be moved, or has gone, is only reported.
MovesDetected ==
    /\ scanAt = "moving"
    /\ IF toMove = {} THEN scanAt' = "posted" /\ UNCHANGED <<toMove, fileAt, quarantined>>
       ELSE \E f \in toMove :
            /\ toMove' = toMove \ {f} /\ UNCHANGED scanAt
            /\ \/ /\ fileAt[f] = "in place" /\ fileAt' = [fileAt EXCEPT ![f] = "held"]
                  /\ quarantined' = quarantined \cup {f}
               \/ UNCHANGED <<fileAt, quarantined>>
    /\ UNCHANGED <<tabsOpen, scanCancel, scanButtons, cancelButton, report, listed, said, scans,
                   cancelled, restoredNow, deletes>>

\* Seeded bug: the list is left to the Refresh button.
AsListed == listed

\* _refresh_quarantine_list.
Relisted == Held

ScanFinished ==
    /\ scanAt \in {"posted", "stopped"} /\ scanAt' = "none"
    /\ IF tabsOpen = "no" THEN UNCHANGED <<report, scanButtons, cancelButton, listed>>
       ELSE /\ report' = IF scanAt = "posted" THEN "done" ELSE "cancelled"
            /\ scanButtons' = "on" /\ cancelButton' = "off"
            /\ listed' = IF quarantined # {} THEN Relisted ELSE listed
    /\ UNCHANGED <<fileAt, tabsOpen, scanCancel, toMove, quarantined, said, scans, cancelled, restoredNow, deletes>>

\* Continuous protection, in a process of its own.
ProtectionMoves(f) ==
    /\ fileAt[f] = "in place" /\ fileAt' = [fileAt EXCEPT ![f] = "held"]
    /\ UNCHANGED <<tabsOpen, scanVars, listed, said, restoredNow, deletes>>

RefreshPressed ==
    /\ AtTabs /\ listed' = Held /\ UNCHANGED <<fileAt, tabsOpen, scanVars, said, restoredNow, deletes>>

\* restore may find its place occupied, or the entry gone.
RestoresEntry(f) ==
    /\ AtTabs /\ f \in listed
    /\ \/ /\ fileAt[f] = "held" /\ fileAt' = [fileAt EXCEPT ![f] = "in place"]
          /\ said' = <<"restored", f>> /\ listed' = Held \ {f}
          /\ restoredNow' = restoredNow \cup {f}
       \/ said' = <<"failed", f>> /\ listed' = Held /\ UNCHANGED <<fileAt, restoredNow>>
    /\ UNCHANGED <<tabsOpen, scanVars, deletes>>

DeletesEntry(f) ==
    /\ AtTabs /\ f \in listed /\ deletes' = deletes \cup {f}
    /\ \/ /\ fileAt[f] = "held" /\ fileAt' = [fileAt EXCEPT ![f] = "deleted"]
          /\ said' = <<"deleted", f>> /\ listed' = Held \ {f}
       \/ /\ fileAt[f] # "held" /\ said' = <<"failed", f>> /\ listed' = Held /\ UNCHANGED fileAt
    /\ UNCHANGED <<tabsOpen, scanVars, restoredNow>>

\* _on_destroy; the process may end with the window, and its thread with it.
TabsClose ==
    /\ tabsOpen = "yes" /\ scanAt # "choosing" /\ tabsOpen' = "no" /\ scanCancel' = "set"
    /\ scanAt' \in {scanAt, "none"}
    /\ UNCHANGED <<fileAt, scanButtons, cancelButton, toMove, quarantined, report, listed, said, scans,
                   cancelled, restoredNow, deletes>>

SecurityTabsNext ==
    \/ ChoosesScan \/ TargetChosen \/ CancelsScan \/ ScanReturns \/ MovesDetected \/ ScanFinished
    \/ RefreshPressed \/ TabsClose
    \/ \E f \in Flagged : ProtectionMoves(f) \/ RestoresEntry(f) \/ DeletesEntry(f)

SecurityTabsSpec == SecurityTabsInit /\ [][SecurityTabsNext]_tabsVars

-----------------------------------------------------------------------------
\* No button stays insensitive without a scan, no scan ends as cancelled that
\* nobody cancelled, and the scan of a closed window is cancelled.
ScanButtonsWork ==
    /\ tabsOpen = "yes" => (scanButtons = "off" <=> scanAt \notin {"none", "choosing"})
    /\ tabsOpen = "yes" => (cancelButton = "on" <=> scanButtons = "off")
    /\ cancelled # "by nobody"
    /\ tabsOpen = "no" /\ scanAt = "scanning" => scanCancel = "set"

\* "A scan just quarantined something -- show it now": what the report says was
\* moved is in the list, until it is restored or deleted; what the tab says it
\* did to an entry has been done; and nothing is deleted unasked.
QuarantineTabTells ==
    /\ report = "done" => quarantined \subseteq listed \cup restoredNow \cup deletes
    /\ said[1] = "deleted" => fileAt[said[2]] = "deleted"
    /\ \A f \in Flagged : fileAt[f] = "deleted" => f \in deletes
=============================================================================
