----------------------------- MODULE GatedInstall -----------------------------
(***************************************************************************)
(* The gates of the Store (darkos-store-gated-install.py as root and       *)
(* darkos-store-gated-aur-install.py as the user): every package file is   *)
(* scanned by Shield before pacman -U sees it.  Meanwhile other pacmans    *)
(* refresh the index and clean the cache, and pacman may fail or outlast   *)
(* the gate's patience.                                                    *)
(*                                                                         *)
(* In a behaviour whose caller is the center the same scans are run by     *)
(* Security Center, which may cancel them; the gates never do.             *)
(***************************************************************************)
EXTENDS Shield

VARIABLES
    caller,    \* who scans: "gate" or "center"
    origin,    \* "repo" for pacman's packages, "aur" for built ones
    step,      \* where the gate is
    index,     \* the files that installing the package takes, as of the index
    want,      \* the files that were resolved
    unscanned, \* those not cleared yet
    ours,      \* the files pacman -U has installed for the gate
    exit       \* the gate's exit status

gateVars == <<caller, origin, step, index, want, unscanned, ours, exit>>
vars == <<scanVars, gateVars>>

Sets == SUBSET Files \ {{}}

\* Gate and scan keep their types.
TypeOK ==
    /\ ScanTypeOK
    /\ caller \in {"gate", "center"} /\ origin \in {"repo", "aur"}
    /\ step \in {"idle", "resolved", "fetched", "verified", "installing"}
    /\ index \in Sets /\ want \subseteq Files /\ unscanned \subseteq want
    /\ ours \subseteq Files /\ exit \in {"none", "0", "1"}

Init ==
    /\ ScanInit
    /\ caller \in {"gate", "center"} /\ origin \in {"repo", "aur"}
    /\ step = "idle" /\ index \in Sets /\ want = {} /\ unscanned = {}
    /\ ours = {} /\ exit = "none"

-----------------------------------------------------------------------------
(* The gates.                                                              *)

\* GatedInstallError, or the end: the AUR's work directory is removed.
Exits(status) ==
    /\ step' = "idle" /\ exit' = status
    /\ present' = IF origin = "aur" THEN present \ want ELSE present
    /\ UNCHANGED <<content, cancel, procVars, pipe, caller, origin, index, want, unscanned>>

\* resolve_targets: pacman -Sp names the files as of now.
Resolve ==
    /\ caller = "gate" /\ origin = "repo" /\ step = "idle" /\ at = "idle"
    /\ step' = "resolved" /\ exit' = "none"
    /\ want' = index /\ unscanned' = index
    /\ UNCHANGED <<scanVars, caller, origin, index, ours>>

\* download: pacman -Sw fetches the files of the index of this moment.
Download ==
    /\ step = "resolved"
    /\ step' = "fetched" /\ present' = present \cup index
    /\ UNCHANGED <<content, readerVars, cancel, procVars, pipe, caller, origin, index, want,
                   unscanned, ours, exit>>

\* clone, confirm_build, build and resolve_built_packages: a build may leave
\* out some of the files that makepkg lists.
Build ==
    /\ caller = "gate" /\ origin = "aur" /\ step = "idle" /\ at = "idle"
    /\ step' = "fetched" /\ exit' = "none"
    /\ want' = index /\ unscanned' = index
    /\ \E built \in SUBSET index : present' = present \cup built
    /\ UNCHANGED <<content, readerVars, cancel, procVars, pipe, caller, origin, index, ours>>

\* A command fails, times out or is declined, or a file is not there; some
\* may have arrived.
Blocked ==
    /\ step \in {"resolved", "fetched"} /\ (step = "fetched" /\ origin = "repo" => ~(want \subseteq present))
    /\ step' = "idle" /\ exit' = "1"
    /\ \/ origin = "aur" /\ present' = present \ want
       \/ origin = "repo" /\ step = "resolved" /\ \E some \in SUBSET index : present' = present \cup some
       \/ origin = "repo" /\ step = "fetched" /\ UNCHANGED present
    /\ UNCHANGED <<content, readerVars, cancel, procVars, pipe, caller, origin, index, want,
                   unscanned, ours>>

\* verify_downloaded and verify_built.
Verify ==
    /\ step = "fetched" /\ want \subseteq present
    /\ step' = "verified"
    /\ UNCHANGED <<scanVars, caller, origin, index, want, unscanned, ours, exit>>

\* scan_all, one file after the other.
ScanNext(f) ==
    /\ step = "verified" /\ f \in unscanned
    /\ StartScan(f) \/ Refuses(f)
    /\ UNCHANGED gateVars

Cleared == unscanned \ {target}

TakeVerdict ==
    /\ caller = "gate" /\ at = "back" /\ at' = "idle"
    /\ UNCHANGED <<target, report, eof, interrupted, verdict, ours>>
    /\ IF verdict = "clean"
       THEN /\ unscanned' = Cleared
            /\ UNCHANGED <<content, present, cancel, procVars, pipe, caller, origin, step, index,
                           want, exit>>
       ELSE Exits("1")

Install ==
    /\ step = "verified" /\ unscanned = {} /\ at = "idle"
    /\ step' = "installing"
    /\ UNCHANGED <<scanVars, caller, origin, index, want, unscanned, ours, exit>>

\* Seeded bug: the package is installed by its name.
FilesOfIndex == index

FilesGiven == want

\* pacman -U ends: well, or not, or it is given up half way or after all.
InstallEnds ==
    /\ step = "installing" /\ UNCHANGED readerVars
    /\ \/ FilesGiven \subseteq present /\ ours' = ours \cup FilesGiven /\ Exits("0")
       \/ \E some \in SUBSET (FilesGiven \cap present) : ours' = ours \cup some /\ Exits("1")

Gate ==
    \/ Resolve \/ Download \/ Build \/ Blocked \/ Verify \/ TakeVerdict \/ Install \/ InstallEnds
    \/ \E f \in Files : ScanNext(f)

-----------------------------------------------------------------------------
(* Security Center, and everybody else.                                    *)

CenterScans(f) ==
    /\ caller = "center"
    /\ StartScan(f) \/ Refuses(f)
    /\ UNCHANGED gateVars

CenterCancels ==
    /\ caller = "center" /\ cancel = "no" /\ cancel' = "yes"
    /\ UNCHANGED <<content, present, readerVars, procVars, pipe, gateVars>>

\* The next scan has an event of its own.
CenterTakes ==
    /\ caller = "center" /\ at = "back" /\ at' = "idle" /\ cancel' = "no"
    /\ UNCHANGED <<content, present, target, report, eof, interrupted, verdict, procVars, pipe, gateVars>>

IndexRefreshed ==
    /\ caller = "gate" /\ index' \in Sets \ {index}
    /\ UNCHANGED <<scanVars, caller, origin, step, want, unscanned, ours, exit>>

\* The cache is cleaned, or a file dropped where Security Center will look.
FilesChange(f) ==
    /\ IF caller = "gate" THEN origin = "repo" /\ f \in present /\ present' = present \ {f}
                          ELSE f \notin present /\ present' = present \cup {f}
    /\ UNCHANGED <<content, readerVars, cancel, procVars, pipe, gateVars>>

Next ==
    \/ Gate \/ CenterCancels \/ CenterTakes \/ IndexRefreshed
    \/ \E f \in Files : CenterScans(f) \/ FilesChange(f)
    \/ (Scanner \/ ScanPath) /\ UNCHANGED gateVars

Spec == Init /\ [][Next]_vars

\* The deadline is a clock, stop_scanner's waits are of three seconds, and the
\* caller's thread runs.  clamscan owes nothing.
Fairness ==
    /\ WF_vars((SeesCancel \/ SeesDeadline \/ Insists \/ Concludes \/ CannotKill) /\ UNCHANGED gateVars)

FairSpec == Spec /\ Fairness

-----------------------------------------------------------------------------
\* Whatever happens to index and cache between the steps, pacman -U installs
\* nothing for a gate that Shield did not find good as a whole, and status 0
\* means that all of the package is installed.
GateHolds ==
    /\ \A f \in ours : content[f] = {"good"}
    /\ exit = "0" => want \subseteq ours
=============================================================================
