------------------------------- MODULE Integrity -------------------------------
(***************************************************************************)
(* darkos-integrity-check.py, one pass after another: AIDE against its     *)
(* baseline, which the first pass establishes, then rkhunter.  Each tool   *)
(* has 1800 s, and the daily service's unit has 1800 s for all of a pass,  *)
(* so that a timeout of AIDE is caught only in a pass started by hand.     *)
(***************************************************************************)
EXTENDS Naturals, FiniteSets

CONSTANTS
    SystemFiles,         \* what the two tools read
    LogLimit,            \* how many differences the first 4000 characters of a report name
    MaxPasses, MaxTamper, MaxToolFailures  \* bounds: passes, changes to files, tools that fail

ASSUME IntegrityConstants ==
    LogLimit \in Nat \ {0} /\ MaxPasses \in Nat /\ MaxTamper \in Nat /\ MaxToolFailures \in Nat

VARIABLES
    altered,     \* the files that are not as installed
    database,    \* AIDE_DB: how much of the system it has, and which were altered then
    databaseNew, \* AIDE_DB_NEW, likewise
    stage,       \* where the pass is, if there is one: "look", "init", "publish", "check", "rkhunter", "over"
    scanned,     \* the alterations AIDE, or rkhunter, had when it began
    integrityLog,\* the files whose differences this pass has in the log
    alerted,     \* the tools whose findings the user was notified of
    due,         \* history: what the pass must find, unless AIDE fails
    happened,    \* history: of this pass, "aide failed", "clean" (as AIDE is logged), "log full", "hunted", "cut short"
    passes, tampered, toolFailures

integrityVars == <<altered, database, databaseNew, stage, scanned, integrityLog, alerted, due,
                   happened, passes, tampered, toolFailures>>

NoDatabase == [kind |-> "none", of |-> {}]
Databases == [kind : {"none", "partial", "whole"}, of : SUBSET SystemFiles]

IntegrityTypeOK ==
    /\ altered \subseteq SystemFiles /\ scanned \subseteq SystemFiles
    /\ integrityLog \subseteq SystemFiles /\ due \subseteq SystemFiles
    /\ database \in Databases /\ databaseNew \in Databases
    /\ alerted \subseteq {"AIDE", "rkhunter"}
    /\ stage \in {"look", "init", "publish", "check", "rkhunter", "over"}
    /\ happened \subseteq {"aide failed", "clean", "log full", "hunted", "cut short"}
    /\ passes \in 0..MaxPasses /\ tampered \in 0..MaxTamper /\ toolFailures \in 0..MaxToolFailures

IntegrityInit ==
    /\ altered = {} /\ database = NoDatabase /\ databaseNew = NoDatabase
    /\ stage = "over" /\ scanned = {} /\ integrityLog = {} /\ alerted = {} /\ due = {}
    /\ happened = {} /\ passes = 0 /\ tampered = 0 /\ toolFailures = 0

-----------------------------------------------------------------------------
Unlike(now, base) == (now \ base) \cup (base \ now)

\* Any program of root's; changes while a tool runs are seen by it or not.
FileAltered(f) ==
    /\ tampered < MaxTamper /\ tampered' = tampered + 1 /\ altered' = Unlike(altered, {f})
    /\ due' = due \ {f}
    /\ UNCHANGED <<database, databaseNew, stage, scanned, integrityLog, alerted, happened, passes, toolFailures>>

PassStarts ==
    /\ stage = "over" /\ passes < MaxPasses /\ passes' = passes + 1
    /\ stage' = "look" /\ integrityLog' = {} /\ alerted' = {}
    /\ due' = IF database.kind = "none" THEN {} ELSE Unlike(altered, database.of)
    /\ happened' = {}
    /\ UNCHANGED <<altered, database, databaseNew, scanned, tampered, toolFailures>>

\* Seeded bug: every pass makes itself a new baseline.
Always == TRUE

NoBaseline == database.kind = "none"

\* aide begins, --init with a new database of its own.
AideBegins ==
    /\ stage = "look" /\ scanned' = altered
    /\ IF NoBaseline THEN stage' = "init" /\ databaseNew' = [kind |-> "partial", of |-> altered]
                     ELSE stage' = "check" /\ UNCHANGED databaseNew
    /\ UNCHANGED <<altered, database, integrityLog, alerted, due, happened,
                   passes, tampered, toolFailures>>

\* Seeded bug: whatever aide.db.new holds is taken.
AnyDatabase(status) == databaseNew.kind # "none"

Established(status) == status = "ok" /\ databaseNew.kind # "none"

\* aide --init ends: well, or with an exit status and a database cut short.
InitEnds(status) ==
    /\ stage = "init"
    /\ status = "ok" \/ (toolFailures < MaxToolFailures /\ status = "failed")
    /\ toolFailures' = IF status = "ok" THEN toolFailures ELSE toolFailures + 1
    /\ databaseNew' = IF status = "ok" THEN [kind |-> "whole", of |-> scanned] ELSE databaseNew
    /\ stage' = IF Established(status)' THEN "publish" ELSE "rkhunter"
    /\ happened' = (IF status = "ok" THEN {} ELSE {"aide failed"}) /\ scanned' = altered
    /\ UNCHANGED <<altered, database, integrityLog, alerted, due, passes, tampered>>

BaselinePublished ==
    /\ stage = "publish" /\ database' = databaseNew /\ databaseNew' = NoDatabase
    /\ stage' = "rkhunter" /\ scanned' = altered
    /\ UNCHANGED <<altered, integrityLog, alerted, due, happened, passes,
                   tampered, toolFailures>>

\* A notification comes after the log, and only if somebody is logged in and
\* notify-send answers.
Notified(tool, found) ==
    IF found THEN alerted' \in {alerted, alerted \cup {tool}} ELSE UNCHANGED alerted

\* What a log of so many differences names: all, or as many as there is room for.
Logged(differing) ==
    {S \in SUBSET differing : IF Cardinality(differing) <= LogLimit THEN S = differing
                              ELSE Cardinality(S) = LogLimit}

\* Seeded bug: a report without differences is clean, whatever the exit status.
CleanText(failed, report) == report = {}

\* Exit status 0.
Clean(failed, report) == ~failed /\ report = {}

\* aide --check ends.  Any other exit status is taken for differences, that of a
\* check which failed, with all, some or none of its report, as well.
AideChecked(failed) ==
    /\ stage = "check" /\ stage' = "rkhunter" /\ scanned' = altered
    /\ failed => toolFailures < MaxToolFailures
    /\ toolFailures' = IF failed THEN toolFailures + 1 ELSE toolFailures
    /\ \E differing \in {Unlike(scanned, database.of), Unlike(altered, database.of)} :
           \E report \in IF failed THEN SUBSET differing ELSE {differing} :
               /\ integrityLog' \in Logged(report) /\ Notified("AIDE", ~Clean(failed, report))
               /\ happened' = (IF failed THEN {"aide failed"} ELSE {})
                               \cup (IF Clean(failed, report) THEN {"clean"} ELSE {})
                               \cup (IF integrityLog' = report THEN {} ELSE {"log full"})
    /\ UNCHANGED <<altered, database, databaseNew, due, passes, tampered>>

\* Seeded bug: what running aide raises ends the pass.
EndsPass == "over"

NextTool == "rkhunter"

\* aide is not there, or takes more than its own 1800 s.
AideCannotRun ==
    /\ stage \in {"init", "check"} /\ toolFailures < MaxToolFailures
    /\ toolFailures' = toolFailures + 1 /\ happened' = {"aide failed"} /\ stage' = NextTool /\ scanned' = altered
    /\ UNCHANGED <<altered, database, databaseNew, integrityLog, alerted, due,
                   passes, tampered>>

\* rkhunter --cronjob ends, its warnings found in its text; or it cannot run.
RkhunterEnds ==
    /\ stage = "rkhunter" /\ stage' = "over" /\ happened' = happened \cup {"hunted"}
    /\ \/ \E differing \in {scanned, altered} : Notified("rkhunter", differing # {}) /\ UNCHANGED toolFailures
       \/ toolFailures < MaxToolFailures /\ toolFailures' = toolFailures + 1 /\ UNCHANGED alerted
    /\ UNCHANGED <<altered, database, databaseNew, scanned, integrityLog, due,
                   passes, tampered>>

\* The machine goes down, the unit's 1800 s end whichever tool took them, or
\* aide.db.new cannot be renamed or a report is no text, which nothing catches.
CutOff ==
    /\ stage # "over" /\ toolFailures < MaxToolFailures /\ toolFailures' = toolFailures + 1
    /\ stage' = "over" /\ happened' = happened \cup {"cut short"}
    /\ UNCHANGED <<altered, database, databaseNew, scanned, integrityLog, alerted, due,
                   passes, tampered>>

IntegrityNext ==
    \/ \E f \in SystemFiles : FileAltered(f)
    \/ PassStarts \/ AideBegins \/ \E status \in {"ok", "failed"} : InitEnds(status)
    \/ BaselinePublished \/ \E failed \in BOOLEAN : AideChecked(failed)
    \/ AideCannotRun \/ RkhunterEnds \/ CutOff

IntegritySpec == IntegrityInit /\ [][IntegrityNext]_integrityVars

-----------------------------------------------------------------------------
\* A failed aide passes for differences, and not for a clean system.
Told ==
    \/ due \subseteq integrityLog
    \/ "log full" \in happened /\ integrityLog # {}
    \/ "aide failed" \in happened /\ "clean" \notin happened

PassDone == stage = "over" /\ passes > 0 /\ "cut short" \notin happened

\* "The very first run after install establishes the baseline, every run after
\* that is a real check": the baseline is a whole one, and a pass nothing cut
\* short has in its log every file that was unlike it from the pass's start on,
\* or as many differences as the log takes, unless aide failed, in which case it
\* is not logged as clean; and it had rkhunter's turn also when aide failed.
ChangesAreReported ==
    /\ database.kind # "partial"
    /\ PassDone => "hunted" \in happened /\ Told
=============================================================================
