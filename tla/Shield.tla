-------------------------------- MODULE Shield --------------------------------
(***************************************************************************)
(* One scan of Shield (darkos_shell/shield.py): scan_path starts clamscan, *)
(* collect_report reads what it prints until it has ended, stop_scanner    *)
(* ends it when it has not, and the verdict is drawn from the exit status  *)
(* and the report.  clamscan is a process of its own: it may stall, close  *)
(* its output, crash, ignore SIGTERM or be beyond SIGKILL.                 *)
(*                                                                         *)
(* The report is counted in lines.  Whoever asks for the scan owns idle,   *)
(* back and the setting of cancel.                                         *)
(***************************************************************************)
EXTENDS Naturals, Sequences

CONSTANTS
    Files,     \* what may be scanned, a name standing for one content
    Contents,  \* what a file or folder may hold: sets of kinds
    Limit      \* REPORT_LIMIT

Kinds == {"good", "infected", "unreadable"}

ASSUME ConstantsOK == Contents \subseteq SUBSET Kinds /\ Limit \in Nat

VARIABLES
    content,  \* what each file holds
    present,  \* the files that exist and are no links
    at,       \* where scan_path is
    target,
    report, eof, interrupted,  \* collect_report's report, eof and outcome
    cancel,   \* whether the event of this scan is set
    verdict,  \* the outcome of the last scan
    proc,     \* clamscan
    left,     \* what it still has to look at
    code,     \* the status it will exit with
    output,   \* whether its end of the pipe is open
    pipe      \* the lines in the pipe

readerVars == <<at, target, report, eof, interrupted, verdict>>
procVars == <<proc, left, code, output>>
scanVars == <<content, present, readerVars, cancel, procVars, pipe>>

Lines == {"FOUND", "ERROR", "Scanned 0", "Scanned some"}
Waiting == {"stopping", "terminated", "killed"}

\* The scan keeps its types, and no scan returns while its clamscan runs on,
\* unless nothing can kill that.
ScanTypeOK ==
    /\ content \in [Files -> Contents] /\ present \subseteq Files
    /\ at \in {"idle", "reading", "back"} \cup Waiting
    /\ target \in Files \cup {"none"}
    /\ report \in Seq(Lines) /\ Len(report) <= Limit
    /\ eof \in {"no", "yes"} /\ interrupted \in {"none", "cancelled", "error"}
    /\ cancel \in {"no", "yes"}
    /\ verdict \in {"none", "clean", "detected", "error", "cancelled"}
    /\ proc \in {"none", "running", "dead", "stuck"}
    /\ left \subseteq Kinds /\ code \in {"0", "1", "2", "signal"}
    /\ output \in {"open", "closed"} /\ pipe \in Seq(Lines)
    /\ at \in {"idle", "back"} => proc # "running"

ScanInit ==
    /\ content \in [Files -> Contents] /\ present = {}
    /\ at = "idle" /\ target = "none"
    /\ report = <<>> /\ eof = "no" /\ interrupted = "none"
    /\ cancel = "no" /\ verdict = "none"
    /\ proc = "none" /\ left = {} /\ code = "0" /\ output = "closed" /\ pipe = <<>>

-----------------------------------------------------------------------------
(* scan_path.                                                              *)

\* scan_path is back without clamscan: cancelled before it began, no engine,
\* nothing to scan, or a process that could not be started.
Refuses(f) ==
    /\ at = "idle" /\ at' = "back" /\ target' = f
    /\ verdict' = IF cancel = "yes" THEN "cancelled" ELSE "error"
    /\ UNCHANGED <<content, present, report, eof, interrupted, cancel, procVars, pipe>>

\* A clamscan that cannot be killed is the last one that is followed.
StartScan(f) ==
    /\ at = "idle" /\ cancel = "no" /\ f \in present /\ proc # "stuck"
    /\ at' = "reading" /\ target' = f /\ verdict' = "none"
    /\ report' = <<>> /\ eof' = "no" /\ interrupted' = "none"
    /\ proc' = "running" /\ left' = content[f] /\ code' = "0"
    /\ output' = "open" /\ pipe' = <<>>
    /\ UNCHANGED <<content, present, cancel>>

\* collect_report leaves its loop, with or without a reason to distrust it.
LeavesLoop(reason) ==
    /\ at' = "stopping" /\ interrupted' = reason
    /\ UNCHANGED <<content, present, target, report, eof, verdict, cancel, procVars, pipe>>

SeesCancel == at = "reading" /\ cancel = "yes" /\ LeavesLoop("cancelled")

\* Seeded bug: the deadline is only looked at when there is something to read.
DeadlineWithOutput == pipe # <<>>

DeadlineSeen == TRUE

\* The deadline may pass at any time.
SeesDeadline == at = "reading" /\ cancel = "no" /\ DeadlineSeen /\ LeavesLoop("error")

Overflows == at = "reading" /\ pipe # <<>> /\ Len(report) = Limit /\ LeavesLoop("error")

ReadsLine ==
    /\ at = "reading" /\ pipe # <<>> /\ Len(report) < Limit
    /\ report' = Append(report, Head(pipe)) /\ pipe' = Tail(pipe)
    /\ UNCHANGED <<content, present, at, target, eof, interrupted, verdict, cancel, procVars>>

SeesEof ==
    /\ at = "reading" /\ pipe = <<>> /\ output = "closed" /\ eof = "no"
    /\ eof' = "yes"
    /\ UNCHANGED <<content, present, at, target, report, interrupted, verdict, cancel, procVars, pipe>>

AllRead == at = "reading" /\ eof = "yes" /\ proc = "dead" /\ LeavesLoop("none")

-----------------------------------------------------------------------------
(* stop_scanner and the verdict.                                           *)

AfterTerm == "killed"

\* SIGTERM, and after three seconds SIGKILL.
Insists ==
    /\ proc = "running"
    /\ \/ at = "stopping" /\ at' = "terminated"
       \/ at = "terminated" /\ at' = AfterTerm
    /\ UNCHANGED <<content, present, target, report, eof, interrupted, verdict, cancel, procVars, pipe>>

Says(line) == \E n \in 1..Len(report) : report[n] = line

\* Seeded bug: a summary is enough.
Summed == Says("Scanned some")

Confirmed == Says("Scanned some") /\ ~Says("ERROR")

Verdict ==
    IF interrupted # "none" THEN interrupted
    ELSE IF code = "1" THEN "detected"
    ELSE IF code = "0" /\ Confirmed THEN "clean" ELSE "error"

\* The pipe is closed, and what scan_path and collect_report remember is gone.
Forgets ==
    /\ report' = <<>> /\ eof' = "no" /\ interrupted' = "none"
    /\ left' = {} /\ code' = "0" /\ output' = "closed" /\ pipe' = <<>>
    /\ UNCHANGED <<content, present, target, cancel>>

Concludes ==
    /\ at \in Waiting /\ proc = "dead"
    /\ at' = "back" /\ verdict' = Verdict /\ proc' = "none"
    /\ Forgets

\* The last wait of three seconds fails too: TimeoutExpired is an error.
CannotKill ==
    /\ at = "killed" /\ proc = "running"
    /\ at' = "back" /\ verdict' = "error" /\ proc' = "stuck"
    /\ Forgets

-----------------------------------------------------------------------------
(* clamscan.                                                               *)

Prints(line) == pipe' = Append(pipe, line)

\* With --infected only what is wrong is printed.  An error need not show in
\* the status, and a detection outweighs it.
Examines(k) ==
    /\ proc = "running" /\ output = "open" /\ k \in left
    /\ left' = left \ {k}
    /\ \/ k = "good" /\ UNCHANGED <<code, pipe>>
       \/ k = "infected" /\ code' = "1" /\ Prints("FOUND")
       \/ k = "unreadable" /\ code' \in (IF code = "1" THEN {"1"} ELSE {"0", "2"}) /\ Prints("ERROR")
    /\ UNCHANGED <<content, present, readerVars, cancel, proc, output>>

\* It counts what it could read, and may count what it could not.
Finishes ==
    /\ proc = "running" /\ output = "open" /\ left = {}
    /\ proc' = "dead" /\ output' = "closed"
    /\ \/ content[target] \subseteq {"unreadable"} /\ Prints("Scanned 0")
       \/ content[target] # {} /\ Prints("Scanned some")
    /\ UNCHANGED <<content, present, readerVars, cancel, left, code>>

HangsUp ==
    /\ proc = "running" /\ output = "open" /\ output' = "closed"
    /\ UNCHANGED <<content, present, readerVars, cancel, proc, left, code, pipe>>

\* By itself, or by the signals sent to it.
Dies ==
    /\ proc = "running" /\ proc' = "dead" /\ code' \in {"2", "signal"} /\ output' = "closed"
    /\ UNCHANGED <<content, present, readerVars, cancel, left, pipe>>

Scanner == Finishes \/ HangsUp \/ Dies \/ \E k \in Kinds : Examines(k)
ScanPath ==
    \/ SeesCancel \/ SeesDeadline \/ Overflows \/ ReadsLine \/ SeesEof \/ AllRead
    \/ Insists \/ Concludes \/ CannotKill

-----------------------------------------------------------------------------
\* Clean is only said of what clamscan looked at as a whole and found good, with
\* something there to look at, however its report was cut or its status read.
CleanMeansLookedAt == verdict = "clean" => content[target] = {"good"}

\* Every scan ends, whatever clamscan does.
ScanEnds == at = "reading" ~> at = "back"
=============================================================================
