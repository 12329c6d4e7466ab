----------------------------- MODULE Quarantine -----------------------------
(***************************************************************************)
(* The quarantine store (darkos_shell/quarantine.py) with everything that  *)
(* uses it at once: the protection daemon and a scan of Security Center,   *)
(* both through shield.scan_and_quarantine, and Security Center's Restore  *)
(* and Delete buttons.  File operations that the code makes one after      *)
(* another are steps of their own; a process may be killed between any two *)
(* and the disk may be full when a sidecar is written.                     *)
(***************************************************************************)
EXTENDS Naturals, FiniteSets

CONSTANTS
    Paths,      \* paths files are dropped at
    Removable,  \* those on another filesystem, where shutil.move copies
    Items,      \* the files, each written once and each flagged by the scanner
    Scanners,   \* the daemon and Security Center's scan thread
    Watched,    \* the paths the daemon has marked
    Center,     \* Security Center's scan, killed together with the Restore button
    MaxIds,     \* bound: uuid4 identifiers drawn
    MaxCrashes, \* bound: processes killed, or windows closed during a scan
    MaxFull,    \* bound: sidecar writes that fail
    Racing      \* whether files may be written at a path being moved

Ids == 1..MaxIds
None == "none"
Broken == "broken"

\* The daemon sees what it has marked; an on-demand scan goes anywhere.
Scanned == [s \in Scanners |-> IF s = Center THEN Paths ELSE Watched]

ASSUME QuarantineConstants ==
    /\ Removable \subseteq Paths
    /\ Watched \subseteq Paths /\ Center \in Scanners
    /\ MaxIds \in Nat /\ MaxCrashes \in Nat /\ MaxFull \in Nat
    /\ Racing \in BOOLEAN
    /\ {None, Broken} \cap (Items \cup Paths) = {}

VARIABLES
    disk,     \* what is at each path
    blob,     \* <id>.blob
    meta,     \* <id>.meta.json: the original path; Broken when half written
    scanner,  \* where each scanner is, and the path and id it works on
    button,   \* where Security Center's handler is, and its entry
    lastId, crashes, full, written,
    purged    \* history: the files permanent_delete was called for

storeVars == <<disk, blob, meta>>
quarantineBounds == <<lastId, crashes, full, written>>
quarantineVars == <<storeVars, scanner, button, quarantineBounds, purged>>

Idle == [at |-> "idle", path |-> None, id |-> 0]

\* The store, the scanners and the handler keep their types.
QuarantineTypeOK ==
    /\ disk \in [Paths -> Items \cup {None}]
    /\ blob \in [Ids -> Items \cup {None}]
    /\ meta \in [Ids -> Paths \cup {None, Broken}]
    /\ scanner \in [Scanners -> [at : {"idle", "flagged", "named", "copied", "moved"},
                                 path : Paths \cup {None}, id : 0..MaxIds]]
    /\ button \in [at : {"idle", "restore", "copied", "restored", "purged"},
                   path : Paths \cup {None}, id : 0..MaxIds]
    /\ lastId \in 0..MaxIds
    /\ crashes \in 0..MaxCrashes /\ full \in 0..MaxFull
    /\ purged \subseteq written /\ written \subseteq Items

QuarantineInit ==
    /\ disk = [p \in Paths |-> None]
    /\ blob = [n \in Ids |-> None]
    /\ meta = [n \in Ids |-> None]
    /\ scanner = [s \in Scanners |-> Idle]
    /\ button = Idle
    /\ lastId = 0 /\ crashes = 0 /\ full = 0 /\ written = {} /\ purged = {}

-----------------------------------------------------------------------------
(* scan_and_quarantine and quarantine_file.                                *)

GoesTo(s, at) == scanner' = [scanner EXCEPT ![s].at = at]
Stops(s) == scanner' = [scanner EXCEPT ![s] = Idle]

\* scan_path reports a detection and parse_infected_files resolves the path.
Flag(s, p) ==
    /\ scanner[s].at = "idle" /\ p \in Scanned[s] /\ disk[p] # None
    /\ scanner' = [scanner EXCEPT ![s] = [at |-> "flagged", path |-> p, id |-> 0]]
    /\ UNCHANGED <<storeVars, button, quarantineBounds, purged>>

\* stat() and _sha256_of() find the file and the entry draws an identifier ...
Name(s) ==
    /\ scanner[s].at = "flagged" /\ disk[scanner[s].path] # None
    /\ lastId < MaxIds
    /\ lastId' = lastId + 1
    /\ scanner' = [scanner EXCEPT ![s].at = "named", ![s].id = lastId + 1]
    /\ UNCHANGED <<storeVars, button, crashes, full, written, purged>>

\* ... or here, or in the move, the file is gone and OSError is reported.
FileGone(s) ==
    /\ scanner[s].at \in {"flagged", "named"} /\ disk[scanner[s].path] = None
    /\ Stops(s)
    /\ UNCHANGED <<storeVars, button, quarantineBounds, purged>>

\* Seeded bug: a blob named after the file it holds.
BlobIdByPath(s) == CHOOSE n \in Ids : TRUE

BlobId(s) == scanner[s].id

\* shutil.move on one filesystem is a rename.
Rename(s) ==
    LET p == scanner[s].path IN
    /\ scanner[s].at = "named" /\ p \notin Removable /\ disk[p] # None
    /\ blob' = [blob EXCEPT ![BlobId(s)] = disk[p]]
    /\ disk' = [disk EXCEPT ![p] = None]
    /\ GoesTo(s, "moved")
    /\ UNCHANGED <<meta, button, quarantineBounds, purged>>

\* Across filesystems it copies ...
Copy(s) ==
    LET p == scanner[s].path IN
    /\ scanner[s].at = "named" /\ p \in Removable /\ disk[p] # None
    /\ blob' = [blob EXCEPT ![BlobId(s)] = disk[p]]
    /\ GoesTo(s, "copied")
    /\ UNCHANGED <<disk, meta, button, quarantineBounds, purged>>

\* Seeded bug: a copied file is taken for moved and left without a sidecar.
AlwaysGone(p) == TRUE

OriginalGone(p) == disk[p] = None

\* ... and unlinks the original; a second scanner may have done so, and the
\* error leaves the copy without a sidecar.
Unlink(s) ==
    LET p == scanner[s].path IN
    /\ scanner[s].at = "copied"
    /\ disk' = [disk EXCEPT ![p] = None]
    /\ IF OriginalGone(p) THEN Stops(s) ELSE GoesTo(s, "moved")
    /\ UNCHANGED <<blob, meta, button, quarantineBounds, purged>>

Sidecar(s) == scanner[s].path

\* The sidecar is written; the owner of both files stays the user.
WriteMeta(s) ==
    /\ scanner[s].at = "moved"
    /\ meta' = [meta EXCEPT ![scanner[s].id] = Sidecar(s)]
    /\ Stops(s)
    /\ UNCHANGED <<disk, blob, button, quarantineBounds, purged>>

\* The disk is full: open() or write() raises, "COULD NOT quarantine".
MetaFails(s) ==
    /\ scanner[s].at = "moved" /\ full < MaxFull
    /\ full' = full + 1
    /\ \E m \in {None, Broken} : meta' = [meta EXCEPT ![scanner[s].id] = m]
    /\ Stops(s)
    /\ UNCHANGED <<disk, blob, button, lastId, crashes, written, purged>>

ScannerStep(s) ==
    \/ \E p \in Paths : Flag(s, p)
    \/ Name(s) \/ FileGone(s) \/ Rename(s) \/ Copy(s) \/ Unlink(s)
    \/ WriteMeta(s) \/ MetaFails(s)

-----------------------------------------------------------------------------
(* Security Center's buttons, on an entry of the list.                     *)

\* list_quarantine(): a readable sidecar with its blob.
Listed == {n \in Ids : meta[n] \in Paths /\ blob[n] # None}

DestFree(p) == disk[p] = None

\* restore(): record, blob and free destination are checked.
RestoreBegins(n) ==
    /\ button.at = "idle" /\ n \in Listed /\ DestFree(meta[n])
    /\ button' = [at |-> "restore", path |-> meta[n], id |-> n]
    /\ UNCHANGED <<storeVars, scanner, quarantineBounds, purged>>

\* The move back: a rename replaces whatever is there by now ...
RestoreRenames ==
    /\ button.at = "restore" /\ button.path \notin Removable
    /\ disk' = [disk EXCEPT ![button.path] = blob[button.id]]
    /\ blob' = [blob EXCEPT ![button.id] = None]
    /\ button' = [button EXCEPT !.at = "restored"]
    /\ UNCHANGED <<meta, scanner, quarantineBounds, purged>>

\* ... and so does a copy, before the blob is unlinked.
RestoreCopies ==
    /\ button.at = "restore" /\ button.path \in Removable
    /\ disk' = [disk EXCEPT ![button.path] = blob[button.id]]
    /\ button' = [button EXCEPT !.at = "copied"]
    /\ UNCHANGED <<blob, meta, scanner, quarantineBounds, purged>>

RestoreUnlinks ==
    /\ button.at = "copied"
    /\ blob' = [blob EXCEPT ![button.id] = None]
    /\ button' = [button EXCEPT !.at = "restored"]
    /\ UNCHANGED <<disk, meta, scanner, quarantineBounds, purged>>

\* permanent_delete() unlinks the blob.
DeleteBlob(n) ==
    /\ button.at = "idle" /\ n \in Listed
    /\ purged' = purged \cup {blob[n]}
    /\ blob' = [blob EXCEPT ![n] = None]
    /\ button' = [at |-> "purged", path |-> None, id |-> n]
    /\ UNCHANGED <<disk, meta, scanner, quarantineBounds>>

\* Both end by unlinking the sidecar.
UnlinkMeta ==
    /\ button.at \in {"restored", "purged"}
    /\ meta' = [meta EXCEPT ![button.id] = None]
    /\ button' = Idle
    /\ UNCHANGED <<disk, blob, scanner, quarantineBounds, purged>>

ButtonStep ==
    \/ \E n \in Ids : RestoreBegins(n) \/ DeleteBlob(n)
    \/ RestoreRenames \/ RestoreCopies \/ RestoreUnlinks \/ UnlinkMeta

-----------------------------------------------------------------------------
(* The environment.                                                        *)

\* Somebody is between the steps of a move from or to the path.
Moving(p) == button.path = p \/ \E s \in Scanners : scanner[s].path = p

\* A program writes a new file at a path where there is none.
Write(i, p) ==
    /\ i \notin written /\ disk[p] = None
    /\ Racing \/ ~Moving(p)
    /\ written' = written \cup {i}
    /\ disk' = [disk EXCEPT ![p] = i]
    /\ UNCHANGED <<blob, meta, scanner, button, lastId, crashes, full, purged>>

\* The daemon is killed, or Security Center is: its scan thread is a daemon
\* thread, so closing the window is enough for that.
Crash(s) ==
    /\ crashes < MaxCrashes
    /\ scanner[s].at # "idle" \/ (s = Center /\ button.at # "idle")
    /\ crashes' = crashes + 1
    /\ Stops(s)
    /\ button' = IF s = Center THEN Idle ELSE button
    /\ UNCHANGED <<storeVars, lastId, full, written, purged>>

QuarantineNext ==
    \/ \E s \in Scanners : ScannerStep(s)
    \/ ButtonStep
    \/ \E i \in Items, p \in Paths : Write(i, p)
    \/ \E s \in Scanners : Crash(s)

QuarantineSpec == QuarantineInit /\ [][QuarantineNext]_quarantineVars

-----------------------------------------------------------------------------
(* Properties.                                                             *)

OnDisk(i) == \E p \in Paths : disk[p] = i
InBlob(i) == \E n \in Ids : blob[n] = i

\* The file's place in the abstract view; "lost" is not a place there.
where ==
    [i \in Items |-> CASE i \notin written -> "unwritten"
                       [] OnDisk(i) -> "disk"
                       [] ~OnDisk(i) /\ InBlob(i) -> "held"
                       [] ~OnDisk(i) /\ ~InBlob(i) /\ i \in purged -> "purged"
                       [] OTHER -> "lost"]

\* "nothing here ever unlinks the original in place" and "never delete
\* silently": through any crash, full disk and pair of scanners a file is on
\* disk or in a blob, and disappears only by permanent_delete.
FilesInCustody == INSTANCE Custody WITH Items <- Items, where <- where
CustodySpec == FilesInCustody!Spec

\* "restore is always possible until permanent_delete is called explicitly":
\* a file that is in quarantine only, and that nobody is busy moving, is in
\* the list, so its Restore button is there.
Busy(n) == button.id = n \/ \E s \in Scanners : scanner[s].id = n
RestoreAlwaysPossible ==
    \A i \in Items :
        /\ where[i] = "held" /\ i \notin purged
        /\ ~\E n \in Ids : blob[n] = i /\ Busy(n)
        => \E n \in Listed : blob[n] = i

\* The same where no process was killed and no disk was full: neither two
\* scanners after one file nor a restore beside them hide it from the list.
HeldIsListed == crashes = 0 /\ full = 0 => RestoreAlwaysPossible

\* "this refuses rather than overwriting it": a restore never replaces a file
\* that is at the destination.  The code looks there first and moves later, so
\* this holds only as long as nobody writes there in between.
RestoreOverwritesNothing ==
    [][\A p \in Paths : button.at = "restore" /\ button'.at # "restore"
          => (disk[p] # None => disk'[p] = disk[p])]_quarantineVars
=============================================================================
