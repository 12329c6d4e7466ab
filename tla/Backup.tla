-------------------------------- MODULE Backup --------------------------------
(***************************************************************************)
(* Backup / Recovery (darkos-backup.py): archives of a folder, a manifest  *)
(* that lists them, and restores into fresh folders.  One window does one  *)
(* thing at a time; what interrupts it is a write that fails, a file that  *)
(* is not readable, or the end of the process.                             *)
(***************************************************************************)
EXTENDS Naturals, Sequences, SequencesExt

CONSTANTS
    Archives,     \* the names mkstemp may give
    NoArchive,
    MaxTrouble    \* bound: failures and kills

ASSUME BackupConstants == NoArchive \notin Archives /\ MaxTrouble \in Nat

VARIABLES
    archive,      \* each one on disk: "none", "torn" or "complete"
    manifest,     \* manifest.json, newest first
    backupRows,   \* the history on screen
    backupStep,   \* the handler: <<"idle">>, or where it stands with which archive
    asksDelete,   \* the archive of the open question, or NoArchive
    outcome,      \* what the window last said of each archive
    restores,     \* folders made by a restore that stand: a set of "complete", "torn"
    trouble,
    promised      \* history: archives reported saved whose deletion was not confirmed

backupVars == <<archive, manifest, backupRows, backupStep, asksDelete, outcome, restores, trouble,
                promised>>

Outcomes == {"none", "saved", "not in history", "failed", "killed"}
BackupSteps == {"archiving", "listing", "removing", "unlisting", "restoring"}

BackupTypeOK ==
    /\ archive \in [Archives -> {"none", "torn", "complete"}]
    /\ manifest \in Seq(Archives) /\ IsInjective(manifest)
    /\ backupRows \in Seq(Archives) /\ IsInjective(backupRows)
    /\ backupStep \in {<<"idle", NoArchive>>} \cup BackupSteps \X Archives
    /\ asksDelete \in Archives \cup {NoArchive}
    /\ outcome \in [Archives -> Outcomes] /\ restores \subseteq {"complete", "torn"}
    /\ trouble \in 0..MaxTrouble /\ promised \subseteq Archives

Idle == backupStep = <<"idle", NoArchive>>
At(step, a) == backupStep = <<step, a>>
Rest == backupStep' = <<"idle", NoArchive>>
Listed == ToSet(manifest)
Fails == trouble < MaxTrouble /\ trouble' = trouble + 1

BackupInit ==
    /\ archive = [a \in Archives |-> "none"] /\ manifest = <<>> /\ backupRows = <<>>
    /\ backupStep = <<"idle", NoArchive>> /\ asksDelete = NoArchive
    /\ outcome = [a \in Archives |-> "none"] /\ restores = {}
    /\ trouble = 0 /\ promised = {}

-----------------------------------------------------------------------------
(* Back up.                                                                *)

\* _run_backup and create_backup: mkstemp's name is new.
BackupStarts(a) ==
    /\ Idle /\ asksDelete = NoArchive /\ archive[a] = "none" /\ outcome[a] = "none"
    /\ archive' = [archive EXCEPT ![a] = "torn"] /\ backupStep' = <<"archiving", a>>
    /\ UNCHANGED <<manifest, backupRows, asksDelete, outcome, restores, trouble, promised>>

\* An unreadable member or a full disk fails the backup and its archive goes.
BackupArchives(a) ==
    /\ At("archiving", a)
    /\ \/ /\ archive' = [archive EXCEPT ![a] = "complete"] /\ backupStep' = <<"listing", a>>
          /\ UNCHANGED <<outcome, trouble>>
       \/ /\ Fails /\ archive' = [archive EXCEPT ![a] = "none"] /\ Rest
          /\ outcome' = [outcome EXCEPT ![a] = "failed"]
    /\ UNCHANGED <<manifest, backupRows, asksDelete, restores, promised>>

\* Seeded bug: the manifest is written in place, and is short when that fails.
SavedInPlace(content) == IF trouble' = trouble THEN manifest' = content ELSE manifest' = <<>>

\* save_manifest, whose staged file is renamed when it is complete.
BackupSaved(content) == manifest' = IF trouble' = trouble THEN content ELSE manifest

\* load_manifest, and save_manifest with the entry in front.
BackupListed(a) ==
    /\ At("listing", a) /\ Rest
    /\ trouble' = trouble \/ Fails
    /\ BackupSaved(<<a>> \o manifest)
    /\ IF trouble' = trouble
       THEN /\ outcome' = [outcome EXCEPT ![a] = "saved"] /\ promised' = promised \cup {a}
            /\ backupRows' = manifest'
       ELSE /\ outcome' = [outcome EXCEPT ![a] = "not in history"] /\ UNCHANGED <<promised, backupRows>>
    /\ UNCHANGED <<archive, asksDelete, restores>>

-----------------------------------------------------------------------------
(* History.                                                                *)

\* _refresh_history: what cannot be read is not shown.
RefreshHistory ==
    /\ Idle /\ asksDelete = NoArchive
    /\ backupRows' = manifest \/ backupRows' = <<>>
    /\ UNCHANGED <<archive, manifest, backupStep, asksDelete, outcome, restores, trouble, promised>>

\* _restore, of a row whose archive was there when it was shown.
RestoreStarts(a) ==
    /\ Idle /\ asksDelete = NoArchive /\ a \in ToSet(backupRows) /\ archive[a] = "complete"
    /\ backupStep' = <<"restoring", a>> /\ restores' = restores \cup {"torn"}
    /\ UNCHANGED <<archive, manifest, backupRows, asksDelete, outcome, trouble, promised>>

\* The whole folder goes when its extraction fails.
RestoreEnds(a) ==
    /\ At("restoring", a) /\ Rest
    /\ \/ restores' = (restores \ {"torn"}) \cup {"complete"} /\ UNCHANGED trouble
       \/ restores' = restores \ {"torn"} /\ Fails
    /\ UNCHANGED <<archive, manifest, backupRows, asksDelete, outcome, promised>>

AsksToDelete(a) ==
    /\ Idle /\ asksDelete = NoArchive /\ a \in ToSet(backupRows) /\ asksDelete' = a
    /\ UNCHANGED <<archive, manifest, backupRows, backupStep, outcome, restores, trouble, promised>>

KeepsArchive ==
    /\ Idle /\ asksDelete # NoArchive /\ asksDelete' = NoArchive
    /\ UNCHANGED <<archive, manifest, backupRows, backupStep, outcome, restores, trouble, promised>>

\* Confirmed, and the entry is still in the manifest.
DeletesArchive ==
    /\ Idle /\ asksDelete \in Listed /\ asksDelete' = NoArchive
    /\ backupStep' = <<"removing", asksDelete>> /\ promised' = promised \ {asksDelete}
    /\ UNCHANGED <<archive, manifest, backupRows, outcome, restores, trouble>>

\* Seeded bug: the entry goes first.
UnlistedFirst(a) ==
    IF backupStep[1] = "removing" THEN BackupSaved(RemoveFirst(manifest, a)) /\ UNCHANGED archive
    ELSE archive' = [archive EXCEPT ![a] = IF trouble' = trouble THEN "none" ELSE @]
         /\ UNCHANGED manifest

\* The archive goes first, then its entry, which the manifest has at most once.
DeletionStep(a) ==
    IF backupStep[1] = "removing"
    THEN archive' = [archive EXCEPT ![a] = IF trouble' = trouble THEN "none" ELSE @]
         /\ UNCHANGED manifest
    ELSE BackupSaved(RemoveFirst(manifest, a)) /\ UNCHANGED archive

\* What fails is reported, and the rows are those of the manifest.
ArchiveRemoved(a) ==
    /\ At("removing", a) \/ At("unlisting", a)
    /\ trouble' = trouble \/ Fails
    /\ DeletionStep(a)
    /\ IF trouble' = trouble /\ At("removing", a)
       THEN backupStep' = <<"unlisting", a>> /\ UNCHANGED backupRows
       ELSE Rest /\ backupRows' = manifest'
    /\ UNCHANGED <<asksDelete, outcome, restores, promised>>

-----------------------------------------------------------------------------
\* The session ends, or the power does, before or after the last rename.
BackupKilled ==
    /\ Fails /\ Rest /\ asksDelete' = NoArchive
    /\ manifest' = manifest \/ (backupStep[1] = "listing" /\ manifest' = <<backupStep[2]>> \o manifest)
    /\ backupRows' = manifest'
    /\ outcome' = IF Idle \/ outcome[backupStep[2]] # "none" THEN outcome
                  ELSE [outcome EXCEPT ![backupStep[2]] = "killed"]
    /\ UNCHANGED <<archive, restores, promised>>

BackupNext ==
    \/ RefreshHistory \/ KeepsArchive \/ DeletesArchive \/ BackupKilled
    \/ \E a \in Archives :
           \/ BackupStarts(a) \/ BackupArchives(a) \/ BackupListed(a)
           \/ RestoreStarts(a) \/ RestoreEnds(a) \/ AsksToDelete(a) \/ ArchiveRemoved(a)

BackupSpec == BackupInit /\ [][BackupNext]_backupVars

-----------------------------------------------------------------------------
\* "Backed up ... to" is a promise: until its deletion is confirmed the archive
\* is complete on disk and in the history, whatever was saved, deleted, full or
\* interrupted after it; and an archive the history does not list is one being
\* made, one the window said is not in the history, or one it was killed over.
PromisedIsKept ==
    /\ \A a \in promised : archive[a] = "complete" /\ a \in Listed
    /\ \A a \in Archives :
           archive[a] # "none" =>
               \/ a \in Listed \/ outcome[a] \in {"not in history", "killed"}
               \/ backupStep[1] \in {"archiving", "listing"} /\ backupStep[2] = a
=============================================================================
