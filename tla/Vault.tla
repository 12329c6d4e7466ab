-------------------------------- MODULE Vault --------------------------------
(***************************************************************************)
(* The password vault of Security Center (darkos-security.py): the window  *)
(* with its screens and its copy of the entries, and vault.dat under it.   *)
(* A handler runs to its end on the main thread, but each file operation   *)
(* may raise OSError, the process may be killed and the power may fail     *)
(* between any two.  Encryption is abstracted to the password that opens a *)
(* file, so a key and the salt it is derived with are one value here.      *)
(***************************************************************************)
EXTENDS Naturals, Sequences, SequencesExt

CONSTANTS
    Passwords,   \* master passwords
    Entries,     \* entries a user may add, each once
    MaxFaults,   \* bound: file operations that fail
    MaxCuts      \* bound: kills and power cuts

Content == [pw : Passwords, entries : Seq(Entries)]
None == "none"
NoVault == [pw |-> None, entries |-> <<>>]
Torn == [pw |-> "torn", entries |-> <<>>]

ASSUME VaultConstants ==
    /\ MaxFaults \in Nat /\ MaxCuts \in Nat
    /\ Passwords # {} /\ Passwords \cap {None, "torn"} = {}

VARIABLES
    file,       \* what vault.dat names
    survivors,  \* what it may name after a power cut
    staged,     \* the temporary file, and where its data are
    screen,     \* the page of the vault tab, or "closed" without a window
    key, entries,  \* vault_key with vault_salt, and vault_entries
    rows,       \* the list on screen, whose buttons remember their index
    at,         \* the next file operation of the handler; "idle" between two
    undo,       \* what the handler puts back when it fails
    faults, cuts, added,
    kept,       \* history: entries reported saved and not asked to be deleted
    lastSave    \* history: how the last save of the unlocked vault ended

diskVars == <<file, survivors>>
windowVars == <<screen, key, entries, rows>>
boundVars == <<faults, cuts, added>>
vaultVars == <<diskVars, staged, windowVars, at, undo, boundVars, kept, lastSave>>

NoStage == [data |-> NoVault, on |-> "cache"]

\* Every variable keeps its type; what could be torn never reaches vault.dat.
DiskType ==
    /\ file \in Content \cup {NoVault}
    /\ survivors \subseteq Content \cup {NoVault} /\ file \in survivors
    /\ staged \in [data : Content \cup {NoVault}, on : {"cache", "platter"}]
WindowType ==
    /\ screen \in {"closed", "create", "unlock", "unlocked"}
    /\ key \in Passwords \cup {None}
    /\ entries \in Seq(Entries) /\ rows \in Seq(Entries) /\ undo \in Seq(Entries)
    /\ at \in {"idle", "write", "sync", "link", "unlink", "replace", "syncdir"}
BoundType ==
    /\ faults \in 0..MaxFaults /\ cuts \in 0..MaxCuts
    /\ added \subseteq Entries /\ kept \subseteq Entries /\ lastSave \in {"ok", "failed"}
VaultTypeOK == DiskType /\ WindowType /\ BoundType

VaultInit ==
    /\ file = NoVault /\ survivors = {NoVault} /\ staged = NoStage
    /\ screen = "closed" /\ key = None /\ entries = <<>> /\ rows = <<>>
    /\ at = "idle" /\ undo = <<>>
    /\ faults = 0 /\ cuts = 0 /\ added = {} /\ kept = {} /\ lastSave = "ok"

-----------------------------------------------------------------------------
(* The screens.                                                            *)

\* _build_vault_lock_screen asks whether the file exists when it is built.
LockScreen == IF file = NoVault THEN "create" ELSE "unlock"

\* The window is a single instance and is built when it is opened.
OpenWindow ==
    /\ screen = "closed"
    /\ screen' = LockScreen
    /\ UNCHANGED <<diskVars, staged, key, entries, rows, at, undo, boundVars, kept, lastSave>>

Forget == key' = None /\ entries' = <<>> /\ rows' = rows

\* _lock_vault forgets key and entries and builds the screen anew.
LockVault ==
    /\ screen = "unlocked" /\ at = "idle"
    /\ Forget
    /\ screen' = LockScreen
    /\ UNCHANGED <<diskVars, staged, at, undo, boundVars, kept, lastSave>>

CloseWindow ==
    /\ screen # "closed" /\ at = "idle"
    /\ Forget
    /\ screen' = "closed"
    /\ UNCHANGED <<diskVars, staged, at, undo, boundVars, kept, lastSave>>

\* _on_vault_unlock reads, derives the key and decrypts; a wrong password or a
\* file that does not decrypt only sets the error label.
Unlock(pw) ==
    /\ screen = "unlock" /\ at = "idle"
    /\ pw = file.pw
    /\ key' = pw /\ entries' = file.entries /\ rows' = file.entries
    /\ screen' = "unlocked" /\ lastSave' = "ok"
    /\ UNCHANGED <<diskVars, staged, at, undo, boundVars, kept>>

-----------------------------------------------------------------------------
(* The handlers that save, up to their first file operation.               *)

\* _on_vault_create with two equal, non-empty passwords.
Create(pw) ==
    /\ screen = "create" /\ at = "idle"
    /\ key' = pw /\ entries' = <<>> /\ at' = "write" /\ undo' = <<>>
    /\ UNCHANGED <<diskVars, staged, screen, rows, boundVars, kept, lastSave>>

\* _add_vault_entry: the dialog was confirmed with a title.
AddEntry(e) ==
    /\ screen = "unlocked" /\ at = "idle" /\ e \notin added
    /\ added' = added \cup {e}
    /\ entries' = Append(entries, e) /\ undo' = entries /\ at' = "write"
    /\ UNCHANGED <<diskVars, staged, screen, key, rows, faults, cuts, kept, lastSave>>

\* _make_vault_deleter(idx): the index of the row, checked against the list;
\* from here on the user no longer wants the entry of that row.
DeleteEntry(idx) ==
    /\ screen = "unlocked" /\ at = "idle"
    /\ idx \in DOMAIN rows /\ idx <= Len(entries)
    /\ entries' = RemoveAt(entries, idx) /\ undo' = entries /\ at' = "write"
    /\ kept' = kept \ {rows[idx]}
    /\ UNCHANGED <<diskVars, staged, screen, key, rows, boundVars, lastSave>>

-----------------------------------------------------------------------------
(* _save_vault and write_private_new, one file operation at a time.        *)

\* Creating goes through link(), saving through replace().
Publication == IF screen = "create" THEN "link" ELSE "replace"

WriteStaged ==
    /\ at = "write"
    /\ staged' = [data |-> [pw |-> key, entries |-> entries], on |-> "cache"]
    /\ at' = "sync"
    /\ UNCHANGED <<diskVars, windowVars, undo, boundVars, kept, lastSave>>

\* Seeded bug: no fsync of the temporary file.
NotSynced == "cache"

Synced == "platter"

SyncStaged ==
    /\ at = "sync"
    /\ staged' = [staged EXCEPT !.on = Synced]
    /\ at' = Publication
    /\ UNCHANGED <<diskVars, windowVars, undo, boundVars, kept, lastSave>>

\* What a power cut leaves of a published file.
Durable == IF staged.on = "platter" THEN staged.data ELSE Torn

\* Seeded bug: publication does not look at what is there.
LinkAnyway == TRUE

LinkSucceeds == file = NoVault

LinkStaged ==
    /\ at = "link" /\ LinkSucceeds
    /\ file' = staged.data /\ survivors' = survivors \cup {Durable}
    /\ at' = "unlink"
    /\ UNCHANGED <<staged, windowVars, undo, boundVars, kept, lastSave>>

\* Seeded bug: the list is not built again.
RefreshMissing == rows' = rows

\* The list is built from the entries and the handler returns.
Refresh == rows' = entries'
Return == at' = "idle" /\ staged' = NoStage

Created ==
    /\ at = "unlink"
    /\ Return /\ entries' = entries /\ Refresh
    /\ screen' = "unlocked" /\ lastSave' = "ok"
    /\ UNCHANGED <<diskVars, key, undo, boundVars, kept>>

ReplaceFile ==
    /\ at = "replace"
    /\ file' = staged.data /\ survivors' = survivors \cup {Durable}
    /\ at' = "syncdir"
    /\ UNCHANGED <<staged, windowVars, undo, boundVars, kept, lastSave>>

\* Seeded bug: the directory is not synced.
UnsyncedDirectory == survivors

SyncedDirectory == {file}

Saved ==
    /\ at = "syncdir"
    /\ survivors' = SyncedDirectory
    /\ Return /\ entries' = entries /\ Refresh
    /\ kept' = Range(entries) /\ lastSave' = "ok"
    /\ UNCHANGED <<file, screen, key, undo, boundVars>>

\* An operation raises: the temporary file goes, the handler puts the entries
\* back and says that the change could not be saved.
Failing ==
    /\ at \in {"write", "sync", "link", "unlink", "replace", "syncdir"}
    /\ faults < MaxFaults

SaveFails ==
    /\ screen = "unlocked" /\ Failing
    /\ faults' = faults + 1 /\ lastSave' = "failed"
    /\ Return /\ entries' = undo /\ Refresh
    /\ UNCHANGED <<diskVars, screen, key, undo, cuts, added, kept>>

\* Creating fails the same way, or because there is a vault by now.
CreateFails ==
    /\ screen = "create"
    /\ \/ Failing /\ faults' = faults + 1
       \/ at = "link" /\ ~LinkSucceeds /\ faults' = faults
    /\ Return /\ key' = None
    /\ UNCHANGED <<diskVars, screen, entries, rows, undo, cuts, added, kept, lastSave>>

-----------------------------------------------------------------------------
(* The environment.                                                        *)

\* A vault is copied back where there is none (file managers refuse to
\* overwrite).
VaultPutBack(pw) ==
    /\ file = NoVault
    /\ file' = [pw |-> pw, entries |-> <<>>] /\ survivors' = {file'}
    /\ UNCHANGED <<staged, windowVars, at, undo, boundVars, kept, lastSave>>

Gone ==
    /\ cuts < MaxCuts /\ cuts' = cuts + 1
    /\ Forget /\ Return /\ screen' = "closed"
    /\ UNCHANGED <<undo, faults, added, kept, lastSave>>

Killed == Gone /\ screen # "closed" /\ UNCHANGED diskVars

PowerCut ==
    /\ Gone
    /\ file' \in survivors
    /\ survivors' = {file'}

Handler ==
    \/ WriteStaged \/ SyncStaged \/ LinkStaged \/ Created \/ ReplaceFile \/ Saved
    \/ SaveFails \/ CreateFails

VaultNext ==
    \/ OpenWindow \/ LockVault \/ CloseWindow
    \/ \E pw \in Passwords : Unlock(pw) \/ Create(pw) \/ VaultPutBack(pw)
    \/ \E e \in Entries : AddEntry(e)
    \/ \E idx \in DOMAIN rows : DeleteEntry(idx)
    \/ Handler
    \/ Killed \/ PowerCut

VaultSpec == VaultInit /\ [][VaultNext]_vaultVars

-----------------------------------------------------------------------------
(* Properties.                                                             *)

\* "Vault files are private and atomically published": whenever the power
\* fails, each entry the user was told is saved, and has not asked to delete,
\* is in the vault that is left.
SavedSurvives == \A c \in survivors : kept \subseteq Range(c.entries)

\* "Create cannot replace an existing vault": no step of creating changes a
\* vault.dat that is there, even if it appeared after the screen was built.
CreateReplacesNothing ==
    [][screen = "create" /\ screen' # "closed" /\ file # NoVault => file' = file]_vaultVars

\* Between two handlers the list on screen is the list in memory, so a button
\* acts on the entry of its row, and as long as no save has failed it is what
\* vault.dat holds under this key.
ShownIsStored ==
    screen = "unlocked" /\ at = "idle"
        => /\ rows = entries
           /\ lastSave = "ok" => file = [pw |-> key, entries |-> entries]
=============================================================================
