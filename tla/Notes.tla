-------------------------------- MODULE Notes --------------------------------
(***************************************************************************)
(* Notes (darkos-notes.py): one editor over the text files of a folder, or *)
(* over a single file given on the command line.  Edits of a note are      *)
(* written 600 ms after the last of them, or when another note is loaded   *)
(* or the window closes.  The two dialogs run a main loop of their own, in *)
(* which that timer may fire.                                              *)
(*                                                                         *)
(* A text is a number: 0 is no file, 1 the empty text.                     *)
(***************************************************************************)
EXTENDS Naturals

CONSTANTS
    Notebook,      \* paths of notes
    NoPath,
    MaxEdits,      \* bound
    MaxBadSaves    \* bound: writes that fail

ASSUME NotesConstants == NoPath \notin Notebook /\ MaxEdits \in Nat /\ MaxBadSaves \in Nat

VARIABLES
    mode,         \* standalone_mode: "single" or "folder"
    noteFile,     \* the files
    current,      \* current_path
    text,         \* the buffer
    dirty,
    saveTimer,    \* save_timeout_id
    noteDialog,   \* the modal dialog that is open
    notesOpen,    \* whether the window is
    edits, badSaves,
    meant,        \* history: what the user last made of each note
    told          \* history: texts whose last write failed

notesVars == <<mode, noteFile, current, text, dirty, saveTimer, noteDialog, notesOpen, edits,
               badSaves, meant, told>>

Texts == 0..(MaxEdits + 1)

NotesTypeOK ==
    /\ mode \in {"single", "folder"} /\ noteFile \in [Notebook -> Texts]
    /\ current \in Notebook \cup {NoPath} /\ text \in Texts \ {0}
    /\ dirty \in {"no", "yes"} /\ saveTimer \in {"off", "on"}
    /\ noteDialog \in {"none", "rename", "delete", "left"} /\ notesOpen \in {"no", "yes"}
    /\ edits \in 0..MaxEdits /\ badSaves \in 0..MaxBadSaves
    /\ meant \in [Notebook -> Texts] /\ told \subseteq Texts

\* The folder begins empty; a single file is there before the window.
NotesInit ==
    /\ mode \in {"single", "folder"} /\ text = 1 /\ dirty = "no" /\ saveTimer = "off"
    /\ noteDialog = "none" /\ notesOpen = "yes" /\ edits = 0 /\ badSaves = 0 /\ told = {}
    /\ \E p \in Notebook :
           /\ current = IF mode = "single" THEN p ELSE NoPath
           /\ noteFile = [q \in Notebook |-> IF q = current THEN 1 ELSE 0]
    /\ meant = noteFile

-----------------------------------------------------------------------------
(* Writing.                                                                *)

\* _write_current: it fails before or after the file is emptied.
Write(path, files) ==
    IF path = NoPath THEN noteFile' = files /\ UNCHANGED <<badSaves, told>>
    ELSE \/ /\ noteFile' = [files EXCEPT ![path] = text]
            /\ told' = told \ {text} /\ UNCHANGED badSaves
         \/ /\ badSaves < MaxBadSaves /\ badSaves' = badSaves + 1
            /\ \E left \in {files[path], 1} : noteFile' = [files EXCEPT ![path] = left]
            /\ told' = told \cup {text}

Unsaved(path) == IF path = NoPath \/ text \in told' THEN dirty ELSE "no"

\* Seeded bug: the timer is removed and nothing is written.
NeverPending == FALSE

SavePending == saveTimer = "on" /\ mode = "folder"

\* _flush_pending_save.
Flush(path, files) ==
    IF SavePending THEN Write(path, files) ELSE noteFile' = files /\ UNCHANGED <<badSaves, told>>

\* _load_file of p, when path was the current one: a file that cannot be read is
\* shown as an empty one.
LoadFile(path, files, p) ==
    /\ Flush(path, files)
    /\ current' = p /\ text' \in {noteFile'[p], 1} /\ dirty' = "no" /\ saveTimer' = "off"

\* _reload_note_list with nothing to select: an editor that is emptied
\* counts as edited.
EmptyEditor(files) ==
    /\ noteFile' = files /\ UNCHANGED <<badSaves, told>>
    /\ current' = NoPath /\ text' = 1
    /\ IF text = 1 THEN UNCHANGED <<dirty, saveTimer>> ELSE dirty' = "yes" /\ saveTimer' = "on"

-----------------------------------------------------------------------------
(* Handlers.                                                               *)

Editing == notesOpen = "yes" /\ noteDialog = "none"

\* _on_text_changed: the timer starts again.
Edit ==
    /\ Editing /\ current # NoPath /\ edits < MaxEdits
    /\ edits' = edits + 1 /\ text' = edits + 2 /\ dirty' = "yes" /\ saveTimer' = "on"
    /\ meant' = [meant EXCEPT ![current] = edits + 2]
    /\ UNCHANGED <<mode, noteFile, current, noteDialog, notesOpen, badSaves, told>>

\* Also in the loop of a dialog.
Autosave ==
    /\ notesOpen = "yes" /\ saveTimer = "on" /\ saveTimer' = "off"
    /\ Flush(current, noteFile)
    /\ dirty' = IF mode = "folder" THEN Unsaved(current) ELSE dirty
    /\ UNCHANGED <<mode, current, text, noteDialog, notesOpen, edits, meant>>

ManualSave ==
    /\ Editing /\ mode = "single" /\ dirty = "yes"
    /\ Write(current, noteFile) /\ dirty' = Unsaved(current)
    /\ UNCHANGED <<mode, current, text, saveTimer, noteDialog, notesOpen, edits, meant>>

SelectNote(p) ==
    /\ Editing /\ mode = "folder" /\ noteFile[p] # 0 /\ p # current
    /\ LoadFile(current, noteFile, p)
    /\ UNCHANGED <<mode, noteDialog, notesOpen, edits, meant>>

\* unique_note_path finds a name that is free.
NewNote(p) ==
    /\ Editing /\ mode = "folder" /\ noteFile[p] = 0
    /\ LoadFile(current, [noteFile EXCEPT ![p] = 1], p)
    /\ meant' = [meant EXCEPT ![p] = 1]
    /\ UNCHANGED <<mode, noteDialog, notesOpen, edits>>

AsksFor(dialog) ==
    /\ Editing /\ mode = "folder" /\ current # NoPath /\ noteDialog' = dialog
    /\ UNCHANGED <<mode, noteFile, current, text, dirty, saveTimer, notesOpen, edits, badSaves,
                   meant, told>>

Answers(dialog) == notesOpen = "yes" /\ noteDialog = dialog /\ noteDialog' = "none"

Cancels ==
    /\ Answers("rename") \/ Answers("delete") \/ Answers("left")
    /\ UNCHANGED <<mode, noteFile, current, text, dirty, saveTimer, notesOpen, edits, badSaves,
                   meant, told>>

Moved(files, p) == [files EXCEPT ![current] = 0, ![p] = files[current]]

\* The flush of the reload that follows still goes to the old path: within 600 ms
\* of an edit the note is torn, the edit under the old name and what was written
\* before it under the new one.
Renames(p) ==
    /\ Answers("rename") /\ noteFile[p] = 0
    /\ LoadFile(current, Moved(noteFile, p), p)
    /\ meant' = IF SavePending THEN [meant EXCEPT ![p] = noteFile[current]] ELSE Moved(meant, p)
    /\ UNCHANGED <<mode, notesOpen, edits>>

\* os.rename raises: the handler is left, and the dialog stays until it is closed.
RenameFails ==
    /\ notesOpen = "yes" /\ noteDialog = "rename" /\ noteDialog' = "left"
    /\ UNCHANGED <<mode, noteFile, current, text, dirty, saveTimer, notesOpen, edits, badSaves,
                   meant, told>>

\* Seeded bug: the deleted note is the current one while the list is reloaded.
StillCurrent == current

AfterDelete == NoPath

\* os.remove, which may fail and nothing is said, and the first of what is left is
\* selected.
Deletes ==
    /\ Answers("delete")
    /\ \E left \in {0, noteFile[current]} :
           LET files == [noteFile EXCEPT ![current] = left]
           IN /\ IF \A p \in Notebook : files[p] = 0
                 THEN EmptyEditor(files)
                 ELSE \E p \in Notebook : files[p] # 0 /\ LoadFile(AfterDelete, files, p)
              /\ meant' = [meant EXCEPT ![current] = left]
    /\ UNCHANGED <<mode, notesOpen, edits>>

\* _on_destroy.
NotesClose ==
    /\ Editing /\ notesOpen' = "no" /\ saveTimer' = "off"
    /\ Flush(current, noteFile)
    /\ dirty' = IF SavePending THEN Unsaved(current) ELSE dirty
    /\ UNCHANGED <<mode, current, text, noteDialog, edits, meant>>

NotesNext ==
    \/ Edit \/ Autosave \/ ManualSave \/ Cancels \/ RenameFails \/ Deletes \/ NotesClose
    \/ \E dialog \in {"rename", "delete"} : AsksFor(dialog)
    \/ \E p \in Notebook : SelectNote(p) \/ NewNote(p) \/ Renames(p)

NotesSpec == NotesInit /\ [][NotesNext]_notesVars

-----------------------------------------------------------------------------
\* A note's file holds what the user last made of that note, and a deleted note
\* has none or, when its removal failed, what was written of it, whatever was
\* selected, created, renamed, deleted or closed within the 600 ms: the exceptions
\* are an edit that is still in the editor, marked as unsaved, and a text whose
\* write failed.  A rename confirmed within the 600 ms leaves two notes, and of
\* these it says that both the edit and what was written before it are kept.
TextInItsNote ==
    \A p \in Notebook :
        \/ noteFile[p] = meant[p] \/ meant[p] \in told
        \/ p = current /\ dirty = "yes" /\ text = meant[p]
=============================================================================
