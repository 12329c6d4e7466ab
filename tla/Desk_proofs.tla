------------------------------ MODULE Desk_proofs ------------------------------
(***************************************************************************)
(* Proofs about the other programs of the desktop, for every value of      *)
(* their constants, and about all of them together: the desktop is a       *)
(* behaviour of each program, so that what they promise alone holds in it. *)
(***************************************************************************)
EXTENDS Desk, Programs_proofs

-----------------------------------------------------------------------------
(* Notes.  What is in the editor and unsaved is what the user last made of *)
(* the current note; every edit is a text of its own, so that a write that *)
(* succeeds makes up for no failure of another note.                       *)

UnsavedIsMeant ==
    current # NoPath =>
        /\ ((mode = "folder" /\ saveTimer = "on") \/ dirty = "yes") =>
               text = meant[current] /\ text # 1 /\ dirty = "yes"
        /\ (mode = "folder" /\ saveTimer = "on") => noteFile[current] # text

\* In a folder only a failed write leaves an editor unsaved without a timer.
UnsavedIsTold ==
    mode = "folder" /\ current # NoPath /\ dirty = "yes" /\ saveTimer = "off" => text \in told

\* No text is in two notes, be it what the file has or what is meant.
Unique(f, m) ==
    \A p \in Notebook : \A q \in Notebook : p # q =>
        /\ m[p] = m[q] => m[p] \in {0, 1}
        /\ f[p] = m[q] => m[q] \in {0, 1}
        /\ f[p] = f[q] => f[p] \in {0, 1}

EditsAreUnique == Unique(noteFile, meant)

NotesTypes ==
    /\ mode \in {"single", "folder"} /\ noteFile \in [Notebook -> Texts]
    /\ current \in Notebook \cup {NoPath} /\ text \in Texts \ {0}
    /\ dirty \in {"no", "yes"} /\ saveTimer \in {"off", "on"}
    /\ noteDialog \in {"none", "rename", "delete", "left"} /\ notesOpen \in {"no", "yes"}
    /\ meant \in [Notebook -> Texts] /\ told \subseteq Texts

\* The whole invariant.
NotesInv ==
    /\ NotesTypes /\ TextInItsNote /\ UnsavedIsMeant /\ UnsavedIsTold /\ EditsAreUnique
    /\ current # NoPath => noteFile[current] # 0
    /\ noteDialog # "none" => current # NoPath /\ mode = "folder"
    /\ mode = "single" => current # NoPath

NotesCounts ==
    /\ edits \in 0..MaxEdits /\ badSaves \in 0..MaxBadSaves
    /\ \A p \in Notebook : meant[p] <= edits + 1 /\ noteFile[p] <= edits + 1

\* One note has been written, made anew or deleted.
LEMMA UniqueWritten ==
    ASSUME NEW f, NEW m, NEW g, NEW n, NEW c \in Notebook, Unique(f, m),
           \A q \in Notebook : q # c => g[q] = f[q] /\ n[q] = m[q],
           g[c] \in {f[c], m[c], 0, 1}, n[c] \in {f[c], m[c], 0, 1}
    PROVE  Unique(g, n)
  BY DEF Unique

\* A write leaves the text in its file, or the old one and the user told so.
LEMMA WriteOutcome ==
    ASSUME NotesTypes, NEW path \in Notebook, NEW files \in [Notebook -> Texts], Write(path, files)
    PROVE  /\ noteFile' \in [Notebook -> Texts] /\ told' \subseteq Texts
           /\ noteFile'[path] \in {text, files[path], 1}
           /\ \A q \in Notebook : q # path => noteFile'[q] = files[q]
           /\ \/ noteFile'[path] = text /\ told' = told \ {text}
              \/ told' = told \cup {text}
<1>1. path # NoPath /\ text \in Texts \ {0} /\ told \subseteq Texts /\ 1 \in Texts /\ 1 # 0
  <2>1. 1 \in Texts
    BY NotesConstants DEF Texts
  <2> QED BY <2>1, NotesConstants DEF NotesTypes
<1>2. CASE noteFile' = [files EXCEPT ![path] = text] /\ told' = told \ {text}
  BY <1>1, <1>2
<1>3. CASE /\ \E left \in {files[path], 1} : noteFile' = [files EXCEPT ![path] = left]
           /\ told' = told \cup {text}
  BY <1>1, <1>3
<1> QED BY <1>1, <1>2, <1>3 DEF Write

\* After a flush every note is settled, the current one as well.
LEMMA FlushSettles ==
    ASSUME NotesInv, mode = "folder", NEW files \in [Notebook -> Texts], Flush(current, files),
           current # NoPath => files[current] = noteFile[current]
    PROVE  /\ noteFile' \in [Notebook -> Texts] /\ told' \subseteq Texts
           /\ \A q \in Notebook : q # current => noteFile'[q] = files[q]
           /\ \A q \in Notebook : q # current /\ meant[q] \in told => meant[q] \in told'
           /\ current # NoPath => noteFile'[current] # 0
           /\ current # NoPath => noteFile'[current] \in {noteFile[current], meant[current], 1}
           /\ current # NoPath => noteFile'[current] = meant[current] \/ meant[current] \in told'
<1>1. NotesTypes /\ told \subseteq Texts /\ meant \in [Notebook -> Texts] /\ current \in Notebook \cup {NoPath}
      /\ saveTimer \in {"off", "on"} /\ text # 0
  BY DEF NotesInv, NotesTypes
<1>2. CASE ~SavePending
  <2>1. noteFile' = files /\ told' = told
    BY <1>2 DEF Flush
  <2>2. saveTimer = "off"
    BY <1>1, <1>2 DEF SavePending
  <2>3. ASSUME current # NoPath PROVE noteFile[current] = meant[current] \/ meant[current] \in told
    BY <1>1, <2>2, <2>3 DEF NotesInv, TextInItsNote, UnsavedIsTold
  <2> QED BY <1>1, <2>1, <2>3 DEF NotesInv
<1>3. CASE SavePending /\ current = NoPath
  BY <1>1, <1>3 DEF Flush, Write
<1>4. CASE SavePending /\ current # NoPath
  <2>1. text = meant[current] /\ text # 1 /\ current \in Notebook /\ files[current] # 0
    BY <1>1, <1>4 DEF NotesInv, UnsavedIsMeant, SavePending
  <2>2. Write(current, files)
    BY <1>4 DEF Flush
  <2>3. /\ noteFile' \in [Notebook -> Texts] /\ told' \subseteq Texts
        /\ noteFile'[current] \in {text, files[current], 1}
        /\ \A q \in Notebook : q # current => noteFile'[q] = files[q]
        /\ \/ noteFile'[current] = text /\ told' = told \ {text}
           \/ told' = told \cup {text}
    BY <1>1, <2>1, <2>2, WriteOutcome
  <2>4. \A q \in Notebook : q # current => meant[q] # text
    BY <1>1, <2>1 DEF NotesInv, EditsAreUnique, Unique
  <2>5. noteFile'[current] # 0
    BY <1>1, <2>1, <2>3
  <2> QED BY <2>1, <2>3, <2>4, <2>5
<1> QED BY <1>2, <1>3, <1>4

\* A flush leaves no text in two notes.
LEMMA FlushedIsUnique ==
    ASSUME NotesInv, meant' = meant,
           \A q \in Notebook : q # current => noteFile'[q] = noteFile[q],
           current # NoPath => noteFile'[current] \in {noteFile[current], meant[current], 1}
    PROVE  EditsAreUnique'
<1>1. current \in Notebook \cup {NoPath} /\ NoPath \notin Notebook
  BY NotesConstants DEF NotesInv, NotesTypes
<1>2. CASE current = NoPath
  BY <1>1, <1>2 DEF NotesInv, EditsAreUnique, Unique
<1>3. CASE current # NoPath
  <2>1. Unique(noteFile, meant) /\ current \in Notebook
    BY <1>1, <1>3 DEF NotesInv, EditsAreUnique
  <2>2. Unique(noteFile', meant')
    BY <1>3, <2>1, UniqueWritten
  <2> QED BY <2>2 DEF EditsAreUnique
<1> QED BY <1>2, <1>3

\* A note that was loaded is what its file says; nothing is unsaved.
LEMMA LoadedKeeps ==
    ASSUME NEW p \in Notebook, mode' \in {"single", "folder"}, notesOpen' \in {"no", "yes"},
           noteFile' \in [Notebook -> Texts], told' \subseteq Texts, meant' \in [Notebook -> Texts],
           \A q \in Notebook : noteFile'[q] = meant'[q] \/ meant'[q] \in told', EditsAreUnique',
           current' = p, noteFile'[p] # 0, text' \in {noteFile'[p], 1}, dirty' = "no", saveTimer' = "off",
           noteDialog' = "none"
    PROVE  NotesInv'
<1>0. 1 \in Texts /\ 1 # 0
  BY NotesConstants DEF Texts
<1>1. NotesTypes'
  BY <1>0 DEF NotesTypes
<1> QED BY <1>1, NotesConstants DEF NotesInv, TextInItsNote, UnsavedIsMeant, UnsavedIsTold

\* Every step keeps each file what was last made of its note.
LEMMA NotesInvKept ==
    ASSUME NotesInv, NotesCounts, [NotesNext]_notesVars
    PROVE  NotesInv'
<1>a. NoPath \notin Notebook /\ MaxEdits \in Nat /\ 0 \in Texts /\ 1 \in Texts /\ 0 # 1
  <2>1. MaxEdits \in Nat
    BY NotesConstants
  <2> QED BY <2>1, NotesConstants DEF Texts
<1>t. NotesTypes
  BY DEF NotesInv
<1>s. \A q \in Notebook : q # current => noteFile[q] = meant[q] \/ meant[q] \in told
  BY DEF NotesInv, TextInItsNote
<1>f. current # NoPath => noteFile[current] # 0
  BY DEF NotesInv
<1>1. CASE Edit
  <2>1. /\ Editing /\ current # NoPath /\ text' = edits + 2 /\ dirty' = "yes" /\ saveTimer' = "on"
        /\ meant' = [meant EXCEPT ![current] = edits + 2]
        /\ UNCHANGED <<mode, noteFile, current, noteDialog, notesOpen, told>>
    BY <1>1 DEF Edit
  <2>2. edits + 2 \in Texts \ {0, 1} /\ \A q \in Notebook : meant[q] # edits + 2 /\ noteFile[q] # edits + 2
    <3>1. edits \in 0..MaxEdits /\ edits < MaxEdits
      BY <1>1 DEF Edit, NotesCounts
    <3>2. \A q \in Notebook : /\ meant[q] <= edits + 1 /\ meant[q] \in Nat
                              /\ noteFile[q] <= edits + 1 /\ noteFile[q] \in Nat
      BY <1>t DEF NotesCounts, NotesTypes, Texts
    <3> QED BY <3>1, <3>2, <1>a DEF Texts
  <2>3. current \in Notebook
    BY <1>t, <2>1 DEF NotesTypes
  <2> DEFINE new == edits + 2
  <2>4. new \in Texts \ {0, 1} /\ text' = new /\ meant' = [meant EXCEPT ![current] = new]
        /\ \A q \in Notebook : meant[q] # new /\ noteFile[q] # new
    BY <2>1, <2>2
  <2> HIDE DEF new
  <2>5. NotesTypes'
    BY <1>t, <2>1, <2>4 DEF NotesTypes
  <2>6. \A q \in Notebook : meant'[q] = IF q = current THEN new ELSE meant[q]
    BY <1>t, <2>4 DEF NotesTypes
  <2>7. EditsAreUnique'
    BY <2>1, <2>4, <2>6 DEF EditsAreUnique, NotesInv, Unique
  <2>8. TextInItsNote'
    BY <1>s, <2>1, <2>4, <2>6 DEF TextInItsNote
  <2> QED BY <1>f, <2>1, <2>3, <2>4, <2>5, <2>6, <2>7, <2>8 DEF NotesInv, UnsavedIsMeant, UnsavedIsTold
<1>2. CASE Autosave
  <2>1. /\ saveTimer = "on" /\ saveTimer' = "off" /\ Flush(current, noteFile)
        /\ dirty' = IF mode = "folder" THEN Unsaved(current) ELSE dirty
        /\ UNCHANGED <<mode, current, text, noteDialog, notesOpen, meant>>
    BY <1>2 DEF Autosave
  <2>2. CASE mode = "folder"
    <3>1. noteFile \in [Notebook -> Texts]
      BY <1>t DEF NotesTypes
    <3>2. /\ noteFile' \in [Notebook -> Texts] /\ told' \subseteq Texts
          /\ \A q \in Notebook : q # current => noteFile'[q] = noteFile[q]
          /\ \A q \in Notebook : q # current /\ meant[q] \in told => meant[q] \in told'
          /\ current # NoPath => noteFile'[current] # 0
          /\ current # NoPath => noteFile'[current] \in {noteFile[current], meant[current], 1}
          /\ current # NoPath => noteFile'[current] = meant[current] \/ meant[current] \in told'
      BY <2>1, <2>2, <3>1, FlushSettles
    <3>3. NotesTypes'
      BY <1>t, <2>1, <2>2, <3>2 DEF NotesTypes, Unsaved
    <3>4. TextInItsNote'
      BY <1>a, <1>s, <2>1, <3>2 DEF TextInItsNote
    <3>5. UnsavedIsMeant' /\ UnsavedIsTold'
      BY <2>1, <2>2 DEF NotesInv, UnsavedIsMeant, UnsavedIsTold, Unsaved
    <3>6. EditsAreUnique'
      BY <1>a, <1>t, <2>1, <3>2, FlushedIsUnique
    <3> QED BY <2>1, <3>2, <3>3, <3>4, <3>5, <3>6 DEF NotesInv
  <2>3. CASE mode # "folder"
    <3>1. UNCHANGED <<noteFile, told, dirty>>
      BY <2>1, <2>3 DEF Flush, SavePending
    <3> QED BY <2>1, <2>3, <3>1 DEF NotesInv, NotesTypes, TextInItsNote, UnsavedIsMeant, UnsavedIsTold, EditsAreUnique
  <2> QED BY <2>2, <2>3
<1>3. CASE ManualSave
  <2>1. /\ mode = "single" /\ dirty = "yes" /\ Write(current, noteFile) /\ dirty' = Unsaved(current)
        /\ UNCHANGED <<mode, current, text, saveTimer, noteDialog, notesOpen, meant>>
    BY <1>3 DEF ManualSave
  <2>2. current \in Notebook /\ text = meant[current] /\ text # 1 /\ noteFile \in [Notebook -> Texts]
    BY <1>t, <2>1 DEF NotesInv, NotesTypes, UnsavedIsMeant
  <2>3. /\ noteFile' \in [Notebook -> Texts] /\ told' \subseteq Texts
        /\ noteFile'[current] \in {text, noteFile[current], 1}
        /\ \A q \in Notebook : q # current => noteFile'[q] = noteFile[q]
        /\ \/ noteFile'[current] = text /\ told' = told \ {text}
           \/ told' = told \cup {text}
    BY <1>t, <1>f, <1>a, <2>1, <2>2, WriteOutcome
  <2>4. \A q \in Notebook : q # current => meant[q] # text
    BY <1>t, <2>2 DEF NotesInv, NotesTypes, EditsAreUnique, Unique
  <2>5. dirty' \in {"no", "yes"} /\ (dirty' = "yes" => text \in told')
    BY <1>a, <2>1, <2>2 DEF Unsaved
  <2>6. NotesTypes'
    BY <1>t, <2>1, <2>3, <2>5 DEF NotesTypes
  <2>7. TextInItsNote'
    BY <1>s, <2>1, <2>2, <2>3, <2>4 DEF TextInItsNote
  <2>8. UnsavedIsMeant' /\ UnsavedIsTold'
    BY <2>1, <2>2, <2>5 DEF NotesInv, UnsavedIsMeant, UnsavedIsTold
  <2>9. EditsAreUnique'
    BY <2>1, <2>2, <2>3, FlushedIsUnique
  <2>10. noteFile'[current] # 0
    BY <1>t, <1>f, <1>a, <2>2, <2>3 DEF NotesTypes
  <2> QED BY <2>1, <2>3, <2>6, <2>7, <2>8, <2>9, <2>10 DEF NotesInv
<1>4. ASSUME NEW p \in Notebook, SelectNote(p) PROVE NotesInv'
  <2>1. /\ mode = "folder" /\ noteFile[p] # 0 /\ p # current /\ noteDialog = "none"
        /\ LoadFile(current, noteFile, p) /\ UNCHANGED <<mode, noteDialog, notesOpen, meant>>
    BY <1>4 DEF SelectNote, Editing
  <2>2. /\ noteFile \in [Notebook -> Texts] /\ Flush(current, noteFile)
        /\ mode' \in {"single", "folder"} /\ notesOpen' \in {"no", "yes"} /\ meant' \in [Notebook -> Texts]
    BY <1>t, <2>1 DEF NotesTypes, LoadFile
  <2>3. /\ noteFile' \in [Notebook -> Texts] /\ told' \subseteq Texts
        /\ \A q \in Notebook : q # current => noteFile'[q] = noteFile[q]
        /\ \A q \in Notebook : q # current /\ meant[q] \in told => meant[q] \in told'
        /\ current # NoPath => noteFile'[current] \in {noteFile[current], meant[current], 1}
        /\ current # NoPath => noteFile'[current] = meant[current] \/ meant[current] \in told'
    BY <2>1, <2>2, FlushSettles
  <2>4. \A q \in Notebook : noteFile'[q] = meant'[q] \/ meant'[q] \in told'
    BY <1>a, <1>s, <2>1, <2>3
  <2>5. EditsAreUnique'
    BY <2>1, <2>3, FlushedIsUnique
  <2> QED BY <2>1, <2>2, <2>3, <2>4, <2>5, LoadedKeeps DEF LoadFile
<1>5. ASSUME NEW p \in Notebook, NewNote(p) PROVE NotesInv'
  <2> DEFINE files == [noteFile EXCEPT ![p] = 1]
  <2>1. /\ mode = "folder" /\ noteFile[p] = 0 /\ noteDialog = "none"
        /\ LoadFile(current, files, p) /\ meant' = [meant EXCEPT ![p] = 1]
        /\ UNCHANGED <<mode, noteDialog, notesOpen>>
    BY <1>5 DEF NewNote, Editing
  <2>2. p # current
    BY <1>a, <1>f, <2>1
  <2>3. /\ files \in [Notebook -> Texts] /\ Flush(current, files) /\ files[p] = 1
        /\ \A q \in Notebook : q # p => files[q] = noteFile[q]
        /\ mode' \in {"single", "folder"} /\ notesOpen' \in {"no", "yes"} /\ meant' \in [Notebook -> Texts]
        /\ meant'[p] = 1 /\ \A q \in Notebook : q # p => meant'[q] = meant[q]
    BY <1>a, <1>t, <2>1 DEF NotesTypes, LoadFile
  <2>n. current # NoPath => current \in Notebook
    BY <1>t DEF NotesTypes
  <2> HIDE DEF files
  <2>4. /\ noteFile' \in [Notebook -> Texts] /\ told' \subseteq Texts
        /\ \A q \in Notebook : q # current => noteFile'[q] = files[q]
        /\ \A q \in Notebook : q # current /\ meant[q] \in told => meant[q] \in told'
        /\ current # NoPath => noteFile'[current] \in {noteFile[current], meant[current], 1}
        /\ current # NoPath => noteFile'[current] = meant[current] \/ meant[current] \in told'
    BY <2>n, <2>1, <2>2, <2>3, FlushSettles
  <2>5. \A q \in Notebook : noteFile'[q] = meant'[q] \/ meant'[q] \in told'
    BY <1>a, <1>s, <2>2, <2>3, <2>4
  <2>6. EditsAreUnique'
    <3>1. Unique(files, meant')
      BY <2>3, UniqueWritten DEF NotesInv, EditsAreUnique
    <3>2. CASE current = NoPath
      BY <1>a, <2>4, <3>1, <3>2 DEF EditsAreUnique, Unique
    <3>3. CASE current # NoPath
      <4>1. noteFile'[current] \in {files[current], meant'[current], 1}
        BY <2>n, <2>2, <2>3, <2>4, <3>3
      <4>2. Unique(noteFile', meant')
        BY <2>n, <2>4, <3>1, <3>3, <4>1, UniqueWritten
      <4> QED BY <4>2 DEF EditsAreUnique
    <3> QED BY <3>2, <3>3
  <2>7. noteFile'[p] # 0
    BY <1>a, <2>2, <2>3, <2>4
  <2> QED BY <2>1, <2>3, <2>4, <2>5, <2>6, <2>7, LoadedKeeps DEF LoadFile
<1>6. ASSUME NEW p \in Notebook, Renames(p) PROVE NotesInv'
  <2> DEFINE files == Moved(noteFile, p)
  <2>1. /\ noteDialog = "rename" /\ noteDialog' = "none" /\ noteFile[p] = 0
        /\ LoadFile(current, files, p)
        /\ meant' = IF SavePending THEN [meant EXCEPT ![p] = noteFile[current]] ELSE Moved(meant, p)
        /\ UNCHANGED <<mode, notesOpen>>
    BY <1>6 DEF Renames, Answers
  <2>2. current \in Notebook /\ current # NoPath /\ mode = "folder" /\ p # current /\ noteFile[current] # 0
    BY <1>t, <1>f, <2>1 DEF NotesInv, NotesTypes
  <2>3. /\ files \in [Notebook -> Texts] /\ files[p] = noteFile[current] /\ files[current] = 0
        /\ \A q \in Notebook : q # p /\ q # current => files[q] = noteFile[q]
    BY <1>a, <1>t, <2>2 DEF NotesTypes, Moved
  <2>4. Flush(current, files) /\ current' = p /\ text' \in {noteFile'[p], 1} /\ dirty' = "no" /\ saveTimer' = "off"
    BY <2>1 DEF LoadFile
  <2>5. mode' \in {"single", "folder"} /\ notesOpen' \in {"no", "yes"}
    BY <1>t, <2>1 DEF NotesTypes
  <2> HIDE DEF files
  <2>6. CASE ~SavePending
    <3>1. noteFile' = files /\ UNCHANGED told /\ meant' = Moved(meant, p)
      BY <2>1, <2>4, <2>6 DEF Flush
    <3>2. /\ meant' \in [Notebook -> Texts] /\ meant'[p] = meant[current] /\ meant'[current] = 0
          /\ \A q \in Notebook : q # p /\ q # current => meant'[q] = meant[q]
      BY <1>a, <1>t, <2>2, <3>1 DEF NotesTypes, Moved
    <3>3. noteFile[current] = meant[current] \/ meant[current] \in told
      BY <1>t, <2>2, <2>6 DEF NotesInv, NotesTypes, TextInItsNote, UnsavedIsTold, SavePending
    <3>4. \A q \in Notebook : noteFile'[q] = meant'[q] \/ meant'[q] \in told'
      BY <1>s, <2>3, <3>1, <3>2, <3>3
    <3>5. EditsAreUnique'
      BY <2>2, <2>3, <3>1, <3>2 DEF NotesInv, EditsAreUnique, Unique
    <3>6. told' \subseteq Texts /\ noteFile'[p] # 0 /\ noteFile' \in [Notebook -> Texts]
      BY <1>t, <2>2, <2>3, <3>1 DEF NotesTypes
    <3> QED BY <2>1, <2>4, <2>5, <3>2, <3>4, <3>5, <3>6, LoadedKeeps
  <2>7. CASE SavePending
    <3>1. Write(current, files) /\ meant' = [meant EXCEPT ![p] = noteFile[current]]
      BY <2>1, <2>4, <2>7 DEF Flush
    <3>2. /\ noteFile' \in [Notebook -> Texts] /\ told' \subseteq Texts
          /\ noteFile'[current] \in {text, 0, 1}
          /\ \A q \in Notebook : q # current => noteFile'[q] = files[q]
          /\ \/ noteFile'[current] = text /\ told' = told \ {text}
             \/ told' = told \cup {text}
      BY <1>t, <2>2, <2>3, <3>1, WriteOutcome
    <3>3. text = meant[current] /\ text # 1 /\ noteFile[current] # text
      BY <2>2, <2>7 DEF NotesInv, UnsavedIsMeant, SavePending
    <3>4. /\ meant' \in [Notebook -> Texts] /\ meant'[p] = noteFile[current] /\ meant'[current] = text
          /\ \A q \in Notebook : q # p => meant'[q] = meant[q]
      BY <1>t, <2>2, <3>1, <3>3 DEF NotesTypes
    <3>5. text # 0 /\ \A q \in Notebook : q # current => meant[q] # text
      BY <1>t, <2>2, <3>3 DEF NotesInv, NotesTypes, EditsAreUnique, Unique
    <3>6. \A q \in Notebook : noteFile'[q] = meant'[q] \/ meant'[q] \in told'
      <4>1. noteFile'[current] = meant'[current] \/ meant'[current] \in told'
        BY <3>2, <3>4
      <4>2. noteFile'[p] = meant'[p]
        BY <2>2, <2>3, <3>2, <3>4
      <4>3. ASSUME NEW q \in Notebook, q # p, q # current PROVE noteFile'[q] = meant'[q] \/ meant'[q] \in told'
        BY <1>s, <2>3, <3>2, <3>4, <3>5, <4>3
      <4> QED BY <4>1, <4>2, <4>3
    <3>7. EditsAreUnique'
      <4>1. /\ noteFile'[p] = noteFile[current] /\ meant'[p] = noteFile[current]
            /\ noteFile'[current] \in {meant[current], 0, 1} /\ meant'[current] = meant[current]
            /\ \A q \in Notebook : q # p /\ q # current => noteFile'[q] = noteFile[q] /\ meant'[q] = meant[q]
        BY <2>2, <2>3, <3>2, <3>3, <3>4
      <4>2. noteFile[current] # meant[current]
        BY <3>3
      <4> QED BY <2>2, <4>1, <4>2 DEF NotesInv, EditsAreUnique, Unique
    <3>8. noteFile'[p] # 0
      BY <2>2, <2>3, <3>2
    <3> QED BY <2>1, <2>4, <2>5, <3>2, <3>4, <3>6, <3>7, <3>8, LoadedKeeps
  <2> QED BY <2>6, <2>7
<1>7. CASE Deletes
  <2>0. PICK left \in {0, noteFile[current]} :
            LET files == [noteFile EXCEPT ![current] = left]
            IN /\ IF \A p \in Notebook : files[p] = 0 THEN EmptyEditor(files)
                  ELSE \E p \in Notebook : files[p] # 0 /\ LoadFile(AfterDelete, files, p)
               /\ meant' = [meant EXCEPT ![current] = left]
    BY <1>7 DEF Deletes
  <2> DEFINE files == [noteFile EXCEPT ![current] = left]
  <2>1. /\ noteDialog = "delete" /\ noteDialog' = "none" /\ meant' = [meant EXCEPT ![current] = left]
        /\ UNCHANGED <<mode, notesOpen>>
        /\ IF \A p \in Notebook : files[p] = 0 THEN EmptyEditor(files)
           ELSE \E p \in Notebook : files[p] # 0 /\ LoadFile(AfterDelete, files, p)
    BY <1>7, <2>0 DEF Deletes, Answers
  <2>2. current \in Notebook /\ mode = "folder" /\ left \in Texts
    BY <1>a, <1>t, <2>1 DEF NotesInv, NotesTypes
  <2>3. noteFile' = files /\ UNCHANGED told
    BY <2>1 DEF EmptyEditor, LoadFile, Flush, Write, AfterDelete
  <2>4. /\ noteFile' \in [Notebook -> Texts] /\ meant' \in [Notebook -> Texts] /\ told' \subseteq Texts
        /\ noteFile'[current] = left /\ meant'[current] = left
        /\ \A q \in Notebook : q # current => noteFile'[q] = noteFile[q] /\ meant'[q] = meant[q]
    BY <1>a, <1>t, <2>1, <2>2, <2>3 DEF NotesTypes
  <2>5. \A q \in Notebook : noteFile'[q] = meant'[q] \/ meant'[q] \in told'
    BY <1>s, <2>3, <2>4
  <2>6. EditsAreUnique'
    <3>1. /\ Unique(noteFile, meant) /\ current \in Notebook
          /\ \A q \in Notebook : q # current => noteFile'[q] = noteFile[q] /\ meant'[q] = meant[q]
          /\ noteFile'[current] \in {noteFile[current], meant[current], 0, 1}
          /\ meant'[current] \in {noteFile[current], meant[current], 0, 1}
      BY <2>2, <2>4 DEF NotesInv, EditsAreUnique
    <3>2. Unique(noteFile', meant')
      BY <3>1 DEF Unique
    <3> QED BY <3>2 DEF EditsAreUnique
  <2>7. mode' \in {"single", "folder"} /\ notesOpen' \in {"no", "yes"}
    BY <1>t, <2>1 DEF NotesTypes
  <2>8. CASE EmptyEditor(files)
    <3>1. current' = NoPath /\ text' = 1 /\ dirty' \in {"no", "yes"} /\ saveTimer' \in {"off", "on"}
      BY <1>t, <2>8 DEF EmptyEditor, NotesTypes
    <3>2. NotesTypes'
      BY <1>a, <2>1, <2>4, <2>7, <3>1 DEF NotesTypes
    <3> QED BY <2>1, <2>2, <2>5, <2>6, <3>1, <3>2 DEF NotesInv, TextInItsNote, UnsavedIsMeant, UnsavedIsTold
  <2>9. CASE \E p \in Notebook : files[p] # 0 /\ LoadFile(AfterDelete, files, p)
    <3>1. PICK p \in Notebook : files[p] # 0 /\ LoadFile(AfterDelete, files, p)
      BY <2>9
    <3>2. noteFile'[p] # 0 /\ current' = p /\ text' \in {noteFile'[p], 1} /\ dirty' = "no" /\ saveTimer' = "off"
      BY <2>3, <3>1 DEF LoadFile
    <3> QED BY <2>1, <2>4, <2>5, <2>6, <2>7, <3>2, LoadedKeeps
  <2> HIDE DEF files
  <2> QED BY <2>1, <2>8, <2>9
<1>8. CASE NotesClose
  <2>1. /\ noteDialog = "none" /\ notesOpen' = "no" /\ saveTimer' = "off" /\ Flush(current, noteFile)
        /\ dirty' = IF SavePending THEN Unsaved(current) ELSE dirty
        /\ UNCHANGED <<mode, current, text, noteDialog, meant>>
    BY <1>8 DEF NotesClose, Editing
  <2>2. CASE mode = "folder"
    <3>1. noteFile \in [Notebook -> Texts]
      BY <1>t DEF NotesTypes
    <3>2. /\ noteFile' \in [Notebook -> Texts] /\ told' \subseteq Texts
          /\ \A q \in Notebook : q # current => noteFile'[q] = noteFile[q]
          /\ \A q \in Notebook : q # current /\ meant[q] \in told => meant[q] \in told'
          /\ current # NoPath => noteFile'[current] # 0
          /\ current # NoPath => noteFile'[current] \in {noteFile[current], meant[current], 1}
          /\ current # NoPath => noteFile'[current] = meant[current] \/ meant[current] \in told'
      BY <2>1, <2>2, <3>1, FlushSettles
    <3>3. NotesTypes'
      BY <1>t, <2>1, <2>2, <3>2 DEF NotesTypes, Unsaved
    <3>4. TextInItsNote'
      BY <1>a, <1>s, <2>1, <3>2 DEF TextInItsNote
    <3>5. ~SavePending => told' = told /\ saveTimer = "off"
      BY <1>t, <2>1, <2>2 DEF Flush, SavePending, NotesTypes
    <3>6. UnsavedIsMeant' /\ UnsavedIsTold'
      BY <2>1, <2>2, <3>5 DEF NotesInv, UnsavedIsMeant, UnsavedIsTold, Unsaved, SavePending
    <3>7. EditsAreUnique'
      BY <2>1, <3>2, FlushedIsUnique
    <3> QED BY <2>1, <3>2, <3>3, <3>4, <3>6, <3>7 DEF NotesInv
  <2>3. CASE mode # "folder"
    <3>1. UNCHANGED <<noteFile, told, dirty>>
      BY <2>1, <2>3 DEF Flush, SavePending
    <3> QED BY <2>1, <2>3, <3>1 DEF NotesInv, NotesTypes, TextInItsNote, UnsavedIsMeant, UnsavedIsTold, EditsAreUnique
  <2> QED BY <2>2, <2>3
<1>9. CASE Cancels \/ RenameFails \/ \E dialog \in {"rename", "delete"} : AsksFor(dialog)
  BY <1>9 DEF Cancels, RenameFails, Answers, AsksFor, NotesInv, NotesTypes, TextInItsNote, UnsavedIsMeant, UnsavedIsTold, EditsAreUnique
<1>10. CASE UNCHANGED notesVars
  BY <1>10 DEF notesVars, NotesInv, NotesTypes, TextInItsNote, UnsavedIsMeant, UnsavedIsTold, EditsAreUnique
<1> QED BY <1>1, <1>2, <1>3, <1>4, <1>5, <1>6, <1>7, <1>8, <1>9, <1>10 DEF NotesNext

\* A text that is not new.
From(v) == v \in {0, 1} \/ \E r \in Notebook : v = noteFile[r] \/ v = meant[r]

\* A flush writes no text that was not somewhere before.
LEMMA FlushFrom ==
    ASSUME NotesInv, NEW path, path \in {current, NoPath}, NEW files \in [Notebook -> Texts],
           Flush(path, files), \A q \in Notebook : From(files[q])
    PROVE  \A q \in Notebook : From(noteFile'[q])
<1>1. CASE ~SavePending \/ path = NoPath
  <2>1. noteFile' = files
    BY <1>1 DEF Flush, Write
  <2> QED BY <2>1
<1>2. CASE SavePending /\ path # NoPath
  <2>1. NotesTypes /\ path = current /\ path \in Notebook /\ text = meant[path] /\ Write(path, files)
    BY <1>2 DEF NotesInv, NotesTypes, UnsavedIsMeant, SavePending, Flush
  <2>2. /\ noteFile'[path] \in {text, files[path], 1}
        /\ \A q \in Notebook : q # path => noteFile'[q] = files[q]
    BY <2>1, WriteOutcome
  <2>3. From(text) /\ From(1)
    BY <2>1 DEF From
  <2>4. From(noteFile'[path])
    BY <2>1, <2>2, <2>3
  <2> QED BY <2>2, <2>4
<1> QED BY <1>1, <1>2

\* Only an edit brings a new text.
LEMMA NothingNew ==
    ASSUME NotesInv, [NotesNext]_notesVars, ~Edit
    PROVE  \A q \in Notebook : From(noteFile'[q]) /\ From(meant'[q])
<1>0. /\ noteFile \in [Notebook -> Texts] /\ meant \in [Notebook -> Texts] /\ 0 \in Texts /\ 1 \in Texts
      /\ current \in Notebook \cup {NoPath} /\ NoPath \notin Notebook
      /\ (noteDialog # "none" => current \in Notebook)
  <2>1. MaxEdits \in Nat
    BY NotesConstants
  <2> QED BY <2>1, NotesConstants DEF NotesInv, NotesTypes, Texts
<1>1. \A q \in Notebook : From(noteFile[q]) /\ From(meant[q])
  BY DEF From
<1>a. From(0) /\ From(1)
  BY DEF From
<1>2. CASE Autosave \/ NotesClose \/ \E p \in Notebook : SelectNote(p)
  <2>1. Flush(current, noteFile) /\ meant' = meant
    BY <1>2 DEF Autosave, NotesClose, SelectNote, LoadFile
  <2>2. \A q \in Notebook : From(noteFile'[q])
    BY <1>0, <1>1, <2>1, FlushFrom
  <2> QED BY <1>1, <2>1, <2>2
<1>3. CASE ManualSave
  <2>1. Write(current, noteFile) /\ meant' = meant /\ current \in Notebook /\ text = meant[current] /\ NotesTypes
    BY <1>0, <1>3 DEF ManualSave, NotesInv, UnsavedIsMeant
  <2>2. /\ noteFile'[current] \in {text, noteFile[current], 1}
        /\ \A q \in Notebook : q # current => noteFile'[q] = noteFile[q]
    BY <1>0, <2>1, WriteOutcome
  <2> QED BY <1>1, <1>a, <2>1, <2>2
<1>4. ASSUME NEW p \in Notebook, NewNote(p) PROVE \A q \in Notebook : From(noteFile'[q]) /\ From(meant'[q])
  <2> DEFINE files == [noteFile EXCEPT ![p] = 1]
  <2>1. Flush(current, files) /\ meant' = [meant EXCEPT ![p] = 1]
    BY <1>4 DEF NewNote, LoadFile
  <2>2. files \in [Notebook -> Texts] /\ \A q \in Notebook : files[q] \in {noteFile[q], 1} /\ meant'[q] \in {meant[q], 1}
    BY <1>0, <2>1
  <2> HIDE DEF files
  <2>3. \A q \in Notebook : From(files[q]) /\ From(meant'[q])
    BY <1>1, <1>a, <2>2
  <2> QED BY <2>1, <2>2, <2>3, FlushFrom
<1>5. ASSUME NEW p \in Notebook, Renames(p) PROVE \A q \in Notebook : From(noteFile'[q]) /\ From(meant'[q])
  <2> DEFINE files == Moved(noteFile, p)
  <2>0. current \in Notebook
    BY <1>0, <1>5 DEF Renames, Answers
  <2>1. /\ Flush(current, files)
        /\ meant' = IF SavePending THEN [meant EXCEPT ![p] = noteFile[current]] ELSE Moved(meant, p)
    BY <1>5 DEF Renames, LoadFile
  <2>2. /\ files \in [Notebook -> Texts] /\ \A q \in Notebook : files[q] \in {noteFile[q], noteFile[current], 0}
        /\ \A q \in Notebook : meant'[q] \in {meant[q], meant[current], noteFile[current], 0}
    BY <1>0, <2>0, <2>1 DEF Moved
  <2> HIDE DEF files
  <2>3. \A q \in Notebook : From(files[q]) /\ From(meant'[q])
    BY <1>1, <1>a, <2>0, <2>2
  <2> QED BY <2>1, <2>2, <2>3, FlushFrom
<1>6. CASE Deletes
  <2>0. current \in Notebook
    BY <1>0, <1>6 DEF Deletes, Answers
  <2>1. PICK left \in {0, noteFile[current]} :
            LET files == [noteFile EXCEPT ![current] = left]
            IN /\ IF \A p \in Notebook : files[p] = 0 THEN EmptyEditor(files)
                  ELSE \E p \in Notebook : files[p] # 0 /\ LoadFile(AfterDelete, files, p)
               /\ meant' = [meant EXCEPT ![current] = left]
    BY <1>6 DEF Deletes
  <2>2. noteFile' = [noteFile EXCEPT ![current] = left] /\ meant' = [meant EXCEPT ![current] = left]
    BY <2>1 DEF EmptyEditor, LoadFile, Flush, Write, AfterDelete
  <2>3. \A q \in Notebook : noteFile'[q] \in {noteFile[q], left} /\ meant'[q] \in {meant[q], left}
    BY <1>0, <2>0, <2>2
  <2>4. From(left)
    BY <1>1, <1>a, <2>0
  <2> QED BY <1>1, <2>3, <2>4
<1>7. CASE /\ ~Autosave /\ ~NotesClose /\ ~ManualSave /\ ~Deletes
           /\ \A p \in Notebook : ~SelectNote(p) /\ ~NewNote(p) /\ ~Renames(p)
  <2>1. UNCHANGED <<noteFile, meant>>
    BY <1>7 DEF NotesNext, notesVars, Cancels, RenameFails, AsksFor
  <2> QED BY <1>1, <2>1
<1> QED BY <1>2, <1>3, <1>4, <1>5, <1>6, <1>7

\* No step passes the bounds on edits and failing writes.
LEMMA NotesCountsKept ==
    ASSUME NotesInv, NotesCounts, [NotesNext]_notesVars
    PROVE  NotesCounts'
<1>1. MaxEdits \in Nat /\ MaxBadSaves \in Nat
  BY NotesConstants
<1>2. badSaves' = badSaves \/ (badSaves < MaxBadSaves /\ badSaves' = badSaves + 1)
  BY DEF NotesNext, notesVars, Edit, Autosave, ManualSave, Cancels, RenameFails, Deletes, NotesClose,
     AsksFor, SelectNote, NewNote, Renames, LoadFile, EmptyEditor, Flush, Write
<1>3. noteFile \in [Notebook -> Texts] /\ meant \in [Notebook -> Texts]
  BY DEF NotesInv, NotesTypes
<1>4. \A p \in Notebook : /\ meant[p] \in Nat /\ meant[p] <= edits + 1
                          /\ noteFile[p] \in Nat /\ noteFile[p] <= edits + 1
  BY <1>1, <1>3 DEF NotesCounts, Texts
<1>5. edits \in Nat
  BY <1>1 DEF NotesCounts
<1>6. edits' = edits \/ (edits < MaxEdits /\ edits' = edits + 1)
  BY DEF NotesNext, notesVars, Edit, Autosave, ManualSave, Cancels, RenameFails, Deletes, NotesClose,
     AsksFor, SelectNote, NewNote, Renames
<1>7. edits' \in 0..MaxEdits /\ badSaves' \in 0..MaxBadSaves
  BY <1>1, <1>2, <1>6, CountUp DEF NotesCounts
<1> SUFFICES ASSUME NEW q \in Notebook PROVE meant'[q] <= edits' + 1 /\ noteFile'[q] <= edits' + 1
  BY <1>7 DEF NotesCounts
<1>8. CASE Edit
  <2>1. edits' = edits + 1 /\ meant'[q] \in {meant[q], edits + 2} /\ noteFile'[q] = noteFile[q]
    BY <1>3, <1>8 DEF Edit
  <2> QED BY <1>4, <1>5, <2>1
<1>9. CASE ~Edit
  <2>1. From(noteFile'[q]) /\ From(meant'[q])
    BY <1>9, NothingNew
  <2>2. \A v : From(v) => v \in Nat /\ v <= edits + 1
    BY <1>4, <1>5 DEF From
  <2>3. edits' \in Nat /\ edits <= edits'
    BY <1>5, <1>6
  <2> QED BY <1>5, <2>1, <2>2, <2>3
<1> QED BY <1>8, <1>9

(* Notes: they keep their types, and a note's file holds what the user     *)
(* last made of that note (_on_text_changed, _flush_save, and what         *)
(* selects, creates, renames and deletes), also when a write, a removal or *)
(* a rename fails; a rename within the 600 ms of an edit makes two notes   *)
(* of one.                                                                 *)
THEOREM NotesKeepText == NotesSpec => [](NotesTypeOK /\ TextInItsNote)
<1>1. NotesInit => NotesInv /\ NotesCounts
  <2> SUFFICES ASSUME NotesInit PROVE NotesInv /\ NotesCounts
    OBVIOUS
  <2>1. edits = 0 /\ badSaves = 0
    BY DEF NotesInit
  <2>2. PICK p \in Notebook : /\ current = IF mode = "single" THEN p ELSE NoPath
                             /\ noteFile = [q \in Notebook |-> IF q = current THEN 1 ELSE 0]
    BY DEF NotesInit
  <2>3. 0 \in Texts /\ 1 \in Texts /\ 0 # 1
    <3>1. MaxEdits \in Nat
      BY NotesConstants
    <3> QED BY <3>1 DEF Texts
  <2>4. NotesTypes
    BY <2>2, <2>3 DEF NotesInit, NotesTypes
  <2>5. NotesInv
    BY <2>2, <2>3, <2>4, NotesConstants DEF NotesInit, NotesInv, TextInItsNote, UnsavedIsMeant, UnsavedIsTold, EditsAreUnique, Unique
  <2>6. \A q \in Notebook : meant[q] \in {0, 1} /\ noteFile[q] \in {0, 1}
    BY <2>2 DEF NotesInit
  <2>7. NotesCounts
    BY <2>1, <2>6, NotesConstants DEF NotesCounts
  <2> QED BY <2>5, <2>7
<1>2. NotesInv /\ NotesCounts /\ [NotesNext]_notesVars => NotesInv' /\ NotesCounts'
  BY NotesInvKept, NotesCountsKept
<1>3. NotesInv /\ NotesCounts => NotesTypeOK /\ TextInItsNote
  BY DEF NotesInv, NotesTypes, NotesCounts, NotesTypeOK
<1> QED BY <1>1, <1>2, <1>3, PTL DEF NotesSpec

-----------------------------------------------------------------------------
(* The file explorer.                                                      *)

FilesCounts == made \in 0..MaxMade

FileTasks == [kind : Kinds, left : SUBSET Places, failed : SUBSET Places,
              dest : {<<>>} \cup Places \cup (Places \X Places)]

\* What a task says of the paths it will use.
Aimed(t) ==
    /\ t.kind = "paste" => t.dest = <<>> \/ t.dest \in Places \X Places
    /\ t.kind \in {"rename", "mkdir", "extract"} => t.dest \in Places /\ t.left # {}

\* Every window's task is aimed at paths it may use.
TasksInv ==
    /\ cwd \in [FilesWindows -> Folders]
    /\ clipPaths \in [Explorers -> SUBSET Places] /\ clipMode \in [Explorers -> {"copy", "cut"}]
    /\ task \in [FilesWindows -> FileTasks]
    /\ \A w \in FilesWindows : Aimed(task[w])

\* Every document is on the disk, in the trash or was moved elsewhere.
DiskInv ==
    /\ disk \in [Places -> Contents]
    /\ trash \subseteq Documents \cup {New} /\ elsewhere \subseteq Documents
    /\ NothingLost

\* No step makes more documents than the bound.
LEMMA FilesCountsKept ==
    ASSUME FilesCounts, [FilesNext]_filesVars
    PROVE  FilesCounts'
<1>1. MaxMade \in Nat
  BY FilesConstants
<1>2. made' = made \/ (made < MaxMade /\ made' = made + 1)
  BY DEF FilesNext, filesVars, Arrives, GoTo, Clip, Intends, PasteStarts, Pastes, PasteEnds, Does, PicksName,
     Compresses, AsksToTrash, Declines, Trashes
<1> QED BY <1>1, <1>2, CountUp DEF FilesCounts

\* unique_path gives a place that is free.
LEMMA PathsAre ==
    ASSUME NEW p \in Places, NEW f \in Folders
    PROVE  UniquePath(f, p) \subseteq {q \in Places : Free(q)}
<1> SUFFICES ASSUME NEW q \in UniquePath(f, p) PROVE q \in Places /\ Free(q)
  OBVIOUS
<1>1. PICK n \in FileNames : Free(<<f, n>>) /\ q = <<f, n>>
  BY DEF UniquePath
<1>2. <<f, n>> \in Places
  BY DEF Places
<1> QED BY <1>1, <1>2

\* A window that takes on a possible task keeps the tasks' invariant.
LEMMA NewTask ==
    ASSUME TasksInv, NEW w \in FilesWindows, NEW t \in FileTasks, Aimed(t),
           task' = [task EXCEPT ![w] = t], UNCHANGED <<cwd, clipPaths, clipMode>>
    PROVE  TasksInv'
  BY DEF TasksInv, Aimed

\* Doing nothing is a possible task.
LEMMA NoTaskIsOne == NoTask \in FileTasks /\ Aimed(NoTask)
  BY DEF NoTask, FileTasks, Aimed, Kinds

\* Every step keeps the tasks aimed at what they were started for.
LEMMA TasksInvKept ==
    ASSUME TasksInv, [FilesNext]_filesVars
    PROVE  TasksInv'
<1>w. \A w \in Explorers : w \in FilesWindows
  BY DEF FilesWindows
<1>s. \A w \in FilesWindows : Selected(w) \subseteq Places
  BY DEF Selected
<1>1. ASSUME NEW d \in Documents, NEW p \in Places, Arrives(d, p) PROVE TasksInv'
  BY <1>1 DEF Arrives, TasksInv, Aimed
<1>2. ASSUME NEW w \in Explorers, NEW f \in Folders, GoTo(w, f) PROVE TasksInv'
  BY <1>2, <1>w DEF GoTo, TasksInv, Aimed
<1>3. ASSUME NEW w \in Explorers, NEW S \in SUBSET Selected(w), NEW how \in {"copy", "cut"}, Clip(w, S, how)
      PROVE TasksInv'
  <2>1. S \in SUBSET Places
    BY <1>w, <1>s
  <2> QED BY <1>3, <2>1 DEF Clip, TasksInv, Aimed
<1>4. ASSUME NEW w \in Explorers, NEW kind \in {"rename", "mkdir", "extract"},
             NEW p \in Selected(w), NEW dest \in Selected(w), Intends(w, kind, p, dest)
      PROVE TasksInv'
  <2> DEFINE t == [kind |-> kind, left |-> {p}, failed |-> {}, dest |-> dest]
  <2>1. p \in Places /\ dest \in Places
    BY <1>w, <1>s
  <2>2. t \in FileTasks /\ Aimed(t)
    BY <2>1 DEF FileTasks, Aimed, Kinds
  <2>3. task' = [task EXCEPT ![w] = t] /\ UNCHANGED <<cwd, clipPaths, clipMode>>
    BY <1>4 DEF Intends
  <2> HIDE DEF t
  <2> QED BY <1>w, <2>2, <2>3, NewTask
<1>5. ASSUME NEW w \in Explorers, PasteStarts(w) PROVE TasksInv'
  <2> DEFINE t == [kind |-> "paste", left |-> clipPaths[w], failed |-> {}, dest |-> <<>>]
  <2>2. t \in FileTasks /\ Aimed(t)
    BY DEF FileTasks, Aimed, Kinds, TasksInv
  <2>3. task' = [task EXCEPT ![w] = t] /\ UNCHANGED <<cwd, clipPaths, clipMode>>
    BY <1>5 DEF PasteStarts
  <2> HIDE DEF t
  <2> QED BY <1>w, <2>2, <2>3, NewTask
<1>6. ASSUME NEW w \in Explorers, Pastes(w) PROVE TasksInv'
  <2>0. task[w] \in FileTasks /\ task[w].kind = "paste" /\ task[w].dest # <<>> /\ w \in FilesWindows
    BY <1>6, <1>w DEF Pastes, Pasting, TasksInv
  <2>1. task[w].dest \in Places \X Places
    BY <2>0 DEF TasksInv, Aimed
  <2> DEFINE src == task[w].dest[1]
             done == [task[w] EXCEPT !.left = @ \ {src}, !.dest = <<>>]
             failed == [done EXCEPT !.failed = @ \cup {src}]
  <2>2. src \in Places
    BY <2>1
  <2>3. done \in FileTasks /\ Aimed(done)
    BY <2>0, <2>2 DEF FileTasks, Aimed
  <2>4. failed \in FileTasks /\ Aimed(failed)
    BY <2>0, <2>2 DEF FileTasks, Aimed
  <2>5. /\ task' = [task EXCEPT ![w] = done] \/ task' = [task EXCEPT ![w] = failed]
        /\ UNCHANGED <<cwd, clipPaths, clipMode>>
    BY <1>6 DEF Pastes
  <2> HIDE DEF done, failed
  <2> QED BY <2>0, <2>3, <2>4, <2>5, NewTask
<1>7. ASSUME NEW w \in Explorers, PasteEnds(w) PROVE TasksInv'
  <2>1. task[w] \in FileTasks /\ w \in FilesWindows
    BY <1>w DEF TasksInv
  <2>2. task[w].failed \in SUBSET Places
    BY <2>1 DEF FileTasks
  <2>3. clipPaths' \in [Explorers -> SUBSET Places]
    BY <1>7, <2>2 DEF PasteEnds, TasksInv
  <2>4. task' = [task EXCEPT ![w] = NoTask] /\ UNCHANGED <<cwd, clipMode>>
    BY <1>7 DEF PasteEnds
  <2> QED BY <2>1, <2>3, <2>4, NoTaskIsOne DEF TasksInv, Aimed
<1>8. ASSUME NEW w \in Explorers, Does(w) PROVE TasksInv'
  BY <1>8, <1>w, NewTask, NoTaskIsOne DEF Does
<1>9. ASSUME NEW w \in Explorers, NEW p \in Places, PicksName(w, p) PROVE TasksInv'
  <2>0. task[w] \in FileTasks /\ task[w].kind = "paste" /\ task[w].dest = <<>> /\ w \in FilesWindows
    BY <1>9, <1>w DEF PicksName, Pasting, TasksInv
  <2>c. UNCHANGED <<cwd, clipPaths, clipMode>>
    BY <1>9 DEF PicksName
  <2>1. CASE Free(p)
    <3> DEFINE t == [task[w] EXCEPT !.left = @ \ {p}]
    <3>1. t \in FileTasks /\ Aimed(t)
      BY <2>0 DEF FileTasks, Aimed
    <3>2. task' = [task EXCEPT ![w] = t]
      BY <1>9, <2>1 DEF PicksName
    <3> HIDE DEF t
    <3> QED BY <2>0, <2>c, <3>1, <3>2, NewTask
  <2>2. CASE ~Free(p)
    <3>1. PICK dest \in UniquePath(cwd[w], p) : task' = [task EXCEPT ![w].dest = <<p, dest>>]
      BY <1>9, <2>2 DEF PicksName
    <3> DEFINE t == [task[w] EXCEPT !.dest = <<p, dest>>]
    <3>2. dest \in Places
      BY <2>0, PathsAre DEF TasksInv
    <3>3. t \in FileTasks /\ Aimed(t)
      BY <2>0, <3>2 DEF FileTasks, Aimed
    <3>4. task' = [task EXCEPT ![w] = t]
      BY <3>1
    <3> HIDE DEF t
    <3> QED BY <2>0, <2>c, <3>3, <3>4, NewTask
  <2> QED BY <2>1, <2>2
<1>10. ASSUME NEW w \in Explorers, NEW p \in Selected(w), Compresses(w, p) PROVE TasksInv'
  BY <1>10 DEF Compresses, TasksInv, Aimed
<1>11. ASSUME NEW w \in FilesWindows, NEW S \in SUBSET Selected(w), AsksToTrash(w, S) PROVE TasksInv'
  <2> DEFINE t == [kind |-> "trash", left |-> S, failed |-> {}, dest |-> <<>>]
  <2>1. S \in SUBSET Places
    BY <1>s
  <2>2. t \in FileTasks /\ Aimed(t)
    BY <2>1 DEF FileTasks, Aimed, Kinds
  <2>3. task' = [task EXCEPT ![w] = t] /\ UNCHANGED <<cwd, clipPaths, clipMode>>
    BY <1>11 DEF AsksToTrash
  <2> HIDE DEF t
  <2> QED BY <2>2, <2>3, NewTask
<1>12. ASSUME NEW w \in FilesWindows, Declines(w) PROVE TasksInv'
  BY <1>12, NewTask, NoTaskIsOne DEF Declines
<1>13. ASSUME NEW w \in FilesWindows, Trashes(w) PROVE TasksInv'
  BY <1>13, NewTask, NoTaskIsOne DEF Trashes
<1>14. CASE UNCHANGED filesVars
  BY <1>14 DEF filesVars, TasksInv, Aimed
<1> QED BY <1>1, <1>2, <1>3, <1>4, <1>5, <1>6, <1>7, <1>8, <1>9, <1>10, <1>11, <1>12, <1>13, <1>14 DEF FilesNext

\* A free name is filled, with what came from elsewhere or with a copy.
LEMMA FillKeeps ==
    ASSUME DiskInv, NEW p \in Places, NEW c \in Contents, Free(p),
           disk' = [disk EXCEPT ![p] = c], trash' = trash,
           elsewhere' = elsewhere \/ elsewhere' = elsewhere \ {c}
    PROVE  DiskInv'
<1>1. disk' \in [Places -> Contents] /\ elsewhere' \subseteq Documents
  BY DEF DiskInv
<1>2. ASSUME NEW d \in Documents PROVE d \in trash' \cup elsewhere' \/ \E q \in Places : disk'[q] = d
  <2>1. CASE d \in trash \cup elsewhere
    BY <2>1 DEF DiskInv
  <2>2. CASE d \notin trash \cup elsewhere
    <3>1. PICK q \in Places : disk[q] = d
      BY <2>2 DEF DiskInv, NothingLost
    <3>2. q # p
      BY <3>1, FilesConstants DEF Free, Nothing
    <3> QED BY <3>1, <3>2 DEF DiskInv
  <2> QED BY <2>1, <2>2
<1> QED BY <1>1, <1>2 DEF DiskInv, NothingLost

\* A document is moved to a free name.
LEMMA MoveKeeps ==
    ASSUME DiskInv, NEW src \in Places, NEW dest \in Places, Free(dest), ~Free(src),
           disk' = [disk EXCEPT ![dest] = disk[src], ![src] = Nothing], UNCHANGED <<trash, elsewhere>>
    PROVE  DiskInv'
<1>0. Nothing \in Contents /\ disk[src] \in Contents /\ src # dest
  BY DEF Contents, DiskInv, Free
<1>1. disk' \in [Places -> Contents]
  BY <1>0 DEF DiskInv
<1>2. ASSUME NEW d \in Documents PROVE d \in trash' \cup elsewhere' \/ \E q \in Places : disk'[q] = d
  <2>1. CASE d \in trash \cup elsewhere
    BY <2>1 DEF DiskInv
  <2>2. CASE d \notin trash \cup elsewhere
    <3>1. PICK q \in Places : disk[q] = d
      BY <2>2 DEF DiskInv, NothingLost
    <3>2. q # dest
      BY <3>1, FilesConstants DEF Free, Nothing
    <3>3. CASE q = src
      <4>1. disk'[dest] = d
        BY <1>0, <3>1, <3>3 DEF DiskInv
      <4> QED BY <4>1
    <3>4. CASE q # src
      BY <3>1, <3>2, <3>4 DEF DiskInv
    <3> QED BY <3>3, <3>4
  <2> QED BY <2>1, <2>2
<1> QED BY <1>1, <1>2 DEF DiskInv, NothingLost

\* Every step keeps every document somewhere.
LEMMA DiskInvKept ==
    ASSUME TasksInv, DiskInv, [FilesNext]_filesVars
    PROVE  DiskInv'
<1>w. \A w \in Explorers : w \in FilesWindows
  BY DEF FilesWindows
<1>n. New \in Contents /\ Documents \subseteq Contents
  BY DEF Contents
<1>0. UNCHANGED <<disk, trash, elsewhere>> => DiskInv'
  BY DEF DiskInv, NothingLost
<1>1. ASSUME NEW d \in Documents, NEW p \in Places, Arrives(d, p) PROVE DiskInv'
  BY <1>1, <1>n, FillKeeps DEF Arrives
<1>2. ASSUME NEW w \in Explorers, NEW f \in Folders, GoTo(w, f) PROVE DiskInv'
  BY <1>2, <1>0 DEF GoTo
<1>3. ASSUME NEW w \in Explorers, NEW S \in SUBSET Selected(w), NEW how \in {"copy", "cut"}, Clip(w, S, how)
      PROVE DiskInv'
  BY <1>3, <1>0 DEF Clip
<1>4. ASSUME NEW w \in Explorers, NEW kind \in {"rename", "mkdir", "extract"},
             NEW p \in Selected(w), NEW dest \in Selected(w), Intends(w, kind, p, dest)
      PROVE DiskInv'
  BY <1>4, <1>0 DEF Intends
<1>5. ASSUME NEW w \in Explorers, PasteStarts(w) PROVE DiskInv'
  BY <1>5, <1>0 DEF PasteStarts
<1>6. ASSUME NEW w \in Explorers, Pastes(w) PROVE DiskInv'
  <2>0. task[w] \in FileTasks /\ task[w].kind = "paste" /\ task[w].dest # <<>> /\ w \in FilesWindows
    BY <1>6, <1>w DEF Pastes, Pasting, TasksInv
  <2>1. task[w].dest \in Places \X Places
    BY <2>0 DEF TasksInv, Aimed
  <2> DEFINE src == task[w].dest[1]
             dest == task[w].dest[2]
  <2>2. src \in Places /\ dest \in Places
    BY <2>1
  <2>3. /\ \/ disk' = disk
           \/ /\ Free(dest) /\ ~Free(src)
              /\ disk' = [disk EXCEPT ![dest] = disk[src], ![src] = Nothing]
           \/ /\ Free(dest) /\ (disk' = [disk EXCEPT ![dest] = disk[src]] \/ disk' = [disk EXCEPT ![dest] = New])
        /\ UNCHANGED <<trash, elsewhere>>
    BY <1>6 DEF Pastes, Accepts
  <2> HIDE DEF src, dest
  <2>4. disk[src] \in Contents
    BY <2>2 DEF DiskInv
  <2> QED BY <2>2, <2>3, <2>4, <1>n, <1>0, MoveKeeps, FillKeeps
<1>7. ASSUME NEW w \in Explorers, PasteEnds(w) PROVE DiskInv'
  BY <1>7, <1>0 DEF PasteEnds
<1>8. ASSUME NEW w \in Explorers, Does(w) PROVE DiskInv'
  <2> DEFINE src == CHOOSE p \in task[w].left : TRUE
             dest == task[w].dest
  <2>0. task[w] \in FileTasks /\ task[w].kind \in {"rename", "mkdir", "extract"} /\ w \in FilesWindows
    BY <1>8, <1>w DEF Does, TasksInv
  <2>1. dest \in Places /\ task[w].left # {}
    BY <2>0 DEF TasksInv, Aimed
  <2>2. src \in task[w].left
    BY <2>1
  <2>3. src \in Places
    BY <2>0, <2>2 DEF FileTasks
  <2>4. /\ \/ disk' = disk
           \/ /\ Free(dest) /\ ~Free(src)
              /\ disk' = [disk EXCEPT ![dest] = disk[src], ![src] = Nothing]
           \/ Free(dest) /\ disk' = [disk EXCEPT ![dest] = New]
        /\ UNCHANGED <<trash, elsewhere>>
    BY <1>8 DEF Does, Accepts
  <2> HIDE DEF src, dest
  <2> QED BY <2>1, <2>3, <2>4, <1>n, <1>0, MoveKeeps, FillKeeps
<1>9. ASSUME NEW w \in Explorers, NEW p \in Places, PicksName(w, p) PROVE DiskInv'
  BY <1>9, <1>0 DEF PicksName
<1>10. ASSUME NEW w \in Explorers, NEW p \in Selected(w), Compresses(w, p) PROVE DiskInv'
  <2>1. p \in Places /\ cwd[w] \in Folders
    BY <1>w DEF Selected, TasksInv
  <2>2. PICK dest \in UniquePath(cwd[w], p) : disk' = [disk EXCEPT ![dest] = New]
    BY <1>10 DEF Compresses
  <2>3. dest \in Places /\ Free(dest)
    BY <2>1, PathsAre
  <2> QED BY <1>10, <1>n, <2>2, <2>3, FillKeeps DEF Compresses
<1>11. ASSUME NEW w \in FilesWindows, NEW S \in SUBSET Selected(w), AsksToTrash(w, S) PROVE DiskInv'
  BY <1>11, <1>0 DEF AsksToTrash
<1>12. ASSUME NEW w \in FilesWindows, Declines(w) PROVE DiskInv'
  BY <1>12, <1>0 DEF Declines
<1>13. ASSUME NEW w \in FilesWindows, Trashes(w) PROVE DiskInv'
  <2>1. PICK S \in SUBSET {p \in task[w].left : ~Free(p)} :
            /\ disk' = [p \in Places |-> IF p \in S THEN Nothing ELSE disk[p]]
            /\ trash' = trash \cup {disk[p] : p \in S}
    BY <1>13 DEF Trashes
  <2>2. elsewhere' = elsewhere
    BY <1>13 DEF Trashes
  <2>3. S \subseteq Places
    BY DEF TasksInv, FileTasks
  <2>4. Nothing \in Contents
    BY DEF Contents
  <2>5. disk' \in [Places -> Contents]
    BY <2>1, <2>4 DEF DiskInv
  <2>6. trash' \subseteq Documents \cup {New}
    BY <2>1, <2>3 DEF DiskInv, Contents, Free
  <2>7. ASSUME NEW d \in Documents PROVE d \in trash' \cup elsewhere' \/ \E q \in Places : disk'[q] = d
    <3>1. CASE d \in trash \cup elsewhere
      BY <2>1, <2>2, <3>1
    <3>2. CASE d \notin trash \cup elsewhere
      <4>1. PICK q \in Places : disk[q] = d
        BY <3>2 DEF DiskInv, NothingLost
      <4>2. CASE q \in S
        BY <2>1, <4>1, <4>2
      <4>3. CASE q \notin S
        BY <2>1, <4>1, <4>3
      <4> QED BY <4>2, <4>3
    <3> QED BY <3>1, <3>2
  <2> QED BY <2>2, <2>5, <2>6, <2>7 DEF DiskInv, NothingLost
<1>14. CASE UNCHANGED filesVars
  BY <1>14, <1>0 DEF filesVars
<1> QED BY <1>1, <1>2, <1>3, <1>4, <1>5, <1>6, <1>7, <1>8, <1>9, <1>10, <1>11, <1>12, <1>13, <1>14 DEF FilesNext

(* File Explorer and Downloads: they keep their types, and however many    *)
(* windows copy, move, trash and undo in the same folders no document is   *)
(* replaced or dropped.                                                    *)
THEOREM FilesLoseNothing == FilesSpec => [](FilesTypeOK /\ NothingLost)
<1>1. FilesInit => TasksInv
  <2> SUFFICES ASSUME FilesInit PROVE TasksInv
    OBVIOUS
  <2>1. /\ cwd \in [FilesWindows -> Folders] /\ clipPaths \in [Explorers -> SUBSET Places]
        /\ clipMode \in [Explorers -> {"copy", "cut"}]
    BY FilesConstants DEF FilesInit
  <2>2. task = [w \in FilesWindows |-> NoTask]
    BY DEF FilesInit
  <2> QED BY <2>1, <2>2, NoTaskIsOne DEF TasksInv
<1>2. FilesInit => DiskInv
  BY DEF FilesInit, DiskInv, NothingLost, Contents
<1>3. FilesInit => FilesCounts
  <2>1. FilesInit => made = 0
    BY DEF FilesInit
  <2> QED BY <2>1, FilesConstants DEF FilesCounts
<1>4. TasksInv /\ DiskInv /\ FilesCounts => FilesTypeOK /\ NothingLost
  BY DEF TasksInv, DiskInv, FilesCounts, FilesTypeOK, FileTasks
<1> QED BY <1>1, <1>2, <1>3, <1>4, TasksInvKept, DiskInvKept, FilesCountsKept, PTL DEF FilesSpec

-----------------------------------------------------------------------------
(* Network Center.  Only the Connect page has workers that do more than    *)
(* read, so that only its callback makes the controls insensitive again.   *)

Phones == Pairing \X Reachable
Results == {<<>>} \cup Phones
Workers == [at : {"none", "running", "sending", "posted"}, does : {"read"} \cup DeviceActions,
            result : Results]

NetworkCounts == jobs \in 0..MaxJobs /\ news \in 0..MaxNews

\* Only the Connect page has a worker that does more than read.
NetworkInv ==
    /\ netOpen \in {"no", "yes"} /\ busy \subseteq Pages /\ controls \in {"off", "on"}
    /\ worker \in [Pages -> Workers] /\ page \in [Pages -> {"reading", "shown"}]
    /\ question \in {"none"} \cup DeviceActions
    /\ device \in Phones /\ row \in Results /\ acted \in {"no", "yes"}
    /\ PagesComeBack
    /\ \A k \in Pages : worker[k].does # "read" => k = "connect"

\* No step passes the bounds on mishaps, jobs and news.
LEMMA NetworkCountsKept ==
    ASSUME NetworkCounts, [NetworkNext]_networkVars
    PROVE  NetworkCounts'
<1>1. MaxJobs \in Nat /\ MaxNews \in Nat
  BY NetworkConstants
<1>2. /\ jobs' = jobs \/ (jobs < MaxJobs /\ jobs' = jobs + 1)
      /\ news' = news \/ (news < MaxNews /\ news' = news + 1)
  BY DEF NetworkNext, networkVars, networkWindowVars, Refuses, DeviceChanges, NetworkCloses, Refreshes, Works,
     Finishes, Asks, StartsAction, CountsJob
<1> QED BY <1>1, <1>2, CountUp DEF NetworkCounts

\* Every step keeps a worker for each page that waits for one.
LEMMA NetworkInvKept ==
    ASSUME NetworkInv, [NetworkNext]_networkVars
    PROVE  NetworkInv'
<1>a. "read" \notin DeviceActions /\ "connect" \in Pages /\ <<>> \in Results /\ Phones \subseteq Results
  BY DEF DeviceActions, Pages, Results
<1>b. \A phone \in Phones : /\ <<"pending", phone[2]>> \in Phones /\ <<"unpaired", phone[2]>> \in Phones
  BY DEF Phones, Pairing
<1> USE DEF NetworkInv, PagesComeBack
<1>r. ASSUME NEW k \in Pages, NEW what \in {"read"} \cup DeviceActions, RunAsync(k, what, busy) \/ RunAsync(k, what, busy \ {k})
      PROVE  /\ busy' = busy \cup {k} /\ worker' \in [Pages -> Workers]
             /\ worker'[k].at = "running" /\ worker'[k].does = what
             /\ \A j \in Pages : j # k => worker'[j] = worker[j]
  <2>1. [at |-> "running", does |-> what, result |-> <<>>] \in Workers
    BY <1>a DEF Workers
  <2> QED BY <1>r, <2>1 DEF RunAsync
<1>1. CASE Refuses
  BY <1>1 DEF Refuses
<1>2. CASE DeviceChanges
  BY <1>2 DEF DeviceChanges, networkWindowVars, Phones
<1>3. CASE NetworkCloses
  BY <1>3 DEF NetworkCloses
<1>4. ASSUME NEW k \in Pages, Refreshes(k) PROVE NetworkInv'
  <2>1. /\ RunAsync(k, "read", busy) /\ page' = [page EXCEPT ![k] = "reading"]
        /\ controls' = IF k = "connect" THEN "off" ELSE controls
        /\ UNCHANGED <<netOpen, question, device, row, news, acted>>
    BY <1>4 DEF Refreshes
  <2>2. /\ busy' = busy \cup {k} /\ worker' \in [Pages -> Workers]
        /\ worker'[k].at = "running" /\ worker'[k].does = "read"
        /\ \A j \in Pages : j # k => worker'[j] = worker[j]
    BY <2>1, <1>r
  <2> QED BY <2>1, <2>2
<1>5. ASSUME NEW k \in Pages, Works(k) PROVE NetworkInv'
  <2>1. /\ worker[k].at \in {"running", "sending"}
        /\ UNCHANGED <<netOpen, busy, page, controls, question, row, jobs, news, acted>>
    BY <1>5 DEF Works
  <2>2. device' \in Phones
    BY <1>5, <1>b DEF Works
  <2>3. /\ worker' \in [Pages -> Workers] /\ worker'[k].at # "none" /\ worker'[k].does = worker[k].does
        /\ \A j \in Pages : j # k => worker'[j] = worker[j]
    BY <1>5, <1>a DEF Works, Workers
  <2> QED BY <2>1, <2>2, <2>3
<1>6. ASSUME NEW k \in Pages, Finishes(k) PROVE NetworkInv'
  <2> DEFINE again == netOpen = "yes" /\ worker[k].does # "read"
  <2>0. k \notin Discarded(k) /\ UNCHANGED <<netOpen, question, device, news>>
    BY <1>6 DEF Discarded, Finishes
  <2>1. CASE again
    <3>1. /\ RunAsync(k, "read", busy \ {k})
          /\ page' = [page EXCEPT ![k] = "reading"] /\ controls' = "off"
          /\ acted' = "no" /\ UNCHANGED row
      BY <1>6, <2>0, <2>1 DEF Finishes, Discarded
    <3>2. k = "connect"
      BY <2>1
    <3>3. /\ busy' = busy \cup {k} /\ worker' \in [Pages -> Workers]
          /\ worker'[k].at = "running" /\ worker'[k].does = "read"
          /\ \A j \in Pages : j # k => worker'[j] = worker[j]
      BY <3>1, <1>r
    <3> QED BY <2>0, <3>1, <3>2, <3>3
  <2>2. CASE ~again
    <3>1. /\ worker' = [worker EXCEPT ![k] = NoJob] /\ busy' = busy \ {k}
          /\ IF netOpen = "no" THEN UNCHANGED <<page, controls, acted, row>>
             ELSE /\ page' = [page EXCEPT ![k] = "shown"]
                  /\ controls' = IF k = "connect" THEN "on" ELSE controls
                  /\ row' = IF k = "connect" /\ worker[k].does = "read"
                            THEN worker[k].result ELSE row
                  /\ acted' = IF worker[k].does = "read" THEN acted ELSE "yes"
      BY <1>6, <2>0, <2>2 DEF Finishes
    <3>2. NoJob \in Workers /\ NoJob.at = "none" /\ NoJob.does = "read"
      BY <1>a DEF NoJob, Workers
    <3>3. worker[k].result \in Results
      BY DEF Workers
    <3> QED BY <2>0, <2>2, <3>1, <3>2, <3>3
  <2> QED BY <2>1, <2>2
<1>7. ASSUME NEW action \in DeviceActions, Asks(action) PROVE NetworkInv'
  BY <1>7 DEF Asks
<1>8. ASSUME NEW action \in DeviceActions, StartsAction(action) PROVE NetworkInv'
  BY <1>8, <1>r, <1>a DEF StartsAction
<1>9. CASE UNCHANGED networkVars
  BY <1>9 DEF networkVars
<1> QED BY <1>1, <1>2, <1>3, <1>4, <1>5, <1>6, <1>7, <1>8, <1>9 DEF NetworkNext

(* Network Center: it keeps its types, and every page and control comes    *)
(* back, whatever its workers find, fail at or are overtaken by.           *)
THEOREM NetworkPagesComeBack == NetworkSpec => [](NetworkTypeOK /\ PagesComeBack)
<1>1. NetworkInit => NetworkInv
  <2> SUFFICES ASSUME NetworkInit PROVE NetworkInv
    OBVIOUS
  <2>1. worker \in [Pages -> Workers] /\ \A k \in Pages : worker[k].at = "running" /\ worker[k].does = "read"
    BY DEF NetworkInit, NoJob, Workers, Results
  <2>2. device \in Phones /\ row \in Results
    BY DEF NetworkInit, Phones, Pairing, Reachable, Results
  <2> QED BY <2>1, <2>2 DEF NetworkInit, NetworkInv, PagesComeBack, Pages
<1>2. NetworkInit => NetworkCounts
  <2>1. NetworkInit => jobs = 0 /\ news = 0
    BY DEF NetworkInit
  <2> QED BY <2>1, NetworkConstants DEF NetworkCounts
<1>3. NetworkInv /\ NetworkCounts => NetworkTypeOK /\ PagesComeBack
  BY DEF NetworkInv, NetworkCounts, NetworkTypeOK, Workers, Results, Phones
<1> QED BY <1>1, <1>2, <1>3, NetworkInvKept, NetworkCountsKept, PTL DEF NetworkSpec

-----------------------------------------------------------------------------
(* The Shield and Quarantine tabs of Security Center.                      *)

\* What a scan moved is held, unless it was restored or deleted since.
MovedIsHeld == quarantined \subseteq Held \cup restoredNow \cup deletes

\* The types of what the tabs keep, but for their count of scans.
TabsTypes ==
    /\ fileAt \in [Flagged -> {"in place", "held", "deleted"}] /\ tabsOpen \in {"yes", "no"}
    /\ scanAt \in {"none", "choosing", "scanning", "moving", "posted", "stopped"}
    /\ scanCancel \in {"set", "clear"} /\ scanButtons \in {"on", "off"} /\ cancelButton \in {"on", "off"}
    /\ toMove \subseteq Flagged /\ quarantined \subseteq Flagged
    /\ report \in {"none", "scanning", "cancelled", "done"} /\ listed \subseteq Flagged
    /\ said \in {"nothing", "restored", "deleted", "failed"} \X (Flagged \cup {"none"})
    /\ cancelled \in {"yes", "no", "by nobody"} /\ deletes \subseteq Flagged
    /\ restoredNow \subseteq Flagged

\* The whole invariant of the two tabs.
TabsInv ==
    /\ TabsTypes /\ ScanButtonsWork /\ QuarantineTabTells /\ MovedIsHeld
    /\ scanAt = "scanning" /\ scanCancel = "set" => cancelled = "yes" \/ tabsOpen = "no"
    /\ scanAt \in {"scanning", "moving", "posted", "stopped"} => report = "scanning"
    /\ said[1] = "deleted" => said[2] \in Flagged

ScansInRange == scans \in 0..MaxScans

\* No step starts more scans than the bound.
LEMMA ScansCounted ==
    ASSUME ScansInRange, [SecurityTabsNext]_tabsVars
    PROVE  ScansInRange'
<1>1. MaxScans \in Nat
  BY SecurityTabsConstants
<1>2. scans' = scans \/ (scans < MaxScans /\ scans' = scans + 1)
  BY DEF SecurityTabsNext, tabsVars, ChoosesScan, TargetChosen, CancelsScan, ScanReturns,
     MovesDetected, ScanFinished, RefreshPressed, TabsClose, ProtectionMoves, RestoresEntry, DeletesEntry, scanVars
<1> QED BY <1>1, <1>2, CountUp DEF ScansInRange

\* Every step keeps the buttons with the scan and the list with what was moved.
LEMMA TabsInvKept ==
    ASSUME TabsInv, [SecurityTabsNext]_tabsVars
    PROVE  TabsInv'
<1> USE DEF TabsInv, TabsTypes, ScanButtonsWork, QuarantineTabTells, MovedIsHeld, Held
<1>1. CASE ChoosesScan
  BY <1>1 DEF ChoosesScan, AtTabs
<1>2. CASE TargetChosen
  BY <1>2 DEF TargetChosen, FreshEvent
<1>3. CASE CancelsScan
  BY <1>3 DEF CancelsScan, AtTabs
<1>4. CASE ScanReturns
  BY <1>4 DEF ScanReturns
<1>5. CASE MovesDetected
  <2>1. CASE toMove = {} \/ UNCHANGED <<fileAt, quarantined>>
    BY <1>5, <2>1 DEF MovesDetected
  <2>2. CASE toMove # {} /\ ~UNCHANGED <<fileAt, quarantined>>
    <3>1. PICK f \in toMove :
            /\ toMove' = toMove \ {f} /\ UNCHANGED scanAt
            /\ fileAt[f] = "in place" /\ fileAt' = [fileAt EXCEPT ![f] = "held"]
            /\ quarantined' = quarantined \cup {f}
      BY <1>5, <2>2 DEF MovesDetected
    <3>2. /\ scanAt = "moving"
          /\ UNCHANGED <<tabsOpen, scanCancel, scanButtons, cancelButton, report, listed, said, scans,
                         cancelled, restoredNow, deletes>>
      BY <1>5 DEF MovesDetected
    <3>3. f \in Flagged /\ Held' = Held \cup {f}
      BY <3>1
    <3>4. MovedIsHeld' /\ TabsTypes'
      BY <3>1, <3>2, <3>3
    <3>5. QuarantineTabTells'
      BY <3>1, <3>2, <3>3
    <3> QED BY <3>1, <3>2, <3>4, <3>5
  <2> QED BY <2>1, <2>2
<1>6. CASE ScanFinished
  BY <1>6 DEF ScanFinished, Relisted
<1>7. CASE RefreshPressed
  BY <1>7 DEF RefreshPressed, AtTabs, scanVars
<1>8. CASE TabsClose
  BY <1>8 DEF TabsClose
<1>9. ASSUME NEW f \in Flagged, ProtectionMoves(f) PROVE TabsInv'
  BY <1>9 DEF ProtectionMoves, scanVars
<1>10. ASSUME NEW f \in Flagged, RestoresEntry(f) PROVE TabsInv'
  <2>1. f \in listed /\ UNCHANGED <<tabsOpen, scanVars, deletes>>
    BY <1>10 DEF RestoresEntry
  <2>2. CASE /\ fileAt[f] = "held" /\ fileAt' = [fileAt EXCEPT ![f] = "in place"]
             /\ said' = <<"restored", f>> /\ listed' = Held \ {f}
             /\ restoredNow' = restoredNow \cup {f}
    <3>1. Held' = Held \ {f}
      BY <2>2
    <3>2. MovedIsHeld' /\ TabsTypes'
      BY <2>1, <2>2, <3>1 DEF scanVars
    <3>3. QuarantineTabTells'
      BY <2>1, <2>2, <3>1 DEF scanVars
    <3> QED BY <2>1, <2>2, <3>2, <3>3 DEF scanVars
  <2>3. CASE said' = <<"failed", f>> /\ listed' = Held /\ UNCHANGED <<fileAt, restoredNow>>
    BY <2>1, <2>3 DEF scanVars
  <2> QED BY <1>10, <2>2, <2>3 DEF RestoresEntry
<1>11. ASSUME NEW f \in Flagged, DeletesEntry(f) PROVE TabsInv'
  <2>1. /\ f \in listed /\ deletes' = deletes \cup {f}
        /\ UNCHANGED <<tabsOpen, scanVars, restoredNow>>
    BY <1>11 DEF DeletesEntry
  <2>2. CASE /\ fileAt[f] = "held" /\ fileAt' = [fileAt EXCEPT ![f] = "deleted"]
             /\ said' = <<"deleted", f>> /\ listed' = Held \ {f}
    <3>1. Held' = Held \ {f}
      BY <2>2
    <3>2. MovedIsHeld' /\ TabsTypes'
      BY <2>1, <2>2, <3>1 DEF scanVars
    <3>3. QuarantineTabTells'
      BY <2>1, <2>2, <3>1 DEF scanVars
    <3> QED BY <2>1, <2>2, <3>2, <3>3 DEF scanVars
  <2>3. CASE said' = <<"failed", f>> /\ listed' = Held /\ UNCHANGED fileAt
    BY <2>1, <2>3 DEF scanVars
  <2> QED BY <1>11, <2>2, <2>3 DEF DeletesEntry
<1>12. CASE UNCHANGED tabsVars
  BY <1>12 DEF tabsVars
<1> QED BY <1>1, <1>2, <1>3, <1>4, <1>5, <1>6, <1>7, <1>8, <1>9, <1>10, <1>11, <1>12
     DEF SecurityTabsNext

(* Shield and Quarantine tabs: they keep their types; the buttons follow   *)
(* the scan that runs, and the Quarantine tab shows what was moved and     *)
(* does only what was asked for.                                           *)
THEOREM SecurityTabsKeepTrue ==
    SecurityTabsSpec => [](SecurityTabsTypeOK /\ ScanButtonsWork /\ QuarantineTabTells)
<1>1. SecurityTabsInit => TabsInv
  <2> SUFFICES ASSUME SecurityTabsInit PROVE TabsInv
    OBVIOUS
  <2>1. TabsTypes /\ \A f \in Flagged : fileAt[f] = "in place"
    BY DEF SecurityTabsInit, TabsTypes
  <2>2. ScanButtonsWork /\ MovedIsHeld /\ report = "none" /\ scanAt = "none" /\ said = <<"nothing", "none">>
    BY DEF SecurityTabsInit, ScanButtonsWork, MovedIsHeld
  <2> QED BY <2>1, <2>2 DEF TabsInv, QuarantineTabTells
<1>2. SecurityTabsInit => ScansInRange
  <2>1. SecurityTabsInit => scans = 0
    BY DEF SecurityTabsInit
  <2> QED BY <2>1, SecurityTabsConstants DEF ScansInRange
<1>3. TabsInv /\ ScansInRange => SecurityTabsTypeOK /\ ScanButtonsWork /\ QuarantineTabTells
  BY DEF TabsInv, TabsTypes, ScansInRange, SecurityTabsTypeOK
<1> QED BY <1>1, <1>2, <1>3, TabsInvKept, ScansCounted, PTL DEF SecurityTabsSpec

-----------------------------------------------------------------------------
(* Settings: the file and the dock that follows it.                        *)

\* A dock that no event, timer or unseen save concerns is the one of the file.
DockIsLaidOut ==
    dock # <<>> /\ event = "off" /\ reloadTimer = "off" /\ unseen = "off"
        => dock = <<settingsFile.dock>>

\* The settings file, the copies of it and the dock.
FileInv ==
    /\ copy \in {<<>>} \cup SettingsFile /\ settingsFile \in SettingsFile
    /\ loaded \in {<<>>} \cup SettingsFile /\ dock \in {<<>>} \cup {<<d>> : d \in Docks}
    /\ watching \in SettingsSwitch /\ event \in SettingsSwitch /\ reloadTimer \in SettingsSwitch
    /\ choices \in Docks /\ others \in 0..MaxOthers /\ unseen \in SettingsSwitch
    /\ DockIsLaidOut

\* A step of the settings file, its writers or the dock keeps the invariant.
LEMMA FileInvKept ==
    ASSUME FileInv, FileNext
    PROVE  FileInv'
<1>a. MaxChoices \in Nat /\ MaxOthers \in Nat
  BY SettingsConstants
<1>c. CountsOther => others' \in 0..MaxOthers
  BY <1>a, CountUp DEF CountsOther, FileInv
<1>d. Chooses => choices' = choices + 1 /\ choices + 1 \in Docks
  BY <1>a, CountUp DEF Chooses, FileInv, Docks
<1>e. "off" \in SettingsSwitch /\ "on" \in SettingsSwitch /\ <<>> \notin SettingsFile
      /\ \A value \in SettingsFile : value.dock \in Docks
  BY DEF SettingsSwitch, SettingsFile
<1>s. ASSUME NEW value \in SettingsFile, Saves(value), UNCHANGED <<dock, watching, reloadTimer>>
      PROVE  /\ settingsFile' \in SettingsFile /\ event' \in SettingsSwitch /\ unseen' \in SettingsSwitch
             /\ DockIsLaidOut'
  BY <1>s, <1>e DEF FileInv, Saves, DockIsLaidOut, SettingsSwitch
<1> USE DEF FileInv
<1>1. CASE SettingsOpens
  BY <1>1 DEF SettingsOpens, DockIsLaidOut
<1>2. CASE Chooses
  <2>1. copy' \in SettingsFile /\ choices' \in Docks /\ UNCHANGED <<loaded, dock, watching, reloadTimer>>
    BY <1>2, <1>d DEF Chooses, SettingsFile
  <2>2. CASE Saves(copy') /\ UNCHANGED others
    BY <2>1, <2>2, <1>s
  <2>3. CASE CountsOther /\ UNCHANGED <<settingsFile, event, unseen>>
    BY <2>1, <2>3, <1>c DEF DockIsLaidOut
  <2> QED BY <1>2, <2>2, <2>3 DEF Chooses
<1>3. CASE SettingsCloses
  BY <1>3 DEF SettingsCloses, DockIsLaidOut
<1>4. CASE LoadsForShield
  BY <1>4, <1>c DEF LoadsForShield, DockIsLaidOut
<1>5. CASE SavesShield
  <2> DEFINE value == [loaded EXCEPT !.shield = IF @ = "on" THEN "off" ELSE "on"]
  <2>1. value \in SettingsFile
    BY <1>5 DEF SavesShield, SettingsFile, SettingsSwitch
  <2>2. Saves(value) /\ loaded' = <<>> /\ UNCHANGED <<copy, dock, watching, reloadTimer, choices, others>>
    BY <1>5 DEF SavesShield
  <2> QED BY <2>1, <2>2, <1>s
<1>6. CASE DockBuilt
  BY <1>6, <1>e DEF DockBuilt, DockIsLaidOut
<1>7. CASE WatchStarts
  BY <1>7, <1>e DEF WatchStarts, DockIsLaidOut
<1>8. CASE SettingsChanged
  BY <1>8, <1>e DEF SettingsChanged, DockIsLaidOut
<1>9. CASE ReloadDock
  BY <1>9, <1>e DEF ReloadDock, Layout, DockIsLaidOut
<1>10. CASE ShellStops
  BY <1>10, <1>c, <1>e DEF ShellStops, DockIsLaidOut
<1> QED BY <1>1, <1>2, <1>3, <1>4, <1>5, <1>6, <1>7, <1>8, <1>9, <1>10 DEF FileNext

(* The power profile.  A result that was posted is what the daemon said    *)
(* last, unless the profile was changed elsewhere since.                   *)

ProfileInv ==
    /\ profile \in ProfileNames /\ shownProfile \in {<<>>} \cup {<<p>> : p \in ProfileNames}
    /\ profileJob \in [at : {"none", "queries", "sets", "verifies", "posted"},
                       selected : ProfileNames \cup {"none"},
                       result : {<<>>} \cup {<<p>> : p \in ProfileNames}]
    /\ profileControls \in {"off", "refresh", "on"} /\ profileElsewhere \in SettingsSwitch
    /\ profileControls = "off" <=> profileJob.at # "none"
    /\ profileJob.at = "none" /\ profileElsewhere = "off" /\ shownProfile # <<>> => shownProfile = <<profile>>
    /\ profileJob.at = "posted" /\ profileElsewhere = "off" /\ profileJob.result # <<>> =>
           profileJob.result = <<profile>>
    /\ profileJob.at # "posted" => profileJob.result = <<>>
    /\ profileJob.at \in {"sets", "verifies"} => profileJob.selected \in ProfileNames

\* A step of the power profile keeps the invariant.
LEMMA ProfileInvKept ==
    ASSUME ProfileInv, ProfileNext
    PROVE  ProfileInv'
<1>a. "none" \notin ProfileNames /\ "off" \in SettingsSwitch /\ "on" \in SettingsSwitch /\ "off" # "on"
  BY DEF ProfileNames, SettingsSwitch
<1> USE <1>a DEF ProfileInv
<1>1. ASSUME NEW selected \in ProfileNames \cup {"none"}, StartsProfileJob(selected) PROVE ProfileInv'
  BY <1>1 DEF StartsProfileJob, NoProfileJob
<1>2. CASE ProfileWorks
  <2>1. UNCHANGED <<shownProfile, profileControls>>
    BY <1>2 DEF ProfileWorks
  <2>2. CASE /\ profileJob.at = "queries" /\ profileJob.selected # "none" /\ UNCHANGED profile
             /\ profileJob' = [profileJob EXCEPT !.at = "sets"] /\ UNCHANGED profileElsewhere
    BY <2>1, <2>2
  <2>3. CASE /\ profileJob.at \in {"queries", "verifies"}
             /\ profileJob' = [profileJob EXCEPT !.at = "posted", !.result = <<profile>>]
             /\ profileElsewhere' = "off" /\ UNCHANGED profile
    BY <2>1, <2>3
  <2>4. CASE /\ profileJob.at = "sets" /\ profile' \in {profile, profileJob.selected}
             /\ profileJob' = [profileJob EXCEPT !.at = "verifies"] /\ UNCHANGED profileElsewhere
    BY <2>1, <2>4
  <2>5. CASE /\ profileJob.at \in {"queries", "verifies"}
             /\ profileJob' = [profileJob EXCEPT !.at = "posted"]
             /\ UNCHANGED <<profile, profileElsewhere>>
    BY <2>1, <2>5
  <2> QED BY <1>2, <2>2, <2>3, <2>4, <2>5 DEF ProfileWorks
<1>3. CASE ProfileApplied
  BY <1>3 DEF ProfileApplied, NoProfileJob
<1>4. CASE ProfileChangesElsewhere
  BY <1>4 DEF ProfileChangesElsewhere
<1> QED BY <1>1, <1>2, <1>3, <1>4 DEF ProfileNext

ProfileCounts == profiles \in 0..MaxProfiles

\* No step passes the bound on profiles.
LEMMA ProfileCountsKept ==
    ASSUME ProfileCounts, ProfileNext
    PROVE  ProfileCounts'
<1>1. profiles' = profiles \/ (profiles < MaxProfiles /\ profiles' = profiles + 1)
  BY DEF ProfileNext, StartsProfileJob, ProfileWorks, ProfileApplied, ProfileChangesElsewhere, CountsProfile
<1> QED BY <1>1, CountUp, SettingsConstants DEF ProfileCounts

(* Updates.  Unless an installation was started during a check, there is   *)
(* one job at a time, and no button starts another.                        *)

\* A button that is off has a job that will switch it on.
UpdateInv ==
    /\ checkButton \in SettingsSwitch /\ installButton \in SettingsSwitch
    /\ updateJobs \subseteq {"check", "install", "checked", "failed", "installed"}
    /\ updatesFound \in SettingsSwitch /\ installedEarly \in SettingsSwitch
    /\ lostWorker \in SettingsSwitch
    /\ updateJobs = {} /\ lostWorker = "off" => checkButton = "on"
    /\ installedEarly = "off" => \A job \in updateJobs : \A other \in updateJobs : job = other
    /\ installedEarly = "off" /\ updateJobs # {} => checkButton = "off"
    /\ installedEarly = "off" => \A job \in updateJobs : job \in {"install", "installed"} => installButton = "off"

\* A step of the updates keeps the invariant.
LEMMA UpdateInvKept ==
    ASSUME UpdateInv, UpdatesNext
    PROVE  UpdateInv'
<1> USE DEF UpdateInv, SettingsSwitch
<1>1. CASE ChecksUpdates
  BY <1>1 DEF ChecksUpdates
<1>2. CASE CheckEnds
  BY <1>2 DEF CheckEnds
<1>3. CASE UpdatesChecked
  BY <1>3 DEF UpdatesChecked
<1>4. CASE InstallsUpdates
  BY <1>4 DEF InstallsUpdates, Insensitive
<1>5. CASE InstallEnds
  BY <1>5 DEF InstallEnds
<1>6. CASE UpdatesInstalled
  BY <1>6 DEF UpdatesInstalled
<1>7. ASSUME NEW job \in {"check", "install"}, WorkerDies(job) PROVE UpdateInv'
  BY <1>7 DEF WorkerDies
<1> QED BY <1>1, <1>2, <1>3, <1>4, <1>5, <1>6, <1>7 DEF UpdatesNext

(* Settings: they keep their types; the dock follows the settings file     *)
(* through every save, event, timer and restart, and the controls of the   *)
(* power profile and of the updates work, until a thread of the updates    *)
(* dies of an exception that _run_in_thread does not catch.                *)
THEOREM SettingsAreFollowed == SettingsSpec => [](SettingsTypeOK /\ DockFollowsFile /\ SettingsWork)
<1> DEFINE Inv == FileInv /\ ProfileInv /\ ProfileCounts /\ UpdateInv
<1>1. SettingsInit => Inv
  <2> SUFFICES ASSUME SettingsInit PROVE Inv
    OBVIOUS
  <2>1. choices = 0 /\ others = 0 /\ profiles = 0
    BY DEF SettingsInit
  <2>2. choices \in Docks /\ 0 \in Docks /\ others \in 0..MaxOthers /\ ProfileCounts
    BY <2>1, SettingsConstants DEF Docks, ProfileCounts
  <2>3. FileInv
    BY <2>2 DEF SettingsInit, FileInv, SettingsFile, SettingsSwitch, DockIsLaidOut
  <2>4. ProfileInv
    BY DEF SettingsInit, ProfileInv, ProfileNames, SettingsSwitch, NoProfileJob
  <2>5. UpdateInv
    BY DEF SettingsInit, UpdateInv, SettingsSwitch
  <2> QED BY <2>2, <2>3, <2>4, <2>5
<1>2. Inv /\ [SettingsNext]_settingsVars => Inv'
  <2>1. FileInv /\ UNCHANGED fileVars => FileInv'
    BY DEF FileInv, fileVars, DockIsLaidOut
  <2>2. ProfileInv /\ ProfileCounts /\ UNCHANGED profileVars => ProfileInv' /\ ProfileCounts'
    BY DEF ProfileInv, ProfileCounts, profileVars
  <2>3. UpdateInv /\ UNCHANGED updateVars => UpdateInv'
    BY DEF UpdateInv, updateVars
  <2> QED BY <2>1, <2>2, <2>3, FileInvKept, ProfileInvKept, ProfileCountsKept, UpdateInvKept
          DEF SettingsNext, settingsVars
<1>3. Inv => SettingsTypeOK /\ DockFollowsFile /\ SettingsWork
  <2>1. Inv => SettingsTypeOK
    BY DEF FileInv, ProfileInv, ProfileCounts, UpdateInv, SettingsTypeOK
  <2>2. Inv => DockFollowsFile
    BY DEF FileInv, DockIsLaidOut, DockFollowsFile
  <2>3. Inv => SettingsWork
    BY DEF ProfileInv, UpdateInv, SettingsWork
  <2> QED BY <2>1, <2>2, <2>3
<1> QED BY <1>1, <1>2, <1>3, PTL DEF SettingsSpec

-----------------------------------------------------------------------------
(* Gaming Hub.                                                             *)

GamingCounts == refreshes \in 0..MaxRefreshes /\ moves \in 0..MaxMoves

\* A button that is off has a thread that will switch it on.
GamingInv ==
    /\ present \subseteq Buttons /\ sensitive \subseteq Buttons /\ found \subseteq Buttons
    /\ refreshButton \in YesNo /\ refreshing \in YesNo
    /\ statusWorker \in {"none", "launchers", "actions", "posted"}
    /\ waydroidPending \in YesNo
    /\ waydroidWorker \in {"none", "asks", "opens", "failed", "opened"}
    /\ message \in {"none", "refresh", "nothing"} /\ windowOpen \in YesNo
    /\ ButtonsComeBack

\* No step passes the bound on refreshes.
LEMMA GamingCountsKept ==
    ASSUME GamingCounts, [GamingNext]_gamingVars
    PROVE  GamingCounts'
<1>1. MaxRefreshes \in Nat /\ MaxMoves \in Nat
  BY GamingConstants
<1>2. /\ refreshes' = refreshes \/ (refreshes < MaxRefreshes /\ refreshes' = refreshes + 1)
      /\ moves' = moves \/ (moves < MaxMoves /\ moves' = moves + 1)
  BY DEF GamingNext, gamingVars, RefreshesStatus, ProbesLaunchers, FindsActions, StatusesApplied, OpensWaydroid,
     WaydroidWorks, WaydroidFinished, MessageRead, GamingCloses, Launches, ProgramMoves, Moves
<1> QED BY <1>1, <1>2, CountUp DEF GamingCounts

\* A refresh that starts makes every button insensitive.
LEMMA RefreshStarts ==
    ASSUME GamingInv, StartsRefresh, UNCHANGED <<found, waydroidPending, waydroidWorker, windowOpen>>
    PROVE  /\ sensitive' \subseteq Buttons /\ refreshButton' \in YesNo /\ refreshing' \in YesNo
           /\ statusWorker' \in {"none", "launchers", "actions", "posted"} /\ ButtonsComeBack'
  BY DEF GamingInv, StartsRefresh, ButtonsComeBack, YesNo

\* Every step keeps a thread for each button that waits for one.
LEMMA GamingInvKept ==
    ASSUME GamingInv, [GamingNext]_gamingVars
    PROVE  GamingInv'
<1>1. CASE RefreshesStatus
  BY <1>1, RefreshStarts DEF RefreshesStatus, GamingInv
<1>2. CASE MessageRead
  <2>1. CASE message = "refresh"
    BY <1>2, <2>1, RefreshStarts DEF MessageRead, GamingInv
  <2>2. CASE message # "refresh"
    BY <1>2, <2>2 DEF MessageRead, GamingInv, ButtonsComeBack
  <2> QED BY <2>1, <2>2
<1> USE DEF GamingInv, ButtonsComeBack, YesNo
<1>a. Launchers \subseteq Buttons /\ "waydroid" \in Buttons
  BY DEF Buttons
<1>3. CASE ProbesLaunchers
  BY <1>3 DEF ProbesLaunchers
<1>4. CASE FindsActions
  BY <1>4 DEF FindsActions
<1>5. CASE StatusesApplied
  <2>1. /\ statusWorker = "posted" /\ statusWorker' = "none"
        /\ UNCHANGED <<present, found, waydroidPending, waydroidWorker, message, windowOpen>>
    BY <1>5 DEF StatusesApplied
  <2>2. CASE windowOpen = "no"
    BY <1>5, <2>1, <2>2 DEF StatusesApplied
  <2>3. CASE windowOpen # "no"
    <3>1. refreshing' = "no" /\ sensitive' = Pressable /\ refreshButton' = "yes"
      BY <1>5, <2>3 DEF StatusesApplied
    <3>2. /\ Pressable \subseteq Buttons /\ found \ {"waydroid"} = Pressable \ {"waydroid"}
          /\ waydroidPending = "yes" => "waydroid" \notin Pressable
          /\ waydroidPending = "no" => Pressable = found
      BY DEF Pressable
    <3> QED BY <2>1, <3>1, <3>2
  <2> QED BY <2>2, <2>3
<1>6. CASE OpensWaydroid
  BY <1>6 DEF OpensWaydroid
<1>7. CASE WaydroidWorks
  BY <1>7 DEF WaydroidWorks
<1>8. CASE WaydroidFinished
  <2>1. /\ waydroidWorker' = "none"
        /\ UNCHANGED <<present, refreshButton, refreshing, statusWorker, found, windowOpen>>
    BY <1>8 DEF WaydroidFinished
  <2>2. CASE windowOpen = "no"
    BY <1>8, <2>1, <2>2 DEF WaydroidFinished
  <2>3. CASE windowOpen # "no"
    <3>1. /\ waydroidPending' = "no" /\ sensitive' = AfterRequest
          /\ message' \in {"nothing", message}
      BY <1>8, <2>3 DEF WaydroidFinished
    <3>2. /\ AfterRequest \subseteq Buttons /\ AfterRequest \ {"waydroid"} = sensitive \ {"waydroid"}
          /\ refreshing = "yes" => AfterRequest = sensitive \ {"waydroid"}
          /\ refreshing = "no" => "waydroid" \in AfterRequest
      BY <1>a DEF AfterRequest
    <3> QED BY <2>1, <2>3, <3>1, <3>2
  <2> QED BY <2>2, <2>3
<1>9. CASE GamingCloses
  BY <1>9 DEF GamingCloses
<1>10. ASSUME NEW program \in Launchers, Launches(program) PROVE GamingInv'
  BY <1>10 DEF Launches
<1>11. ASSUME NEW program \in Buttons, ProgramMoves(program) PROVE GamingInv'
  BY <1>11 DEF ProgramMoves
<1>12. CASE UNCHANGED gamingVars
  BY <1>12 DEF gamingVars
<1> QED BY <1>1, <1>2, <1>3, <1>4, <1>5, <1>6, <1>7, <1>8, <1>9, <1>10, <1>11, <1>12 DEF GamingNext

(* Gaming Hub: it keeps its types, and its buttons come back in whatever   *)
(* order refreshes, launches and requests to Waydroid end.                 *)
THEOREM GamingButtonsComeBack == GamingSpec => [](GamingTypeOK /\ ButtonsComeBack)
<1>1. GamingInit => GamingInv
  BY DEF GamingInit, GamingInv, ButtonsComeBack, YesNo
<1>2. GamingInit => GamingCounts
  <2>1. GamingInit => refreshes = 0 /\ moves = 0
    BY DEF GamingInit
  <2> QED BY <2>1, GamingConstants DEF GamingCounts
<1>3. GamingInv /\ GamingCounts => GamingTypeOK /\ ButtonsComeBack
  BY DEF GamingInv, GamingCounts, GamingTypeOK
<1> QED BY <1>1, <1>2, <1>3, GamingInvKept, GamingCountsKept, PTL DEF GamingSpec

-----------------------------------------------------------------------------
(* Activity detector.  Between detections the layout is the one of         *)
(* _last_window; an answer that is on its way has either the profile of    *)
(* the new _last_window, or the layout that is there.                      *)

\* A detection that is about to change the layout.
OnItsWay == detection.at = "posted" /\ detection.new = "yes"

ActivityCounts ==
    /\ focusChanges \in 0..MaxFocusChanges /\ stops \in 0..MaxStops /\ timers \in Nat
    /\ timers <= stops + 1 /\ (polling # "on" => timers <= stops)

\* The layout is that of the last title, or its change is on its way.
ActivityInv ==
    /\ active \in Titles /\ lastWindow \in Titles /\ layout \in {"default", "coding"}
    /\ polling \in {"off", "on"} /\ shownFor \in Titles /\ replaced \in {"no", "yes"}
    /\ detection \in [at : {"none", "reads", "compares", "posted"}, title : Titles, profile : ProfileAnswers,
                      new : {"no", "yes"}]
    /\ LayoutFits
    /\ detection.at # "posted" => detection.new = "no"
    /\ detection.at = "posted" /\ detection.title = "" => detection.profile = "default" /\ detection.new = "no"
    /\ detection.at = "posted" /\ detection.title # "" =>
           lastWindow = detection.title /\ detection.profile \in {"default", "coding"}
    /\ OnItsWay => detection.profile = ProfileOf(detection.title)
    /\ detection.at = "posted" /\ detection.title # "" /\ detection.new = "no" => detection.profile = layout
    /\ replaced = "no" /\ ~OnItsWay => layout = ProfileOf(lastWindow)

\* No step passes the bounds on focus changes and stops.
LEMMA ActivityCountsKept ==
    ASSUME ActivityCounts, [ActivityNext]_activityVars
    PROVE  ActivityCounts'
<1>1. MaxFocusChanges \in Nat /\ MaxStops \in Nat
  BY ActivityConstants
<1>2. \/ UNCHANGED <<timers, stops, focusChanges, polling>>
      \/ polling = "off" /\ polling' = "on" /\ timers' = timers + 1 /\ UNCHANGED <<stops, focusChanges>>
      \/ timers > 0 /\ timers' = timers - 1 /\ polling # "on" /\ UNCHANGED <<stops, focusChanges, polling>>
      \/ /\ polling = "on" /\ polling' = "off" /\ stops < MaxStops /\ stops' = stops + 1
         /\ UNCHANGED <<timers, focusChanges>>
      \/ /\ focusChanges < MaxFocusChanges /\ focusChanges' = focusChanges + 1
         /\ UNCHANGED <<timers, stops, polling>>
  <2>1. CASE ActivityStarts \/ TimerPolls \/ ActivityStops \/ \E title \in Titles : FocusChanges(title)
    BY <2>1 DEF ActivityStarts, TimerPolls, ActivityStops, FocusChanges
  <2>2. CASE ReadsTitle \/ DetectsActivity \/ AppliesDetected \/ UNCHANGED activityVars
    BY <2>2 DEF ReadsTitle, DetectsActivity, AppliesDetected, activityVars
  <2> QED BY <2>1, <2>2 DEF ActivityNext
<1> QED BY <1>1, <1>2 DEF ActivityCounts

\* Every step keeps the layout that of the last answer.
LEMMA ActivityInvKept ==
    ASSUME ActivityInv, [ActivityNext]_activityVars
    PROVE  ActivityInv'
<1>a. "" \notin CodingTitles /\ "" \in Titles
  BY ActivityConstants DEF Titles
<1>p. Polls => \/ detection' = detection
               \/ detection.at = "none" /\ detection' = [detection EXCEPT !.at = "reads", !.title = "",
                                                             !.profile = "none", !.new = "no"]
  BY DEF Polls, NoDetection, ActivityInv
<1> USE <1>a DEF ActivityInv, LayoutFits, OnItsWay, ProfileAnswers
<1>1. CASE ActivityStarts
  BY <1>1, <1>p DEF ActivityStarts
<1>2. CASE TimerPolls
  BY <1>2, <1>p DEF TimerPolls
<1>3. CASE ActivityStops
  BY <1>3 DEF ActivityStops
<1>4. CASE ReadsTitle
  BY <1>4 DEF ReadsTitle
<1>5. CASE DetectsActivity
  BY <1>5 DEF DetectsActivity, Detected, ProfileOf
<1>6. CASE AppliesDetected
  BY <1>6 DEF AppliesDetected, NoDetection, ProfileOf
<1>7. ASSUME NEW title \in Titles, FocusChanges(title) PROVE ActivityInv'
  BY <1>7 DEF FocusChanges
<1>8. CASE UNCHANGED activityVars
  BY <1>8 DEF activityVars
<1> QED BY <1>1, <1>2, <1>3, <1>4, <1>5, <1>6, <1>7, <1>8 DEF ActivityNext

(* Activity detector: it keeps its types, and the layout suits the window  *)
(* that the last answer was about.                                         *)
THEOREM ActivityLayoutFits == ActivitySpec => [](ActivityTypeOK /\ LayoutFits)
<1>a. MaxFocusChanges \in Nat /\ MaxStops \in Nat
  BY ActivityConstants
<1>1. ActivityInit => ActivityCounts /\ ActivityInv
  <2> SUFFICES ASSUME ActivityInit PROVE ActivityCounts /\ ActivityInv
    OBVIOUS
  <2>1. ActivityCounts
    <3>1. focusChanges = 0 /\ stops = 0 /\ timers = 0
      BY DEF ActivityInit
    <3> QED BY <1>a, <3>1 DEF ActivityCounts
  <2>2. "" \in Titles /\ ProfileOf("") = "default"
    BY ActivityConstants DEF Titles, ProfileOf
  <2>3. ActivityInv
    BY <2>2 DEF ActivityInit, ActivityInv, LayoutFits, OnItsWay, NoDetection, ProfileAnswers
  <2> QED BY <2>1, <2>3
<1>2. ActivityCounts => timers \in 0..MaxStops + 1
  BY <1>a DEF ActivityCounts
<1>3. ActivityCounts /\ ActivityInv => ActivityTypeOK /\ LayoutFits
  BY <1>2 DEF ActivityCounts, ActivityInv, ActivityTypeOK
<1> QED BY <1>1, <1>3, ActivityCountsKept, ActivityInvKept, PTL DEF ActivitySpec

-----------------------------------------------------------------------------
(* Explain.  A frame that is not of a window that was active is never the  *)
(* only best one: the window Hyprland named fits as well, and if it named  *)
(* none, only the active one fits at all.                                  *)

\* Every window that was active is accessible under its title.
AllAccessible == \A w \in wasActive : look[w].frame \notin {"none", "renamed"}

\* What Hyprland said is of a window that was active meanwhile.
IdentityOfActive ==
    identity # <<>> => \E w \in wasActive : identity = <<look[w].title, look[w].class>>

\* The whole invariant of explain().
ExplainInv ==
    /\ ExplainTypeOK /\ TextIsOfActive /\ IdentityOfActive
    /\ explainStep = "idle" => identity = <<>>
    /\ explainStep # "idle" => atWindow \in wasActive
    /\ explained # NoWindow => explainStep = "done"

\* A single best frame fits at least as well as every other one.
LEMMA OnlyBest ==
    ASSUME NEW w \in ScopedFrames
    PROVE  w \in Best /\ \A v \in Best : v = w
<1>1. w \in Best /\ Cardinality(Best) = 1
  BY DEF ScopedFrames
<1>2. Best \subseteq OnScreen
  BY DEF Best, Fitting
<1>3. IsFiniteSet(Best)
  BY <1>2, ExplainConstants, FS_Subset
<1> QED BY <1>1, <1>3, FS_Singleton

\* A frame's score is the sum of what its title, class and state give.
LEMMA ScoresAreNumbers ==
    ASSUME ExplainTypeOK, NEW w \in OnScreen
    PROVE  /\ TitleScore(w) \in {0, 70, 100} /\ ClassScore(w) \in {0, 35, 60}
           /\ StateScore(w) \in {0, 75} /\ Score(w) = TitleScore(w) + ClassScore(w) + StateScore(w)
<1>1. TitleScore(w) \in {0, 70, 100}
  BY DEF TitleScore
<1>2. ClassScore(w) \in {0, 35, 60}
  BY DEF ClassScore
<1> QED BY <1>1, <1>2 DEF StateScore, Score

\* The window Hyprland named fits at least as well as one that is not active.
LEMMA NamedFits ==
    ASSUME ExplainTypeOK, NEW v \in OnScreen, NEW w \in OnScreen,
           identity = <<look[v].title, look[v].class>>, look[v].frame \notin {"none", "renamed"},
           w # atWindow
    PROVE  v \in Fitting /\ Score(w) <= Score(v)
<1>1. ClassScore(v) = 60 /\ StateScore(w) = 0
  BY DEF ClassScore, StateScore
<1>2. TitleScore(w) <= TitleScore(v)
  <2>1. CASE look[v].title = {}
    BY <2>1 DEF TitleScore
  <2>2. CASE look[v].title # {}
    <3>1. TitleScore(v) = 100
      BY <2>2 DEF TitleScore
    <3> QED BY <3>1, ScoresAreNumbers
  <2> QED BY <2>1, <2>2
<1>3. Score(w) <= Score(v) /\ Score(v) > 0
  BY <1>1, <1>2, ScoresAreNumbers
<1> QED BY <1>3 DEF Fitting

\* A frame the walk would read is of a window that was active.
LEMMA OnlyBestIsActive ==
    ASSUME ExplainInv, explainStep = "walks", AllAccessible, NEW w \in ScopedFrames
    PROVE  w \in wasActive
<1> USE DEF ExplainInv
<1>1. w \in Best /\ w \in OnScreen /\ Score(w) > 0 /\ \A v \in Fitting : Score(v) <= Score(w)
  BY OnlyBest DEF Best, Fitting
<1>2. CASE w = atWindow
  BY <1>2
<1>3. CASE w # atWindow /\ identity = <<>>
  <2>1. TitleScore(w) = 0 /\ ClassScore(w) = 0 /\ StateScore(w) = 0
    BY <1>3 DEF TitleScore, ClassScore, StateScore
  <2> QED BY <1>1, <2>1 DEF Score
<1>4. CASE w # atWindow /\ identity # <<>>
  <2>1. PICK v \in wasActive : identity = <<look[v].title, look[v].class>>
    BY <1>4 DEF IdentityOfActive
  <2>2. v \in OnScreen /\ look[v].frame \notin {"none", "renamed"}
    BY <2>1 DEF AllAccessible, ExplainTypeOK
  <2>3. v \in Fitting /\ Score(w) <= Score(v)
    BY <1>1, <1>4, <2>1, <2>2, NamedFits
  <2>4. \A u \in Fitting : Score(u) <= Score(v)
    <3> TAKE u \in Fitting
    <3>1. Score(u) <= Score(w) /\ u \in OnScreen
      BY <1>1 DEF Fitting
    <3>2. Score(u) \in Int /\ Score(v) \in Int /\ Score(w) \in Int
      BY <1>1, <2>2, <3>1, ScoresAreNumbers
    <3> QED BY <2>3, <3>1, <3>2
  <2>5. v \in Best
    BY <2>3, <2>4 DEF Best
  <2> QED BY <2>1, <2>5, OnlyBest
<1> QED BY <1>2, <1>3, <1>4

(* explain(): it keeps its types, and takes its text from a window that    *)
(* was active while it ran, for any windows, titles and classes on the     *)
(* screen.                                                                 *)
THEOREM ExplainIsOfActive == ExplainSpec => [](ExplainTypeOK /\ TextIsOfActive)
<1>1. ExplainInit => ExplainInv
  BY ExplainConstants DEF ExplainInit, ExplainInv, ExplainTypeOK, TextIsOfActive, IdentityOfActive
<1>2. ExplainInv /\ [ExplainNext]_explainVars => ExplainInv'
  <2> SUFFICES ASSUME ExplainInv, [ExplainNext]_explainVars PROVE ExplainInv'
    OBVIOUS
  <2> USE DEF ExplainInv, ExplainTypeOK
  <2>1. CASE ExplainCalled
    BY <2>1 DEF ExplainCalled, TextIsOfActive, IdentityOfActive
  <2>2. CASE AsksHyprland
    BY <2>2 DEF AsksHyprland, TextIsOfActive, IdentityOfActive
  <2>3. CASE WalksFrames
    <3>1. CASE \E w \in ScopedFrames :
                  look[w].readable = "yes" /\ explained' = w /\ explainStep' = "done"
      <4>1. PICK w \in ScopedFrames : explained' = w /\ explainStep' = "done"
        BY <3>1
      <4>2. w \in OnScreen
        BY OnlyBest DEF Best, Fitting
      <4>3. AllAccessible => w \in wasActive
        BY <2>3, OnlyBestIsActive DEF WalksFrames
      <4> QED BY <2>3, <4>1, <4>2, <4>3 DEF WalksFrames, AllAccessible, TextIsOfActive, IdentityOfActive
    <3>2. CASE explainStep' = "falls back" /\ UNCHANGED explained
      BY <2>3, <3>2 DEF WalksFrames, TextIsOfActive, IdentityOfActive
    <3> QED BY <2>3, <3>1, <3>2 DEF WalksFrames
  <2>4. CASE FallsBackOnTitle
    BY <2>4 DEF FallsBackOnTitle, TextIsOfActive, IdentityOfActive
  <2>5. ASSUME NEW w \in OnScreen, SwitchesWindow(w) PROVE ExplainInv'
    <3>1. UNCHANGED <<look, explainStep, identity, explained>> /\ explainStep # "done"
          /\ atWindow' = w /\ wasActive' = wasActive \cup {w}
      BY <2>5 DEF SwitchesWindow
    <3>6. switches \in 0..MaxSwitches /\ switches < MaxSwitches /\ switches' = switches + 1
      BY <2>5 DEF SwitchesWindow
    <3>4. switches' \in 0..MaxSwitches
      <4>1. MaxSwitches \in Nat
        BY ExplainConstants
      <4> HIDE DEF ExplainInv, ExplainTypeOK
      <4> QED BY <3>6, <4>1
    <3>5. ExplainTypeOK'
      BY <3>1, <3>4
    <3>2. explained = NoWindow
      BY <3>1
    <3>3. IdentityOfActive'
      BY <3>1 DEF IdentityOfActive
    <3> QED BY <3>1, <3>2, <3>3, <3>5 DEF TextIsOfActive
  <2>6. CASE UNCHANGED explainVars
    BY <2>6 DEF explainVars, TextIsOfActive, IdentityOfActive
  <2> QED BY <2>1, <2>2, <2>3, <2>4, <2>5, <2>6 DEF ExplainNext
<1>3. ExplainInv => ExplainTypeOK /\ TextIsOfActive
  BY DEF ExplainInv
<1> QED BY <1>1, <1>2, <1>3, PTL DEF ExplainSpec

-----------------------------------------------------------------------------
(* Assistant.  The holder of the lock is the only thread between asking a  *)
(* provider and returning, so that _last_result is what its own request    *)
(* left there.                                                             *)

Inside == {"tries", "takes", "dispatches", "snapshots", "acts"}

\* Who is between taking and releasing the brain's lock holds it.
LockIsHeld == \A t \in Threads : threadAt[t] \in Inside => lock = t
TakenIsTheirs == \A t \in Threads : threadAt[t] = "takes" => lastResult.for = request[t]
ReplyIsTheirs ==
    \A t \in Threads :
        threadAt[t] \in {"dispatches", "snapshots", "acts"} => reply[t].for = request[t]
ExplanationIsShown ==
    \A t \in Threads : threadAt[t] \in {"snapshots", "acts"} => explaining[t] # "answered"
SnapshotTaken == \A t \in Threads : threadAt[t] = "acts" => (btrfs => protected[t])

BrainTypes ==
    /\ btrfs \in BOOLEAN /\ lock \in Threads \cup {NoThread} /\ lastResult \in Replies
    /\ threadAt \in [Threads -> ThreadSteps] /\ operation \in [Threads -> {"chat", "voice", "speak"}]
    /\ request \in [Threads -> 0..MaxRequests]
    /\ reply \in [Threads -> Replies] /\ counted \in [Threads -> 0..ActionLimit + 1]
    /\ explaining \in [Threads -> {"no", "pending", "answered"}] /\ protected \in [Threads -> BOOLEAN]
    /\ requests \in 0..MaxRequests

\* The whole invariant of the brain.
BrainInv ==
    /\ BrainTypes /\ ActsAreAskedFor
    /\ LockIsHeld /\ TakenIsTheirs /\ ReplyIsTheirs /\ ExplanationIsShown /\ SnapshotTaken

\* Every step of the brain keeps the lock and what it guards.
LEMMA BrainKeeps ==
    ASSUME BrainInv, BrainNext
    PROVE  BrainInv'
<1> PICK t \in Threads :
        \/ ProcessChat(t) \/ ProcessVoice(t) \/ Speak(t) \/ Locks(t)
        \/ TriesProviders(t) \/ Transcribes(t) \/ Speaks(t) \/ TakesResult(t) \/ DispatchesAction(t)
        \/ TakesSafetySnapshot(t) \/ Acts(t) \/ AsksAgain(t) \/ Returns(t)
  BY DEF BrainNext
<1>a. MaxRequests \in Nat /\ ActionLimit \in Nat /\ NoThread \notin Threads
  BY AssistantConstants
<1> USE <1>a DEF BrainInv, BrainTypes, GoesTo, Inside, ThreadSteps,
        LockIsHeld, TakenIsTheirs, ReplyIsTheirs, ExplanationIsShown, SnapshotTaken
<1>1. CASE ProcessChat(t) \/ ProcessVoice(t) \/ Speak(t)
  <2>1. PICK what \in {"chat", "voice", "speak"} : Calls(t, what)
    BY <1>1 DEF ProcessChat, ProcessVoice, Speak
  <2>2. requests' \in 0..MaxRequests
    BY <2>1 DEF Calls
  <2> QED BY <2>1, <2>2 DEF Calls, ActsAreAskedFor
<1>2. CASE Locks(t)
  BY <1>2 DEF Locks, Serialized, ActsAreAskedFor
<1>3. CASE TriesProviders(t)
  <2>1. CASE \E n \in 0..ActionLimit + 1 :
               /\ lastResult' = [for |-> request[t], actions |-> n]
               /\ threadAt' = [threadAt EXCEPT ![t] = "takes"] /\ UNCHANGED reply
    <3>1. PICK n \in 0..ActionLimit + 1 : lastResult' = [for |-> request[t], actions |-> n]
      BY <2>1
    <3>2. lastResult' \in Replies /\ lastResult'.for = request[t]
      BY <3>1 DEF Replies
    <3> QED BY <1>3, <2>1, <3>2 DEF TriesProviders, ActsAreAskedFor
  <2>2. CASE /\ reply' = [reply EXCEPT ![t] = [for |-> request[t], actions |-> 0]]
             /\ threadAt' = [threadAt EXCEPT ![t] = "dispatches"] /\ UNCHANGED lastResult
    <3>1. reply'[t] \in Replies /\ reply'[t].for = request[t]
      BY <2>2 DEF Replies
    <3> QED BY <1>3, <2>2, <3>1 DEF TriesProviders, ActsAreAskedFor
  <2> QED BY <1>3, <2>1, <2>2 DEF TriesProviders
<1>4. CASE Transcribes(t)
  <2> DEFINE words == [for |-> request[t], actions |-> 0]
  <2>1. words \in Replies /\ words.for = request[t]
    BY DEF Replies
  <2>2. /\ lastResult' \in {lastResult, words} /\ threadAt[t] = "tries"
        /\ \/ lastResult' = words /\ threadAt' = [threadAt EXCEPT ![t] = "takes"] /\ reply' = reply
           \/ threadAt' = [threadAt EXCEPT ![t] = "dispatches"] /\ reply' = [reply EXCEPT ![t] = words]
        /\ UNCHANGED <<btrfs, lock, operation, request, counted, explaining, protected, requests, acts>>
    BY <1>4 DEF Transcribes
  <2> HIDE DEF words
  <2> QED BY <2>1, <2>2 DEF ActsAreAskedFor
<1>5. CASE Speaks(t)
  BY <1>5 DEF Speaks, Replies, ActsAreAskedFor
<1>6. CASE TakesResult(t)
  BY <1>6 DEF TakesResult, ActsAreAskedFor
<1>7. CASE DispatchesAction(t)
  <2>1. explaining[t] # "answered"
    BY <1>7 DEF DispatchesAction, Dispatched, ToDispatch
  <2>2. counted[t] + 1 \in 0..ActionLimit + 1
    BY <1>7 DEF DispatchesAction, Dispatched, ToDispatch, Replies
  <2> QED BY <1>7, <2>1, <2>2 DEF DispatchesAction, ActsAreAskedFor
<1>8. CASE TakesSafetySnapshot(t)
  <2>1. /\ threadAt[t] = "snapshots"
        /\ UNCHANGED <<btrfs, lock, lastResult, operation, request, reply, counted, explaining, requests, acts>>
    BY <1>8 DEF TakesSafetySnapshot
  <2>2. CASE ~btrfs /\ threadAt' = [threadAt EXCEPT ![t] = "acts"] /\ UNCHANGED protected
    BY <2>1, <2>2 DEF ActsAreAskedFor
  <2>3. CASE threadAt' = [threadAt EXCEPT ![t] = "acts"] /\ protected' = [protected EXCEPT ![t] = TRUE]
    BY <2>1, <2>3 DEF ActsAreAskedFor
  <2>4. CASE threadAt' = [threadAt EXCEPT ![t] = "dispatches"] /\ UNCHANGED protected
    BY <2>1, <2>4 DEF ActsAreAskedFor
  <2> QED BY <1>8, <2>2, <2>3, <2>4 DEF TakesSafetySnapshot, WithSnapshot
<1>9. CASE Acts(t)
  <2>1. BrainTypes' /\ UNCHANGED btrfs
    BY <1>9 DEF Acts
  <2>2. reply[t].for = request[t] /\ explaining[t] # "answered" /\ (btrfs => protected[t])
    BY <1>9 DEF Acts
  <2>3. ActsAreAskedFor'
    <3> DEFINE new == [asker |-> request[t], from |-> reply[t].for, safe |-> protected[t],
                       explained |-> explaining[t] = "answered"]
    <3>1. new.asker = new.from
      BY <2>2
    <3>2. ~new.explained
      BY <2>2
    <3>3. btrfs => new.safe
      BY <2>2
    <3>4. acts' = acts \cup {new}
      BY <1>9 DEF Acts
    <3> HIDE DEF new
    <3> QED BY <2>1, <3>1, <3>2, <3>3, <3>4 DEF ActsAreAskedFor
  <2> QED BY <1>9, <2>1, <2>3 DEF Acts
<1>10. CASE AsksAgain(t)
  BY <1>10 DEF AsksAgain, Dispatched, ActsAreAskedFor
<1>11. CASE Returns(t)
  BY <1>11 DEF Returns, Dispatched, NoReply, Replies, ActsAreAskedFor
<1> QED BY <1>1, <1>2, <1>3, <1>4, <1>5, <1>6, <1>7, <1>8, <1>9, <1>10, <1>11

(* The trigger.  As long as no key was held during a recording of the wake *)
(* word, nor the other way round, there is one recorder at most.           *)

TriggerInv ==
    /\ recorders \subseteq 1..recordings /\ recordings \in Nat /\ currentRecorder \in Nat
    /\ keyHeld \in BOOLEAN /\ recordedTwice \in BOOLEAN
    /\ wake \in {"listens", "records", "stops"} /\ RecordersAreStopped
    /\ ~recordedTwice => ~keyHeld \/ wake = "listens"
    /\ ~recordedTwice /\ wake = "stops" => recorders = {}

\* Every step of the microphone keeps its recorders.
LEMMA TriggerKeeps ==
    ASSUME TriggerInv, TriggerNext
    PROVE  TriggerInv'
<1>1. StartRecording => /\ recorders' = recorders \cup {currentRecorder'} /\ currentRecorder' # 0
                        /\ recorders' \subseteq 1..recordings' /\ recordings' \in Nat
                        /\ currentRecorder' \in Nat
  BY DEF TriggerInv, StartRecording
<1>2. 0 \notin recorders
  BY DEF TriggerInv
<1> USE DEF TriggerInv, RecordersAreStopped
<1>3. CASE KeyPressed
  <2>1. CASE UNCHANGED triggerVars
    BY <2>1 DEF triggerVars
  <2>2. CASE StartRecording /\ keyHeld' = TRUE /\ UNCHANGED wake
             /\ recordedTwice' = (recordedTwice \/ wake # "listens")
    <3>1. recordedTwice' \in BOOLEAN /\ (~recordedTwice' => ~recordedTwice /\ wake = "listens")
      BY <2>2
    <3>2. ~recordedTwice' => recorders = {}
      BY <1>2, <1>3, <3>1 DEF KeyPressed, NotPressed
    <3> QED BY <1>1, <2>2, <3>1, <3>2
  <2> QED BY <1>3, <2>1, <2>2 DEF KeyPressed
<1>4. CASE KeyReleased
  BY <1>4 DEF KeyReleased, StopRecording
<1>5. CASE WakeWordHeard
  <2>1. recordedTwice' \in BOOLEAN /\ (~recordedTwice' => ~recordedTwice /\ ~keyHeld)
    BY <1>5 DEF WakeWordHeard
  <2>2. ~recordedTwice' => recorders = {}
    BY <1>2, <1>5, <2>1 DEF WakeWordHeard
  <2> QED BY <1>1, <1>5, <2>1, <2>2 DEF WakeWordHeard
<1>6. CASE WakeRecorded
  BY <1>6 DEF WakeRecorded
<1>7. CASE WakeStopped
  BY <1>7 DEF WakeStopped
<1> QED BY <1>3, <1>4, <1>5, <1>6, <1>7 DEF TriggerNext

\* Whoever does anything does it for a request.
AskedInv == \A t \in Threads : threadAt[t] # "idle" => request[t] # 0

ActsTyped == acts \subseteq [asker : 1..MaxRequests, from : 0..MaxRequests, safe : BOOLEAN, explained : BOOLEAN]

\* Every step of the brain keeps each reply its own request's.
LEMMA AskedKept ==
    ASSUME BrainTypes, AskedInv, BrainNext
    PROVE  AskedInv'
<1> PICK t \in Threads :
        \/ ProcessChat(t) \/ ProcessVoice(t) \/ Speak(t) \/ Locks(t)
        \/ TriesProviders(t) \/ Transcribes(t) \/ Speaks(t) \/ TakesResult(t) \/ DispatchesAction(t)
        \/ TakesSafetySnapshot(t) \/ Acts(t) \/ AsksAgain(t) \/ Returns(t)
  BY DEF BrainNext
<1>0. ASSUME UNCHANGED request, NEW step, GoesTo(t, step), threadAt[t] # "idle" PROVE AskedInv'
  BY <1>0 DEF AskedInv, GoesTo, BrainTypes
<1>1. CASE ProcessChat(t) \/ ProcessVoice(t) \/ Speak(t)
  <2>1. PICK what : Calls(t, what)
    BY <1>1 DEF ProcessChat, ProcessVoice, Speak
  <2>2. requests' # 0
    BY <2>1 DEF Calls, BrainTypes
  <2>3. request' = [request EXCEPT ![t] = requests'] /\ threadAt' = [threadAt EXCEPT ![t] = "waits"]
    BY <2>1 DEF Calls, GoesTo
  <2> QED BY <2>2, <2>3 DEF AskedInv, BrainTypes
<1>2. CASE Locks(t) \/ Speaks(t) \/ TakesResult(t) \/ Acts(t) \/ AsksAgain(t)
  BY <1>0, <1>2 DEF Locks, Speaks, TakesResult, Acts, AsksAgain, Dispatched
<1>3. CASE TriesProviders(t)
  BY <1>0, <1>3 DEF TriesProviders
<1>4. CASE Transcribes(t)
  BY <1>0, <1>4 DEF Transcribes
<1>5. CASE DispatchesAction(t)
  BY <1>0, <1>5 DEF DispatchesAction
<1>6. CASE TakesSafetySnapshot(t)
  BY <1>0, <1>6 DEF TakesSafetySnapshot
<1>7. CASE Returns(t)
  BY <1>7 DEF Returns, GoesTo, AskedInv, BrainTypes
<1> QED BY <1>1, <1>2, <1>3, <1>4, <1>5, <1>6, <1>7

\* Every step of the brain keeps the acts' types.
LEMMA ActsTypedKept ==
    ASSUME BrainTypes, AskedInv, ActsTyped, BrainNext
    PROVE  ActsTyped'
<1>1. ASSUME NEW t \in Threads, Acts(t) PROVE ActsTyped'
  <2> PICK new : new = [asker |-> request[t], from |-> reply[t].for, safe |-> protected[t],
                        explained |-> explaining[t] = "answered"]
    OBVIOUS
  <2>1. request[t] # 0 /\ request[t] \in 0..MaxRequests
    BY <1>1 DEF Acts, AskedInv, BrainTypes
  <2>2. request[t] \in 1..MaxRequests
    BY <2>1, AssistantConstants
  <2>3. reply[t] \in Replies
    BY DEF BrainTypes
  <2>4. reply[t].for \in 0..MaxRequests /\ protected[t] \in BOOLEAN
    BY <2>3 DEF BrainTypes, Replies
  <2>5. (explaining[t] = "answered") \in BOOLEAN
    OBVIOUS
  <2>6. new \in [asker : 1..MaxRequests, from : 0..MaxRequests, safe : BOOLEAN, explained : BOOLEAN]
    BY <2>2, <2>4, <2>5
  <2>7. acts' = acts \cup {new}
    BY <1>1 DEF Acts
  <2> QED BY <2>6, <2>7 DEF ActsTyped
<1>2. ASSUME UNCHANGED acts PROVE ActsTyped'
  BY <1>2 DEF ActsTyped
<1> QED BY <1>1, <1>2 DEF BrainNext, ProcessChat, ProcessVoice, Speak, Calls, Locks, TriesProviders, Transcribes,
     Speaks, TakesResult, DispatchesAction, TakesSafetySnapshot, AsksAgain, Returns

RecordingsTyped ==
    /\ recordings \in 0..MaxRecordings /\ currentRecorder \in 0..recordings /\ recorders \subseteq 1..recordings

\* No step of the microphone passes the bound on recordings.
LEMMA RecordingsKept ==
    ASSUME RecordingsTyped, TriggerNext
    PROVE  RecordingsTyped'
<1>0. MaxRecordings \in Nat
  BY AssistantConstants
<1>1. \/ recordings' = recordings
      \/ recordings < MaxRecordings /\ recordings' = recordings + 1
  BY DEF TriggerNext, KeyPressed, StartRecording, triggerVars, KeyReleased, WakeWordHeard, WakeRecorded, WakeStopped
<1>2. currentRecorder' \in {0, currentRecorder, recordings'}
  BY DEF TriggerNext, KeyPressed, StartRecording, triggerVars, KeyReleased, StopRecording, WakeWordHeard, WakeRecorded, WakeStopped
<1>3. recorders' \subseteq recorders \/ (recordings' = recordings + 1 /\ recorders' = recorders \cup {recordings'})
  BY DEF TriggerNext, KeyPressed, StartRecording, triggerVars, KeyReleased, StopRecording, WakeWordHeard, WakeRecorded, WakeStopped
<1>4. recordings' \in 0..MaxRecordings /\ recordings \in Nat /\ recordings' \in Nat /\ recordings <= recordings'
  BY <1>0, <1>1 DEF RecordingsTyped
<1>5. currentRecorder' \in 0..recordings'
  BY <1>2, <1>4 DEF RecordingsTyped
<1>6. recorders' \subseteq 1..recordings'
  <2>1. 1..recordings \subseteq 1..recordings'
    BY <1>4
  <2>2. recordings' = recordings + 1 => recordings' \in 1..recordings'
    BY <1>4
  <2>3. recorders \subseteq 1..recordings'
    BY <2>1 DEF RecordingsTyped
  <2>4. CASE recorders' \subseteq recorders
    BY <2>3, <2>4
  <2>5. CASE recordings' = recordings + 1 /\ recorders' = recorders \cup {recordings'}
    <3>1. recordings' \in 1..recordings'
      BY <2>2, <2>5
    <3> QED BY <2>3, <2>5, <3>1
  <2> QED BY <1>3, <2>4, <2>5
<1> QED BY <1>4, <1>5, <1>6 DEF RecordingsTyped

\* The invariant has the types.
LEMMA AssistantTyped ==
    BrainInv /\ TriggerInv /\ ActsTyped /\ RecordingsTyped => AssistantTypeOK
<1> SUFFICES ASSUME BrainInv, TriggerInv, ActsTyped, RecordingsTyped PROVE AssistantTypeOK
  OBVIOUS
<1>1. MaxRecordings \in Nat
  BY AssistantConstants
<1>2. recordings \in 0..MaxRecordings /\ currentRecorder \in 0..recordings /\ recorders \subseteq 1..recordings
  BY DEF RecordingsTyped
<1>3. 1..recordings \subseteq 1..MaxRecordings /\ 0..recordings \subseteq 0..MaxRecordings
  BY <1>1, <1>2
<1>4. recorders \subseteq 1..MaxRecordings /\ currentRecorder \in 0..MaxRecordings
  BY <1>2, <1>3
<1>5. keyHeld \in BOOLEAN /\ wake \in {"listens", "records", "stops"} /\ recordedTwice \in BOOLEAN
  BY DEF TriggerInv
<1> QED BY <1>2, <1>4, <1>5 DEF BrainInv, BrainTypes, ActsTyped, AssistantTypeOK

(* Assistant: it keeps its types; for any number of threads each is        *)
(* answered for its own request, does what the reply to it asked for,      *)
(* after the snapshot it needs, and no recorder is left running.           *)
THEOREM AssistantKeepsToIt ==
    AssistantSpec => [](AssistantTypeOK /\ RepliesAreTheirs /\ ActsAreAskedFor /\ RecordersAreStopped)
<1> DEFINE Inv == BrainInv /\ TriggerInv /\ AskedInv /\ ActsTyped /\ RecordingsTyped
<1>1. AssistantInit => Inv
  <2> SUFFICES ASSUME AssistantInit PROVE Inv
    OBVIOUS
  <2> USE AssistantConstants DEF AssistantInit
  <2>1. BrainTypes
    BY DEF BrainTypes, NoReply, Replies, ThreadSteps
  <2>2. ActsAreAskedFor /\ \A t \in Threads : threadAt[t] = "idle"
    BY DEF ActsAreAskedFor
  <2>3. LockIsHeld /\ TakenIsTheirs /\ ReplyIsTheirs /\ ExplanationIsShown /\ SnapshotTaken
    BY <2>2 DEF LockIsHeld, TakenIsTheirs, ReplyIsTheirs, ExplanationIsShown, SnapshotTaken, Inside
  <2>4. TriggerInv
    BY DEF TriggerInv, RecordersAreStopped
  <2>5. AskedInv /\ ActsTyped /\ RecordingsTyped
    BY <2>2 DEF AskedInv, ActsTyped, RecordingsTyped
  <2> QED BY <2>1, <2>2, <2>3, <2>4, <2>5 DEF BrainInv
<1>2. Inv /\ [AssistantNext]_assistantVars => Inv'
  <2> SUFFICES ASSUME Inv, [AssistantNext]_assistantVars PROVE Inv'
    OBVIOUS
  <2>1. UNCHANGED brainVars => BrainInv' /\ AskedInv' /\ ActsTyped'
    BY DEF brainVars, BrainInv, BrainTypes, LockIsHeld, TakenIsTheirs, ReplyIsTheirs,
       ExplanationIsShown, SnapshotTaken, ActsAreAskedFor, AskedInv, ActsTyped
  <2>2. BrainTypes
    BY DEF BrainInv
  <2>3. BrainInv' /\ AskedInv' /\ ActsTyped'
    BY <2>1, <2>2, BrainKeeps, AskedKept, ActsTypedKept DEF AssistantNext, assistantVars
  <2>4. UNCHANGED triggerVars => TriggerInv' /\ RecordingsTyped'
    BY DEF triggerVars, TriggerInv, RecordersAreStopped, RecordingsTyped
  <2>5. TriggerInv' /\ RecordingsTyped'
    BY <2>4, TriggerKeeps, RecordingsKept DEF AssistantNext, assistantVars
  <2> QED BY <2>3, <2>5
<1>3. Inv => AssistantTypeOK /\ RepliesAreTheirs /\ ActsAreAskedFor /\ RecordersAreStopped
  BY AssistantTyped DEF BrainInv, TriggerInv, ReplyIsTheirs, RepliesAreTheirs
<1> QED BY <1>1, <1>2, <1>3, PTL DEF AssistantSpec

-----------------------------------------------------------------------------

(* The network sampler.  What memory knows beyond what was announced is    *)
(* what the sample under way is about to announce: only so may the history *)
(* file be written from memory after the snapshot.                         *)

Announcing == IF sample.step = "publish" THEN sample.snapshot.first ELSE {}

\* What memory knows was announced, or is about to be.
KnownInv ==
    /\ KnownWasAnnounced
    /\ DOMAIN memory \subseteq announced \cup missed \cup Announcing
    /\ sample.step = "down" => DOMAIN memory = {}

(* Pruning forgets talks and learns none.                                  *)
LEMMA PrunedDomain ==
    ASSUME NEW h, NEW g \in Pruned(h)
    PROVE  DOMAIN g \subseteq DOMAIN h
BY DEF Pruned, Restrict

\* A sample keeps what is known.
LEMMA SampleKnown ==
    ASSUME KnownInv, NEW T \in SUBSET Talks, TakesSample(T)
    PROVE  KnownInv'
<1> DEFINE h == [t \in DOMAIN memory \cup T |-> IF t \in T THEN day ELSE memory[t]]
<1>1. memory' \in Pruned(h)
  BY DEF TakesSample
<1>2. DOMAIN h = DOMAIN memory \cup T
  OBVIOUS
<1> HIDE DEF h
<1>3. DOMAIN memory' \subseteq DOMAIN memory \cup T
  BY <1>1, <1>2, PrunedDomain
<1>4. sample'.step = "publish" /\ sample'.snapshot.first = T \ DOMAIN memory
  BY DEF TakesSample
<1>5. sample.step = "idle" /\ UNCHANGED <<historyFile, announced, missed>>
  BY DEF TakesSample, SampleAt
<1>6. DOMAIN memory \subseteq announced \cup missed
  BY <1>5 DEF KnownInv, Announcing
<1> QED BY <1>3, <1>4, <1>5, <1>6 DEF KnownInv, Announcing, KnownWasAnnounced

\* A write keeps what is known.
LEMMA WriteKnown ==
    ASSUME KnownInv, Writes
    PROVE  KnownInv'
<1>1. UNCHANGED memory
  BY DEF Writes
<1>2. CASE SampleAt("publish") /\ Publishes /\ sample' = [sample EXCEPT !.step = "keep"] /\ UNCHANGED missed
  <2>1. Announcing = sample.snapshot.first /\ UNCHANGED historyFile
        /\ announced' = announced \cup sample.snapshot.first
    BY <1>2 DEF SampleAt, Announcing, Publishes
  <2>2. sample'.step # "down"
    BY <1>2 DEF SampleAt
  <2> QED BY <1>1, <1>2, <2>1, <2>2 DEF KnownInv, KnownWasAnnounced
<1>3. CASE SampleAt("keep") /\ Keeps /\ sample' = [step |-> "idle", snapshot |-> Empty] /\ UNCHANGED missed
  <2>1. Announcing = {} /\ sample'.step = "idle" /\ historyFile' = memory /\ UNCHANGED announced
    BY <1>3 DEF SampleAt, Announcing, Keeps
  <2> QED BY <1>1, <1>3, <2>1 DEF KnownInv, KnownWasAnnounced
<1>4. CASE /\ sample' = [step |-> "idle", snapshot |-> Empty]
           /\ missed' = IF SampleAt("publish") THEN missed \cup sample.snapshot.first ELSE missed
           /\ UNCHANGED <<historyFile, announced>>
  <2>1. missed' = missed \cup Announcing /\ sample'.step = "idle"
    BY <1>4 DEF SampleAt, Announcing
  <2> QED BY <1>1, <1>4, <2>1 DEF KnownInv, KnownWasAnnounced
<1>5. SampleAt("publish") <=> ~SampleAt("keep")
  BY DEF Writes, SampleAt
<1> QED BY <1>2, <1>3, <1>4, <1>5 DEF Writes, SnapshotFirst

\* A kill or a start keeps what is known.
LEMMA ServiceKnown ==
    ASSUME KnownInv, NetwatchDies \/ NetwatchStarts
    PROVE  KnownInv'
<1>0. DOMAIN NoHistory = {}
  BY DEF NoHistory
<1>1. CASE NetwatchDies
  <2>1. DOMAIN historyFile' \subseteq DOMAIN historyFile /\ DOMAIN memory' = {}
        /\ UNCHANGED <<announced, missed>>
    BY <1>0, <1>1 DEF NetwatchDies
  <2> QED BY <2>1 DEF KnownInv, KnownWasAnnounced
<1>2. CASE NetwatchStarts
  <2>1. memory' = historyFile /\ sample'.step = "idle" /\ UNCHANGED <<historyFile, announced, missed>>
    BY <1>2 DEF NetwatchStarts
  <2> QED BY <2>1 DEF KnownInv, KnownWasAnnounced
<1> QED BY <1>1, <1>2

(* A destination the history file knows was shown to the user as seen for  *)
(* the first time, however the service is killed between its two writes    *)
(* (_write_snapshot before _save_history), unless its snapshot's write     *)
(* failed.                                                                 *)
THEOREM NetwatchAnnounces == NetwatchSpec => []KnownWasAnnounced
<1>1. NetwatchInit => KnownInv
  BY DEF NetwatchInit, KnownInv, KnownWasAnnounced, NoHistory, Announcing
<1>2. KnownInv /\ [NetwatchNext]_netwatchVars => KnownInv'
  <2> SUFFICES ASSUME KnownInv, [NetwatchNext]_netwatchVars
               PROVE  KnownInv'
    OBVIOUS
  <2>1. CASE DayPasses \/ RefreshActivity \/ UNCHANGED netwatchVars
    <3>1. UNCHANGED <<memory, historyFile, sample, announced, missed>>
      BY <2>1 DEF DayPasses, RefreshActivity, netwatchVars
    <3> QED BY <3>1 DEF KnownInv, KnownWasAnnounced, Announcing
  <2> QED BY <2>1, SampleKnown, WriteKnown, ServiceKnown DEF NetwatchNext
<1>3. KnownInv => KnownWasAnnounced
  BY DEF KnownInv
<1> QED BY <1>1, <1>2, <1>3, PTL DEF NetwatchSpec

-----------------------------------------------------------------------------
(* The network sampler's types: what is pruned from a history is a history *)
(* of the same days.                                                       *)

\* The types of memory, files and sample.
NetwatchTyped ==
    /\ memory \in Histories /\ historyFile \in Histories
    /\ published \in NetwatchStep
    /\ sample \in [step : {"idle", "publish", "keep", "down"}, snapshot : NetwatchStep]
    /\ activity \in {"no snapshot", "fresh", "stale"}
    /\ announced \subseteq Talks /\ missed \subseteq Talks

NetwatchCounts == day \in 1..MaxDays /\ mishaps \in 0..MaxMishaps

\* A history gives a day for some destinations.
LEMMA HistoryIs ==
    ASSUME NEW h
    PROVE  h \in Histories <=> DOMAIN h \subseteq Talks /\ h \in [DOMAIN h -> 1..MaxDays]
BY DEF Histories

\* The empty history is one.
LEMMA NoHistoryIs == NoHistory \in Histories
<1>1. DOMAIN NoHistory = {} /\ NoHistory \in [{} -> 1..MaxDays]
  BY DEF NoHistory
<1> QED BY <1>1, HistoryIs

\* A pruned history is one.
LEMMA PrunedIsHistory ==
    ASSUME NEW h \in Histories, NEW g \in Pruned(h)
    PROVE  g \in Histories
<1>1. PICK S \in SUBSET (DOMAIN h) : g = Restrict(h, S)
  BY DEF Pruned
<1>2. g = [t \in S |-> h[t]]
  BY <1>1 DEF Restrict
<1>3. DOMAIN h \subseteq Talks /\ h \in [DOMAIN h -> 1..MaxDays]
  BY HistoryIs
<1>4. DOMAIN g = S /\ g \in [S -> 1..MaxDays] /\ S \subseteq Talks
  BY <1>1, <1>2, <1>3
<1> QED BY <1>4, HistoryIs

\* A service between two samples is at a possible step.
LEMMA EmptyIs == Empty \in NetwatchStep
<1>1. 0 \in 0..MaxDays
  BY NetwatchConstants
<1> QED BY <1>1 DEF Empty, NetwatchStep

\* A sample keeps the types.
LEMMA SampleTyped ==
    ASSUME NetwatchTyped, day \in 1..MaxDays, NEW T \in SUBSET Talks, TakesSample(T)
    PROVE  NetwatchTyped'
<1> DEFINE h == [t \in DOMAIN memory \cup T |-> IF t \in T THEN day ELSE memory[t]]
           s == [at |-> day, talks |-> T, first |-> T \ DOMAIN memory]
<1>1. DOMAIN memory \subseteq Talks /\ memory \in [DOMAIN memory -> 1..MaxDays]
  BY HistoryIs DEF NetwatchTyped
<1>2. DOMAIN h \subseteq Talks /\ h \in [DOMAIN h -> 1..MaxDays]
  BY <1>1
<1>3. h \in Histories
  BY <1>2, HistoryIs
<1>4. memory' \in Pruned(h)
  BY DEF TakesSample
<1>5. memory' \in Histories
  BY <1>3, <1>4, PrunedIsHistory
<1>6. day \in 0..MaxDays
  BY NetwatchConstants
<1>7. s \in NetwatchStep
  BY <1>6 DEF NetwatchStep
<1>8. sample' = [step |-> "publish", snapshot |-> s]
      /\ UNCHANGED <<historyFile, published, activity, announced, missed>>
  BY DEF TakesSample
<1> HIDE DEF h, s
<1> QED BY <1>5, <1>7, <1>8 DEF NetwatchTyped

\* A write keeps the types.
LEMMA WriteTyped ==
    ASSUME NetwatchTyped, Writes
    PROVE  NetwatchTyped'
<1>1. UNCHANGED <<memory, activity>>
  BY DEF Writes
<1>2. \/ UNCHANGED <<historyFile, published, announced>>
      \/ historyFile' = memory /\ UNCHANGED <<published, announced>>
      \/ /\ published' = sample.snapshot /\ announced' = announced \cup sample.snapshot.first
         /\ UNCHANGED historyFile
  BY DEF Writes, Publishes, Keeps
<1>3. missed' = missed \/ missed' = missed \cup sample.snapshot.first
  BY DEF Writes
<1>4. sample' = [sample EXCEPT !.step = "keep"] \/ sample' = [step |-> "idle", snapshot |-> Empty]
  BY DEF Writes
<1>5. sample.snapshot \in NetwatchStep /\ sample.snapshot.first \subseteq Talks
  BY DEF NetwatchTyped, NetwatchStep
<1>6. sample' \in [step : {"idle", "publish", "keep", "down"}, snapshot : NetwatchStep]
  <2> DEFINE SampleType == [step : {"idle", "publish", "keep", "down"}, snapshot : NetwatchStep]
  <2>1. sample \in SampleType
    BY DEF NetwatchTyped
  <2>2. [sample EXCEPT !.step = "keep"] \in SampleType
    BY <2>1
  <2>3. [step |-> "idle", snapshot |-> Empty] \in SampleType
    BY EmptyIs
  <2> QED BY <1>4, <2>2, <2>3
<1>7. announced' \subseteq Talks /\ missed' \subseteq Talks
  BY <1>2, <1>3, <1>5 DEF NetwatchTyped
<1>8. historyFile' \in Histories /\ published' \in NetwatchStep
  BY <1>2, <1>5 DEF NetwatchTyped
<1> QED BY <1>1, <1>6, <1>7, <1>8 DEF NetwatchTyped

\* No step passes the bounds on days and mishaps.
LEMMA NetwatchCounted ==
    ASSUME NetwatchCounts, [NetwatchNext]_netwatchVars
    PROVE  NetwatchCounts'
<1>1. day' = day \/ (day < MaxDays /\ day' = day + 1)
  <2> USE DEF netwatchVars
  <2>1. CASE DayPasses
    BY <2>1 DEF DayPasses
  <2>2. CASE Writes
    BY <2>2 DEF Writes
  <2>3. CASE NetwatchDies
    BY <2>3 DEF NetwatchDies
  <2>4. CASE NetwatchStarts
    BY <2>4 DEF NetwatchStarts
  <2>5. CASE RefreshActivity
    BY <2>5 DEF RefreshActivity
  <2>6. CASE \E T \in SUBSET Talks : TakesSample(T)
    BY <2>6 DEF TakesSample
  <2> QED BY <2>1, <2>2, <2>3, <2>4, <2>5, <2>6 DEF NetwatchNext
<1>2. mishaps' = mishaps \/ (mishaps < MaxMishaps /\ mishaps' = mishaps + 1)
  BY DEF NetwatchNext, netwatchVars, DayPasses, Writes, NetwatchDies, NetwatchStarts, RefreshActivity, TakesSample, Mishap
<1>3. MaxDays \in Nat /\ MaxMishaps \in Nat
  BY NetwatchConstants
<1>4. day' \in 1..MaxDays
  BY <1>1, <1>3 DEF NetwatchCounts
<1>5. mishaps' \in 0..MaxMishaps
  BY <1>2, <1>3 DEF NetwatchCounts
<1> QED BY <1>4, <1>5 DEF NetwatchCounts

(* Netwatch keeps its types: no history, in memory, published or on disk,  *)
(* has a time, a day or a number of destinations that it cannot have.      *)
THEOREM NetwatchTypesKept == NetwatchSpec => []NetwatchTypeOK
<1>1. NetwatchInit => NetwatchTyped /\ NetwatchCounts
  <2> SUFFICES ASSUME NetwatchInit PROVE NetwatchTyped /\ NetwatchCounts
    OBVIOUS
  <2>1. day = 1 /\ mishaps = 0
    BY DEF NetwatchInit
  <2>2. MaxDays \in Nat \ {0} /\ MaxMishaps \in Nat
    BY NetwatchConstants
  <2>3. 1 \in 1..MaxDays /\ 0 \in 0..MaxMishaps
    BY <2>2
  <2>4. NetwatchTyped
    BY EmptyIs, NoHistoryIs DEF NetwatchInit, NetwatchTyped
  <2> QED BY <2>1, <2>3, <2>4 DEF NetwatchCounts
<1>2. NetwatchTyped /\ NetwatchCounts /\ [NetwatchNext]_netwatchVars
      => NetwatchTyped' /\ NetwatchCounts'
  <2> SUFFICES ASSUME NetwatchTyped, NetwatchCounts, [NetwatchNext]_netwatchVars
               PROVE  NetwatchTyped'
    BY NetwatchCounted
  <2>1. CASE DayPasses \/ UNCHANGED netwatchVars
    BY <2>1 DEF DayPasses, netwatchVars, NetwatchTyped
  <2>2. CASE Writes
    BY <2>2, WriteTyped
  <2>3. CASE NetwatchDies
    BY <2>3, EmptyIs, NoHistoryIs DEF NetwatchDies, NetwatchTyped
  <2>4. CASE NetwatchStarts
    BY <2>4, EmptyIs DEF NetwatchStarts, NetwatchTyped
  <2>5. CASE RefreshActivity
    <3>1. activity' \in {"no snapshot", "fresh", "stale"}
      BY <2>5 DEF RefreshActivity
    <3> QED BY <2>5, <3>1 DEF RefreshActivity, NetwatchTyped
  <2>6. CASE \E T \in SUBSET Talks : TakesSample(T)
    BY <2>6, SampleTyped DEF NetwatchCounts
  <2> QED BY <2>1, <2>2, <2>3, <2>4, <2>5, <2>6 DEF NetwatchNext
<1>3. NetwatchTyped /\ NetwatchCounts => NetwatchTypeOK
  <2> SUFFICES ASSUME NetwatchTyped, NetwatchCounts PROVE NetwatchTypeOK
    OBVIOUS
  <2>1. day \in 1..MaxDays /\ mishaps \in 0..MaxMishaps
    BY DEF NetwatchCounts
  <2> QED BY <2>1 DEF NetwatchTyped, NetwatchTypeOK
<1> QED BY <1>1, <1>2, <1>3, PTL DEF NetwatchSpec

-----------------------------------------------------------------------------

(* The integrity check.  What is due stays unlike the baseline through all *)
(* the stages of a pass until AIDE has compared, and there is nothing due  *)
(* in the pass that establishes the baseline.                              *)

\* What a pass has yet to tell is still unlike the baseline, or told.
DueInv ==
    /\ stage \in {"look", "init", "publish", "check", "rkhunter", "over"}
    /\ database.kind \in {"none", "whole"}
    /\ stage = "look" => due \subseteq Unlike(altered, database.of) /\ (NoBaseline => due = {})
    /\ stage \in {"init", "publish"} => due = {}
    /\ stage = "publish" => databaseNew.kind = "whole"
    /\ stage = "check" =>
           due \subseteq Unlike(scanned, database.of) \cap Unlike(altered, database.of)
    /\ stage = "rkhunter" => Told
    /\ PassDone => "hunted" \in happened /\ Told

\* An altered file keeps what is due.
LEMMA AlteredDue ==
    ASSUME DueInv, NEW f \in SystemFiles, FileAltered(f)
    PROVE  DueInv'
<1>1. due' = due \ {f} /\ altered' = Unlike(altered, {f})
  BY DEF FileAltered
<1>2. UNCHANGED <<database, databaseNew, stage, scanned, integrityLog, happened, passes>>
  BY DEF FileAltered
<1>3. due \subseteq Unlike(altered, database.of) => due' \subseteq Unlike(altered', database'.of)
  BY <1>1, <1>2 DEF Unlike
<1> QED BY <1>1, <1>2, <1>3 DEF DueInv, NoBaseline, PassDone, Unlike, Told

\* aide's check keeps what is due.
LEMMA AideDue ==
    ASSUME DueInv, AideBegins \/ (\E failed \in BOOLEAN : AideChecked(failed)) \/ AideCannotRun
    PROVE  DueInv'
<1>1. CASE AideBegins
  BY <1>1 DEF AideBegins, DueInv, NoBaseline, PassDone, Unlike, Told
<1>2. CASE \E failed \in BOOLEAN : AideChecked(failed)
  <2>0. PICK failed \in BOOLEAN : AideChecked(failed)
    BY <1>2
  <2>1. PICK differing \in {Unlike(scanned, database.of), Unlike(altered, database.of)} :
            \E differences \in IF failed THEN SUBSET differing ELSE {differing} :
               /\ integrityLog' \in Logged(differences)
               /\ happened' = (IF failed THEN {"aide failed"} ELSE {})
                               \cup (IF Clean(failed, differences) THEN {"clean"} ELSE {})
                               \cup (IF integrityLog' = differences THEN {} ELSE {"log full"})
    BY <2>0 DEF AideChecked
  <2>2. PICK differences \in IF failed THEN SUBSET differing ELSE {differing} :
               /\ integrityLog' \in Logged(differences)
               /\ happened' = (IF failed THEN {"aide failed"} ELSE {})
                               \cup (IF Clean(failed, differences) THEN {"clean"} ELSE {})
                               \cup (IF integrityLog' = differences THEN {} ELSE {"log full"})
    BY <2>1
  <2>3. stage = "check" /\ stage' = "rkhunter" /\ UNCHANGED <<database, due>>
    BY <2>0 DEF AideChecked
  <2>4. due \subseteq differing
    BY <2>1, <2>3 DEF DueInv
  <2>5. Told'
    <3>1. CASE failed
      BY <2>2, <3>1 DEF Told, Clean
    <3>2. CASE ~failed /\ integrityLog' = differences
      BY <2>2, <2>3, <2>4, <3>2 DEF Told
    <3>3. CASE ~failed /\ integrityLog' # differences
      <4>1. Cardinality(integrityLog') = LogLimit
        BY <2>2, <3>3 DEF Logged
      <4>2. integrityLog' # {}
        BY <4>1, FS_EmptySet, IntegrityConstants
      <4> QED BY <2>2, <3>3, <4>2 DEF Told
    <3> QED BY <3>1, <3>2, <3>3
  <2> QED BY <2>3, <2>5 DEF DueInv, PassDone
<1>3. CASE AideCannotRun
  BY <1>3 DEF AideCannotRun, NextTool, DueInv, PassDone, Told
<1> QED BY <1>1, <1>2, <1>3

\* Making the baseline keeps what is due.
LEMMA BaselineDue ==
    ASSUME DueInv, (\E status \in {"ok", "failed"} : InitEnds(status)) \/ BaselinePublished
    PROVE  DueInv'
<1>1. CASE \E status \in {"ok", "failed"} : InitEnds(status)
  <2>1. PICK status \in {"ok", "failed"} : InitEnds(status)
    BY <1>1
  <2>2. due = {} /\ UNCHANGED <<database, due>> /\ stage' \in {"publish", "rkhunter"}
    BY <2>1 DEF InitEnds, DueInv, Told
  <2>3. stage' = "publish" => databaseNew'.kind = "whole"
    BY <2>1 DEF InitEnds, Established
  <2> QED BY <2>2, <2>3 DEF DueInv, PassDone, Told
<1>2. CASE BaselinePublished
  BY <1>2 DEF BaselinePublished, DueInv, PassDone, Told
<1> QED BY <1>1, <1>2

\* Starting, ending and cutting off a pass keep what is due.
LEMMA PassDue ==
    ASSUME DueInv, PassStarts \/ RkhunterEnds \/ CutOff
    PROVE  DueInv'
<1>1. CASE PassStarts
  BY <1>1 DEF PassStarts, DueInv, NoBaseline, PassDone, Told
<1>2. CASE RkhunterEnds
  BY <1>2 DEF RkhunterEnds, DueInv, PassDone, Told
<1>3. CASE CutOff
  BY <1>3 DEF CutOff, DueInv, PassDone, Told
<1> QED BY <1>1, <1>2, <1>3

(* The baseline is never a half-written one, and each pass that nothing    *)
(* outside cut short came to rkhunter and has in its log what differed     *)
(* from the baseline since its start, or as much as the log takes; when    *)
(* aide itself failed the log at least does not call the system clean      *)
(* (run_aide, run_rkhunter).                                               *)
THEOREM IntegrityReports == IntegritySpec => []ChangesAreReported
<1>1. IntegrityInit => DueInv
  BY DEF IntegrityInit, DueInv, NoDatabase, PassDone, Told
<1>2. DueInv /\ [IntegrityNext]_integrityVars => DueInv'
  <2> SUFFICES ASSUME DueInv, [IntegrityNext]_integrityVars
               PROVE  DueInv'
    OBVIOUS
  <2>1. CASE UNCHANGED integrityVars
    BY <2>1 DEF integrityVars, DueInv, NoBaseline, PassDone, Told
  <2> QED BY <2>1, AlteredDue, AideDue, BaselineDue, PassDue DEF IntegrityNext
<1>3. DueInv => ChangesAreReported
  BY DEF DueInv, ChangesAreReported, Told
<1> QED BY <1>1, <1>2, <1>3, PTL DEF IntegritySpec

IntegrityCounts == passes \in 0..MaxPasses /\ tampered \in 0..MaxTamper /\ toolFailures \in 0..MaxToolFailures

\* No step passes the bounds on passes, changes and failures.
LEMMA IntegrityCountsKept ==
    ASSUME IntegrityCounts, [IntegrityNext]_integrityVars
    PROVE  IntegrityCounts'
<1>0. MaxPasses \in Nat /\ MaxTamper \in Nat /\ MaxToolFailures \in Nat
  BY IntegrityConstants
<1>1. passes' = passes \/ (passes < MaxPasses /\ passes' = passes + 1)
  BY DEF IntegrityNext, integrityVars, FileAltered, PassStarts, AideBegins, InitEnds, BaselinePublished, AideChecked,
     AideCannotRun, RkhunterEnds, CutOff
<1>2. tampered' = tampered \/ (tampered < MaxTamper /\ tampered' = tampered + 1)
  BY DEF IntegrityNext, integrityVars, FileAltered, PassStarts, AideBegins, InitEnds, BaselinePublished, AideChecked,
     AideCannotRun, RkhunterEnds, CutOff
<1>3. toolFailures' = toolFailures \/ (toolFailures < MaxToolFailures /\ toolFailures' = toolFailures + 1)
  <2>1. ASSUME NEW status, InitEnds(status)
        PROVE  toolFailures' = toolFailures \/ (toolFailures < MaxToolFailures /\ toolFailures' = toolFailures + 1)
    BY <2>1 DEF InitEnds
  <2> QED BY <2>1 DEF IntegrityNext, integrityVars, FileAltered, PassStarts, AideBegins, BaselinePublished, AideChecked,
     AideCannotRun, RkhunterEnds, CutOff
<1>4. passes' \in 0..MaxPasses
  BY <1>0, <1>1, CountUp DEF IntegrityCounts
<1>5. tampered' \in 0..MaxTamper
  BY <1>0, <1>2, CountUp DEF IntegrityCounts
<1>6. toolFailures' \in 0..MaxToolFailures
  BY <1>0, <1>3, CountUp DEF IntegrityCounts
<1> QED BY <1>4, <1>5, <1>6 DEF IntegrityCounts

\* What the files, the databases and the log hold.
FilesTyped ==
    /\ altered \subseteq SystemFiles /\ scanned \subseteq SystemFiles
    /\ integrityLog \subseteq SystemFiles /\ due \subseteq SystemFiles
    /\ database \in Databases /\ databaseNew \in Databases

\* The types of the pass.
PassTyped ==
    /\ alerted \subseteq {"AIDE", "rkhunter"}
    /\ stage \in {"look", "init", "publish", "check", "rkhunter", "over"}
    /\ happened \subseteq {"aide failed", "clean", "log full", "hunted", "cut short"}

\* Every step keeps the types of the files and of the baseline.
LEMMA FilesTypedKept ==
    ASSUME FilesTyped, [IntegrityNext]_integrityVars
    PROVE  FilesTyped'
<1>0. \A S \in SUBSET SystemFiles : [kind |-> "partial", of |-> S] \in Databases /\ [kind |-> "whole", of |-> S] \in Databases
  BY DEF Databases
<1>1. \A S, T \in SUBSET SystemFiles : Unlike(S, T) \subseteq SystemFiles
  BY DEF Unlike
<1>2. NoDatabase \in Databases /\ \A d \in Databases : d.of \in SUBSET SystemFiles
  BY DEF Databases, NoDatabase
<1>3. ASSUME NEW f \in SystemFiles, FileAltered(f) PROVE FilesTyped'
  <2>1. {f} \in SUBSET SystemFiles
    OBVIOUS
  <2> QED BY <1>1, <1>3, <2>1 DEF FileAltered, FilesTyped
<1>4. CASE PassStarts
  BY <1>1, <1>2, <1>4 DEF PassStarts, FilesTyped
<1>5. CASE AideBegins
  BY <1>0, <1>5 DEF AideBegins, FilesTyped
<1>6. ASSUME NEW status, InitEnds(status) PROVE FilesTyped'
  BY <1>0, <1>6 DEF InitEnds, FilesTyped
<1>7. CASE BaselinePublished
  BY <1>2, <1>7 DEF BaselinePublished, FilesTyped
<1>8. ASSUME NEW failed \in BOOLEAN, AideChecked(failed) PROVE FilesTyped'
  <2>1. PICK differing \in {Unlike(scanned, database.of), Unlike(altered, database.of)} :
            \E differences \in IF failed THEN SUBSET differing ELSE {differing} : integrityLog' \in Logged(differences)
    BY <1>8 DEF AideChecked
  <2>2. PICK differences \in IF failed THEN SUBSET differing ELSE {differing} : integrityLog' \in Logged(differences)
    BY <2>1
  <2>3. differing \subseteq SystemFiles
    BY <1>1, <1>2 DEF FilesTyped
  <2>4. integrityLog' \subseteq SystemFiles
    BY <2>2, <2>3 DEF Logged
  <2> QED BY <1>8, <2>4 DEF AideChecked, FilesTyped
<1>9. CASE AideCannotRun \/ RkhunterEnds \/ CutOff
  BY <1>9 DEF AideCannotRun, RkhunterEnds, CutOff, FilesTyped
<1>10. CASE UNCHANGED integrityVars
  BY <1>10 DEF integrityVars, FilesTyped
<1> QED BY <1>3, <1>4, <1>5, <1>6, <1>7, <1>8, <1>9, <1>10 DEF IntegrityNext

\* Every step keeps the types of the pass.
LEMMA PassTypedKept ==
    ASSUME PassTyped, [IntegrityNext]_integrityVars
    PROVE  PassTyped'
<1>1. ASSUME NEW f \in SystemFiles, FileAltered(f) PROVE PassTyped'
  BY <1>1 DEF FileAltered, PassTyped
<1>2. CASE PassStarts
  BY <1>2 DEF PassStarts, PassTyped
<1>3. CASE AideBegins \/ BaselinePublished
  BY <1>3 DEF AideBegins, BaselinePublished, PassTyped
<1>4. ASSUME NEW status, InitEnds(status) PROVE PassTyped'
  BY <1>4 DEF InitEnds, PassTyped
<1>5. ASSUME NEW failed \in BOOLEAN, AideChecked(failed) PROVE PassTyped'
  BY <1>5 DEF AideChecked, Notified, PassTyped
<1>6. CASE AideCannotRun
  BY <1>6 DEF AideCannotRun, NextTool, PassTyped
<1>7. CASE RkhunterEnds \/ CutOff
  BY <1>7 DEF RkhunterEnds, Notified, CutOff, PassTyped
<1>8. CASE UNCHANGED integrityVars
  BY <1>8 DEF integrityVars, PassTyped
<1> QED BY <1>1, <1>2, <1>3, <1>4, <1>5, <1>6, <1>7, <1>8 DEF IntegrityNext

\* The types hold before the first pass.
LEMMA IntegrityTypesStart == IntegrityInit => IntegrityCounts /\ FilesTyped /\ PassTyped
<1> SUFFICES ASSUME IntegrityInit PROVE IntegrityCounts /\ FilesTyped /\ PassTyped
  OBVIOUS
<1>1. passes = 0 /\ tampered = 0 /\ toolFailures = 0 /\ MaxPasses \in Nat /\ MaxTamper \in Nat /\ MaxToolFailures \in Nat
  BY IntegrityConstants DEF IntegrityInit
<1>2. IntegrityCounts
  BY <1>1 DEF IntegrityCounts
<1>3. FilesTyped /\ PassTyped
  BY DEF IntegrityInit, FilesTyped, PassTyped, Databases, NoDatabase
<1> QED BY <1>2, <1>3

(* The integrity check keeps its types: a pass is at one of its steps with *)
(* what aide left there.                                                   *)
THEOREM IntegrityTypesKept == IntegritySpec => []IntegrityTypeOK
<1>1. IntegrityCounts /\ FilesTyped /\ PassTyped /\ [IntegrityNext]_integrityVars => (IntegrityCounts /\ FilesTyped /\ PassTyped)'
  BY IntegrityCountsKept, FilesTypedKept, PassTypedKept
<1>2. IntegrityCounts /\ FilesTyped /\ PassTyped => IntegrityTypeOK
  BY DEF IntegrityCounts, FilesTyped, PassTyped, IntegrityTypeOK
<1> QED BY <1>1, <1>2, IntegrityTypesStart, PTL DEF IntegritySpec

-----------------------------------------------------------------------------

(* The Encrypt tab: a link is made under a name that nothing has.          *)

\* Files the tab wrote and files of others are under different names.
TabInv ==
    /\ NothingIsReplaced
    /\ plainDisk = [n \in VaultNames |-> plainDisk[n]]
    /\ theirFiles = [n \in VaultNames |-> theirFiles[n]]
    /\ \A k \in sealing \cup toldSealed : k.to \in VaultNames

\* Publishing a private file replaces none.
LEMMA PublishKeeps ==
    ASSUME TabInv, PublishesPrivate
    PROVE  TabInv'
<1>1. PICK job \in sealing :
          /\ UNCHANGED theirFiles
          /\ \/ /\ LinkIsNew(job.to)
                /\ plainDisk' = [plainDisk EXCEPT ![job.to] = {job.what}]
                /\ toldSealed' = toldSealed \cup {job}
             \/ UNCHANGED <<plainDisk, toldSealed>>
  BY DEF PublishesPrivate
<1>0. job.to \in VaultNames /\ sealing' \subseteq sealing
  BY DEF TabInv, PublishesPrivate
<1>2. CASE /\ LinkIsNew(job.to)
           /\ plainDisk' = [plainDisk EXCEPT ![job.to] = {job.what}]
           /\ toldSealed' = toldSealed \cup {job}
  <2>1. plainDisk[job.to] = {}
    BY <1>2 DEF LinkIsNew
  <2>2. /\ plainDisk' = [n \in VaultNames |-> plainDisk'[n]]
        /\ \A n \in VaultNames : plainDisk'[n] = IF n = job.to THEN {job.what} ELSE plainDisk[n]
    BY <1>0, <1>1, <1>2 DEF TabInv
  <2>3. ASSUME NEW n \in VaultNames, theirFiles'[n] # {}
        PROVE  plainDisk'[n] = theirFiles'[n]
    BY <1>1, <2>1, <2>2, <2>3 DEF TabInv, NothingIsReplaced
  <2>4. ASSUME NEW k \in toldSealed'
        PROVE  k.to \in VaultNames /\ plainDisk'[k.to] = {k.what}
    <3>1. CASE k = job
      BY <1>0, <1>2, <2>2, <3>1
    <3>2. CASE k \in toldSealed
      <4>1. k.to \in VaultNames /\ plainDisk[k.to] = {k.what}
        BY <3>2 DEF TabInv, NothingIsReplaced
      <4>2. k.to # job.to
        BY <2>1, <4>1
      <4> QED BY <2>2, <4>1, <4>2
    <3> QED BY <1>1, <1>2, <3>1, <3>2
  <2> QED BY <1>0, <1>1, <2>2, <2>3, <2>4 DEF TabInv, NothingIsReplaced
<1>3. CASE UNCHANGED <<plainDisk, toldSealed>>
  BY <1>0, <1>1, <1>3 DEF TabInv, NothingIsReplaced
<1> QED BY <1>1, <1>2, <1>3

\* Every step of the tab keeps the invariant.
LEMMA TabKeeps ==
    ASSUME TabInv, EncryptNext
    PROVE  TabInv'
<1>1. CASE \E n \in VaultNames : ChoosesFile(n)
  BY <1>1 DEF ChoosesFile, TabInv, NothingIsReplaced
<1>2. CASE \E p \in Phrases : Encrypts(p) \/ Decrypts(p)
  <2>1. \E n, what : n \in VaultNames /\ Begins(n, what)
    <3>1. PICK n \in VaultNames \cup {"none"} : \E what : Begins(n, what)
      BY <1>2 DEF Encrypts, Decrypts, Vaulted, Unvaulted, VaultNames
    <3> QED BY <3>1 DEF Begins
  <2> QED BY <2>1 DEF Begins, TabInv, NothingIsReplaced
<1>3. CASE \E n \in VaultNames : \E holding \in {{}} \cup {{t} : t \in PlainTexts} : OthersWrite(n, holding)
  <2>1. PICK n \in VaultNames, holding \in {{}} \cup {{t} : t \in PlainTexts} : OthersWrite(n, holding)
    BY <1>3
  <2>2. /\ plainDisk' = [plainDisk EXCEPT ![n] = holding]
        /\ theirFiles' = [theirFiles EXCEPT ![n] = holding]
        /\ toldSealed' = {k \in toldSealed : k.to # n} /\ UNCHANGED sealing
    BY <2>1 DEF OthersWrite
  <2>3. /\ plainDisk' = [m \in VaultNames |-> IF m = n THEN holding ELSE plainDisk[m]]
        /\ theirFiles' = [m \in VaultNames |-> IF m = n THEN holding ELSE theirFiles[m]]
    BY <2>2 DEF TabInv
  <2> QED BY <2>2, <2>3 DEF TabInv, NothingIsReplaced
<1> QED BY <1>1, <1>2, <1>3, PublishKeeps DEF EncryptNext

(* write_private_new replaces no file of another program, and what the tab *)
(* said it has written is there, whatever is written beside it meanwhile.  *)
THEOREM EncryptReplacesNothing == EncryptSpec => []NothingIsReplaced
<1>1. EncryptInit => TabInv
  BY DEF EncryptInit, TabInv, NothingIsReplaced
<1>2. TabInv /\ [EncryptNext]_encryptVars => TabInv'
  <2> SUFFICES ASSUME TabInv, [EncryptNext]_encryptVars
               PROVE  TabInv'
    OBVIOUS
  <2>1. CASE UNCHANGED encryptVars
    BY <2>1 DEF encryptVars, TabInv, NothingIsReplaced
  <2> QED BY <2>1, TabKeeps
<1>3. TabInv => NothingIsReplaced
  BY DEF TabInv
<1> QED BY <1>1, <1>2, <1>3, PTL DEF EncryptSpec

EncryptCounts == sealings \in 0..MaxSealings /\ diskWrites \in 0..MaxWrites

\* No step passes the bounds on sealings and other writes.
LEMMA EncryptCountsKept ==
    ASSUME EncryptCounts, [EncryptNext]_encryptVars
    PROVE  EncryptCounts'
<1>0. MaxSealings \in Nat /\ MaxWrites \in Nat
  BY EncryptConstants
<1>1. sealings' = sealings \/ (sealings < MaxSealings /\ sealings' = sealings + 1)
  BY DEF EncryptNext, encryptVars, ChoosesFile, Encrypts, Decrypts, Begins, PublishesPrivate, OthersWrite
<1>2. diskWrites' = diskWrites \/ (diskWrites < MaxWrites /\ diskWrites' = diskWrites + 1)
  BY DEF EncryptNext, encryptVars, ChoosesFile, Encrypts, Decrypts, Begins, PublishesPrivate, OthersWrite
<1>3. sealings' \in 0..MaxSealings
  BY <1>0, <1>1, CountUp DEF EncryptCounts
<1>4. diskWrites' \in 0..MaxWrites
  BY <1>0, <1>2, CountUp DEF EncryptCounts
<1> QED BY <1>3, <1>4 DEF EncryptCounts

\* What is written to which name.
TabJobs == [to : VaultNames, what : Holdings]

\* A name holds one thing at most, and the tab does one job at most.
OneAtMost(S) == S = {} \/ \E x : S = {x}

DiskTyped ==
    /\ plainDisk = [n \in VaultNames |-> plainDisk[n]] /\ theirFiles = [n \in VaultNames |-> theirFiles[n]]
    /\ \A n \in VaultNames : /\ plainDisk[n] \subseteq Holdings /\ OneAtMost(plainDisk[n])
                             /\ theirFiles[n] \subseteq PlainTexts

JobsTyped ==
    /\ sealTarget \in VaultNames \cup {"none"} /\ toldSealed \subseteq TabJobs
    /\ sealing \subseteq TabJobs /\ OneAtMost(sealing)

\* A set in which no two differ has one element at most.
LEMMA OneIs == \A S : OneAtMost(S) => Cardinality(S) <= 1
<1>1. Cardinality({}) = 0 /\ \A x : Cardinality({x}) = 1
  BY FS_EmptySet, FS_Singleton
<1> SUFFICES ASSUME NEW S, OneAtMost(S) PROVE Cardinality(S) <= 1
  OBVIOUS
<1>2. Cardinality(S) = 0 \/ Cardinality(S) = 1
  BY <1>1 DEF OneAtMost
<1> QED BY <1>2

\* A text that is not sealed is a possible content.
LEMMA PlainIs == PlainTexts \subseteq Holdings
  BY DEF PlainTexts, Holdings, Sealings

\* Sealing what is sealed once.
LEMMA AppendedIs ==
    ASSUME NEW q, NEW p
    PROVE  Append(<<q>>, p) = <<q, p>>
<1>1. <<q>> \in Seq({q, p}) /\ Len(<<q>>) = 1 /\ <<q>>[1] = q
  OBVIOUS
<1>2. <<q, p>> \in Seq({q, p}) /\ Len(<<q, p>>) = 2 /\ <<q, p>>[1] = q /\ <<q, p>>[2] = p
  OBVIOUS
<1>3. /\ Append(<<q>>, p) \in Seq({q, p}) /\ Len(Append(<<q>>, p)) = 2
      /\ Append(<<q>>, p)[1] = q /\ Append(<<q>>, p)[2] = p
  BY <1>1, AppendProperties
<1>4. \A i \in 1..2 : i = 1 \/ i = 2
  OBVIOUS
<1> QED BY <1>2, <1>3, <1>4, SeqEqual

\* One passphrase more, one less.
LEMMA SealedIs ==
    ASSUME NEW u \in Sealings, NEW p \in Phrases
    PROVE  /\ Len(u) < 2 => Append(u, p) \in Sealings
           /\ u # <<>> => SubSeq(u, 1, Len(u) - 1) \in Sealings
<1>1. CASE u = <<>>
  <2>1. Append(u, p) = <<p>>
    BY <1>1
  <2> QED BY <1>1, <2>1 DEF Sealings
<1>2. ASSUME NEW q \in Phrases, u = <<q>> PROVE Append(u, p) \in Sealings /\ SubSeq(u, 1, Len(u) - 1) \in Sealings
  <2>1. Append(<<q>>, p) = <<q, p>>
    BY AppendedIs
  <2>2. SubSeq(u, 1, 0) = <<>>
    BY SubSeqEmpty
  <2>3. Len(u) - 1 = 0
    BY <1>2
  <2>4. Append(u, p) \in Sealings
    BY <1>2, <2>1 DEF Sealings
  <2> QED BY <2>2, <2>3, <2>4 DEF Sealings
<1>3. ASSUME NEW q \in Phrases, NEW r \in Phrases, u = <<q, r>>
      PROVE  ~(Len(u) < 2) /\ SubSeq(u, 1, Len(u) - 1) \in Sealings
  <2>1. u \in Seq(Phrases) /\ Len(u) - 1 = 1 /\ Len(u) = 2 /\ u[1] = q
    BY <1>3
  <2>2. Head(SubSeq(u, 1, 1)) = u[1] /\ Tail(SubSeq(u, 1, 1)) = SubSeq(u, 2, 1)
    BY <2>1, HeadTailOfSubSeq
  <2>3. SubSeq(u, 1, 1) = <<u[1]>> \o SubSeq(u, 2, 1) /\ SubSeq(u, 2, 1) = <<>>
    BY <2>1, SubSeqRecursiveFirst, SubSeqEmpty
  <2>5. \A a : <<a>> \o <<>> = <<a>>
    OBVIOUS
  <2>4. SubSeq(u, 1, 1) = <<q>>
    BY <2>1, <2>3, <2>5
  <2> QED BY <2>1, <2>4 DEF Sealings
<1> QED BY <1>1, <1>2, <1>3 DEF Sealings

\* A job that begins with a possible content keeps the types.
LEMMA BegunIs ==
    ASSUME JobsTyped, NEW n \in VaultNames \cup {"none"}, NEW what \in Holdings, Begins(n, what)
    PROVE  JobsTyped' /\ UNCHANGED <<plainDisk, theirFiles>>
<1>1. [to |-> n, what |-> what] \in TabJobs
  BY DEF Begins, TabJobs
<1>2. sealing' \subseteq TabJobs /\ OneAtMost(sealing')
  BY <1>1 DEF Begins, OneAtMost
<1> QED BY <1>2 DEF Begins, JobsTyped

\* Sealing or opening a content gives a possible one.
LEMMA HeldIs ==
    ASSUME NEW c \in Holdings, NEW u \in Sealings
    PROVE  c.under \in Sealings /\ [c EXCEPT !.under = u] \in Holdings
  BY DEF Holdings

\* Every step keeps the types of the disk and of the jobs.
LEMMA EncryptTypedKept ==
    ASSUME DiskTyped, JobsTyped, [EncryptNext]_encryptVars
    PROVE  DiskTyped' /\ JobsTyped'
<1>0. ASSUME UNCHANGED <<plainDisk, theirFiles>> PROVE DiskTyped'
  BY <1>0 DEF DiskTyped
<1>1. ASSUME NEW n \in VaultNames, ChoosesFile(n) PROVE DiskTyped' /\ JobsTyped'
  BY <1>0, <1>1 DEF ChoosesFile, JobsTyped
<1>2. ASSUME NEW p \in Phrases, Encrypts(p) PROVE DiskTyped' /\ JobsTyped'
  <2>1. PICK c \in plainDisk[sealTarget] :
            Len(c.under) < 2 /\ Begins(Vaulted(sealTarget), [c EXCEPT !.under = Append(@, p)])
    BY <1>2 DEF Encrypts
  <2>2. sealTarget \in VaultNames /\ c \in Holdings
    BY <1>2, <2>1 DEF Encrypts, JobsTyped, DiskTyped
  <2>3. Vaulted(sealTarget) \in VaultNames \cup {"none"}
    BY DEF Vaulted, VaultNames
  <2>4. [c EXCEPT !.under = Append(@, p)] \in Holdings
    BY <2>1, <2>2, HeldIs, SealedIs DEF Holdings
  <2> QED BY <1>0, <2>1, <2>3, <2>4, BegunIs
<1>3. ASSUME NEW p \in Phrases, Decrypts(p) PROVE DiskTyped' /\ JobsTyped'
  <2>1. PICK c \in plainDisk[sealTarget] :
            c.under # <<>> /\ Begins(Unvaulted(sealTarget), [c EXCEPT !.under = SubSeq(@, 1, Len(@) - 1)])
    BY <1>3 DEF Decrypts
  <2>2. sealTarget \in VaultNames /\ c \in Holdings
    BY <1>3, <2>1 DEF Decrypts, JobsTyped, DiskTyped
  <2>3. Unvaulted(sealTarget) \in VaultNames \cup {"none"}
    BY DEF Unvaulted, VaultNames
  <2>4. [c EXCEPT !.under = SubSeq(@, 1, Len(@) - 1)] \in Holdings
    BY <2>1, <2>2, HeldIs, SealedIs DEF Holdings
  <2> QED BY <1>0, <2>1, <2>3, <2>4, BegunIs
<1>4. CASE PublishesPrivate
  <2>1. PICK job \in sealing :
            /\ sealing' = {} /\ UNCHANGED <<sealTarget, theirFiles>>
            /\ \/ /\ plainDisk' = [plainDisk EXCEPT ![job.to] = {job.what}]
                  /\ toldSealed' = toldSealed \cup {job}
               \/ UNCHANGED <<plainDisk, toldSealed>>
    BY <1>4 DEF PublishesPrivate
  <2>2. job \in TabJobs /\ job.to \in VaultNames /\ job.what \in Holdings
    BY DEF JobsTyped, TabJobs
  <2>3. JobsTyped'
    BY <2>1, <2>2 DEF JobsTyped, OneAtMost
  <2>4. DiskTyped'
    BY <1>0, <2>1, <2>2 DEF DiskTyped, OneAtMost
  <2> QED BY <2>3, <2>4
<1>5. ASSUME NEW n \in VaultNames, NEW holding \in {{}} \cup {{t} : t \in PlainTexts}, OthersWrite(n, holding)
      PROVE  DiskTyped' /\ JobsTyped'
  <2>1. holding \subseteq PlainTexts /\ holding \subseteq Holdings /\ OneAtMost(holding)
    BY PlainIs DEF OneAtMost
  <2>2. DiskTyped'
    BY <1>5, <2>1 DEF OthersWrite, DiskTyped
  <2> QED BY <1>5, <2>2 DEF OthersWrite, JobsTyped
<1>6. CASE UNCHANGED encryptVars
  BY <1>0, <1>6 DEF encryptVars, JobsTyped
<1> QED BY <1>1, <1>2, <1>3, <1>4, <1>5, <1>6 DEF EncryptNext

\* The types hold when the tab is opened.
LEMMA EncryptTypedStart == EncryptInit => EncryptCounts /\ DiskTyped /\ JobsTyped
<1> SUFFICES ASSUME EncryptInit PROVE EncryptCounts /\ DiskTyped /\ JobsTyped
  OBVIOUS
<1>1. sealings = 0 /\ diskWrites = 0 /\ MaxSealings \in Nat /\ MaxWrites \in Nat
  BY EncryptConstants DEF EncryptInit
<1>2. EncryptCounts
  BY <1>1 DEF EncryptCounts
<1>3. PICK t \in PlainTexts : plainDisk = [n \in VaultNames |-> IF n = "plain" THEN {t} ELSE {}]
  BY DEF EncryptInit
<1>4. DiskTyped
  BY <1>3, PlainIs DEF EncryptInit, DiskTyped, OneAtMost
<1>5. JobsTyped
  BY DEF EncryptInit, JobsTyped, OneAtMost
<1> QED BY <1>2, <1>4, <1>5

(* The Encrypt tab keeps its types: each name on the disk has one file or  *)
(* none, and a job is one that the tab has started.                        *)
THEOREM EncryptTypesKept == EncryptSpec => []EncryptTypeOK
<1>1. EncryptCounts /\ DiskTyped /\ JobsTyped /\ [EncryptNext]_encryptVars => (EncryptCounts /\ DiskTyped /\ JobsTyped)'
  BY EncryptCountsKept, EncryptTypedKept
<1>2. EncryptCounts /\ DiskTyped /\ JobsTyped => EncryptTypeOK
  BY OneIs DEF EncryptCounts, DiskTyped, JobsTyped, EncryptTypeOK, TabJobs
<1> QED BY <1>1, <1>2, EncryptTypedStart, PTL DEF EncryptSpec

-----------------------------------------------------------------------------

(* The engagements: every copy a window has of a record agrees with it on  *)
(* when it was made, and a record about to be written is not there, where  *)
(* no two windows were creating at a time.                                 *)

CopyType == [slug : Slugs, made : Nat \ {0}, target : Nat]

\* The types of records and their copies.
CopyInv ==
    /\ record \in [Slugs -> {NoRecord} \cup [made : Nat \ {0}, target : Nat]] /\ stamps \in Nat
    /\ myEngagement \in [VoidWindows -> SUBSET CopyType]
    /\ dialogRows \in [VoidWindows -> SUBSET CopyType]
    /\ creating \in [VoidWindows -> SUBSET CopyType]
    /\ created \subseteq [slug : Slugs, made : Nat \ {0}]

Agrees(slug, stamp) == slug \notin contested => record[slug] # NoRecord /\ record[slug].made = stamp

\* Every copy agrees with the record on disk.
AgreeInv ==
    /\ \A e \in created : Agrees(e.slug, e.made)
    /\ \A v \in VoidWindows : \A c \in myEngagement[v] \cup dialogRows[v] : Agrees(c.slug, c.made)
    /\ \A v \in VoidWindows : \A c \in creating[v] : c.slug \notin contested =>
           /\ record[c.slug] = NoRecord
           /\ \A w \in VoidWindows : \A d \in creating[w] : d.slug = c.slug => w = v

(* What the dialog lists are copies that agree with the records.           *)
LEMMA ListingAgrees ==
    ASSUME CopyInv, NEW c \in Listing(record)
    PROVE  c \in CopyType /\ Agrees(c.slug, c.made)
<1>1. PICK s \in Slugs : /\ record[s] # NoRecord
                         /\ c = [slug |-> s, made |-> record[s].made, target |-> record[s].target]
  BY DEF Listing
<1>2. record[s] \in [made : Nat \ {0}, target : Nat]
  BY <1>1 DEF CopyInv
<1> QED BY <1>1, <1>2 DEF CopyType, Agrees

\* The dialog keeps every window's copy agreeing with the record.
LEMMA DialogAgrees ==
    ASSUME CopyInv, AgreeInv, NEW v \in VoidWindows,
           \/ OpensEngagements(v) \/ DialogDestroyed(v) \/ EngagementCleared(v)
           \/ \E entry \in dialogRows[v] : RowActivated(v, entry)
    PROVE  CopyInv' /\ AgreeInv'
<1>1. UNCHANGED <<record, creating, stamps, created, contested>>
  BY DEF OpensEngagements, DialogDestroyed, EngagementCleared, RowActivated
<1>2. dialogRows' = dialogRows \/ dialogRows' = [dialogRows EXCEPT ![v] = Listing(record)]
  BY <1>1 DEF OpensEngagements, DialogDestroyed, EngagementCleared, RowActivated, DialogRefreshes
<1>3. \/ myEngagement' = myEngagement
      \/ \E S \in SUBSET dialogRows[v] : myEngagement' = [myEngagement EXCEPT ![v] = S]
  BY DEF OpensEngagements, DialogDestroyed, EngagementCleared, RowActivated
<1>4. dialogRows' \in [VoidWindows -> SUBSET CopyType]
  BY <1>2, ListingAgrees DEF CopyInv
<1>5. myEngagement' \in [VoidWindows -> SUBSET CopyType]
  BY <1>3 DEF CopyInv
<1>6. ASSUME NEW w \in VoidWindows, NEW c \in myEngagement'[w] \cup dialogRows'[w]
      PROVE  Agrees(c.slug, c.made)
  <2>1. c \in myEngagement[w] \cup dialogRows[w] \cup Listing(record)
        \/ (w = v /\ c \in dialogRows[v])
    BY <1>2, <1>3 DEF CopyInv
  <2> QED BY <2>1, ListingAgrees DEF AgreeInv
<1>7. CopyInv'
  BY <1>1, <1>4, <1>5 DEF CopyInv
<1>8. AgreeInv'
  BY <1>1, <1>6 DEF AgreeInv, Agrees
<1> QED BY <1>7, <1>8

\* Looking whether a directory has a record keeps the agreement.
LEMMA LookAgrees ==
    ASSUME CopyInv, AgreeInv, NEW v \in VoidWindows, NEW s \in Slugs, CreateLooks(v, s)
    PROVE  CopyInv' /\ AgreeInv'
<1> DEFINE job == [slug |-> s, made |-> stamps', target |-> stamps']
<1>1. /\ record[s] = NoRecord /\ creating[v] = {} /\ stamps' = stamps + 1
      /\ creating' = [creating EXCEPT ![v] = {job}]
      /\ UNCHANGED <<record, myEngagement, dialogRows, created>>
  BY DEF CreateLooks, NotThere, Exists, Quiet
<1>2. job \in CopyType /\ stamps' \in Nat
  BY <1>1 DEF CopyInv, CopyType
<1>3. job.slug = s
  OBVIOUS
<1>4. contested \subseteq contested'
      /\ (s \notin contested' => \A w \in VoidWindows : \A d \in creating[w] : d.slug # s)
  BY DEF CreateLooks
<1> HIDE DEF job
<1>5. \A w \in VoidWindows : creating'[w] = IF w = v THEN {job} ELSE creating[w]
  BY <1>1 DEF CopyInv
<1>6. CopyInv'
  BY <1>1, <1>2 DEF CopyInv
<1>7. ASSUME NEW u \in VoidWindows, NEW c \in creating'[u], c.slug \notin contested'
      PROVE  /\ record'[c.slug] = NoRecord
             /\ \A w \in VoidWindows : \A d \in creating'[w] : d.slug = c.slug => w = u
  <2>1. CASE u = v
    BY <1>1, <1>3, <1>4, <1>5, <1>7, <2>1
  <2>2. CASE u # v
    <3>1. c \in creating[u] /\ c.slug \notin contested
      BY <1>4, <1>5, <1>7, <2>2
    <3>2. c.slug # s
      BY <1>4, <1>7, <3>1
    <3> QED BY <1>1, <1>3, <1>5, <3>1, <3>2 DEF AgreeInv
  <2> QED BY <2>1, <2>2
<1>8. AgreeInv'
  BY <1>1, <1>4, <1>7 DEF AgreeInv, Agrees
<1> QED BY <1>6, <1>8

\* Writing a new record keeps it.
LEMMA WriteAgrees ==
    ASSUME CopyInv, AgreeInv, NEW v \in VoidWindows, CreateWrites(v)
    PROVE  CopyInv' /\ AgreeInv'
<1>1. PICK c \in creating[v] :
          /\ creating' = [creating EXCEPT ![v] = {}] /\ UNCHANGED <<inDialog, stamps, contested>>
          /\ \/ /\ record' = [record EXCEPT ![c.slug] = [made |-> c.made, target |-> c.target]]
                /\ myEngagement' = [myEngagement EXCEPT ![v] = {c}] /\ DialogRefreshes(v)
                /\ created' = created \cup {[slug |-> c.slug, made |-> c.made]}
             \/ UNCHANGED <<record, myEngagement, dialogRows, created>>
  BY DEF CreateWrites
<1>2. c \in CopyType
  BY DEF CopyInv
<1>3. /\ \A w \in VoidWindows : creating'[w] = IF w = v THEN {} ELSE creating[w]
      /\ creating' \in [VoidWindows -> SUBSET CopyType]
  BY <1>1 DEF CopyInv
<1>4. CASE UNCHANGED <<record, myEngagement, dialogRows, created>>
  <2>1. CopyInv'
    BY <1>1, <1>3, <1>4 DEF CopyInv
  <2>2. AgreeInv'
    BY <1>1, <1>3, <1>4 DEF AgreeInv, Agrees
  <2> QED BY <2>1, <2>2
<1>5. CASE /\ record' = [record EXCEPT ![c.slug] = [made |-> c.made, target |-> c.target]]
           /\ myEngagement' = [myEngagement EXCEPT ![v] = {c}] /\ DialogRefreshes(v)
           /\ created' = created \cup {[slug |-> c.slug, made |-> c.made]}
  <2>1. /\ c.slug \in Slugs /\ c.made \in Nat \ {0} /\ c.target \in Nat
        /\ [slug |-> c.slug, made |-> c.made] \in [slug : Slugs, made : Nat \ {0}]
    BY <1>2 DEF CopyType
  <2>2. [made |-> c.made, target |-> c.target] # NoRecord
    BY <2>1 DEF NoRecord
  <2>3. \A s \in Slugs : record'[s] = IF s = c.slug THEN [made |-> c.made, target |-> c.target] ELSE record[s]
    BY <1>5, <2>1 DEF CopyInv
  <2>4. record' \in [Slugs -> {NoRecord} \cup [made : Nat \ {0}, target : Nat]]
    BY <1>5, <2>1 DEF CopyInv
  <2>5. \A r \in Listing(record') : r \in CopyType /\ Agrees(r.slug, r.made)'
    <3>1. SUFFICES ASSUME NEW r \in Listing(record')
                   PROVE  r \in CopyType /\ Agrees(r.slug, r.made)'
      OBVIOUS
    <3>2. PICK s \in Slugs : /\ record'[s] # NoRecord
                             /\ r = [slug |-> s, made |-> record'[s].made, target |-> record'[s].target]
      BY DEF Listing
    <3>3. record'[s] \in [made : Nat \ {0}, target : Nat]
      BY <2>4, <3>2
    <3> QED BY <3>2, <3>3 DEF CopyType, Agrees
  <2>6. dialogRows' = [dialogRows EXCEPT ![v] = Listing(record')]
    BY <1>5 DEF DialogRefreshes
  <2>7. CopyInv'
    BY <1>1, <1>2, <1>3, <1>5, <2>1, <2>4, <2>5, <2>6 DEF CopyInv
  <2>8. \A slug \in Slugs, stamp \in Nat \ {0} :
            Agrees(slug, stamp) /\ (slug = c.slug => slug \in contested) => Agrees(slug, stamp)'
    BY <1>1, <2>3 DEF Agrees
  <2>9. c.slug \notin contested => record[c.slug] = NoRecord
    BY DEF AgreeInv
  <2>10. \A slug \in Slugs, stamp \in Nat \ {0} : Agrees(slug, stamp) => Agrees(slug, stamp)'
    BY <2>8, <2>9 DEF Agrees
  <2>11. Agrees(c.slug, c.made)'
    BY <2>1, <2>3 DEF Agrees, NoRecord
  <2>12. ASSUME NEW e \in created'
         PROVE  Agrees(e.slug, e.made)'
    <3>1. CASE e \in created
      BY <2>10, <3>1 DEF AgreeInv, CopyInv
    <3>2. CASE e = [slug |-> c.slug, made |-> c.made]
      BY <2>11, <3>2
    <3> QED BY <1>5, <3>1, <3>2
  <2>13. ASSUME NEW w \in VoidWindows, NEW d \in myEngagement'[w] \cup dialogRows'[w]
         PROVE  Agrees(d.slug, d.made)'
    <3>1. d = c \/ d \in myEngagement[w] \cup dialogRows[w] \cup Listing(record')
      BY <1>5, <2>6 DEF CopyInv
    <3>2. d \in CopyType
      BY <2>7 DEF CopyInv
    <3>3. d.slug \in Slugs /\ d.made \in Nat \ {0}
      BY <3>2 DEF CopyType
    <3>4. CASE d \in myEngagement[w] \cup dialogRows[w]
      BY <2>10, <3>3, <3>4 DEF AgreeInv
    <3> QED BY <2>5, <2>11, <3>1, <3>4
  <2>14. ASSUME NEW u \in VoidWindows, NEW d \in creating'[u], d.slug \notin contested'
         PROVE  /\ record'[d.slug] = NoRecord
                /\ \A w \in VoidWindows : \A e \in creating'[w] : e.slug = d.slug => w = u
    <3>1. u # v /\ d \in creating[u] /\ d.slug \notin contested
      BY <1>1, <1>3, <2>14
    <3>2. d.slug # c.slug
      BY <3>1 DEF AgreeInv
    <3>3. d.slug \in Slugs
      BY <3>1 DEF CopyInv, CopyType
    <3> QED BY <1>3, <2>3, <3>1, <3>2, <3>3 DEF AgreeInv
  <2>15. AgreeInv'
    BY <2>12, <2>13, <2>14 DEF AgreeInv
  <2> QED BY <2>7, <2>15
<1> QED BY <1>1, <1>4, <1>5

\* Setting a target from a copy keeps it.
LEMMA TargetAgrees ==
    ASSUME CopyInv, AgreeInv, NEW v \in VoidWindows, TargetUpdated(v)
    PROVE  CopyInv' /\ AgreeInv'
<1>1. PICK c \in myEngagement[v] :
          /\ stamps' = stamps + 1
          /\ myEngagement' = [myEngagement EXCEPT ![v] = {[c EXCEPT !.target = stamps']}]
          /\ \/ record' = [record EXCEPT ![c.slug] = [made |-> c.made, target |-> stamps']]
             \/ UNCHANGED record
          /\ UNCHANGED <<dialogRows, inDialog, creating, created, contested>>
  BY DEF TargetUpdated
<1> DEFINE k == [c EXCEPT !.target = stamps']
<1>2. c \in CopyType /\ Agrees(c.slug, c.made) /\ stamps' \in Nat
  BY <1>1 DEF CopyInv, AgreeInv
<1>3. k \in CopyType /\ k.slug = c.slug /\ k.made = c.made
  BY <1>2 DEF CopyType
<1>4. c.slug \in Slugs /\ c.made \in Nat \ {0}
  BY <1>2 DEF CopyType
<1> HIDE DEF k
<1>5. record' \in [Slugs -> {NoRecord} \cup [made : Nat \ {0}, target : Nat]]
  BY <1>1, <1>2, <1>4 DEF CopyInv
<1>6. myEngagement' = [myEngagement EXCEPT ![v] = {k}]
  BY <1>1 DEF k
<1>7. CopyInv'
  BY <1>1, <1>2, <1>3, <1>5, <1>6 DEF CopyInv
<1>8. \A s \in Slugs : \/ record'[s] = record[s]
                       \/ s = c.slug /\ record'[s] # NoRecord /\ record'[s].made = c.made
  BY <1>1, <1>4 DEF CopyInv, NoRecord
<1>9. \A slug \in Slugs, stamp \in Nat : Agrees(slug, stamp) => Agrees(slug, stamp)'
  BY <1>1, <1>2, <1>8 DEF Agrees
<1>10. ASSUME NEW w \in VoidWindows, NEW d \in myEngagement'[w] \cup dialogRows'[w]
       PROVE  Agrees(d.slug, d.made)'
  <2>1. d = k \/ d \in myEngagement[w] \cup dialogRows[w]
    BY <1>1, <1>6 DEF CopyInv
  <2>2. d.slug \in Slugs /\ d.made \in Nat
    BY <1>7 DEF CopyInv, CopyType
  <2>3. Agrees(d.slug, d.made)
    BY <1>2, <1>3, <2>1 DEF AgreeInv
  <2> QED BY <1>9, <2>2, <2>3
<1>11. ASSUME NEW e \in created'
       PROVE  Agrees(e.slug, e.made)'
  BY <1>1, <1>9 DEF AgreeInv, CopyInv
<1>12. ASSUME NEW u \in VoidWindows, NEW d \in creating'[u], d.slug \notin contested'
       PROVE  /\ record'[d.slug] = NoRecord
              /\ \A w \in VoidWindows : \A e \in creating'[w] : e.slug = d.slug => w = u
  <2>1. d \in creating[u] /\ d.slug \notin contested /\ d.slug \in Slugs
    BY <1>1, <1>12 DEF CopyInv, CopyType
  <2>2. d.slug # c.slug
    BY <1>2, <2>1 DEF Agrees, AgreeInv
  <2> QED BY <1>1, <1>8, <2>1, <2>2 DEF AgreeInv
<1>13. AgreeInv'
  BY <1>10, <1>11, <1>12 DEF AgreeInv
<1> QED BY <1>7, <1>13

(* create_engagement "never silently overwrites an existing engagement's   *)
(* metadata": what a window was told it created stays so, however many     *)
(* windows list, take, create and set targets, unless two were creating    *)
(* the same directory at a time.                                           *)
THEOREM EngagementsKept == EngagementsSpec => []MetadataKept
<1>1. EngagementsInit => CopyInv /\ AgreeInv
  BY DEF EngagementsInit, CopyInv, AgreeInv
<1>2. CopyInv /\ AgreeInv /\ [EngagementsNext]_engagementVars => CopyInv' /\ AgreeInv'
  <2> SUFFICES ASSUME CopyInv, AgreeInv, [EngagementsNext]_engagementVars
               PROVE  CopyInv' /\ AgreeInv'
    OBVIOUS
  <2>1. CASE UNCHANGED engagementVars
    BY <2>1 DEF engagementVars, CopyInv, AgreeInv, Agrees
  <2>2. CASE EngagementsNext
    BY <2>2, DialogAgrees, LookAgrees, WriteAgrees, TargetAgrees DEF EngagementsNext
  <2> QED BY <2>1, <2>2
<1>3. AgreeInv => MetadataKept
  BY DEF AgreeInv, Agrees, MetadataKept
<1> QED BY <1>1, <1>2, <1>3, PTL DEF EngagementsSpec

StampsTyped == stamps \in 0..MaxStamps

\* A step draws one stamp at most.
LEMMA StampsKept ==
    ASSUME StampsTyped, [EngagementsNext]_engagementVars
    PROVE  StampsTyped' /\ (stamps' = stamps \/ (stamps' = stamps + 1 /\ stamps' \in 1..MaxStamps))
<1>0. MaxStamps \in Nat
  BY EngagementsConstants
<1>1. stamps' = stamps \/ (stamps < MaxStamps /\ stamps' = stamps + 1)
  BY DEF EngagementsNext, engagementVars, OpensEngagements, DialogDestroyed, RowActivated, EngagementCleared,
     CreateLooks, CreateWrites, TargetUpdated
<1> QED BY <1>0, <1>1 DEF StampsTyped

\* What is created is dated.
Dated == {c \in Copies : c.made \in 1..MaxStamps}

\* The types of copies, dialogs and creations.
CopiesTyped ==
    /\ record \in [Slugs -> Records] /\ inDialog \subseteq VoidWindows /\ contested \subseteq Slugs
    /\ myEngagement = [v \in VoidWindows |-> myEngagement[v]] /\ creating = [v \in VoidWindows |-> creating[v]]
    /\ dialogRows = [v \in VoidWindows |-> dialogRows[v]]
    /\ \A v \in VoidWindows :
           /\ myEngagement[v] \subseteq Copies /\ OneAtMost(myEngagement[v])
           /\ creating[v] \subseteq Dated /\ OneAtMost(creating[v])
           /\ dialogRows[v] \subseteq Copies
    /\ created \subseteq [slug : Slugs, made : 1..MaxStamps]

\* What a dialog lists are possible copies.
LEMMA ListingIs2 ==
    ASSUME NEW rec \in [Slugs -> Records]
    PROVE  Listing(rec) \subseteq Copies
  BY DEF Listing, Copies, Records

\* Every step keeps the types of copies, dialogs and creations.
LEMMA CopiesKept ==
    ASSUME StampsTyped, CopiesTyped, [EngagementsNext]_engagementVars
    PROVE  CopiesTyped'
<1>0. MaxStamps \in Nat
  BY EngagementsConstants
<1>1. ASSUME NEW v \in VoidWindows, OpensEngagements(v) PROVE CopiesTyped'
  BY <1>1, ListingIs2 DEF OpensEngagements, DialogRefreshes, CopiesTyped
<1>2. ASSUME NEW v \in VoidWindows, DialogDestroyed(v) PROVE CopiesTyped'
  BY <1>2 DEF DialogDestroyed, CopiesTyped
<1>3. ASSUME NEW v \in VoidWindows, NEW entry \in dialogRows[v], RowActivated(v, entry) PROVE CopiesTyped'
  <2>1. entry \in Copies
    BY DEF CopiesTyped
  <2> QED BY <1>3, <2>1, ListingIs2 DEF RowActivated, DialogRefreshes, CopiesTyped, OneAtMost
<1>4. ASSUME NEW v \in VoidWindows, EngagementCleared(v) PROVE CopiesTyped'
  BY <1>4, ListingIs2 DEF EngagementCleared, DialogRefreshes, CopiesTyped, OneAtMost
<1>5. ASSUME NEW v \in VoidWindows, NEW s \in Slugs, CreateLooks(v, s) PROVE CopiesTyped'
  <2>1. stamps' \in 1..MaxStamps /\ stamps' \in 0..MaxStamps
    <3>1. stamps < MaxStamps /\ stamps' = stamps + 1
      BY <1>5 DEF CreateLooks
    <3> QED BY <1>0, <3>1 DEF StampsTyped
  <2> PICK n : n = stamps'
    OBVIOUS
  <2>2. [slug |-> s, made |-> n, target |-> n] \in Dated
    BY <2>1 DEF Dated, Copies
  <2>3. creating' = [creating EXCEPT ![v] = {[slug |-> s, made |-> n, target |-> n]}]
        /\ contested' \subseteq contested \cup {s} /\ UNCHANGED <<record, myEngagement, dialogRows, inDialog, created>>
    BY <1>5 DEF CreateLooks
  <2> QED BY <2>2, <2>3 DEF CopiesTyped, OneAtMost
<1>6. ASSUME NEW v \in VoidWindows, CreateWrites(v) PROVE CopiesTyped'
  <2>1. PICK c \in creating[v] :
        /\ creating' = [creating EXCEPT ![v] = {}]
        /\ \/ /\ record' = [record EXCEPT ![c.slug] = [made |-> c.made, target |-> c.target]]
              /\ myEngagement' = [myEngagement EXCEPT ![v] = {c}] /\ DialogRefreshes(v)
              /\ created' = created \cup {[slug |-> c.slug, made |-> c.made]}
           \/ UNCHANGED <<record, myEngagement, dialogRows, created>>
        /\ UNCHANGED <<inDialog, stamps, contested>>
    BY <1>6 DEF CreateWrites
  <2>2. c \in Dated /\ c \in Copies /\ c.made \in 1..MaxStamps /\ c.slug \in Slugs
    BY DEF CopiesTyped, Dated, Copies
  <2>3. creating' = [w \in VoidWindows |-> creating'[w]]
        /\ \A w \in VoidWindows : creating'[w] \subseteq Dated /\ OneAtMost(creating'[w])
    BY <2>1 DEF CopiesTyped, OneAtMost
  <2>4. CASE UNCHANGED <<record, myEngagement, dialogRows, created>>
    BY <2>1, <2>3, <2>4 DEF CopiesTyped
  <2>5. CASE /\ record' = [record EXCEPT ![c.slug] = [made |-> c.made, target |-> c.target]]
             /\ myEngagement' = [myEngagement EXCEPT ![v] = {c}] /\ DialogRefreshes(v)
             /\ created' = created \cup {[slug |-> c.slug, made |-> c.made]}
    <3>1. [made |-> c.made, target |-> c.target] \in Records
      BY <2>2 DEF Copies, Records
    <3>2. record' \in [Slugs -> Records]
      BY <2>5, <3>1 DEF CopiesTyped
    <3>3. Listing(record') \subseteq Copies
      BY <3>2, ListingIs2
    <3>4. dialogRows' = [w \in VoidWindows |-> dialogRows'[w]] /\ \A w \in VoidWindows : dialogRows'[w] \subseteq Copies
      BY <2>5, <3>3 DEF DialogRefreshes, CopiesTyped
    <3>5. myEngagement' = [w \in VoidWindows |-> myEngagement'[w]]
          /\ \A w \in VoidWindows : myEngagement'[w] \subseteq Copies /\ OneAtMost(myEngagement'[w])
      BY <2>2, <2>5 DEF CopiesTyped, OneAtMost
    <3>6. created' \subseteq [slug : Slugs, made : 1..MaxStamps]
      BY <2>2, <2>5 DEF CopiesTyped
    <3> QED BY <2>1, <2>3, <3>2, <3>4, <3>5, <3>6 DEF CopiesTyped
  <2> QED BY <2>1, <2>4, <2>5
<1>7. ASSUME NEW v \in VoidWindows, TargetUpdated(v) PROVE CopiesTyped'
  <2> PICK n : n = stamps'
    OBVIOUS
  <2>1. PICK c \in myEngagement[v] :
        /\ stamps < MaxStamps /\ stamps' = stamps + 1
        /\ myEngagement' = [myEngagement EXCEPT ![v] = {[c EXCEPT !.target = n]}]
        /\ \/ record' = [record EXCEPT ![c.slug] = [made |-> c.made, target |-> n]]
           \/ UNCHANGED record
        /\ UNCHANGED <<dialogRows, inDialog, creating, created, contested>>
    BY <1>7 DEF TargetUpdated
  <2>2. n \in 0..MaxStamps
    BY <1>0, <2>1 DEF StampsTyped
  <2>3. c \in Copies /\ [c EXCEPT !.target = n] \in Copies /\ [made |-> c.made, target |-> n] \in Records
    BY <2>2 DEF CopiesTyped, Copies, Records
  <2>4. record' \in [Slugs -> Records]
    BY <2>1, <2>3 DEF CopiesTyped
  <2>5. myEngagement' = [w \in VoidWindows |-> myEngagement'[w]]
        /\ \A w \in VoidWindows : myEngagement'[w] \subseteq Copies /\ OneAtMost(myEngagement'[w])
    BY <2>1, <2>3 DEF CopiesTyped, OneAtMost
  <2> QED BY <2>1, <2>4, <2>5 DEF CopiesTyped
<1>8. CASE UNCHANGED engagementVars
  BY <1>8 DEF engagementVars, CopiesTyped
<1> QED BY <1>1, <1>2, <1>3, <1>4, <1>5, <1>6, <1>7, <1>8 DEF EngagementsNext

\* The types hold before any window is opened.
LEMMA CopiesStart == EngagementsInit => StampsTyped /\ CopiesTyped
<1> SUFFICES ASSUME EngagementsInit PROVE StampsTyped /\ CopiesTyped
  OBVIOUS
<1>1. MaxStamps \in Nat /\ stamps = 0
  BY EngagementsConstants DEF EngagementsInit
<1>2. StampsTyped
  BY <1>1 DEF StampsTyped
<1>3. 0 \in 0..MaxStamps
  BY <1>1
<1>4. CopiesTyped
  BY <1>3 DEF EngagementsInit, CopiesTyped, NoRecord, Records, OneAtMost
<1> QED BY <1>2, <1>4

(* The engagements keep their types: a window has a copy of one engagement *)
(* at most, and creates one at a time.                                     *)
THEOREM EngagementTypesKept == EngagementsSpec => []EngagementsTypeOK
<1>1. StampsTyped /\ CopiesTyped /\ [EngagementsNext]_engagementVars => (StampsTyped /\ CopiesTyped)'
  BY StampsKept, CopiesKept
<1>2. StampsTyped /\ CopiesTyped => EngagementsTypeOK
  BY OneIs DEF StampsTyped, CopiesTyped, EngagementsTypeOK, Dated
<1> QED BY <1>1, <1>2, CopiesStart, PTL DEF EngagementsSpec

-----------------------------------------------------------------------------

(* The composition.  A step of the desktop is one of the program that runs *)
(* and leaves the variables of the others alone, so that a behaviour of    *)
(* the desktop is one of each of them and what each keeps, it keeps.       *)

\* The programs begin as they do alone.
LEMMA DeskBegins ==
    DeskInit =>
        /\ VaultInit /\ NotesInit /\ ClipboardInit /\ ClockInit /\ BackupInit /\ SnapshotsInit
        /\ FilesInit /\ NetwatchInit /\ NetworkInit /\ WindowsInit /\ QuickInit /\ SettingsInit
        /\ VoidInit /\ GamingInit /\ ActivityInit /\ AssistantInit /\ ExplainInit /\ CalendarInit
        /\ SecurityTabsInit /\ EngagementsInit /\ EncryptInit /\ IntegrityInit
BY DEF DeskInit

\* A step of the desktop is, for each program, one of its steps or none.
LEMMA DeskStepIsOfPrograms ==
    [DeskNext]_deskVars =>
        /\ [VaultNext]_vaultVars /\ [NotesNext]_notesVars /\ [ClipboardNext]_clipboardVars
        /\ [ClockNext]_clockVars /\ [BackupNext]_backupVars /\ [SnapshotsNext]_snapVars
        /\ [FilesNext]_filesVars /\ [NetwatchNext]_netwatchVars /\ [NetworkNext]_networkVars
        /\ [WindowsNext]_windowsVars /\ [TogglesNext \/ LevelsNext]_quickVars /\ [SettingsNext]_settingsVars
        /\ [VoidNext]_voidVars /\ [GamingNext]_gamingVars /\ [ActivityNext]_activityVars
        /\ [AssistantNext]_assistantVars /\ [ExplainNext]_explainVars /\ [CalendarNext]_calendarVars
        /\ [SecurityTabsNext]_tabsVars /\ [EngagementsNext]_engagementVars /\ [EncryptNext]_encryptVars
        /\ [IntegrityNext]_integrityVars
<1> SUFFICES ASSUME [DeskNext]_deskVars
             PROVE  /\ [VaultNext]_vaultVars /\ [NotesNext]_notesVars /\ [ClipboardNext]_clipboardVars
                    /\ [ClockNext]_clockVars /\ [BackupNext]_backupVars /\ [SnapshotsNext]_snapVars
                    /\ [FilesNext]_filesVars /\ [NetwatchNext]_netwatchVars /\ [NetworkNext]_networkVars
                    /\ [WindowsNext]_windowsVars /\ [TogglesNext \/ LevelsNext]_quickVars /\ [SettingsNext]_settingsVars
                    /\ [VoidNext]_voidVars /\ [GamingNext]_gamingVars /\ [ActivityNext]_activityVars
                    /\ [AssistantNext]_assistantVars /\ [ExplainNext]_explainVars /\ [CalendarNext]_calendarVars
                    /\ [SecurityTabsNext]_tabsVars /\ [EngagementsNext]_engagementVars /\ [EncryptNext]_encryptVars
                    /\ [IntegrityNext]_integrityVars
  OBVIOUS
<1>1. [VaultNext]_vaultVars
  BY Zenon DEF DeskNext, deskVars
<1>2. [NotesNext]_notesVars
  BY Zenon DEF DeskNext, deskVars
<1>3. [ClipboardNext]_clipboardVars
  BY Zenon DEF DeskNext, deskVars
<1>4. [ClockNext]_clockVars
  BY Zenon DEF DeskNext, deskVars
<1>5. [BackupNext]_backupVars
  BY Zenon DEF DeskNext, deskVars
<1>6. [SnapshotsNext]_snapVars
  BY Zenon DEF DeskNext, deskVars
<1>7. [FilesNext]_filesVars
  BY Zenon DEF DeskNext, deskVars
<1>8. [NetwatchNext]_netwatchVars
  BY Zenon DEF DeskNext, deskVars
<1>9. [NetworkNext]_networkVars
  BY Zenon DEF DeskNext, deskVars
<1>10. [WindowsNext]_windowsVars
  BY Zenon DEF DeskNext, deskVars
<1>11. [TogglesNext \/ LevelsNext]_quickVars
  BY Zenon DEF DeskNext, deskVars
<1>12. [SettingsNext]_settingsVars
  BY Zenon DEF DeskNext, deskVars, SettingsNext, settingsVars
<1>13. [VoidNext]_voidVars
  BY Zenon DEF DeskNext, deskVars
<1>14. [GamingNext]_gamingVars
  BY Zenon DEF DeskNext, deskVars
<1>15. [ActivityNext]_activityVars
  BY Zenon DEF DeskNext, deskVars
<1>16. [AssistantNext]_assistantVars
  BY Zenon DEF DeskNext, deskVars, AssistantNext, assistantVars
<1>17. [ExplainNext]_explainVars
  BY Zenon DEF DeskNext, deskVars
<1>18. [CalendarNext]_calendarVars
  BY Zenon DEF DeskNext, deskVars
<1>19. [SecurityTabsNext]_tabsVars
  BY Zenon DEF DeskNext, deskVars
<1>20. [EngagementsNext]_engagementVars
  BY Zenon DEF DeskNext, deskVars
<1>21. [EncryptNext]_encryptVars
  BY Zenon DEF DeskNext, deskVars
<1>22. [IntegrityNext]_integrityVars
  BY Zenon DEF DeskNext, deskVars
<1> QED BY <1>1, <1>2, <1>3, <1>4, <1>5, <1>6, <1>7, <1>8, <1>9, <1>10, <1>11, <1>12, <1>13, <1>14, <1>15, <1>16, <1>17, <1>18, <1>19, <1>20, <1>21, <1>22

(* The composition implements each of its programs: a behaviour of the     *)
(* desktop, in which any one of them runs, is a behaviour of the vault, of *)
(* Notes and so on.                                                        *)
THEOREM DeskIsOfPrograms ==
    DeskSpec =>
        /\ VaultSpec /\ NotesSpec /\ ClipboardSpec /\ ClockSpec /\ BackupSpec /\ SnapshotsSpec
        /\ FilesSpec /\ NetwatchSpec /\ NetworkSpec /\ WindowsSpec /\ QuickSpec /\ SettingsSpec
        /\ VoidSpec /\ GamingSpec /\ ActivitySpec /\ AssistantSpec /\ ExplainSpec /\ CalendarSpec
        /\ SecurityTabsSpec /\ EngagementsSpec /\ EncryptSpec /\ IntegritySpec
<1>1. DeskSpec => VaultSpec
  BY DeskBegins, DeskStepIsOfPrograms, PTL DEF DeskSpec, VaultSpec
<1>2. DeskSpec => NotesSpec
  BY DeskBegins, DeskStepIsOfPrograms, PTL DEF DeskSpec, NotesSpec
<1>3. DeskSpec => ClipboardSpec
  BY DeskBegins, DeskStepIsOfPrograms, PTL DEF DeskSpec, ClipboardSpec
<1>4. DeskSpec => ClockSpec
  BY DeskBegins, DeskStepIsOfPrograms, PTL DEF DeskSpec, ClockSpec
<1>5. DeskSpec => BackupSpec
  BY DeskBegins, DeskStepIsOfPrograms, PTL DEF DeskSpec, BackupSpec
<1>6. DeskSpec => SnapshotsSpec
  BY DeskBegins, DeskStepIsOfPrograms, PTL DEF DeskSpec, SnapshotsSpec
<1>7. DeskSpec => FilesSpec
  BY DeskBegins, DeskStepIsOfPrograms, PTL DEF DeskSpec, FilesSpec
<1>8. DeskSpec => NetwatchSpec
  BY DeskBegins, DeskStepIsOfPrograms, PTL DEF DeskSpec, NetwatchSpec
<1>9. DeskSpec => NetworkSpec
  BY DeskBegins, DeskStepIsOfPrograms, PTL DEF DeskSpec, NetworkSpec
<1>10. DeskSpec => WindowsSpec
  BY DeskBegins, DeskStepIsOfPrograms, PTL DEF DeskSpec, WindowsSpec
<1>11. DeskSpec => QuickSpec
  BY DeskBegins, DeskStepIsOfPrograms, PTL DEF DeskSpec, QuickSpec
<1>12. DeskSpec => SettingsSpec
  BY DeskBegins, DeskStepIsOfPrograms, PTL DEF DeskSpec, SettingsSpec
<1>13. DeskSpec => VoidSpec
  BY DeskBegins, DeskStepIsOfPrograms, PTL DEF DeskSpec, VoidSpec
<1>14. DeskSpec => GamingSpec
  BY DeskBegins, DeskStepIsOfPrograms, PTL DEF DeskSpec, GamingSpec
<1>15. DeskSpec => ActivitySpec
  BY DeskBegins, DeskStepIsOfPrograms, PTL DEF DeskSpec, ActivitySpec
<1>16. DeskSpec => AssistantSpec
  BY DeskBegins, DeskStepIsOfPrograms, PTL DEF DeskSpec, AssistantSpec
<1>17. DeskSpec => ExplainSpec
  BY DeskBegins, DeskStepIsOfPrograms, PTL DEF DeskSpec, ExplainSpec
<1>18. DeskSpec => CalendarSpec
  BY DeskBegins, DeskStepIsOfPrograms, PTL DEF DeskSpec, CalendarSpec
<1>19. DeskSpec => SecurityTabsSpec
  BY DeskBegins, DeskStepIsOfPrograms, PTL DEF DeskSpec, SecurityTabsSpec
<1>20. DeskSpec => EngagementsSpec
  BY DeskBegins, DeskStepIsOfPrograms, PTL DEF DeskSpec, EngagementsSpec
<1>21. DeskSpec => EncryptSpec
  BY DeskBegins, DeskStepIsOfPrograms, PTL DEF DeskSpec, EncryptSpec
<1>22. DeskSpec => IntegritySpec
  BY DeskBegins, DeskStepIsOfPrograms, PTL DEF DeskSpec, IntegritySpec
<1> QED BY <1>1, <1>2, <1>3, <1>4, <1>5, <1>6, <1>7, <1>8, <1>9, <1>10, <1>11, <1>12, <1>13, <1>14, <1>15, <1>16, <1>17, <1>18, <1>19, <1>20, <1>21, <1>22

(* Clock: whatever is set, paused or late, every minute that an alarm is   *)
(* set for rings once, and the timer and the stopwatch count what ran.     *)
THEOREM DeskClockIsRight == DeskSpec => []ClockIsRight
<1>1. AlarmsRingOnce /\ TimeIsKept => ClockIsRight
  BY DEF ClockIsRight
<1> QED BY <1>1, DeskIsOfPrograms, ClockKeepsTime, PTL

(* Backup, Snapshots, Files, Calendar, The Void, Encrypt tab: no archive,  *)
(* snapshot, document, event, engagement or other file is lost that the    *)
(* user was told is kept, for any number of them and of failures.          *)
THEOREM DeskDataIsKept == DeskSpec => []DataIsKept
<1>1. PromisedIsKept /\ LastByNameKept /\ NothingLost /\ EventsAreKept /\ MetadataKept /\ NothingIsReplaced => DataIsKept
  BY DEF DataIsKept
<1> QED BY <1>1, DeskIsOfPrograms, BackupsAreKept, SnapshotsAreKept, FilesLoseNothing,
           CalendarKeepsEvents, EngagementsKept, EncryptReplacesNothing, PTL

(* Network Center, Gaming Hub, Settings, Shield tab: what is switched off  *)
(* while something is under way is switched on again by its end, but for a *)
(* thread of the updates that dies of an exception.                        *)
THEOREM DeskControlsComeBack == DeskSpec => []ControlsComeBack
<1>1. PagesComeBack /\ ButtonsComeBack /\ SettingsWork /\ ScanButtonsWork => ControlsComeBack
  BY DEF ControlsComeBack
<1> QED BY <1>1, DeskIsOfPrograms, NetworkPagesComeBack, GamingButtonsComeBack,
           SettingsAreFollowed, SecurityTabsKeepTrue, PTL

(* Quick toggles, dock, layout modes, Quarantine tab, Clipboard: once      *)
(* everything under way has arrived, what is shown is what is so, with the *)
(* exceptions that each part names: commands that fail or are overtaken    *)
(* where nobody waits for them, and a text that is copied again after its  *)
(* removal.                                                                *)
THEOREM DeskShellShowsTruth == DeskSpec => []ShellShowsTruth
<1>1. ControlsAreTrue /\ DockFollowsFile /\ LayoutFits /\ QuarantineTabTells /\ NewestOnTop => ShellShowsTruth
  BY DEF ShellShowsTruth
<1> QED BY <1>1, DeskIsOfPrograms, QuickSettingsAreTrue, SettingsAreFollowed,
           ActivityLayoutFits, SecurityTabsKeepTrue, ClipboardShowsNewest, PTL

(* Assistant and explain(): threads that ask at a time get what is theirs, *)
(* and nothing is done or read that was not asked for.                     *)
THEOREM DeskAssistantObeys == DeskSpec => []AssistantObeys
<1>1. RepliesAreTheirs /\ ActsAreAskedFor /\ TextIsOfActive /\ RecordersAreStopped => AssistantObeys
  BY DEF AssistantObeys
<1> QED BY <1>1, DeskIsOfPrograms, AssistantKeepsToIt, ExplainIsOfActive, PTL

(* Every program of the desktop keeps its types.                           *)
THEOREM DeskTypesKept == DeskSpec => []DeskTypesOK
<1>1. NotesSpec => [](NotesTypeOK /\ TextInItsNote)
  BY NotesKeepText
<1>2. /\ VaultTypeOK /\ NotesTypeOK /\ ClipboardTypeOK /\ ClockTypeOK /\ BackupTypeOK
      /\ SnapshotsTypeOK /\ FilesTypeOK /\ NetwatchTypeOK /\ NetworkTypeOK /\ WindowsTypeOK
      /\ QuickTypeOK /\ SettingsTypeOK /\ VoidTypeOK /\ GamingTypeOK /\ ActivityTypeOK
      /\ AssistantTypeOK /\ ExplainTypeOK /\ CalendarTypeOK /\ SecurityTabsTypeOK /\ EngagementsTypeOK
      /\ EncryptTypeOK /\ IntegrityTypeOK
      => DeskTypesOK
  BY DEF DeskTypesOK
<1> QED BY <1>1, <1>2, DeskIsOfPrograms, VaultTypeCorrect, ClipboardShowsNewest,
           ClockKeepsTime, BackupsAreKept, SnapshotsAreKept, FilesLoseNothing,
           NetwatchTypesKept, NetworkPagesComeBack, SwitchesReturn, QuickSettingsAreTrue,
           SettingsAreFollowed, PanesAreReached, GamingButtonsComeBack, ActivityLayoutFits,
           AssistantKeepsToIt, ExplainIsOfActive, CalendarKeepsEvents, SecurityTabsKeepTrue,
           EngagementTypesKept, EncryptTypesKept, IntegrityTypesKept, PTL
=============================================================================
