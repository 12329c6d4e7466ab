--------------------------------- MODULE Files ---------------------------------
(***************************************************************************)
(* The file explorer (darkos-files.py), of which every window is a program *)
(* of its own, and the Downloads window (darkos-downloads.py): copying,    *)
(* cutting and pasting, renaming, compressing, extracting and moving to    *)
(* the trash, while other windows do the same in the same folders.         *)
(*                                                                         *)
(* Every entry is a document; an archive is a document, and what comes out *)
(* of it or is packed is a document too.  A path is <<folder, number>>, and *)
(* "name (2)" is the next number.  A window picks a free name and uses it  *)
(* in two steps; only compressing is one step here.                        *)
(***************************************************************************)
EXTENDS Naturals, FiniteSets

CONSTANTS
    Explorers,    \* windows of the explorer
    Lister,       \* the Downloads window
    Folders, Download,   \* and the folder it shows
    FileNames,    \* an initial segment of the numbers
    Documents,    \* that are saved or downloaded
    MaxMade       \* bound: copies, folders and archives

ASSUME FilesConstants ==
    /\ Download \in Folders /\ Lister \notin Explorers
    /\ FileNames \subseteq Nat /\ MaxMade \in Nat
    /\ Documents \cap {"new", "nothing"} = {}

VARIABLES
    disk,         \* what is at each path
    cwd,          \* current_path
    clipPaths, clipMode, \* clipboard_paths and clipboard_mode
    task,         \* what each window is about to do
    trash,        \* what is in the trash
    elsewhere,    \* documents that have yet to be saved here by another program
    made

filesVars == <<disk, cwd, clipPaths, clipMode, task, trash, elsewhere, made>>

Places == Folders \X FileNames
Nothing == "nothing"
New == "new"            \* made by a window, or half of it
Contents == Documents \cup {New, Nothing}
FilesWindows == Explorers \cup {Lister}
NoTask == [kind |-> "none", left |-> {}, failed |-> {}, dest |-> <<>>]
Kinds == {"none", "paste", "rename", "mkdir", "extract", "trash"}

FilesTypeOK ==
    /\ disk \in [Places -> Contents] /\ cwd \in [FilesWindows -> Folders]
    /\ clipPaths \in [Explorers -> SUBSET Places] /\ clipMode \in [Explorers -> {"copy", "cut"}]
    /\ task \in [FilesWindows -> [kind : Kinds, left : SUBSET Places, failed : SUBSET Places,
                                  dest : {<<>>} \cup Places \cup (Places \X Places)]]
    /\ trash \subseteq Documents \cup {New} /\ elsewhere \subseteq Documents /\ made \in 0..MaxMade

FilesInit ==
    /\ disk = [p \in Places |-> Nothing] /\ elsewhere = Documents
    /\ cwd = [w \in FilesWindows |-> Download]
    /\ clipPaths = [w \in Explorers |-> {}] /\ clipMode = [w \in Explorers |-> "copy"]
    /\ task = [w \in FilesWindows |-> NoTask] /\ trash = {} /\ made = 0

Free(p) == disk[p] = Nothing

\* unique_path: the first name that is free when it looks.
UniquePath(f, p) ==
    {<<f, n>> : n \in {m \in FileNames : m >= p[2] /\ Free(<<f, m>>)
                                         /\ \A k \in FileNames : p[2] <= k /\ k < m => ~Free(<<f, k>>)}}

Ready(w) == task[w] = NoTask

\* The rows may be older than the folder: a path is all a row is.
Selected(w) == {p \in Places : p[1] = cwd[w]}

\* Any of the ways to another folder: the history, the crumbs, the sidebar.
GoTo(w, f) ==
    /\ Ready(w) /\ f # cwd[w] /\ cwd' = [cwd EXCEPT ![w] = f]
    /\ UNCHANGED <<disk, clipPaths, clipMode, task, trash, elsewhere, made>>

\* _copy_selected and _cut_selected.
Clip(w, S, how) ==
    /\ Ready(w) /\ S # {}
    /\ clipPaths' = [clipPaths EXCEPT ![w] = S] /\ clipMode' = [clipMode EXCEPT ![w] = how]
    /\ UNCHANGED <<disk, cwd, task, trash, elsewhere, made>>

\* _rename_selected, _new_folder and _extract_here: the name is typed in a
\* dialog, or is one that is free now.
Intends(w, kind, p, dest) ==
    /\ Ready(w)
    /\ kind # "mkdir" => ~Free(p)
    /\ kind = "extract" => dest \in UniquePath(cwd[w], p)
    /\ dest[1] = cwd[w] /\ dest # p
    /\ task' = [task EXCEPT ![w] = [kind |-> kind, left |-> {p}, failed |-> {}, dest |-> dest]]
    /\ UNCHANGED <<disk, cwd, clipPaths, clipMode, trash, elsewhere, made>>

-----------------------------------------------------------------------------
(* Paste.                                                                  *)

PasteStarts(w) ==
    /\ Ready(w) /\ clipPaths[w] # {}
    /\ task' = [task EXCEPT ![w] = [kind |-> "paste", left |-> clipPaths[w], failed |-> {},
                                    dest |-> <<>>]]
    /\ UNCHANGED <<disk, cwd, clipPaths, clipMode, trash, elsewhere, made>>

Pasting(w) == task[w].kind = "paste"

\* The source still exists, and a name is picked for it; or it is passed over.
PicksName(w, src) ==
    /\ Pasting(w) /\ src \in task[w].left /\ task[w].dest = <<>>
    /\ IF Free(src)
       THEN task' = [task EXCEPT ![w].left = @ \ {src}]
       ELSE \E dest \in UniquePath(cwd[w], src) : task' = [task EXCEPT ![w].dest = <<src, dest>>]
    /\ UNCHANGED <<disk, cwd, clipPaths, clipMode, trash, elsewhere, made>>

\* Seeded bug: os.rename and open, which replace what is there.
Replaces(dest) == TRUE

\* The calls of Gio and copytree refuse a name that is taken.
Accepts(dest) == Free(dest)

\* paste_entry: it is refused, or fails and may leave part of a copy.
Pastes(w) ==
    /\ Pasting(w) /\ task[w].dest # <<>>
    /\ LET src == task[w].dest[1]
           dest == task[w].dest[2]
           done == [task[w] EXCEPT !.left = @ \ {src}, !.dest = <<>>]
           fine == Accepts(dest) /\ ~Free(src)
       IN \/ /\ fine /\ task' = [task EXCEPT ![w] = done]
             /\ IF clipMode[w] = "cut"
                THEN disk' = [disk EXCEPT ![dest] = disk[src], ![src] = Nothing] /\ UNCHANGED made
                ELSE /\ made < MaxMade /\ made' = made + 1
                     /\ disk' = [disk EXCEPT ![dest] = disk[src]]
          \/ /\ task' = [task EXCEPT ![w] = [done EXCEPT !.failed = @ \cup {src}]]
             /\ \/ UNCHANGED <<disk, made>>
                \/ /\ fine /\ clipMode[w] = "copy" /\ made < MaxMade /\ made' = made + 1
                   /\ disk' = [disk EXCEPT ![dest] = New]
    /\ UNCHANGED <<cwd, clipPaths, clipMode, trash, elsewhere>>

PasteEnds(w) ==
    /\ Pasting(w) /\ task[w].left = {} /\ task' = [task EXCEPT ![w] = NoTask]
    /\ clipPaths' = IF clipMode[w] = "cut" THEN [clipPaths EXCEPT ![w] = task[w].failed] ELSE clipPaths
    /\ UNCHANGED <<disk, cwd, clipMode, trash, elsewhere, made>>

-----------------------------------------------------------------------------
(* The others.                                                             *)

\* A move without overwriting, mkdir, or the rename of a staged folder.
Does(w) ==
    /\ task[w].kind \in {"rename", "mkdir", "extract"} /\ task' = [task EXCEPT ![w] = NoTask]
    /\ \/ UNCHANGED <<disk, made>>
       \/ LET dest == task[w].dest
              src == CHOOSE p \in task[w].left : TRUE
          IN /\ Accepts(dest)
             /\ IF task[w].kind = "rename"
                THEN /\ ~Free(src) /\ UNCHANGED made
                     /\ disk' = [disk EXCEPT ![dest] = disk[src], ![src] = Nothing]
                ELSE made < MaxMade /\ made' = made + 1 /\ disk' = [disk EXCEPT ![dest] = New]
    /\ UNCHANGED <<cwd, clipPaths, clipMode, trash, elsewhere>>

\* _compress_selected; an error leaves what has been written.
Compresses(w, p) ==
    /\ Ready(w) /\ made < MaxMade /\ made' = made + 1
    /\ \E dest \in UniquePath(cwd[w], p) : disk' = [disk EXCEPT ![dest] = New]
    /\ UNCHANGED <<cwd, clipPaths, clipMode, task, trash, elsewhere>>

\* _delete_selected and the row's button of Downloads ask first ...
AsksToTrash(w, S) ==
    /\ Ready(w) /\ S # {}
    /\ task' = [task EXCEPT ![w] = [kind |-> "trash", left |-> S, failed |-> {}, dest |-> <<>>]]
    /\ UNCHANGED <<disk, cwd, clipPaths, clipMode, trash, elsewhere, made>>

Declines(w) ==
    /\ task[w].kind = "trash" /\ task' = [task EXCEPT ![w] = NoTask]
    /\ UNCHANGED <<disk, cwd, clipPaths, clipMode, trash, elsewhere, made>>

\* ... and take what is at the paths by then; one that fails stays.
Trashes(w) ==
    /\ task[w].kind = "trash" /\ task' = [task EXCEPT ![w] = NoTask]
    /\ \E S \in SUBSET {p \in task[w].left : ~Free(p)} :
           /\ disk' = [p \in Places |-> IF p \in S THEN Nothing ELSE disk[p]]
           /\ trash' = trash \cup {disk[p] : p \in S}
    /\ UNCHANGED <<cwd, clipPaths, clipMode, elsewhere, made>>

\* A download ends, or another program saves a document under a new name.
Arrives(d, p) ==
    /\ d \in elsewhere /\ elsewhere' = elsewhere \ {d}
    /\ Free(p) /\ disk' = [disk EXCEPT ![p] = d]
    /\ UNCHANGED <<cwd, clipPaths, clipMode, task, trash, made>>

FilesNext ==
    \/ \E d \in Documents, p \in Places : Arrives(d, p)
    \/ \E w \in Explorers :
           \/ \E f \in Folders : GoTo(w, f)
           \/ \E S \in SUBSET Selected(w), how \in {"copy", "cut"} : Clip(w, S, how)
           \/ \E kind \in {"rename", "mkdir", "extract"} : \E p, dest \in Selected(w) :
                  Intends(w, kind, p, dest)
           \/ PasteStarts(w) \/ Pastes(w) \/ PasteEnds(w) \/ Does(w)
           \/ \E p \in Places : PicksName(w, p)
           \/ \E p \in Selected(w) : Compresses(w, p)
    \/ \E w \in FilesWindows :
           \/ \E S \in SUBSET Selected(w) : AsksToTrash(w, S)
           \/ Declines(w) \/ Trashes(w)

FilesSpec == FilesInit /\ [][FilesNext]_filesVars

-----------------------------------------------------------------------------
\* Whatever windows do at the same time in the same folders, and whichever of
\* their calls fail, every document is still somewhere on the disk or in the
\* trash.
NothingLost ==
    \A d \in Documents : d \in trash \cup elsewhere \/ \E p \in Places : disk[p] = d
=============================================================================
