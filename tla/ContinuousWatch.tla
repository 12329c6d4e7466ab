--------------------------- MODULE ContinuousWatch ---------------------------
(***************************************************************************)
(* The continuous-protection daemon: ContinuousWatcher                     *)
(* (darkos_shell/continuous_watch.py) driven by the 30-second settings     *)
(* loop of darkos-protect.py, over a model of the kernel's inotify         *)
(* instance.  The daemon thread marks directories and opens and closes the *)
(* instance; reader threads take events from it and hand files to a scan   *)
(* callback that may run for up to ten minutes.                            *)
(*                                                                         *)
(* External parts: the directories come and go (users, udisks2), files are *)
(* written, the setting is flipped by the Settings window, and the kernel  *)
(* numbers watches 1, 2, ... within one instance, drops a watch when its   *)
(* directory goes away, and numbers from 1 again in a new instance.        *)
(***************************************************************************)
EXTENDS Naturals, Sequences, FiniteSets

CONSTANTS
    Fixed,        \* WATCH_PATHS: ~/Downloads and ~/Desktop
    Mounts,       \* directories udisks2 may create for removable media
    Files,        \* files dropped by the user, each written once
    Undecodable,  \* the files whose names are not UTF-8
    MaxStarts,    \* bound: reader threads ever started
    MaxToggles,   \* bound: changes of shield_protection_enabled
    MaxVanish,    \* bound: directories deleted or unmounted
    MaxQueued,    \* max_queued_events: further events are dropped
    Batch         \* events that fit in one 4096-byte read

Image(f) == {f[x] : x \in DOMAIN f}
\* The lists that name every member of a set once.
Listings(S) == {s \in [1..Cardinality(S) -> S] : Image(s) = S}
Override(f, x, y) == [z \in DOMAIN f \cup {x} |-> IF z = x THEN y ELSE f[z]]

Dirs == Fixed \cup Mounts
Readers == 1..MaxStarts
Event == Nat \X Files
Nowhere == "nowhere"

ASSUME WatchConstants ==
    /\ IsFiniteSet(Fixed) /\ Fixed \cap Mounts = {}
    /\ Nowhere \notin Dirs
    /\ Undecodable \subseteq Files
    /\ MaxStarts \in Nat /\ MaxToggles \in Nat /\ MaxVanish \in Nat
    /\ MaxQueued \in Nat /\ Batch \in Nat \ {0}

VARIABLES
    present,     \* the directories that exist now
    home,        \* where each file was written, Nowhere before
    enabled,     \* settings.json: shield_protection_enabled
    toggles, vanished,
    isOpen,      \* self._fd is not None
    kernel,      \* the instance's watches: wd -> directory
    nextWd,      \* the next watch number of the instance
    queue,       \* the instance's unread events, <<wd, file>>
    wdToDir,     \* self._wd_to_dir
    watchPaths,  \* self._watch_paths
    stopEvent,   \* self._stop_event
    thread,      \* self._thread: the newest reader, 0 for none
    reader,      \* what each reader thread is doing
    buffer,      \* what each reader has read and not yet handed on
    scans,       \* the callbacks made for each file, as a sequence of directories
    running,     \* main()'s local `running`
    pc,          \* where the daemon thread is
    todo,        \* rescan(): paths the loop has still to visit
    marked,      \* rescan(): marked_dirs, read once before the loop
    unrecorded,  \* rescan(): the wd just marked and not in the table yet, or 0
    mounted      \* _reconcile: what is left of discover_mount_dirs()

envVars == <<present, home, enabled, toggles, vanished>>
kernelVars == <<isOpen, kernel, nextWd, queue>>
readerVars == <<reader, buffer, scans>>
daemonVars == <<watchPaths, thread, running, pc, todo, marked, unrecorded,
                mounted>>
watchVars == <<envVars, kernelVars, readerVars, daemonVars, wdToDir, stopEvent>>

EnvType ==
    /\ present \subseteq Dirs
    /\ home \in [Files -> Dirs \cup {Nowhere}]
    /\ enabled \in BOOLEAN
    /\ toggles \in Nat /\ vanished \in Nat

KernelType ==
    /\ isOpen \in BOOLEAN
    /\ nextWd \in Nat \ {0}
    /\ DOMAIN kernel \subseteq 1..(nextWd - 1) /\ Image(kernel) \subseteq Dirs
    /\ queue \in Seq(Event)

ReaderType ==
    /\ reader \in [Readers -> {"unborn", "poll", "deliver", "scan", "done"}]
    /\ buffer \in [Readers -> Seq(Event)]
    /\ scans \in [Files -> Seq(Dirs)]

DaemonType ==
    /\ DOMAIN wdToDir \subseteq Nat /\ Image(wdToDir) \subseteq Dirs
    /\ stopEvent \in BOOLEAN /\ running \in BOOLEAN
    /\ watchPaths \in Seq(Dirs) /\ todo \in Seq(Dirs)
    /\ thread \in 0..MaxStarts
    /\ pc \in {"idle", "start", "rescan", "mounts", "join"}
    /\ marked \subseteq Dirs
    /\ unrecorded \in Nat
    /\ unrecorded # 0 => todo # <<>> /\ pc \in {"start", "rescan", "mounts"}
    /\ mounted \subseteq Mounts

\* Type correctness of the daemon, its readers and the inotify instance.
WatchTypeOK == EnvType /\ KernelType /\ ReaderType /\ DaemonType

\* __init__ and the state main() starts from.
WatchInit ==
    /\ present \in SUBSET Dirs
    /\ home = [f \in Files |-> Nowhere]
    /\ enabled \in BOOLEAN
    /\ toggles = 0 /\ vanished = 0
    /\ isOpen = FALSE /\ kernel = <<>> /\ nextWd = 1 /\ queue = <<>>
    /\ wdToDir = <<>>
    /\ watchPaths \in Listings(Fixed)
    /\ stopEvent = FALSE
    /\ thread = 0
    /\ reader = [r \in Readers |-> "unborn"]
    /\ buffer = [r \in Readers |-> <<>>]
    /\ scans = [f \in Files |-> <<>>]
    /\ running = FALSE
    /\ pc = "idle" /\ todo = <<>> /\ marked = {} /\ unrecorded = 0
    /\ mounted = {}

-----------------------------------------------------------------------------
(* The daemon thread: main()'s loop over _reconcile, which calls start(),  *)
(* stop(), rescan() and add_watch_path() of the watcher.                   *)

\* Seeded bug: iterating over the dict instead of its values.
BeginRescanOverKeys(paths) ==
    /\ todo' = paths
    /\ marked' = DOMAIN wdToDir

\* rescan(): reads marked_dirs and enters its loop over watch_paths.
BeginRescan(paths) ==
    /\ todo' = paths
    /\ marked' = Image(wdToDir)

\* inotify_add_watch(): the number the directory has in this instance, or the
\* next one.
AddWatchNumber(d) ==
    IF d \in Image(kernel) THEN CHOOSE w \in DOMAIN kernel : kernel[w] = d
                           ELSE nextWd

\* Seeded bug: keeping the entry an earlier instance left under this number.
RecordMarkOnce(wd, d) ==
    wdToDir' = IF wd \in DOMAIN wdToDir THEN wdToDir ELSE Override(wdToDir, wd, d)

RecordMark(wd, d) == wdToDir' = Override(wdToDir, wd, d)

\* One turn of rescan()'s loop: a path that is marked or does not exist is
\* skipped, any other is marked in the kernel ...
MarkNext ==
    /\ pc \in {"start", "rescan", "mounts"} /\ todo # <<>> /\ unrecorded = 0
    /\ LET d == Head(todo)
           wd == AddWatchNumber(d)
       IN IF d \in marked \/ d \notin present
          THEN todo' = Tail(todo) /\ UNCHANGED <<kernel, nextWd, unrecorded>>
          ELSE /\ kernel' = Override(kernel, wd, d)
               /\ nextWd' = IF wd = nextWd THEN nextWd + 1 ELSE nextWd
               /\ unrecorded' = wd
               /\ UNCHANGED todo
    /\ UNCHANGED <<envVars, isOpen, queue, readerVars, watchPaths, thread,
                   running, pc, marked, mounted, wdToDir, stopEvent>>

\* ... and then entered in the table.  A reader of this instance, or one that
\* stop() did not wait for, may take events of the new watch in between.
RecordNext ==
    /\ unrecorded # 0
    /\ RecordMark(unrecorded, Head(todo))
    /\ todo' = Tail(todo)
    /\ unrecorded' = 0
    /\ UNCHANGED <<envVars, kernelVars, readerVars, watchPaths, thread,
                   running, pc, marked, mounted, stopEvent>>

\* _reconcile with protection enabled and not running: start() opens a new
\* instance and rescans.  (inotify_init1 failing leaves everything as it was.)
StartOpens ==
    /\ pc = "idle" /\ enabled /\ ~running /\ thread < MaxStarts
    /\ isOpen' = TRUE /\ kernel' = <<>> /\ nextWd' = 1 /\ queue' = <<>>
    /\ BeginRescan(watchPaths)
    /\ pc' = "start"
    /\ UNCHANGED <<envVars, readerVars, watchPaths, thread, running, mounted,
                   unrecorded, wdToDir, stopEvent>>

\* The rest of start(): clear the stop event and start a reader thread.
StartReader ==
    /\ pc = "start" /\ todo = <<>> /\ thread < MaxStarts
    /\ stopEvent' = FALSE
    /\ thread' = thread + 1
    /\ reader' = [reader EXCEPT ![thread + 1] = "poll"]
    /\ running' = TRUE
    /\ pc' = "idle"
    /\ UNCHANGED <<envVars, kernelVars, buffer, scans, watchPaths,
                   todo, marked, unrecorded, mounted, wdToDir>>

\* Seeded bug: stop() only closes the descriptor.
SetNoEvent == stopEvent' = stopEvent

SetStopEvent == stopEvent' = TRUE

\* _reconcile with protection disabled and running: stop() sets the event ...
StopSignals ==
    /\ pc = "idle" /\ ~enabled /\ running
    /\ SetStopEvent
    /\ pc' = "join"
    /\ UNCHANGED <<envVars, kernelVars, readerVars, watchPaths, thread, running,
                   todo, marked, unrecorded, mounted, wdToDir>>

\* ... joins the newest reader for at most two seconds, which is long enough
\* unless the reader is inside a scan, and closes the instance.
StopCloses ==
    /\ pc = "join" /\ reader[thread] \in {"done", "scan"}
    /\ isOpen' = FALSE /\ kernel' = <<>> /\ nextWd' = 1 /\ queue' = <<>>
    /\ running' = FALSE
    /\ pc' = "idle"
    /\ UNCHANGED <<envVars, readerVars, watchPaths, thread, todo,
                   marked, unrecorded, mounted, wdToDir, stopEvent>>

\* _reconcile with protection enabled and running: rescan ...
Rescan ==
    /\ pc = "idle" /\ enabled /\ running
    /\ BeginRescan(watchPaths)
    /\ pc' = "rescan"
    /\ UNCHANGED <<envVars, kernelVars, readerVars, watchPaths, thread, running,
                   unrecorded, mounted, wdToDir, stopEvent>>

\* ... then discover_mount_dirs() ...
DiscoverMounts ==
    /\ pc = "rescan" /\ todo = <<>>
    /\ mounted' = present \cap Mounts
    /\ pc' = "mounts"
    /\ UNCHANGED <<envVars, kernelVars, readerVars, watchPaths, thread, running,
                   todo, marked, unrecorded, wdToDir, stopEvent>>

\* Seeded bug: the path is not added to _watch_paths.
TrackNothing(m) == watchPaths

Track(m) ==
    IF m \in Image(watchPaths) THEN watchPaths ELSE Append(watchPaths, m)

\* ... and add_watch_path() for each of them, in iterdir()'s order.
AddWatchPath(m) ==
    /\ pc = "mounts" /\ todo = <<>> /\ m \in mounted
    /\ mounted' = mounted \ {m}
    /\ watchPaths' = Track(m)
    /\ BeginRescan(watchPaths')
    /\ UNCHANGED <<envVars, kernelVars, readerVars, thread, running, pc,
                   unrecorded, wdToDir, stopEvent>>

\* _reconcile returns; main() sleeps for 30 seconds.
ReconcileReturns ==
    /\ pc = "mounts" /\ todo = <<>> /\ mounted = {}
    /\ pc' = "idle"
    /\ UNCHANGED <<envVars, kernelVars, readerVars, watchPaths, thread, running,
                   todo, marked, unrecorded, mounted, wdToDir, stopEvent>>

Daemon ==
    \/ MarkNext \/ RecordNext
    \/ StartOpens \/ StartReader
    \/ StopSignals \/ StopCloses
    \/ Rescan \/ DiscoverMounts \/ (\E m \in Mounts : AddWatchPath(m))
    \/ ReconcileReturns

-----------------------------------------------------------------------------
(* Reader threads: _run(), each thread using the watcher's current fields. *)

\* The loop ends on the stop event; select() on a closed or missing
\* descriptor raises and ends the thread as well.
ReaderEnds(r) ==
    /\ reader[r] = "poll" /\ (stopEvent \/ ~isOpen)
    /\ reader' = [reader EXCEPT ![r] = "done"]
    /\ UNCHANGED <<envVars, kernelVars, buffer, scans, daemonVars,
                   wdToDir, stopEvent>>

\* select() and os.read(): as many whole events as fit in the buffer.
ReadEvents(r) ==
    LET n == IF Len(queue) < Batch THEN Len(queue) ELSE Batch IN
    /\ reader[r] = "poll" /\ ~stopEvent /\ isOpen /\ queue # <<>>
    /\ buffer' = [buffer EXCEPT ![r] = SubSeq(queue, 1, n)]
    /\ queue' = SubSeq(queue, n + 1, Len(queue))
    /\ reader' = [reader EXCEPT ![r] = "deliver"]
    /\ UNCHANGED <<envVars, isOpen, kernel, nextWd, scans, daemonVars,
                   wdToDir, stopEvent>>

\* Seeded bugs: not advancing past the event; only the first event of a read.
StayAtEvent(r) == buffer' = buffer
DropRest(r) == buffer' = [buffer EXCEPT ![r] = <<>>]

PastEvent(r) == buffer' = [buffer EXCEPT ![r] = Tail(@)]

\* The inner loop takes the next event.  decode() raises on a name that is not
\* UTF-8, which ends the thread with the rest of its buffer.
DeliverEvent(r) ==
    /\ reader[r] = "deliver" /\ buffer[r] # <<>>
    /\ LET wd == Head(buffer[r])[1]
           file == Head(buffer[r])[2]
           known == wd \in DOMAIN wdToDir
       IN \/ /\ file \in Undecodable
             /\ reader' = [reader EXCEPT ![r] = "done"]
             /\ UNCHANGED <<buffer, scans>>
          \/ /\ file \notin Undecodable
             /\ PastEvent(r)
             /\ reader' = [reader EXCEPT ![r] = IF known THEN "scan" ELSE @]
             /\ scans' = [scans EXCEPT ![file] =
                             IF known THEN Append(@, wdToDir[wd]) ELSE @]
    /\ UNCHANGED <<envVars, kernelVars, daemonVars, wdToDir, stopEvent>>

\* The callback returns: clamscan has a ten-minute limit of its own.
ScanReturns(r) ==
    /\ reader[r] = "scan"
    /\ reader' = [reader EXCEPT ![r] = "deliver"]
    /\ UNCHANGED <<envVars, kernelVars, buffer, scans, daemonVars, wdToDir,
                   stopEvent>>

BufferDone(r) ==
    /\ reader[r] = "deliver" /\ buffer[r] = <<>>
    /\ reader' = [reader EXCEPT ![r] = "poll"]
    /\ UNCHANGED <<envVars, kernelVars, buffer, scans, daemonVars,
                   wdToDir, stopEvent>>

Reader(r) ==
    \/ ReaderEnds(r) \/ ReadEvents(r) \/ DeliverEvent(r)
    \/ ScanReturns(r) \/ BufferDone(r)

-----------------------------------------------------------------------------
(* The environment.                                                        *)

\* A program finishes writing a file: the kernel queues IN_CLOSE_WRITE for the
\* watch on that directory, if there is one and the queue is not full.
FileWritten(f, d) ==
    /\ home[f] = Nowhere /\ d \in present
    /\ home' = [home EXCEPT ![f] = d]
    /\ LET wds == {w \in DOMAIN kernel : kernel[w] = d} IN
         IF isOpen /\ wds # {} /\ Len(queue) < MaxQueued
         THEN \E w \in wds : queue' = Append(queue, <<w, f>>)
         ELSE UNCHANGED queue
    /\ UNCHANGED <<present, enabled, toggles, vanished, isOpen, kernel, nextWd,
                   readerVars, daemonVars, wdToDir, stopEvent>>

\* A directory is created, or a medium mounted, under a path that may be an
\* old one: a new directory, which has no watch.
Appears(d) ==
    /\ d \notin present
    /\ present' = present \cup {d}
    /\ UNCHANGED <<home, enabled, toggles, vanished, kernelVars, readerVars,
                   daemonVars, wdToDir, stopEvent>>

\* A directory is deleted, or a medium unmounted: the kernel drops its watch.
\* (The IN_IGNORED event has no name and _run() passes over it.)
Vanishes(d) ==
    /\ d \in present /\ vanished < MaxVanish
    /\ vanished' = vanished + 1
    /\ present' = present \ {d}
    /\ kernel' = [w \in {v \in DOMAIN kernel : kernel[v] # d} |-> kernel[w]]
    /\ UNCHANGED <<home, enabled, toggles, isOpen, nextWd, queue, readerVars,
                   daemonVars, wdToDir, stopEvent>>

\* Security Center or Settings saves the other value of the setting.
SettingChanges ==
    /\ toggles < MaxToggles
    /\ toggles' = toggles + 1
    /\ enabled' = ~enabled
    /\ UNCHANGED <<present, home, vanished, kernelVars, readerVars, daemonVars,
                   wdToDir, stopEvent>>

Environment ==
    \/ \E f \in Files, d \in Dirs : FileWritten(f, d)
    \/ \E d \in Dirs : Appears(d) \/ Vanishes(d)
    \/ SettingChanges

WatchNext == Daemon \/ (\E r \in Readers : Reader(r)) \/ Environment

WatchSpec == WatchInit /\ [][WatchNext]_watchVars

\* main() always wakes up again, and every thread gets to run; nothing makes
\* users write files or change settings.
WatchFairSpec ==
    WatchSpec /\ WF_watchVars(Daemon) /\ \A r \in Readers : WF_watchVars(Reader(r))

-----------------------------------------------------------------------------
(* Properties.                                                             *)

\* Events of the open instance are attributed to the directory they happened
\* in: whatever restarts and overwrites _wd_to_dir has been through, its entry
\* for a live watch number is the directory the kernel watches under it.  The
\* one exception is the watch rescan() has marked and not recorded yet, whose
\* events a running reader drops or gives to a directory of an old instance.
KernelAgrees ==
    \A w \in DOMAIN kernel \ {unrecorded} :
        w \in DOMAIN wdToDir /\ wdToDir[w] = kernel[w]

\* "calls on_file_ready(path) once for each file" (class docstring), the half
\* that must hold with two readers on one descriptor after a quick off and on:
\* no file is handed to the callback twice.
AtMostOneCallback == \A f \in Files : Len(scans[f]) <= 1

IsWatched(d) == isOpen /\ d \in Image(kernel)

\* "Mark any watch path that exists but isn't marked yet" (rescan): while
\* protection stays on, an existing fixed or removable directory comes to be
\* watched.
PresentGetsWatched ==
    \A d \in Dirs : (enabled /\ d \in present)
                       ~> (IsWatched(d) \/ ~enabled \/ d \notin present)

\* The other half of "once for each file": a file whose event the kernel has
\* queued, under a watch that is in the table, is handed to the callback while
\* protection stays on.
QueuedGetsScanned ==
    \A f \in Files :
        (\E i \in DOMAIN queue : queue[i][2] = f /\ queue[i][1] # unrecorded)
            ~> (scans[f] # <<>> \/ ~enabled)

\* Turning protection off ends the daemon's readers, the one stop() could not
\* wait for included, unless it is turned on again.
OffEndsReaders ==
    ~enabled ~> (enabled \/ \A r \in Readers : reader[r] \in {"unborn", "done"})
=============================================================================
