# Formal models of Dark-OS

Dark-OS is an Arch Linux respin: a GTK shell over Hyprland, two dozen native apps, a protection daemon, gated package installation and boot-repair scripts. This directory holds TLA+ models of the parts of it that keep state and can go wrong between two steps, the TLC configurations that check them on small instances, and TLAPS proofs of the properties that matter most for instances of every size.

Paths are relative to `src/`; `bin/` stands for `airootfs/usr/local/bin/`. `PROJECT.json` maps every definition of the models to the lines it translates and lists the hazards with the properties that would catch them.

Contents: [inventory](#inventory), [how the models are written](#how-the-models-are-written), [modules](#modules), [runs and bounds](#runs-and-bounds), [fairness](#fairness), [proofs](#proofs), [where code and documentation part](#where-code-and-documentation-part), [what is not modelled](#what-is-not-modelled), [plan](#plan).

## Inventory

Almost all of Dark-OS is single processes that talk through files, child processes and D-Bus. A GTK program runs its handlers on one main loop, starts daemon threads for whatever is slow and brings results back with `GLib.idle_add`. What is hard in this code is what happens between those: a result that arrives after the question changed, a window closed under a thread, a process killed between two file operations, two programs at one file.

### Modelled

| Component | State | Operations | What is hard | What makes it correct |
|---|---|---|---|---|
| Continuous protection (`bin/darkos_shell/continuous_watch.py`, `bin/darkos-protect.py`) | inotify descriptor, table from watch numbers to directories, stop event, reader thread, the user's setting | start, stop, rescan, add a path, read and deliver events | old readers beside new ones, a table that outlives its inotify instance, directories that come and go | an event of a recorded watch is attributed to its directory; every directory comes to be watched; each file is scanned once |
| Shield scanner (`bin/darkos_shell/shield.py`) | the report read so far, cancel event, deadline, the `clamscan` process | start, read, stop with SIGTERM and SIGKILL, verdict | a scanner that stalls, crashes, prints too much or exits with 0 regardless | "clean" only for what was looked at as a whole; every scan ends |
| Quarantine store (`bin/darkos_shell/quarantine.py`, callers in `shield.py` and `darkos-security.py`) | blobs and their sidecars on disk | quarantine, list, restore, delete for good | two scanners at one file, killed between blob and sidecar, full disk, copies across file systems | a flagged file is on disk or held, and gone only when the user asked for it; what is held is listed |
| Gated package installs (`bin/darkos-store-gated-install.py`, `bin/darkos-store-gated-aur-install.py`) | the resolved files, what was cleared, pacman's cache | resolve, download or build, verify, scan each, install | index and cache change between the steps, commands given up half way | nothing is installed that Shield did not clear |
| Store window (`bin/darkos-store.py`) | per tab: token, running flag, one waiting job; threads | submit, finish, empty the search, close | results out of order, a closed window, a slot forgotten | the newest request's answer is shown, and shown in the end |
| Vault (`bin/darkos-security.py`) | entries in memory, `vault.dat`, its temporary file | create, unlock, lock, add, delete, save | kill or power cut between write, fsync, rename and directory fsync; failing operations and their roll-back | what was reported saved survives; creating replaces no vault |
| Mail (`bin/darkos-mail.py`) | account, inbox and reader on screen; operation with its socket, cancel event, timer | refresh, select, compose, edit the account, close | the timer beside the answer, cancelling before there is a socket, stale generations, renumbered inboxes | only what is certain is called failed; nothing stale is shown; the window never stays busy |
| Shell overlays (`bin/darkos_shell/surfaces.py`, `bin/darkos_shell/__init__.py`, `bin/darkos-installer`) | visibility of dock and Command Center, timers, locks and threads of its fetches, what mako and playerctl say | toggle, installer mode, fetch media and notifications, clear | two installers, notifications moving between two lists while they are read, failing commands | the dock is remembered; no notification is missed by a fetch that worked, nor hidden unseen; the panel catches up and falls silent |
| Bootloader repair (`bin/darkos-grub-install.sh`, `etc/systemd/system/darkos-grub-repair.service`) | initramfs, loaders on the ESP, `grub.cfg`, marker, lock | the script's steps, the service at each boot | concurrent runs, a kill anywhere, several ESPs, commands that fail or succeed without doing their work | the marker means a machine that boots; a later boot completes the repair |
| Notes (`bin/darkos-notes.py`) | editor, 600 ms timer, list, one file per note | edit, select, new, rename, delete, close | the timer fires inside a dialog, after a rename or after another note was selected; writes, renames and deletions that fail | a note's file holds what was made of that note |
| Clipboard (`bin/darkos-clipboard.py`) | questions without an answer, history, pins | copy, answer, pin, remove, clear | answers overtaken by newer copies | the newest text is on top |
| Clock and calendar (`bin/darkos-clock.py`, `bin/darkos-calendar.py`) | alarms, timer, stopwatch; a file of events | tick, pause, resume, reset; add and remove over a file that may be unreadable | late ticks, a pause between deadline and tick, a file that changed since it was read | alarms ring once, time that ran is counted, no event is lost |
| Backup and snapshots (`bin/darkos-backup.py`, `bin/darkos-snapshot.py`, `bin/darkos-ai-snapshot`) | archives and manifest; subvolumes of a series | create, delete, restore; take, prune, stage | kills and failures between archive and manifest; two runs pruning by two lists | what was announced is kept; nothing is pruned that N others have not outlived |
| Files and Downloads (`bin/darkos-files.py`, `bin/darkos-downloads.py`) | folders, clipboard of each window, trash | copy, cut, paste, rename, compress, extract, trash | two windows choosing the same free name | no document is lost |
| Network Center (`bin/darkos-network.py`) | a busy set and a worker per page | connect, scan, act on a phone | what is started from a result, timeouts, closing | every page and control comes back |
| Network sampler (`bin/darkos-netwatch.py`) | history in memory and on disk, the snapshot shown | sample, publish, keep, prune | a kill between the two files, failing writes | nothing is known that was not announced |
| Window effects (`bin/darkos-window-fx.py`) | none of its own: one process per key press over Hyprland | switch, snap, picture in picture, zoom | the active window changes, or a listed one closes, between question and dispatch | focus goes where the user meant |
| Settings and quick toggles (`bin/darkos-settings.py`, `bin/darkos_shell/user_settings.py`, `__init__.py`, `surfaces.py`) | `settings.json` and its copies, radios, levels, power profile, updates | load, save, toggle, airplane mode, slide, check, install | commands that are started and not awaited, fail unnoticed or end out of order; copies read long before they are saved; a worker that dies | what is shown is what is so, once commands that worked have ended in their order |
| The Void (`bin/darkos-terminal.py`, `bin/darkos_void/engagement.py`) | trees of panes, launcher, engagements on disk and copies in windows | split, close, exit, launch, create, take, retarget | shells exit in any order under a launcher or a modal prompt; names that share a directory | panes stay reachable, text is typed where it was asked for, records are not replaced |
| Gaming Hub (`bin/darkos-gaming.py`) | which buttons can be pressed | refresh, launch, ask Waydroid | threads ending in any order between modal messages | every button comes back |
| Activity detector (`bin/darkos_shell/activity_detector.py`) | poll chain, cached title, layout profile | start, stop, detect, apply | an answer about a window that is gone | the layout fits |
| Assistant (`bin/darkos_shell/ai_brain.py`, `actions.py`, `assistant_trigger.py`) | history of the brain and its lock, action lines, recorders | ask, act, explain, push to talk, wake word | several threads at one brain, one microphone; focus moving while a window is looked up | replies are theirs, acts were asked for, recorders are stopped |
| Tabs of Security Center (`bin/darkos-security.py`) | scan thread and its event, list of quarantine; files beside others | scan, cancel, restore, delete; encrypt, decrypt | a cancelled scan still running beside a new one; a name taken meanwhile | buttons and list are true; no file is replaced |
| Integrity check (`bin/darkos-integrity-check.py` and its service) | AIDE's baseline, the log | first pass, check, rkhunter | tools that are missing, fail or take too long; a half-made baseline | every difference is reported, and a pass whose AIDE failed is not logged as clean |

### How the components interact

* Continuous protection and Security Center's scan button both call `scan_and_quarantine` in `shield.py`, in two processes, and so meet in the quarantine store. `Quarantine` models both at once. The gates call `scan_path` of the same module; `GatedInstall` extends `Shield` and runs its scans step by step.
* The Store starts the gates in a terminal and does not wait for them, so `StoreJobs` and `GatedInstall` share nothing.
* The protection daemon reads the user's setting from `settings.json`, which Security Center and Settings write; the watcher's model has a setting that flips at any time, and `Settings` has both writers and the dock that reads.
* The Network Center shows what the sampler publishes; `Netwatch` has both. The assistant's snapshots share a directory with the timer's; `Snapshots` has both.
* The remaining programs of the desktop share nothing that is modelled. They are still checked together, in the runs `desk` and `keys` below.
* `darkos-installer` calls the shell over D-Bus to hide and show the overlays, and Calamares runs `darkos-grub-install.sh` with the same script that the service runs at the next boot.

## How the models are written

* One module per component. Each action is one handler, one step of a thread, or one command of a script, as far as another actor can see between them. Handlers of one main loop are one action; they cannot interleave with each other, only with threads, timers, other processes and crashes.
* File operations of one function are separate steps where a kill, a power cut, a failure or another process may come between them. Contents are model values.
* External programs (the kernel's inotify, clamscan, pacman, mako, playerctl, mail servers, grub tools) do whatever the code's callers must be ready for. They are marked external in the map.
* Two-valued flags that proofs speak of are strings such as `"open"` and `"closed"`, because the provers handle them better than Boolean variables.
* Definitions marked "Seeded bug" are not part of a specification. Each is a plausible mistake in the code mapped to the definition below it; replacing that definition's body by it breaks the property it is paired with in `PROJECT.json`, which shows that the run would notice.
* Counters are capped by constants commented "bound"; guards name them.

## Modules

**`ContinuousWatch`**: `ContinuousWatcher` and the daemon's loop. `wdToDir`, `watchPaths`, `stopEvent` and `thread` are the object's fields; `kernel`, `nextWd` and `queue` are the inotify instance. `start()`, `stop()` and `rescan()` run step by step in the daemon thread (`StartOpens`, `StopSignals`, `StopCloses`, `MarkNext`, `RecordMark`, ...), readers poll, read a batch and deliver its events one by one. Marking a directory and entering its number in the table are two steps with readers in between; `unrecorded` is the number that is between them. A file whose name is not UTF-8 (`Undecodable`) ends its reader.

**`Shield`**: one `scan_path` with its `collect_report` loop (`ReadsLine`, `SeesEof`, `SeesCancel`, `SeesDeadline`, `Overflows`, `AllRead`), `stop_scanner` (`Insists`, `CannotKill`) and the verdict, beside a `clamscan` that prints, closes its output, finishes or dies. The report limit is counted in lines.

**`GatedInstall`** extends `Shield`: both gates from resolving to `pacman -U`, beside an index that is refreshed and a cache that is cleaned. A behaviour has one caller: a gate, which never cancels, or Security Center, which may. `Blocked` and `InstallEnds` cover commands that fail, time out or are declined.

**`Quarantine`** and **`Custody`**: the store with the daemon, a scan of Security Center and its two buttons. `Custody` is what the store promises: a flagged file moves from disk to held and back, and goes only when the user purges it. `Quarantine` is shown to implement it under a refinement mapping from blobs, sidecars and paths to custody (property `CustodySpec`).

**`StoreJobs`** and **`LatestRequest`**: the token, slot and running set of `_submit_job` with one thread per tab. `LatestRequest` is the abstract tab: blank, or the newest request's answer. Its safety is property `ShowsLatest`, which is also proved; with fairness it is `AnswersLatest`.

**`Vault`**: screens, entries in memory and `vault.dat`. A handler runs to its end, one file operation per step (`stage`, write, fsync, rename or link, directory fsync); `survivors` are the files a power cut may leave under the name.

**`Mail`**: window handlers (`Refresh`, `Select`, `Send`, `AccountChanges`, `Close`), which launch operations and cancel the current one; `cancel()` in its two halves (`cancelled`, then `CancelCloses`); the worker (`Begin`, `Connect`, `Attach`, `Attached`, `Login`, `SelectInbox`, `Fetch`, `Mark`, `Submit`, `Sent`, `Fails`); the servers.

**`CommandCenter`**: `set_installer_mode`, the panel's map and unmap handlers with its timers, media and notification fetches with their locks, clearing notifications; mako and the player are external. Each `makoctl` and `playerctl` may fail or take too long, which the code reads as an empty answer; `fine` says whether both commands of a fetch worked.

**`GrubRepair`**: the script from its lock to its marker, any number of runs of it, the service at each boot. A tool that writes in place begins and ends in two steps.

**`Notes`**: one editor over files numbered by what they hold; `meant` is what the user last made of each note. The two dialogs run a main loop of their own, in which the timer may fire. Writes, the rename and the removal may fail; the last two the code does not tell.

**`Clipboard`**, **`Clock`**, **`Calendar`**: the requests of `_on_owner_change` and their later answers; one tick for alarms, timer and stopwatch, which may be late; events read anew, replaced as a whole, then taken over.

**`Backup`**: an archive is torn until its command ended, the manifest lists it afterwards. **`Snapshots`**: two runs of `--take`, each listing once and deleting by that list, beside the assistant's; names are ordered as strings are, which is what prunes.

**`Files`**: windows pick a free name (`unique_path`) and use it in a second step; what other windows do may come between. Documents are followed over folders and trash.

**`Network`**: `_run_async` and its `_busy` set for the three pages and the phone. **`Netwatch`**: a sample in its three steps, with kills, failing writes and power cuts.

**`Windows`**: each key press is a process of its own that reads Hyprland, shows what it read and dispatches later; a switcher that confirms a window that has closed meanwhile dispatches into the void. **`QuickSettings`**: commands that were launched, work or fail, and end in any order; radios whose newest command failed or was overtaken are `astray`, a mobile radio that airplane mode could not ask is `mislaid`, a level whose pamixer failed or was overtaken has `slipped`. **`Settings`**: the file with its writers and the dock, power profiles, updates.

**`Void`**: `TabRoot` and `Gtk.Paned` as a tree of widgets under splits and exits; the target prompt is opened in one step (`prompt`) and its line typed in a later one, into the pane that has the focus by then. **`Engagements`**: looking for a record and replacing it are two steps.

**`Gaming`**, **`Activity`**: threads that end between modal messages; a chain of polls.

**`Assistant`**: the brain with its lock and providers, action lines with their snapshot, recorders. **`Explain`**: the active window, the accessible frames that fit it, the fallback to a title.

**`SecurityTabs`**: scan thread, event and report, the list of the quarantine. **`Encrypt`**: what is published beside a file by a hard link. **`Integrity`**: passes of AIDE and rkhunter; `happened` is what a pass had to tell. `aide --check` finds, fails, is missing or takes too long.

**`Desk`**, **`MCStore`**, **`MCSteady`** (watcher, overlays), **`MCSession`** (watcher, quarantine, notifications), **`MCKeys`** (window switcher, The Void) and **`MCMailAndRepair`** compose programs that share no state, so that one run checks them all: a variable chosen in the initial state says which one runs, the others stand still in one initial state. State spaces then add and do not multiply, and nothing is lost, as a step of one program cannot enable or disable one of another. The other direction is proved for `Desk` and the store (`DeskIsOfPrograms`, `StoreIsOfBoth`): a behaviour of the composition is one of each program, so that what a program promises alone holds in the composition.

## Runs and bounds

| Run | Instance | States | Shows |
|---|---|---|---|
| `session` | watcher: 1 directory, 1 mount, 2 files, 2 starts, 2 changes of the setting, 1 directory vanishing. Quarantine: 2 paths, one on removable media, 2 files, 2 scanners, 1 kill, 1 full disk. Notifications: 3 of them, 3 key presses, 3 overlapping fetches, 1 failing command | 1.8 M | `WatchTypeOK`, `KernelAgrees` (events of recorded watches resolve to their directory), `AtMostOneCallback` (nothing is scanned twice); `HeldIsListed`, the refinement `CustodySpec`; `ListComplete`, `NothingUnseenHidden` |
| `steady` | watcher: setting changed once, nothing vanishing. Overlays: 2 installers, 2 key presses, 1 change of the player, 1 failing command | 62 k | `PresentGetsWatched`, `QueuedGetsScanned`, `OffEndsReaders`; `DockRemembered`, `QuietWhenHidden`, `MediaSettles` |
| `watch_blind` | off and on again | violation | `PresentGetsWatched` fails after a restart |
| `watch_undecodable` | one of the 2 files has a name that is not UTF-8 | violation | `QueuedGetsScanned` fails for the other one too |
| `quarantine_orphan` | 1 path, 1 kill | violation | `RestoreAlwaysPossible` fails when a scan is cut short |
| `quarantine_race` | 1 path, another program writing there | violation | `RestoreOverwritesNothing` fails when the path is taken between check and move |
| `store` | 2 tabs, 5 requests each; 2 package files, 4 kinds of content, a report of 2 lines, any number of installs and scans | 454 k | `OneRunning`, the refinement `ShowsLatest`, `AnswersLatest`; `CleanMeansLookedAt`, `GateHolds`, `ScanEnds` |
| `keys` | window switcher: 3 windows, 2 processes at a time, 2 presses, 1 other change. The Void: 2 tabs, 2 splits, 3 panes | 322 k | `AltTabReturns` (Alt+Tab leaves the window it was pressed on, and twice returns), `TypingReachesItsPane` (`PanesStayReachable` and `TypedWhereAsked`: panes stay reachable, commands are typed where they were asked for) |
| `mail_and_repair` | Mail: 2 operations, 2 accounts, 2 messages (one too large), 1 edit or renumbering. Boot repair: 2 runs, 2 partitions of 3 kinds, 2 faults | 382 k | `ReaderShowsSelected`, `FailedMeansNotSent`, `BusyEnds`; `MarkerMeansBootable`, `LoadersOnEsp`, `BootableCfgKept`, `EventuallyRepaired` |
| `desk` | 22 programs (26 with the independent parts of three of them apart), one at a time; the bounds are in `Desk.cfg` | 434 k | types (`DeskTypesOK`), and the eleven properties of the next table; of the window switcher and The Void only the types, on smaller bounds than those of `keys` |
| `snapshots_newest` | 1 run at a time, the last 1 kept, 1 snapshot of the assistant | violation | `NewestAreKept` fails: the run deletes what it has just taken |
| `pip_floating` | 2 windows, 1 process at a time, 3 key presses | violation | `FloatingStaysFloating` fails: a floating window is tiled when picture-in-picture ends |

| Property of `desk` | Programs | What it says |
|---|---|---|
| `SavedSurvives`, `ShownIsStored`, `CreateReplacesNothing` | vault | what was reported saved survives kills and power cuts; the list is what is stored; creating replaces no vault |
| `TextInItsNote` | Notes | a file holds what the user last made of its note, also around a rename within 600 ms of an edit, apart from an edit still marked unsaved and a failed write |
| `ClockIsRight` | Clock | a minute with an alarm rings once a day; timer and stopwatch count the time that ran |
| `DataIsKept` | Backup, Snapshots, Files, Calendar, engagements, Encrypt | nothing is lost that the user was told is kept (`PromisedIsKept`, `LastByNameKept`, `NothingLost`, `EventsAreKept`, `MetadataKept`, `NothingIsReplaced`) |
| `KnownWasAnnounced` | sampler | no destination is known that was never shown as new |
| `ChangesAreReported` | integrity check | the baseline is whole and a complete pass logs what differs, or that AIDE failed |
| `ControlsComeBack` | Network Center, Gaming Hub, Settings, Shield tab | what is switched off during work is switched on by its end, if the worker lives to see it |
| `ShellShowsTruth` | toggles, dock, layout modes, Quarantine tab, clipboard | once everything under way has arrived, what is shown is so, save for commands that failed or were overtaken |
| `AssistantObeys` | assistant | replies, acts, explained text and recorders belong to the request they are for |

Each conjunct of a combined property is a definition of its own in the program's module and has its own seeded bugs; they are combined because a run checks the desktop at once.

Why the bounds are enough:

* Watcher: the hazards need an old and a new reader (2 starts), a number handed out twice (1 fixed directory and 1 mount over 2 instances) and a batch in which a first event can spoil a second (2 files in one read).
* Quarantine: the races are between two scanners, or a scanner and a button, at one file; the second file is what may arrive at a path meanwhile. On removable media only one scanner is active in the passing run, for there the code's copy and unlink do race (see below).
* Store: tokens matter in threes, the thread's, the waiting one and a newer one; 5 requests let the slot be filled, replaced and emptied twice.
* Bootloader: with two runs one holds the lock while the other waits, fails or has just finished; the three kinds of partition give no, one and two candidates on either disk; two faults let a run be killed after an earlier run was.
* Vault: 3 entries distinguish first, middle and last under a deletion by index; in `desk` one operation fails and one cut happens per behaviour; larger numbers are covered by the proofs.
* Command Center: three overlapping fetches are one more than lock and post allow at once, so results arrive in every order; one failing command is enough to leave the one half of a fetch out.
* Mail: with two operations one is superseded by the other; safety was also explored once with three.
* Desk: two of everything that competes (windows, threads, runs, processes) and one more of what is chosen among (notes, panes, archives, clips), so that first, middle and last differ. Where one mishap (a kill, a failing write) could hide a second one, two are allowed. Quick toggles have three slides of the level, so that a pamixer can be overtaken while another is under way. Files has one explorer beside the Downloads window, which race for a name as two explorers do.
* Gate: with two files one can be clean and the other not, missing or replaced by a newer name; a report of two lines overflows with three.

The liveness runs use no symmetry, and none of the state constraints of TLC: bounds are guards. `CHECK_DEADLOCK FALSE` stands where the system may rest: no user has to do anything, and bounded counters run out.

## Fairness

* Worker threads, timers and the main loop run: weak fairness of each of their steps. Python threads are scheduled by the kernel; `idle_add` callbacks are dispatched while the main loop runs.
* Watcher: the daemon's loop wakes every 30 seconds and a scan callback returns within `scan_path`'s time limit.
* Store: a worker's commands have timeouts (`subprocess.run(..., timeout=...)`), so it ends.
* Command Center: `command_output` gives each command 1.5 seconds. Nobody has to press a key, and media is polled by a timer while the panel is shown.
* Mail: servers owe nothing. A connection is made or refused in `SOCKET_TIMEOUT`, the timer fires after `OPERATION_TIMEOUT`, and a worker whose socket was closed gets an exception.
* Shield: clamscan owes nothing, not even to signals. The deadline and the two waits of three seconds are clocks.
* Desk: nothing is assumed; its properties are safety. "Comes back" and "in the end" are said of states in which nothing is under way any more.
* Bootloader: the commands of a run end or fail and the machine is booted again; `EventuallyRepaired` speaks of behaviours in which faults have run out. Behaviours of Mail in the same run do not owe it, for their machine stands still.

## Proofs

A proof module extends the module it is about. All theorems are of the form "for every value of the constants that meets the module's assumption"; those assumptions are evaluated by TLC in every run. Only those about `Quarantine` have a hypothesis more, `Calm`, which names the two races the code does have: no program writes at a path that a file is being moved from or to (with it, `quarantine_race` finds the documented promise broken), and no removable medium is one of the daemon's marked paths (`Watched`), so that only an on-demand scan copies off it.

What the assumptions on constants say: bounds are natural numbers; the sets of widgets, windows, paths, threads and so on do not overlap with the values that stand for "none"; the screen has finitely many windows (`OnScreen`, `WindowIds`); limits the code fixes to positive numbers (`Retention`, `MaxHistory`, a day of the clock) are positive. None bounds how many there are of anything.

| Module | Proved | Inductive invariant and why it is needed |
|---|---|---|
| `ContinuousWatch_proofs` | `TypeCorrect`, `EventsAttributed` (`KernelAgrees`), `ScannedAtMostOnce` (`AtMostOneCallback`) | `KInv`: live watch numbers are below `nextWd`, so that a new number is in no live entry; and the number that is not recorded yet is on the directory `rescan()` is at, so that recording it makes the table agree again. `OnceInv`: the one event of a written file is in the queue, in one reader's buffer or handed on |
| `Store_proofs`, the jobs | `JobsTypeCorrect`, `OneRunningAlways`, `NothingForgottenAlways`, `StoreShowsLatest` (refinement of `LatestRequest!Safety`) | tokens count requests (`TokenCounts`), a thread carries the token of its request (`ThreadsAreDated`), the slot holds the newest (`QueueIsNewest`); a result shown under a current token is then the newest request's |
| `Store_proofs`, the gate | `GateTypeCorrect`, `CleanIsEarned` (`CleanMeansLookedAt`), `GatesHold` | `LineInv`: what clamscan has looked at shows in its status or in a line that is read or still in the pipe, and the summary comes last; `EndInv`: a report that nothing interrupted was read to its end, so that what was printed is what was read; `GateInv`: what a gate has cleared is good |
| `GrubRepair_proofs` | `TypeCorrect`, `MarkerIsTrue`, `LoadersStayOnEsp`, `CfgKept` | `RunsInv`: past the lock there is one run, and what it has completed so far is recorded at its step; `MountedByChoice`: a mounted partition is fstab's or the chosen one |
| `Quarantine_proofs` | `TypeCorrect`, `HeldFilesAreListed` (`HeldIsListed`), `StoreKeepsCustody` (`CustodySpec`, the refinement of `Custody`) | `ScannerInv`: a scanner's identifier is its own and has no sidecar yet, and what it has copied is still on its medium; `ButtonInv`: a destination stays free from the check to the move, and what was copied back is on disk, or in quarantine once more, before its blob goes; `ListInv`: a blob has a sidecar or a scanner at work on it. The simulation then follows one file per step: all others keep their places |
| `CommandCenter_proofs` | `DockIsRemembered`, `ListsAreComplete`, `NothingIsHiddenUnseen` (`NothingUnseenHidden`) | `DockInv`: visibility is saved once, by the first installer; `ListInv`: between its two commands a fetch that has not failed has listed, or will find in the history, everything that existed when it began. `HiddenInv`: below the newest number of any list (`Below`), everything was in it or was there to be listed when a fetch failed (`unread`) |
| `Mail_proofs` | `TypeCorrect`, `FailureIsCertain`, `CancelIsFinal`, `OneAtATime`, `ReaderIsCurrent` | `SendInv` (what is in flight or accepted was marked first), `CancelInv` (a cancelled operation that is past `cancel()` has no open socket it could submit on, or a checkpoint before it), `WindowInv` (generations name the current operation), `ReadInv` (a current reading is of the selected message of this inbox) |
| `Programs_proofs`, the vault | `VaultTypeCorrect`, `SavedEntriesSurvive` (`SavedSurvives`), `ListIsStored` (`ShownIsStored`), `CreateIsExclusive` (`CreateReplacesNothing`) | `HandlerInv` (which handler is on which screen), `StageInv` (what the temporary file holds at each step), `KeptInv` (every file a power cut may leave holds the kept entries) |
| `Programs_proofs`, lists | `ClipboardShowsNewest` (`NewestOnTop`), `ClockKeepsTime` (`AlarmsRingOnce`, `TimeIsKept`), `CalendarKeepsEvents` (`EventsAreKept`), `BackupsAreKept` (`PromisedIsKept`), `SnapshotsAreKept` (`LastByNameKept`) | Clipboard: `ClipboardInv`, history and pins have no doubles, so that taking out the first is taking out all, and what came last is first if it is listed at all. Clock: `AlarmsInv` (a ticked minute rang as often as it had to) and an account of what each counter ran (`TimerInv`, `WatchInv`). Calendar: `CalendarInv`, the screen is memory and memory is the file unless reading failed; `MeantInv` counts how often each event is in a list. Backup: `BackupInv`, where the handler stands says what is on disk. Snapshots: `DirsInv` and `TakersInv`, whatever is gone or on a run's list has been outlived by as many names that sort after it as are to be kept, which only grows, so that overlapping runs cannot disagree |
| `Programs_proofs`, processes | `QuickSettingsAreTrue` (`ControlsAreTrue`), `SwitchesReturn` (`AltTabReturns`) | `RadioInv`: what each radio will be when all commands launched so far have ended in their order (`Settles`) is what the user last asked for, or off in airplane mode, which remembers the former, unless it is astray or mislaid. `FlushInv`: the newest pamixer sets what was chosen. `HistoryInv` and `BackInv`: the focus history has each open window once; a strip's first choice is not the window it was opened over (`StripIs`); after one switch the window it began at is the second of the history, after two the first again |
| `Programs_proofs`, The Void | `PanesAreReached` (`PanesStayReachable`, `TypedWhereAsked`) | `TreesInv`: no widget is packed twice or into what belongs to no page (`TreeInv`), a page holds one widget and each `Gtk.Paned` of it two (`SlotsInv`), and a page has one pane more than it has splits (`LeavesInv`), so that a pane with a Paned around it is never the last; and while no shell has exited under the prompt, the pane with the focus is the one it was opened over (`PromptInv`). A subtree is the least set closed under packing; the lemmas on split, merge and destroy say what each rotation does to that set |
| `Desk_proofs`, files and data | `NotesKeepText` (`TextInItsNote`), `FilesLoseNothing` (`NothingLost`), `EngagementsKept` (`MetadataKept`), `EncryptReplacesNothing` (`NothingIsReplaced`), `NetwatchAnnounces` (`KnownWasAnnounced`), `IntegrityReports` (`ChangesAreReported`) | Notes: what is unsaved is what was last made of the current note (`UnsavedIsMeant`), failed writes are told (`UnsavedIsTold`), and every edit is a text of its own (`EditsAreUnique`), so that the two files a rename may leave are told apart. Files: `TasksInv`, a task has the paths its kind needs, though they may have changed since they were chosen; `DiskInv`, every document is somewhere after each single call, so that it does not matter what comes between two. `CopyInv`, `AgreeInv`: every copy of a record in a window, a row or a creation in progress agrees with the record on disk. `TabInv`: files the tab wrote and files of others are under different names. `KnownInv`: what memory knows beyond what was announced is what the sample under way is about to announce. `DueInv`: what the pass has yet to tell is still unlike the baseline or already told |
| `Desk_proofs`, controls | `NetworkPagesComeBack` (`PagesComeBack`), `SecurityTabsKeepTrue` (`ScanButtonsWork`, `QuarantineTabTells`), `SettingsAreFollowed` (`DockFollowsFile`, `SettingsWork`), `GamingButtonsComeBack` (`ButtonsComeBack`), `ActivityLayoutFits` (`LayoutFits`) | Each names the worker, thread, event or timer that what is switched off or out of date is waiting for (`NetworkInv`, `TabsInv`, `FileInv`, `ProfileInv`, `UpdateInv`, `GamingInv`, `ActivityInv`); the property is the case in which there is none |
| `Desk_proofs`, assistant | `AssistantKeepsToIt` (`RepliesAreTheirs`, `ActsAreAskedFor`, `RecordersAreStopped`), `ExplainIsOfActive` (`TextIsOfActive`) | `BrainInv`: who is past the lock holds it, and result, reply and snapshot are of the request it holds it for; `TriggerInv`: one recorder at most, and it is the current one; `ExplainInv`: what Hyprland said is of a window that was active, and a frame that scores best is of it |
| `Desk_proofs`, the desktop | `DeskIsOfPrograms`; `DeskTypesKept` (`DeskTypesOK`), `DeskClockIsRight`, `DeskDataIsKept`, `DeskControlsComeBack`, `DeskShellShowsTruth`, `DeskAssistantObeys` (the invariants of run `desk`) | a step of the desktop is one of each program or leaves its variables alone; the invariants of the run then follow from those of the programs |

Every theorem about a program of the desktop includes its type invariant. The lemmas at the head of `Programs_proofs` are about lists: what `RemoveAt`, `RemoveFirst`, `ReplaceAll` and `Append` do to the elements of one without doubles. They are proved from the properties of `Len` and `SubSeq`, for the community modules define those operators without recursion.

`TypeCorrect` of Store, boot repair, gates and Mail, `NothingForgottenAlways` (Store), `CancelIsFinal` and `OneAtATime` (Mail) are proved for every instance and no longer part of a run.

With that, every safety property that a passing run checks is also proved (of Quarantine under the hypothesis above). Only model-checked: the liveness properties (`PresentGetsWatched`, `QueuedGetsScanned`, `OffEndsReaders`, `AnswersLatest`, `EventuallyRepaired`, `QuietWhenHidden`, `MediaSettles`, `BusyEnds`, `ScanEnds`), because the prover has no rules for fairness. No proof needs an induction over data: lists that are filtered or sorted are described by what their elements and ranks are, a subtree as a least set, and there is no recursive operator in a module with a theorem.

## Where code and documentation part

* `watch_blind`: `stop()` closes the inotify descriptor but keeps `_wd_to_dir`. After protection is turned off and on again, `rescan()` takes every directory for marked and marks none in the new instance, although its docstring promises to "Mark any watch path that exists but isn't marked yet" (`bin/darkos_shell/continuous_watch.py:111`).
* `quarantine_orphan`: a file is moved into quarantine before its sidecar is written. Closing Security Center between the two leaves a blob that no list shows, although `bin/darkos_shell/quarantine.py:10` says "restore is always possible until permanent_delete is called explicitly".
* `watch_undecodable`: a file name that is not UTF-8 raises in the reader thread, which nothing catches. The rest of its batch and every later file go unscanned while protection stays on, although the class promises to call back "once for each file fully written" (`bin/darkos_shell/continuous_watch.py:88`).
* `quarantine_race`: `restore()` checks the destination and then moves with a rename that replaces what has come there meanwhile, although "this refuses rather than overwriting it" (`bin/darkos_shell/quarantine.py:109`).
* `snapshots_newest`: the assistant's snapshots sort after all timestamps in the same directory, so that each of them takes the place of a timed one for good; with as many of them as are kept, `--take` deletes the snapshot it has just taken. `bin/darkos-snapshot.py:86` says "last N snapshots kept per subvolume", `:115` that "lexical sort is chronological".
* `pip_floating`: the end of picture-in-picture runs `togglefloating` on any window that is floating, also on one that floated before, although the docstring of `run_pip` says such a window "stays floating" (`bin/darkos-window-fx.py:1190`).

What the models of the desktop had to except, each stated in its property:

* Watcher: a reader that runs while `rescan()` is between marking and recording drops the events of that one watch, or gives them to the directory an earlier instance had under its number.
* Command Center: a fetch whose `makoctl list` or `history` failed lacks what that command would have named, and clearing may hide it.
* Notes: a rename confirmed within 600 ms of an edit leaves two notes, the new one with what was written and the old one with the edit. A removal that fails leaves the file although the note has gone from the window.
* Clock: the second alarm of a minute is marked as rung with the first.
* Clipboard: a text that came last, was removed and is copied again is taken for the same copy and not listed until another comes.
* Integrity check: every non-zero status of `aide --check`, its errors included, is logged as differences found; such a pass is a false alarm and may not name what differs. A report in the log ends after 4000 characters, and the baseline is never renewed, so that once the old differences fill that space a new one is not named. AIDE's timeout is all of the 1800 s the service's unit has, so that under the service a slow AIDE ends the pass before rkhunter.
* Engagements: two windows creating in one directory at a time both succeed; the later record stays.
* Quick toggles: commands are not awaited and their status is not looked at, so that a button stays as asked after a failure, and a newer command may end before an older one; so may two pamixers. If the mobile radio cannot be asked, or is not back yet, airplane mode remembers it as off. A hyprsunset that ends by itself leaves its button on.
* Dock: a save between the building of the dock and its watch is not seen.
* Updates: an exception other than the two its worker catches ends the thread without an answer, and its button stays insensitive. Pressing Install while a check is under way may start it twice.
* Activity detector: the second answer about a title after an empty desktop or a stop changes nothing.
* The Void: a line entered into the target prompt runs in whichever pane has the focus when it is confirmed, if a shell has exited meanwhile.
* Switcher: a window that closes while the strip is open stays in it; confirming it changes nothing.
* Microphone: a wake word during push to talk, or the key during its recording, can leave a recorder to nobody.

The passing runs assume away more races, each named in its module and in the hazard list: names that are not UTF-8 (run `watch_undecodable` has them); two scanners copying one file off removable media, and a program writing where a file is being moved (run `quarantine_race`), can lose the newer file; mako restarting with lower identifiers hides new notifications; `pacman -U` given up by the AUR gate may finish although the gate reports that it was blocked.

## What is not modelled

Within modelled components: parsing of tool output, layout and wording; encryption (a vault or file opens with its password); hashes and ownership of quarantined files; TLS and the limits on mail; how far a page cache had got at a power cut, except in the vault, whose code fsyncs. In the shell: pollers of the system's levels and the dock's dots. In window effects: search, overview, screenshots, wallpaper. In the terminal: emulation (VTE), search, session logs. In Security Center: three privacy flags nothing reads. Compressing in the file explorer is one step.

Hazards that were met and that no property speaks of: a medium that is unmounted and mounted again, or a recreated `~/Downloads`, is still in `_wd_to_dir` and is not marked again (`bin/darkos_shell/continuous_watch.py:116`); an overflow of the kernel's event queue is an event without a directory and dropped (`:147`); a false positive restored into a watched directory arrives there by a move and is scanned, and may be quarantined, again (`quarantine.py:124`); no artifact of the boot repair is synced before its marker is renamed (`bin/darkos-grub-install.sh:428`); notifications are read only when the panel is opened (`surfaces.py:913`).

Components without a model: dashboard, mission, calculator and emoji (a timer that paints what it reads, or pure functions under unit tests); Gallery and Reader (one thread, an index into a list rebuilt with what shows it); DevHub (every command is awaited in its handler); first boot and tool groups (pacman once per group over a marker file); look and style; session launchers; image build and CI; configuration data for third-party programs. `PROJECT.json` lists each with its reason.

## Plan

The order was by what is at stake: first the programs that protect the user's data, boot or safety and have the most actors (watcher, quarantine, store jobs, boot repair, vault, overlays, mail, Shield and gates), then the desktop. Both are done. What is left:

| Work | Why |
|---|---|
| Proofs that the abstract specifications of single programs (a backup, a note) are implemented | so far refinement is proved for the quarantine and the Store's jobs |
| Liveness of the desktop's workers | needs the timeouts of each command as fairness |
| Window overview and the terminal's search | sequential, long, and so far only read |
