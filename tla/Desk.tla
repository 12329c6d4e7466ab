-------------------------------- MODULE Desk --------------------------------
(* The programs of the desktop together.  They share no state that is          *)
(* modelled, so that a behaviour is one of one program: app says of which, and *)
(* the others stay in one of their initial states.                             *)
EXTENDS Vault, Notes, Clipboard, Clock, Backup, Snapshots, Files, Netwatch, Network, Windows,
        QuickSettings, Settings, Void, Gaming, Activity, Assistant, Explain, Calendar,
        SecurityTabs, Engagements, Encrypt, Integrity

VARIABLE app

Apps == {"vault", "notes", "clipboard", "clock", "backup", "snapshots", "files", "netwatch",
         "network", "windows", "toggles", "levels", "settings file", "power profile", "updates",
         "void", "gaming", "activity", "brain", "microphone", "explain", "calendar", "security",
         "engagements", "encrypt", "integrity"}

\* One initial state for each program that stands still.
DeskInit ==
    /\ app \in Apps
    /\ VaultInit
    /\ NotesInit /\ (app # "notes" => mode = "folder" /\ current = NoPath /\ meant = [p \in Notebook |-> 0])
    /\ ClipboardInit /\ (app # "clipboard" => pinFile = <<>>)
    /\ ClockInit /\ (app # "clock" => clockTab = "alarms")
    /\ BackupInit
    /\ SnapshotsInit
    /\ FilesInit
    /\ NetwatchInit
    /\ NetworkInit /\ (app # "network" => device[1] = "paired")
    /\ WindowsInit /\ (app # "windows" => scratch = {})
    /\ QuickInit /\ (app # "toggles" => radio = [r \in Radios |-> "on"] /\ astray = {})
    /\ SettingsInit /\ (app # "updates" => updatesFound = "off")
    /\ VoidInit /\ (app # "void" => engaged = "none")
    /\ GamingInit /\ (app # "gaming" => present = {})
    /\ ActivityInit /\ (app # "activity" => active = CHOOSE t \in Titles : TRUE)
    /\ AssistantInit /\ (app # "brain" => btrfs = FALSE)
    /\ ExplainInit /\ atWindow = CHOOSE w \in OnScreen : TRUE
    /\ CalendarInit
    /\ SecurityTabsInit
    /\ EngagementsInit
    /\ EncryptInit /\ (app # "encrypt" => plainDisk["plain"] = {[text |-> CHOOSE t \in Letters : TRUE, under |-> <<>>]})
    /\ IntegrityInit
    /\ app # "explain" => look = [w \in OnScreen |-> CHOOSE l \in Looks : TRUE]

DeskNext ==
    /\ app' = app
    /\ \/ app = "vault" /\ VaultNext
       \/ app = "notes" /\ NotesNext
       \/ app = "clipboard" /\ ClipboardNext
       \/ app = "clock" /\ ClockNext
       \/ app = "backup" /\ BackupNext
       \/ app = "snapshots" /\ SnapshotsNext
       \/ app = "files" /\ FilesNext
       \/ app = "netwatch" /\ NetwatchNext
       \/ app = "network" /\ NetworkNext
       \/ app = "windows" /\ WindowsNext
       \/ app = "toggles" /\ TogglesNext
       \/ app = "levels" /\ LevelsNext
       \/ app = "settings file" /\ FileNext /\ UNCHANGED <<profileVars, updateVars>>
       \/ app = "power profile" /\ ProfileNext /\ UNCHANGED <<fileVars, updateVars>>
       \/ app = "updates" /\ UpdatesNext /\ UNCHANGED <<fileVars, profileVars>>
       \/ app = "void" /\ VoidNext
       \/ app = "gaming" /\ GamingNext
       \/ app = "activity" /\ ActivityNext
       \/ app = "brain" /\ BrainNext /\ UNCHANGED triggerVars
       \/ app = "microphone" /\ TriggerNext /\ UNCHANGED brainVars
       \/ app = "explain" /\ ExplainNext
       \/ app = "calendar" /\ CalendarNext
       \/ app = "security" /\ SecurityTabsNext
       \/ app = "engagements" /\ EngagementsNext
       \/ app = "encrypt" /\ EncryptNext
       \/ app = "integrity" /\ IntegrityNext
    /\ app # "vault" => UNCHANGED vaultVars
    /\ app # "notes" => UNCHANGED notesVars
    /\ app # "clipboard" => UNCHANGED clipboardVars
    /\ app # "clock" => UNCHANGED clockVars
    /\ app # "backup" => UNCHANGED backupVars
    /\ app # "snapshots" => UNCHANGED snapVars
    /\ app # "files" => UNCHANGED filesVars
    /\ app # "netwatch" => UNCHANGED netwatchVars
    /\ app # "network" => UNCHANGED networkVars
    /\ app # "windows" => UNCHANGED windowsVars
    /\ app \notin {"toggles", "levels"} => UNCHANGED quickVars
    /\ app \notin {"settings file", "power profile", "updates"} => UNCHANGED settingsVars
    /\ app # "void" => UNCHANGED voidVars
    /\ app # "gaming" => UNCHANGED gamingVars
    /\ app # "activity" => UNCHANGED activityVars
    /\ app \notin {"brain", "microphone"} => UNCHANGED assistantVars
    /\ app # "explain" => UNCHANGED explainVars
    /\ app # "calendar" => UNCHANGED calendarVars
    /\ app # "security" => UNCHANGED tabsVars
    /\ app # "engagements" => UNCHANGED engagementVars
    /\ app # "encrypt" => UNCHANGED encryptVars
    /\ app # "integrity" => UNCHANGED integrityVars

deskVars == <<app, vaultVars, notesVars, clipboardVars, clockVars, backupVars, snapVars, filesVars,
              netwatchVars, networkVars, windowsVars, quickVars, settingsVars, voidVars, gamingVars,
              activityVars, assistantVars, explainVars, calendarVars, tabsVars,
              engagementVars, encryptVars, integrityVars>>

DeskSpec == DeskInit /\ [][DeskNext]_deskVars

\* The program that runs keeps its types.
DeskTypesOK ==
    /\ app = "vault" => VaultTypeOK
    /\ app = "notes" => NotesTypeOK
    /\ app = "clipboard" => ClipboardTypeOK
    /\ app = "clock" => ClockTypeOK
    /\ app = "backup" => BackupTypeOK
    /\ app = "snapshots" => SnapshotsTypeOK
    /\ app = "files" => FilesTypeOK
    /\ app = "netwatch" => NetwatchTypeOK
    /\ app = "network" => NetworkTypeOK
    /\ app = "windows" => WindowsTypeOK
    /\ app = "void" => VoidTypeOK
    /\ app = "gaming" => GamingTypeOK
    /\ app = "activity" => ActivityTypeOK
    /\ app = "explain" => ExplainTypeOK
    /\ app = "calendar" => CalendarTypeOK
    /\ app = "security" => SecurityTabsTypeOK
    /\ app = "engagements" => EngagementsTypeOK
    /\ app = "encrypt" => EncryptTypeOK
    /\ app = "integrity" => IntegrityTypeOK
    /\ app \in {"toggles", "levels"} => QuickTypeOK
    /\ app \in {"settings file", "power profile", "updates"} => SettingsTypeOK
    /\ app \in {"brain", "microphone"} => AssistantTypeOK

\* Clock: whatever is set, paused or late, every minute that an alarm is set for
\* rings once, and the timer and the stopwatch count what ran.
ClockIsRight == AlarmsRingOnce /\ TimeIsKept

\* Backup, Snapshots, Files, Calendar, The Void, Encrypt tab: no archive, snapshot,
\* document, event, engagement or other file is lost that the user was told is
\* kept, however calls fail or overlap.
DataIsKept ==
    /\ PromisedIsKept /\ LastByNameKept /\ NothingLost /\ EventsAreKept /\ MetadataKept
    /\ NothingIsReplaced

\* Network Center, Gaming Hub, Settings, Shield tab: what is switched off while
\* something is under way is switched on again by its end, whatever fails,
\* overlaps or is pressed meanwhile, but for a thread of the updates that dies
\* of an exception it does not catch.
ControlsComeBack == PagesComeBack /\ ButtonsComeBack /\ SettingsWork /\ ScanButtonsWork

\* Quick toggles, dock, layout modes, Quarantine tab, Clipboard: once everything
\* under way has arrived, what is shown is what is so, the last copy on top.  The
\* parts name what they except: a command of a toggle or the slider that fails
\* or is overtaken, which nobody waits for, and a text that is copied again
\* after its removal.
ShellShowsTruth ==
    ControlsAreTrue /\ DockFollowsFile /\ LayoutFits /\ QuarantineTabTells /\ NewestOnTop

\* Assistant: threads that ask at a time get what is theirs, nothing is done that
\* the reply to the request did not ask for or without its snapshot, explain()
\* reads the window the user was at, and every recorder is stopped.
AssistantObeys == RepliesAreTheirs /\ ActsAreAskedFor /\ TextIsOfActive /\ RecordersAreStopped
=============================================================================
