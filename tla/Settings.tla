-------------------------------- MODULE Settings --------------------------------
(***************************************************************************)
(* The user's settings (darkos-settings.py, user_settings.py): the file,   *)
(* its two writers and the running dock, which follows it; and the two     *)
(* kinds of work the window gives to threads, the power profile and the    *)
(* system updates.                                                         *)
(***************************************************************************)
EXTENDS Naturals

CONSTANTS
    MaxChoices,      \* bound: saves by the window
    MaxOthers,       \* bound: switches of the protection, shell starts, failures
    MaxProfiles      \* bound: power profile jobs and changes by others

ASSUME SettingsConstants == MaxChoices \in Nat /\ MaxOthers \in Nat /\ MaxProfiles \in Nat

SettingsSwitch == {"off", "on"}

VARIABLES
    copy,            \* SettingsWindow.settings, which is read once; <<>> without a window
    settingsFile,    \* settings.json
    loaded,          \* what _on_protection_toggled has read
    dock,            \* the layout of the running dock; <<>> while there is none
    watching,        \* _settings_monitor
    event,           \* a change that was not delivered to it
    reloadTimer,     \* _settings_reload_id
    choices, others,
    unseen           \* history: saved between the building of the dock and its watch

fileVars == <<copy, settingsFile, loaded, dock, watching, event, reloadTimer, choices, others, unseen>>

VARIABLES
    profile,          \* the daemon's active profile
    shownProfile,     \* _power_profile_state, <<>> for none
    profileJob,       \* _power_profile_busy and the worker: [at, selected, result]
    profileControls,  \* the combo box and the buttons: "off", "refresh" or "on"
    profiles,
    profileElsewhere  \* history: the profile changed since the last reading

profileVars == <<profile, shownProfile, profileJob, profileControls, profiles, profileElsewhere>>

VARIABLES
    checkButton, installButton,
    updateJobs,      \* the threads: a subset of {"check", "install"}
    updatesFound,    \* whether there are updates
    installedEarly,  \* history: an installation was started during a check
    lostWorker       \* history: a thread ended without a result, and no result came since

updateVars == <<checkButton, installButton, updateJobs, updatesFound, installedEarly, lostWorker>>
settingsVars == <<fileVars, profileVars, updateVars>>

Docks == 0..MaxChoices
SettingsFile == [dock : Docks, shield : SettingsSwitch]
ProfileNames == {"balanced", "performance"}

SettingsTypeOK ==
    /\ copy \in {<<>>} \cup SettingsFile /\ settingsFile \in SettingsFile
    /\ loaded \in {<<>>} \cup SettingsFile /\ dock \in {<<>>} \cup {<<d>> : d \in Docks}
    /\ watching \in SettingsSwitch /\ event \in SettingsSwitch /\ reloadTimer \in SettingsSwitch
    /\ choices \in Docks /\ others \in 0..MaxOthers /\ unseen \in SettingsSwitch
    /\ profile \in ProfileNames /\ shownProfile \in {<<>>} \cup {<<p>> : p \in ProfileNames}
    /\ profileJob \in [at : {"none", "queries", "sets", "verifies", "posted"},
                       selected : ProfileNames \cup {"none"},
                       result : {<<>>} \cup {<<p>> : p \in ProfileNames}]
    /\ profileControls \in {"off", "refresh", "on"} /\ profiles \in 0..MaxProfiles
    /\ profileElsewhere \in SettingsSwitch
    /\ checkButton \in SettingsSwitch /\ installButton \in SettingsSwitch
    /\ updateJobs \subseteq {"check", "install", "checked", "failed", "installed"}
    /\ updatesFound \in SettingsSwitch /\ installedEarly \in SettingsSwitch
    /\ lostWorker \in SettingsSwitch

NoProfileJob == [at |-> "none", selected |-> "none", result |-> <<>>]

SettingsInit ==
    /\ copy = <<>> /\ settingsFile = [dock |-> 0, shield |-> "on"] /\ loaded = <<>> /\ dock = <<>>
    /\ watching = "off" /\ event = "off" /\ reloadTimer = "off"
    /\ choices = 0 /\ others = 0 /\ unseen = "off"
    /\ profile = "balanced" /\ shownProfile = <<>> /\ profileControls = "off" /\ profiles = 0
    /\ profileJob = [NoProfileJob EXCEPT !.at = "queries"] /\ profileElsewhere = "off"
    /\ checkButton = "on" /\ installButton = "off" /\ updateJobs = {} /\ updatesFound \in SettingsSwitch
    /\ installedEarly = "off" /\ lostWorker = "off"

-----------------------------------------------------------------------------
(* The file.                                                               *)

\* save_settings renames a complete file over the old one, or fails.
Saves(value) ==
    /\ settingsFile' = value
    /\ event' = IF watching = "on" THEN "on" ELSE event
    /\ unseen' = IF dock # <<>> /\ watching = "off" THEN "on" ELSE unseen

CountsOther == others < MaxOthers /\ others' = others + 1

SettingsOpens ==
    /\ copy = <<>> /\ copy' = settingsFile
    /\ UNCHANGED <<settingsFile, loaded, dock, watching, event, reloadTimer, choices, others, unseen>>

\* _save of any key writes all of them.
Chooses ==
    /\ copy # <<>> /\ choices < MaxChoices /\ choices' = choices + 1
    /\ copy' = [copy EXCEPT !.dock = choices + 1]
    /\ \/ Saves(copy') /\ UNCHANGED others
       \/ CountsOther /\ UNCHANGED <<settingsFile, event, unseen>>
    /\ UNCHANGED <<loaded, dock, watching, reloadTimer>>

SettingsCloses ==
    /\ copy # <<>> /\ copy' = <<>>
    /\ UNCHANGED <<settingsFile, loaded, dock, watching, event, reloadTimer, choices, others, unseen>>

\* _on_protection_toggled, in the process of Security Center.
LoadsForShield ==
    /\ CountsOther /\ loaded = <<>> /\ loaded' = settingsFile
    /\ UNCHANGED <<copy, settingsFile, dock, watching, event, reloadTimer, choices, unseen>>

SavesShield ==
    /\ loaded # <<>> /\ loaded' = <<>>
    /\ Saves([loaded EXCEPT !.shield = IF @ = "on" THEN "off" ELSE "on"])
    /\ UNCHANGED <<copy, dock, watching, reloadTimer, choices, others>>

-----------------------------------------------------------------------------
(* The shell.                                                              *)

\* do_activate builds the dock, and watches the file afterwards.
DockBuilt ==
    /\ dock = <<>> /\ dock' = <<settingsFile.dock>>
    /\ UNCHANGED <<copy, settingsFile, loaded, watching, event, reloadTimer, choices, others, unseen>>

WatchStarts ==
    /\ dock # <<>> /\ watching = "off" /\ watching' = "on"
    /\ UNCHANGED <<copy, settingsFile, loaded, dock, event, reloadTimer, choices, others, unseen>>

\* _on_settings_changed: the events of one save are coalesced.
SettingsChanged ==
    /\ event = "on" /\ event' = "off" /\ reloadTimer' = "on"
    /\ UNCHANGED <<copy, settingsFile, loaded, dock, watching, choices, others, unseen>>

\* Seeded bug: what the dock was built from is laid out again.
LayoutAtStart == dock

Layout == <<settingsFile.dock>>

\* _reload_dock_settings.
ReloadDock ==
    /\ reloadTimer = "on" /\ reloadTimer' = "off" /\ dock' = Layout
    /\ UNCHANGED <<copy, settingsFile, loaded, watching, event, choices, others, unseen>>

\* The shell is killed and started again.
ShellStops ==
    /\ CountsOther /\ dock # <<>> /\ dock' = <<>>
    /\ watching' = "off" /\ event' = "off" /\ reloadTimer' = "off"
    /\ unseen' = "off" /\ UNCHANGED <<copy, settingsFile, loaded, choices>>

FileNext ==
    \/ SettingsOpens \/ Chooses \/ SettingsCloses \/ LoadsForShield \/ SavesShield
    \/ DockBuilt \/ WatchStarts \/ SettingsChanged \/ ReloadDock \/ ShellStops

-----------------------------------------------------------------------------
(* The power profile.                                                      *)

CountsProfile == profiles < MaxProfiles /\ profiles' = profiles + 1

\* _start_power_profile_job: Refresh, the Performance page, or Set profile
\* with one that is not the shown one.
StartsProfileJob(selected) ==
    /\ CountsProfile /\ profileJob.at = "none"
    /\ selected # "none" => profileControls = "on" /\ shownProfile # <<selected>>
    /\ profileJob' = [NoProfileJob EXCEPT !.at = "queries", !.selected = selected]
    /\ profileControls' = "off" /\ UNCHANGED <<profile, shownProfile, profileElsewhere>>

\* _power_profile_worker: each command has a time limit, and whatever is
\* raised is a result without a state.  A profile that was set is read back.
ProfileWorks ==
    /\ \/ /\ profileJob.at = "queries"
          /\ IF profileJob.selected = "none"
             THEN /\ profileJob' = [profileJob EXCEPT !.at = "posted", !.result = <<profile>>]
                  /\ profileElsewhere' = "off"
             ELSE profileJob' = [profileJob EXCEPT !.at = "sets"] /\ UNCHANGED profileElsewhere
          /\ UNCHANGED profile
       \/ /\ profileJob.at = "sets" /\ profile' \in {profile, profileJob.selected}
          /\ profileJob' = [profileJob EXCEPT !.at = "verifies"] /\ UNCHANGED profileElsewhere
       \/ /\ profileJob.at = "verifies"
          /\ profileJob' = [profileJob EXCEPT !.at = "posted", !.result = <<profile>>]
          /\ profileElsewhere' = "off" /\ UNCHANGED profile
       \/ /\ profileJob.at \in {"queries", "verifies"}
          /\ profileJob' = [profileJob EXCEPT !.at = "posted"]
          /\ UNCHANGED <<profile, profileElsewhere>>
    /\ UNCHANGED <<shownProfile, profileControls, profiles>>

\* _apply_power_profile_result.
ProfileApplied ==
    /\ profileJob.at = "posted"
    /\ shownProfile' = profileJob.result /\ profileJob' = NoProfileJob
    /\ profileControls' = IF profileJob.result = <<>> THEN "refresh" ELSE "on"
    /\ UNCHANGED <<profile, profiles, profileElsewhere>>

ProfileChangesElsewhere ==
    /\ CountsProfile /\ profile' \in ProfileNames \ {profile} /\ profileElsewhere' = "on"
    /\ UNCHANGED <<shownProfile, profileJob, profileControls>>

ProfileNext ==
    \/ \E selected \in ProfileNames \cup {"none"} : StartsProfileJob(selected)
    \/ ProfileWorks \/ ProfileApplied \/ ProfileChangesElsewhere

-----------------------------------------------------------------------------
(* Updates.                                                                *)

ChecksUpdates ==
    /\ checkButton = "on" /\ checkButton' = "off" /\ updateJobs' = updateJobs \cup {"check"}
    /\ UNCHANGED <<installButton, updatesFound, installedEarly, lostWorker>>

\* checkupdates: updates, none, or an error.
CheckEnds ==
    /\ "check" \in updateJobs
    /\ \E end \in {"checked", "failed"} : updateJobs' = (updateJobs \ {"check"}) \cup {end}
    /\ UNCHANGED <<checkButton, installButton, updatesFound, installedEarly, lostWorker>>

UpdatesChecked ==
    /\ updateJobs \cap {"checked", "failed"} # {}
    /\ installButton' = IF "checked" \in updateJobs THEN updatesFound ELSE "off"
    /\ updateJobs' = updateJobs \ {"checked", "failed"} /\ checkButton' = "on" /\ lostWorker' = "off"
    /\ UNCHANGED <<updatesFound, installedEarly>>

\* Seeded bug: only the other button is insensitive during an installation.
StillOn == installButton

Insensitive == "off"

InstallsUpdates ==
    /\ installButton = "on" /\ installButton' = Insensitive /\ checkButton' = "off"
    /\ installedEarly' = IF updateJobs = {} THEN installedEarly ELSE "on"
    /\ updateJobs' = updateJobs \cup {"install"} /\ UNCHANGED <<updatesFound, lostWorker>>

InstallEnds ==
    /\ "install" \in updateJobs /\ updatesFound' \in {updatesFound, "off"}
    /\ updateJobs' = (updateJobs \ {"install"}) \cup {"installed"}
    /\ UNCHANGED <<checkButton, installButton, installedEarly, lostWorker>>

UpdatesInstalled ==
    /\ "installed" \in updateJobs /\ updateJobs' = updateJobs \ {"installed"}
    /\ checkButton' = "on" /\ lostWorker' = "off"
    /\ UNCHANGED <<installButton, updatesFound, installedEarly>>

\* The worker catches a missing program and a timeout.  Whatever else the command
\* raises (it may not be run, its output is no text) ends the thread, and nothing
\* is handed to the main loop.
WorkerDies(job) ==
    /\ job \in updateJobs /\ updateJobs' = updateJobs \ {job} /\ lostWorker' = "on"
    /\ updatesFound' \in IF job = "install" THEN {updatesFound, "off"} ELSE {updatesFound}
    /\ UNCHANGED <<checkButton, installButton, installedEarly>>

UpdatesNext ==
    \/ ChecksUpdates \/ CheckEnds \/ UpdatesChecked
    \/ InstallsUpdates \/ InstallEnds \/ UpdatesInstalled
    \/ \E job \in {"check", "install"} : WorkerDies(job)

SettingsNext ==
    \/ FileNext /\ UNCHANGED <<profileVars, updateVars>>
    \/ ProfileNext /\ UNCHANGED <<fileVars, updateVars>>
    \/ UpdatesNext /\ UNCHANGED <<fileVars, profileVars>>

SettingsSpec == SettingsInit /\ [][SettingsNext]_settingsVars

-----------------------------------------------------------------------------
\* The dock is laid out as the file says once no event and no timer is left,
\* through overlapping saves, closed windows and restarts of the shell, unless
\* the file was saved between the building of the dock and its watch.
DockFollowsFile ==
    dock # <<>> /\ watching = "on" /\ event = "off" /\ reloadTimer = "off"
        /\ unseen = "off" => dock = <<settingsFile.dock>>

\* No control of the power profile stays insensitive without a worker, what is
\* shown is what the daemon said last, and no update is installed twice at a
\* time, unless a check was under way when Install was pressed.  Updates can be
\* looked for again after every end of a job, but not when its thread ended with
\* an exception it does not catch: the button then stays as it was.
SettingsWork ==
    /\ profileControls = "off" <=> profileJob.at # "none"
    /\ profileJob.at = "none" /\ profileElsewhere = "off" /\ shownProfile # <<>> => shownProfile = <<profile>>
    /\ "install" \in updateJobs /\ installedEarly = "off" => installButton = "off"
    /\ updateJobs = {} /\ lostWorker = "off" => checkButton = "on"
=============================================================================
