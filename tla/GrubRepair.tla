------------------------------ MODULE GrubRepair ------------------------------
(***************************************************************************)
(* The bootloader repair (darkos-grub-install.sh), which the installer,    *)
(* the first boot's service and an administrator may run, also at the same *)
(* time.  A run is killed, or a command of it fails, between any two of    *)
(* its steps; the programs that write a boot artifact in place begin and   *)
(* end in steps of their own.  The service is started at every boot that   *)
(* finds no completion marker.                                             *)
(***************************************************************************)
EXTENDS Naturals

CONSTANTS
    Runs,       \* the processes that may run the script
    Service,    \* the one that systemd starts
    Parts,      \* the partitions of the machine
    Kinds,      \* what findmnt and lsblk may say of one
    MaxFaults,  \* bound: failures, kills and crashes
    MaxManual   \* bound: runs started by the installer or by hand

None == "none"

Disks == {"root disk", "other disk"}

\* What validate_mounted_esp and select_fallback_esp look at.
Partition == [fat : BOOLEAN, physical : BOOLEAN, espType : BOOLEAN, disk : Disks]

ASSUME ConstantsOK ==
    /\ Service \in Runs
    /\ None \notin Runs /\ None \notin Parts
    /\ MaxFaults \in Nat /\ MaxManual \in Nat
    /\ Kinds \subseteq Partition

VARIABLES
    part,       \* the partitions, as formatted
    rootKnown,  \* whether fstab leads to the disk of the root file system
    fstab,      \* the partition fstab mounts on /boot/efi
    mounted,    \* the one that is mounted there
    standard,   \* the preset is standard and the archiso drop-in is gone
    plymouth,   \* the hook is in mkinitcpio.conf
    console,    \* /etc/default/grub has the text mode options
    image,      \* the initramfs
    loaders,    \* the partitions with a complete BOOTX64.EFI
    tmpCfg,     \* what grub-mkconfig wrote beside the live grub.cfg
    cfg,        \* the live grub.cfg
    marker,     \* whether the completion marker exists
    lock,       \* who holds the lock
    pc,         \* where each run is
    faults, manual

machineVars == <<part, rootKnown, fstab>>
artifactVars == <<standard, plymouth, console, image, loaders, tmpCfg, cfg>>
boundVars == <<faults, manual>>
vars == <<machineVars, mounted, artifactVars, marker, lock, pc, boundVars>>

Steps == {"off", "started", "locked", "unmarked", "preset", "building", "built",
          "options", "mounting", "validated", "installing", "installed",
          "generating", "generated", "switched"}

MachineType ==
    /\ part \in [Parts -> Kinds]
    /\ rootKnown \in BOOLEAN
    /\ fstab \in Parts \cup {None} /\ mounted \in Parts \cup {None}

FlagType ==
    /\ standard \in BOOLEAN /\ plymouth \in BOOLEAN
    /\ console \in BOOLEAN /\ marker \in BOOLEAN

FileType ==
    /\ image \in {"live", "partial", "ours"}
    /\ loaders \subseteq Parts
    /\ tmpCfg \in {None, "partial", "no entry", "valid", "dated"}
    /\ cfg \in {None, "partial", "no entry", "valid", "dated"}

RunType ==
    /\ lock \in Runs \cup {None}
    /\ pc \in [Runs -> Steps]
    /\ faults \in 0..MaxFaults /\ manual \in 0..MaxManual

\* The machine, the boot artifacts and the runs keep their types.
TypeOK == MachineType /\ FlagType /\ FileType /\ RunType

-----------------------------------------------------------------------------
(* The ESP: validation and the choice of a fallback.                       *)

\* What validate_mounted_esp and the candidate filter ask of a partition.
IsESP(p) == part[p].fat /\ part[p].physical /\ part[p].espType

Candidates == {p \in Parts : IsESP(p)}
SameDisk == {p \in Candidates : rootKnown /\ part[p].disk = "root disk"}

\* Seeded bug: the first candidate is taken, on whatever disk.
FirstCandidate == IF Candidates = {} THEN {} ELSE {CHOOSE p \in Candidates : TRUE}

\* select_fallback_esp: the partition it sets FALLBACK_ESP to, if any.
FallbackEsp ==
    IF SameDisk # {}
    THEN {p \in SameDisk : SameDisk = {p}}
    ELSE {p \in Candidates : Candidates = {p}}

-----------------------------------------------------------------------------

\* A machine as the installer leaves it or as an earlier repair did: any
\* layout, a configuration from before or none, and no marker.
Init ==
    /\ part \in [Parts -> Kinds] /\ rootKnown \in BOOLEAN
    /\ fstab \in Parts \cup {None} /\ mounted \in {fstab, None}
    /\ standard = FALSE /\ plymouth \in BOOLEAN /\ console = FALSE
    /\ image = "live" /\ loaders = {}
    /\ tmpCfg = None /\ cfg \in {None, "no entry", "dated"}
    /\ marker = FALSE /\ lock = None
    /\ pc = [r \in Runs |-> "off"]
    /\ faults = 0 /\ manual = 0

At(r, step) == pc[r] = step
GoTo(r, step) == pc' = [pc EXCEPT ![r] = step]

\* The script exits: its lock is released and its temporary files removed.
Exit(r) ==
    /\ GoTo(r, "off")
    /\ lock' = IF lock = r THEN None ELSE lock
    /\ tmpCfg' = IF lock = r THEN None ELSE tmpCfg

\* Calamares or an administrator starts the script.
Start(r) ==
    /\ r # Service /\ At(r, "off") /\ manual < MaxManual
    /\ manual' = manual + 1
    /\ GoTo(r, "started")
    /\ UNCHANGED <<machineVars, mounted, artifactVars, marker, lock, faults>>

\* Seeded bug: no lock.
LockUnchecked == TRUE

LockFree == lock = None

\* flock -n: the second run gives up and leaves the marker alone.
TakeLock(r) ==
    /\ At(r, "started") /\ LockFree
    /\ lock' = r
    /\ GoTo(r, "locked")
    /\ UNCHANGED <<machineVars, mounted, artifactVars, marker, boundVars>>

LockBusy(r) ==
    /\ At(r, "started") /\ ~LockFree
    /\ GoTo(r, "off")
    /\ UNCHANGED <<machineVars, mounted, artifactVars, marker, lock, boundVars>>

MarkerRemoved == FALSE

RemoveMarker(r) ==
    /\ At(r, "locked")
    /\ marker' = MarkerRemoved
    /\ GoTo(r, "unmarked")
    /\ UNCHANGED <<machineVars, mounted, artifactVars, lock, boundVars>>

\* The preset, the drop-in and, after the checks of kernel and configuration,
\* the Plymouth hook and theme.
WritePreset(r) ==
    /\ At(r, "unmarked")
    /\ standard' = TRUE
    /\ GoTo(r, "preset")
    /\ UNCHANGED <<machineVars, mounted, plymouth, console, image, loaders, tmpCfg, cfg,
                   marker, lock, boundVars>>

HookAdded == TRUE

\* The hook is added where there is none, and mkinitcpio starts to write.
BeginImage(r) ==
    /\ At(r, "preset")
    /\ plymouth' = HookAdded
    /\ image' = "partial"
    /\ GoTo(r, "building")
    /\ UNCHANGED <<machineVars, mounted, standard, console, loaders, tmpCfg, cfg,
                   marker, lock, boundVars>>

\* mkinitcpio -P succeeds and both images are there.
EndImage(r) ==
    /\ At(r, "building")
    /\ image' = IF standard /\ plymouth THEN "ours" ELSE "live"
    /\ GoTo(r, "built")
    /\ UNCHANGED <<machineVars, mounted, standard, plymouth, console, loaders, tmpCfg,
                   cfg, marker, lock, boundVars>>

SetGrubOptions(r) ==
    /\ At(r, "built")
    /\ console' = TRUE
    /\ GoTo(r, "options")
    /\ UNCHANGED <<machineVars, mounted, standard, plymouth, image, loaders, tmpCfg, cfg,
                   marker, lock, boundVars>>

\* Nothing is mounted: fstab is tried, and when it has no entry or its mount
\* fails, the fallback.
MountEsp(r) ==
    /\ At(r, "options") /\ mounted = None
    /\ \/ mounted' = fstab /\ fstab # None
       \/ mounted' \in FallbackEsp
    /\ GoTo(r, "mounting")
    /\ UNCHANGED <<machineVars, artifactVars, marker, lock, boundVars>>

\* No entry and no unambiguous fallback: the repair fails.
NoEsp(r) ==
    /\ At(r, "options") /\ mounted = None /\ fstab = None /\ FallbackEsp = {}
    /\ Exit(r)
    /\ UNCHANGED <<machineVars, mounted, standard, plymouth, console, image, loaders, cfg,
                   marker, boundVars>>

AlreadyMounted(r) ==
    /\ At(r, "options") /\ mounted # None
    /\ GoTo(r, "mounting")
    /\ UNCHANGED <<machineVars, mounted, artifactVars, marker, lock, boundVars>>

EspIsValid == IsESP(mounted)

\* validate_mounted_esp after each of the three ways.
ValidateEsp(r) ==
    /\ At(r, "mounting")
    /\ IF EspIsValid
       THEN GoTo(r, "validated") /\ UNCHANGED <<lock, tmpCfg>>
       ELSE Exit(r)
    /\ UNCHANGED <<machineVars, mounted, standard, plymouth, console, image, loaders, cfg,
                   marker, boundVars>>

\* grub-install replaces the loader in place ...
BeginLoader(r) ==
    /\ At(r, "validated")
    /\ loaders' = loaders \ {mounted}
    /\ GoTo(r, "installing")
    /\ UNCHANGED <<machineVars, mounted, standard, plymouth, console, image, tmpCfg, cfg,
                   marker, lock, boundVars>>

\* ... and BOOTX64.EFI is there.
EndLoader(r) ==
    /\ At(r, "installing")
    /\ loaders' = loaders \cup {mounted}
    /\ GoTo(r, "installed")
    /\ UNCHANGED <<machineVars, mounted, standard, plymouth, console, image, tmpCfg, cfg,
                   marker, lock, boundVars>>

\* Seeded bug: the configuration is generated where it is used.
CfgInPlace == "partial"

CfgMeanwhile == cfg

\* grub-mkconfig starts to write beside the live configuration ...
BeginCfg(r) ==
    /\ At(r, "installed")
    /\ tmpCfg' = "partial"
    /\ cfg' = CfgMeanwhile
    /\ GoTo(r, "generating")
    /\ UNCHANGED <<machineVars, mounted, standard, plymouth, console, image, loaders,
                   marker, lock, boundVars>>

\* ... and reports success, with a kernel entry or without.
EndCfg(r) ==
    /\ At(r, "generating")
    /\ \/ /\ tmpCfg' = IF console THEN "valid" ELSE "dated"
          /\ faults' = faults
       \/ /\ tmpCfg' = "no entry"
          /\ faults < MaxFaults /\ faults' = faults + 1
    /\ GoTo(r, "generated")
    /\ UNCHANGED <<machineVars, mounted, standard, plymouth, console, image, loaders, cfg,
                   marker, lock, manual>>

CfgHasEntry == tmpCfg \in {"valid", "dated"}

\* The three greps, then the move onto grub.cfg.
SwitchCfg(r) ==
    /\ At(r, "generated")
    /\ IF CfgHasEntry
       THEN cfg' = tmpCfg /\ tmpCfg' = None /\ GoTo(r, "switched") /\ UNCHANGED lock
       ELSE Exit(r) /\ UNCHANGED cfg
    /\ UNCHANGED <<machineVars, mounted, standard, plymouth, console, image, loaders,
                   marker, boundVars>>

\* The marker is moved into place and the script exits.
WriteMarker(r) ==
    /\ At(r, "switched")
    /\ marker' = TRUE
    /\ Exit(r)
    /\ UNCHANGED <<machineVars, mounted, standard, plymouth, console, image, loaders, cfg,
                   boundVars>>

\* A command fails, or the script is killed.  A tool it was running ends with
\* it, for it holds the lock's descriptor too.
Fail(r) ==
    /\ ~At(r, "off") /\ faults < MaxFaults
    /\ faults' = faults + 1
    /\ Exit(r)
    /\ UNCHANGED <<machineVars, mounted, standard, plymouth, console, image, loaders, cfg,
                   marker, manual>>

\* Seeded bug: the service is for machines without a configuration.
NoCfgYet == cfg = None

ServiceWanted == ~marker

\* The machine boots, mounts what fstab says if it can, and starts the service
\* when there is no marker.
Boot ==
    /\ \/ (\A r \in Runs : At(r, "off")) /\ faults' = faults
       \/ faults < MaxFaults /\ faults' = faults + 1
    /\ pc' = [r \in Runs |-> IF r = Service /\ ServiceWanted THEN "started" ELSE "off"]
    /\ lock' = None
    /\ tmpCfg' = None
    /\ mounted' \in {fstab, None}
    /\ UNCHANGED <<machineVars, standard, plymouth, console, image, loaders, cfg, marker,
                   manual>>

Step(r) ==
    \/ TakeLock(r) \/ LockBusy(r) \/ RemoveMarker(r) \/ WritePreset(r)
    \/ BeginImage(r) \/ EndImage(r) \/ SetGrubOptions(r)
    \/ MountEsp(r) \/ NoEsp(r) \/ AlreadyMounted(r) \/ ValidateEsp(r)
    \/ BeginLoader(r) \/ EndLoader(r) \/ BeginCfg(r) \/ EndCfg(r) \/ SwitchCfg(r)
    \/ WriteMarker(r)

Next ==
    \/ \E r \in Runs : Start(r) \/ Step(r) \/ Fail(r)
    \/ Boot

\* The commands of a run end, and a machine that is not being repaired is
\* restarted some time.
Fairness == WF_vars(Boot) /\ \A r \in Runs : WF_vars(Step(r))

Spec == Init /\ [][Next]_vars /\ Fairness

-----------------------------------------------------------------------------
(* Properties.                                                             *)

\* "systemd only skips the repair once a real config has been verified": while
\* the marker is there the machine boots into DarkOS, whatever ran at the same
\* time, failed or was killed before.
Bootable ==
    /\ image = "ours"
    /\ cfg = "valid"
    /\ \E p \in loaders : IsESP(p)
MarkerMeansBootable == marker => Bootable

\* "A failed generator must not truncate a previously bootable grub.cfg".
HasEntry(c) == c \in {"valid", "dated"}
BootableCfgKept == [][HasEntry(cfg) => HasEntry(cfg')]_vars

\* The loader is only ever written to a physical ESP, and without an fstab
\* entry never to another disk's while the root disk has one.
LoadersOnEsp ==
    \A p \in loaders :
        /\ IsESP(p)
        /\ fstab = None /\ SameDisk # {} => p \in SameDisk

\* A repair that failed or was cut short is made good by a later boot, where
\* fstab names an ESP or the choice of one is unambiguous.
Repairable == IF fstab # None THEN IsESP(fstab) ELSE FallbackEsp # {}
EventuallyRepaired == Repairable => []<>marker
=============================================================================
