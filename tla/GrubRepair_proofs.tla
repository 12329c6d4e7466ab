------------------------- MODULE GrubRepair_proofs -------------------------
(***************************************************************************)
(* Theorems about the bootloader repair: for any number of runs at the     *)
(* same time, any partitions and any number of failures, the marker means  *)
(* that the machine boots.                                                 *)
(***************************************************************************)
EXTENDS GrubRepair, TLAPS

\* The steps from the named one on.
Holding == Steps \ {"off", "started"}
FromUnmarked == Holding \ {"locked"}
FromPreset == FromUnmarked \ {"unmarked"}
FromBuilding == FromPreset \ {"preset"}
FromBuilt == FromBuilding \ {"building"}
FromOptions == FromBuilt \ {"built"}
FromValidated == FromOptions \ {"options", "mounting"}
FromInstalled == FromValidated \ {"validated", "installing"}

\* What a run that has come so far has done and nobody has undone.
RunInv(r) ==
    /\ pc[r] \in Holding => lock = r
    /\ pc[r] \in FromUnmarked => ~marker
    /\ pc[r] \in FromPreset => standard
    /\ pc[r] \in FromBuilding => plymouth
    /\ pc[r] \in FromBuilt => image = "ours"
    /\ pc[r] \in FromOptions => console
    /\ pc[r] = "mounting" => mounted # None
    /\ pc[r] \in FromValidated => mounted # None /\ IsESP(mounted)
    /\ pc[r] \in FromInstalled => mounted \in loaders
    /\ pc[r] = "generated" => tmpCfg \in {"valid", "no entry"}
    /\ pc[r] = "switched" => cfg = "valid"

RunsInv == \A r \in Runs : RunInv(r)

\* Without an fstab entry, what is mounted is what was chosen.
MountedByChoice == mounted # None /\ fstab = None => mounted \in FallbackEsp

IInv == TypeOK /\ RunsInv /\ MountedByChoice /\ LoadersOnEsp /\ MarkerMeansBootable

-----------------------------------------------------------------------------

\* A step of the run that holds the lock leaves the others' facts alone: they
\* are not past the lock and have none.
LEMMA HolderKeeps ==
  ASSUME TypeOK, RunsInv, NEW r \in Runs, pc[r] \in Holding, NEW s \in Steps,
         GoTo(r, s), RunInv(r)'
  PROVE  RunsInv'
<1>1. lock = r
  BY DEF RunsInv, RunInv
<1>2. ASSUME NEW q \in Runs, q # r PROVE RunInv(q)'
  <2>1. pc[q] \in Steps \ Holding
    BY <1>1, <1>2 DEF RunsInv, RunInv, TypeOK, RunType
  <2>2. pc'[q] = pc[q]
    BY <1>2 DEF GoTo, TypeOK, RunType
  <2> QED BY <2>1, <2>2 DEF RunInv, Holding, FromUnmarked, FromPreset, FromBuilding,
             FromBuilt, FromOptions, FromValidated, FromInstalled
<1> QED BY <1>2 DEF RunsInv

\* A run that exits has no facts left, and the others' stay what they were.
LEMMA ExitKeeps ==
  ASSUME TypeOK, RunsInv, NEW r \in Runs, Exit(r),
         UNCHANGED <<machineVars, mounted, standard, plymouth, console, image, loaders>>,
         lock = r \/ UNCHANGED <<cfg, marker>>
  PROVE  RunsInv'
<1>1. pc'[r] = "off" /\ RunInv(r)'
  BY DEF Exit, GoTo, TypeOK, RunType, RunInv, Holding, FromUnmarked, FromPreset,
     FromBuilding, FromBuilt, FromOptions, FromValidated, FromInstalled
<1>2. ASSUME NEW q \in Runs, q # r PROVE RunInv(q)'
  <2>1. pc'[q] = pc[q] /\ pc[q] \in Steps
    BY <1>2 DEF Exit, GoTo, TypeOK, RunType
  <2>2. CASE lock = r
    <3>1. pc[q] \in Steps \ Holding
      BY <2>1, <2>2, <1>2 DEF RunsInv, RunInv
    <3> QED BY <2>1, <3>1 DEF RunInv, Holding, FromUnmarked, FromPreset, FromBuilding,
               FromBuilt, FromOptions, FromValidated, FromInstalled
  <2>3. CASE lock # r
    <3>1. UNCHANGED <<part, mounted, standard, plymouth, console, image, loaders, tmpCfg,
                      cfg, marker, lock>>
      BY <2>3 DEF Exit, machineVars
    <3>2. RunInv(q)
      BY DEF RunsInv
    <3>3. /\ mounted' = mounted /\ image' = image /\ loaders' = loaders
          /\ tmpCfg' = tmpCfg /\ cfg' = cfg /\ lock' = lock
          /\ IsESP(mounted)' <=> IsESP(mounted)
      BY <3>1 DEF IsESP
    <3>4. /\ (standard' <=> standard) /\ (plymouth' <=> plymouth)
          /\ (console' <=> console) /\ (marker' <=> marker)
      <4>1. /\ standard' = standard /\ plymouth' = plymouth
            /\ console' = console /\ marker' = marker
        BY <3>1
      <4>2. (standard' <=> standard) /\ (plymouth' <=> plymouth)
        BY <4>1
      <4>3. (console' <=> console) /\ (marker' <=> marker)
        BY <4>1
      <4> QED BY <4>2, <4>3
    <3> HIDE <3>1
    <3> QED BY <2>1, <3>2, <3>3, <3>4 DEF RunInv
  <2> QED BY <2>2, <2>3
<1> QED BY <1>1, <1>2 DEF RunsInv

\* A run outside the lock has no facts, and disturbs none.
LEMMA OutsiderKeeps ==
  ASSUME TypeOK, RunsInv, NEW r \in Runs, NEW s \in {"off", "started"}, GoTo(r, s),
         UNCHANGED <<part, mounted, standard, plymouth, console, image, loaders, tmpCfg,
                     cfg, marker, lock>>
  PROVE  RunsInv'
<1>1. /\ standard' = standard /\ plymouth' = plymouth /\ console' = console
      /\ marker' = marker /\ part' = part /\ mounted' = mounted /\ image' = image
      /\ loaders' = loaders /\ tmpCfg' = tmpCfg /\ cfg' = cfg /\ lock' = lock
  OBVIOUS
<1>2. /\ (standard' <=> standard) /\ (plymouth' <=> plymouth)
      /\ (console' <=> console) /\ (marker' <=> marker)
  BY <1>1
<1>3. IsESP(mounted)' <=> IsESP(mounted)
  BY <1>1 DEF IsESP
<1>4. /\ mounted' = mounted /\ image' = image /\ loaders' = loaders
      /\ tmpCfg' = tmpCfg /\ cfg' = cfg /\ lock' = lock
  BY <1>1
<1> HIDE <1>1
<1>5. ASSUME NEW q \in Runs PROVE RunInv(q)'
  <2>1. CASE q = r
    <3>1. pc'[q] \in {"off", "started"}
      BY <2>1 DEF GoTo, TypeOK, RunType
    <3> QED BY <3>1 DEF RunInv, Holding, FromUnmarked, FromPreset, FromBuilding,
       FromBuilt, FromOptions, FromValidated, FromInstalled
  <2>2. CASE q # r
    <3>1. pc'[q] = pc[q] /\ RunInv(q)
      BY <2>2 DEF GoTo, TypeOK, RunType, RunsInv
    <3> QED BY <3>1, <1>2, <1>3, <1>4 DEF RunInv
  <2> QED BY <2>1, <2>2
<1> QED BY <1>5 DEF RunsInv

\* The choice of an ESP and its validity depend on the machine alone.
LEMMA MachineKeeps ==
  ASSUME UNCHANGED machineVars
  PROVE  /\ FallbackEsp' = FallbackEsp /\ SameDisk' = SameDisk
         /\ \A p \in Parts : IsESP(p)' <=> IsESP(p)
  BY DEF machineVars, FallbackEsp, SameDisk, Candidates, IsESP

\* The machine is what it was.
LEMMA MachineStays == [Next]_vars => UNCHANGED machineVars
  BY DEF Next, Step, vars, artifactVars, boundVars, Start, TakeLock, LockBusy, RemoveMarker,
       WritePreset, BeginImage, EndImage, SetGrubOptions, MountEsp, NoEsp, AlreadyMounted,
       ValidateEsp, BeginLoader, EndLoader, BeginCfg, EndCfg, SwitchCfg, WriteMarker, Fail,
       Boot

\* TypeOK is inductive with the facts about the run that installs the loader.
LEMMA NextType == TypeOK /\ RunsInv /\ [Next]_vars => TypeOK'
<1> SUFFICES ASSUME TypeOK, RunsInv, [Next]_vars PROVE TypeOK'
  OBVIOUS
<1> USE ConstantsOK
<1>1. MachineType /\ FlagType /\ FileType /\ RunType
  BY DEF TypeOK
<1>2. MachineType'
  <2>1. mounted' \in {mounted, fstab, None} \/ mounted' \in FallbackEsp
    BY DEF Next, Step, vars, artifactVars, boundVars, Start, TakeLock, LockBusy,
       RemoveMarker, WritePreset, BeginImage, EndImage, SetGrubOptions, MountEsp, NoEsp,
       AlreadyMounted, ValidateEsp, BeginLoader, EndLoader, BeginCfg, EndCfg, SwitchCfg,
       WriteMarker, Fail, Boot
  <2>2. FallbackEsp \subseteq Parts
    BY DEF FallbackEsp, SameDisk, Candidates
  <2> QED BY <1>1, <2>1, <2>2, MachineStays DEF MachineType, machineVars
<1>3. FlagType'
  <2>1. /\ standard' \in {standard, TRUE} /\ plymouth' \in {plymouth, TRUE}
        /\ console' \in {console, TRUE} /\ marker' \in {marker, TRUE, FALSE}
    BY DEF Next, Step, vars, artifactVars, boundVars, Start, TakeLock, LockBusy,
       RemoveMarker, WritePreset, BeginImage, EndImage, SetGrubOptions, MountEsp, NoEsp,
       AlreadyMounted, ValidateEsp, BeginLoader, EndLoader, BeginCfg, EndCfg, SwitchCfg,
       WriteMarker, Fail, Boot, HookAdded, MarkerRemoved
  <2> QED BY <1>1, <2>1 DEF FlagType
<1>4. FileType'
  <2>1. image' \in {image, "live", "partial", "ours"} /\ cfg' \in {cfg, tmpCfg}
        /\ tmpCfg' \in {tmpCfg, None, "partial", "no entry", "valid", "dated"}
    BY DEF Next, Step, vars, artifactVars, boundVars, Start, TakeLock, LockBusy,
       RemoveMarker, WritePreset, BeginImage, EndImage, SetGrubOptions, MountEsp, NoEsp,
       AlreadyMounted, ValidateEsp, BeginLoader, EndLoader, BeginCfg, EndCfg, SwitchCfg,
       WriteMarker, Fail, Boot, Exit, CfgMeanwhile
  <2>2. \/ loaders' \subseteq loaders
        \/ loaders' = loaders \cup {mounted} /\ \E r \in Runs : pc[r] = "installing"
    BY DEF Next, Step, vars, artifactVars, boundVars, Start, TakeLock, LockBusy,
       RemoveMarker, WritePreset, BeginImage, EndImage, SetGrubOptions, MountEsp, NoEsp,
       AlreadyMounted, ValidateEsp, BeginLoader, EndLoader, BeginCfg, EndCfg, SwitchCfg,
       WriteMarker, Fail, Boot, At
  <2>3. \A r \in Runs : pc[r] = "installing" => mounted # None
    BY DEF RunsInv, RunInv, FromValidated, FromOptions, FromBuilt, FromBuilding,
       FromPreset, FromUnmarked, Holding, Steps
  <2> QED BY <1>1, <2>1, <2>2, <2>3 DEF FileType, MachineType
<1>5. RunType'
  <2>1. lock' \in Runs \cup {None}
    BY <1>1 DEF RunType, Exit, Next, Step, vars, artifactVars, boundVars, Start,
       TakeLock, LockBusy, RemoveMarker, WritePreset, BeginImage, EndImage,
       SetGrubOptions, MountEsp, NoEsp, AlreadyMounted, ValidateEsp, BeginLoader,
       EndLoader, BeginCfg, EndCfg, SwitchCfg, WriteMarker, Fail, Boot
  <2>2. \/ pc' = pc \/ (\E r \in Runs, s \in Steps : pc' = [pc EXCEPT ![r] = s])
        \/ pc' \in [Runs -> Steps]
    BY DEF Exit, GoTo, Steps, Next, Step, vars, artifactVars, boundVars, Start, TakeLock,
       LockBusy, RemoveMarker, WritePreset, BeginImage, EndImage, SetGrubOptions,
       MountEsp, NoEsp, AlreadyMounted, ValidateEsp, BeginLoader, EndLoader, BeginCfg,
       EndCfg, SwitchCfg, WriteMarker, Fail, Boot
  <2>3. /\ faults' = faults \/ (faults < MaxFaults /\ faults' = faults + 1)
        /\ manual' = manual \/ (manual < MaxManual /\ manual' = manual + 1)
    BY DEF Next, Step, vars, artifactVars, boundVars, Start, TakeLock, LockBusy,
       RemoveMarker, WritePreset, BeginImage, EndImage, SetGrubOptions, MountEsp, NoEsp,
       AlreadyMounted, ValidateEsp, BeginLoader, EndLoader, BeginCfg, EndCfg, SwitchCfg,
       WriteMarker, Fail, Boot
  <2> QED BY <1>1, <2>1, <2>2, <2>3 DEF RunType
<1> QED BY <1>2, <1>3, <1>4, <1>5 DEF TypeOK

\* One step of the run that holds the lock establishes its next fact.
LEMMA StepRuns ==
  ASSUME TypeOK, RunsInv, NEW r \in Runs, Step(r)
  PROVE  RunsInv'
<1> USE ConstantsOK
<1>a. RunInv(r) /\ r # None
  BY DEF RunsInv
<1>c. FallbackEsp \subseteq Parts
  BY DEF FallbackEsp, SameDisk, Candidates
<1>b. \A s : GoTo(r, s) => pc'[r] = s
  BY DEF GoTo, TypeOK, RunType
<1>1. CASE RemoveMarker(r)
  <2>1. pc[r] \in Holding /\ GoTo(r, "unmarked") /\ lock' = lock
    BY <1>1 DEF RemoveMarker, At, Holding, Steps
  <2>2. RunInv(r)'
    BY <2>1, <1>1, <1>a, <1>b DEF RemoveMarker, MarkerRemoved, At, RunInv, IsESP, Steps,
       Holding, FromUnmarked, FromPreset, FromBuilding, FromBuilt, FromOptions,
       FromValidated, FromInstalled, artifactVars, machineVars
  <2> QED BY <2>1, <2>2, HolderKeeps DEF Steps
<1>2. CASE WritePreset(r)
  <2>1. pc[r] \in Holding /\ GoTo(r, "preset") /\ lock' = lock
    BY <1>2 DEF WritePreset, At, Holding, Steps
  <2>2. RunInv(r)'
    BY <2>1, <1>2, <1>a, <1>b DEF WritePreset, At, RunInv, IsESP, Steps, Holding,
       FromUnmarked, FromPreset, FromBuilding, FromBuilt, FromOptions, FromValidated,
       FromInstalled, artifactVars, machineVars
  <2> QED BY <2>1, <2>2, HolderKeeps DEF Steps
<1>3. CASE BeginImage(r)
  <2>1. pc[r] \in Holding /\ GoTo(r, "building") /\ lock' = lock
    BY <1>3 DEF BeginImage, At, Holding, Steps
  <2>2. RunInv(r)'
    BY <2>1, <1>3, <1>a, <1>b DEF BeginImage, HookAdded, At, RunInv, IsESP, Steps,
       Holding, FromUnmarked, FromPreset, FromBuilding, FromBuilt, FromOptions,
       FromValidated, FromInstalled, artifactVars, machineVars
  <2> QED BY <2>1, <2>2, HolderKeeps DEF Steps
<1>4. CASE EndImage(r)
  <2>1. pc[r] \in Holding /\ GoTo(r, "built") /\ lock' = lock
    BY <1>4 DEF EndImage, At, Holding, Steps
  <2>2. RunInv(r)'
    BY <2>1, <1>4, <1>a, <1>b DEF EndImage, At, RunInv, IsESP, Steps, Holding,
       FromUnmarked, FromPreset, FromBuilding, FromBuilt, FromOptions, FromValidated,
       FromInstalled, artifactVars, machineVars
  <2> QED BY <2>1, <2>2, HolderKeeps DEF Steps
<1>5. CASE SetGrubOptions(r)
  <2>1. pc[r] \in Holding /\ GoTo(r, "options") /\ lock' = lock
    BY <1>5 DEF SetGrubOptions, At, Holding, Steps
  <2>2. RunInv(r)'
    BY <2>1, <1>5, <1>a, <1>b DEF SetGrubOptions, At, RunInv, IsESP, Steps, Holding,
       FromUnmarked, FromPreset, FromBuilding, FromBuilt, FromOptions, FromValidated,
       FromInstalled, artifactVars, machineVars
  <2> QED BY <2>1, <2>2, HolderKeeps DEF Steps
<1>6. CASE MountEsp(r)
  <2>1. pc[r] \in Holding /\ GoTo(r, "mounting") /\ lock' = lock
    BY <1>6 DEF MountEsp, At, Holding, Steps
  <2>2. RunInv(r)'
    BY <2>1, <1>6, <1>a, <1>b, <1>c DEF MountEsp, At, RunInv, IsESP, Steps, Holding,
       FromUnmarked, FromPreset, FromBuilding, FromBuilt, FromOptions, FromValidated,
       FromInstalled, artifactVars, machineVars
  <2> QED BY <2>1, <2>2, HolderKeeps DEF Steps
<1>7. CASE AlreadyMounted(r)
  <2>1. pc[r] \in Holding /\ GoTo(r, "mounting") /\ lock' = lock
    BY <1>7 DEF AlreadyMounted, At, Holding, Steps
  <2>2. RunInv(r)'
    BY <2>1, <1>7, <1>a, <1>b DEF AlreadyMounted, At, RunInv, IsESP, Steps, Holding,
       FromUnmarked, FromPreset, FromBuilding, FromBuilt, FromOptions, FromValidated,
       FromInstalled, artifactVars, machineVars
  <2> QED BY <2>1, <2>2, HolderKeeps DEF Steps
<1>8. CASE BeginLoader(r)
  <2>1. pc[r] \in Holding /\ GoTo(r, "installing") /\ lock' = lock
    BY <1>8 DEF BeginLoader, At, Holding, Steps
  <2>2. RunInv(r)'
    BY <2>1, <1>8, <1>a, <1>b DEF BeginLoader, At, RunInv, IsESP, Steps, Holding,
       FromUnmarked, FromPreset, FromBuilding, FromBuilt, FromOptions, FromValidated,
       FromInstalled, artifactVars, machineVars
  <2> QED BY <2>1, <2>2, HolderKeeps DEF Steps
<1>9. CASE EndLoader(r)
  <2>1. pc[r] \in Holding /\ GoTo(r, "installed") /\ lock' = lock
    BY <1>9 DEF EndLoader, At, Holding, Steps
  <2>2. RunInv(r)'
    BY <2>1, <1>9, <1>a, <1>b DEF EndLoader, At, RunInv, IsESP, Steps, Holding,
       FromUnmarked, FromPreset, FromBuilding, FromBuilt, FromOptions, FromValidated,
       FromInstalled, artifactVars, machineVars
  <2> QED BY <2>1, <2>2, HolderKeeps DEF Steps
<1>10. CASE BeginCfg(r)
  <2>1. pc[r] \in Holding /\ GoTo(r, "generating") /\ lock' = lock
    BY <1>10 DEF BeginCfg, At, Holding, Steps
  <2>2. RunInv(r)'
    BY <2>1, <1>10, <1>a, <1>b DEF BeginCfg, CfgMeanwhile, At, RunInv, IsESP, Steps,
       Holding, FromUnmarked, FromPreset, FromBuilding, FromBuilt, FromOptions,
       FromValidated, FromInstalled, artifactVars, machineVars
  <2> QED BY <2>1, <2>2, HolderKeeps DEF Steps
<1>11. CASE EndCfg(r)
  <2>1. pc[r] \in Holding /\ GoTo(r, "generated") /\ lock' = lock
    BY <1>11 DEF EndCfg, At, Holding, Steps
  <2>2. RunInv(r)'
    BY <2>1, <1>11, <1>a, <1>b DEF EndCfg, At, RunInv, IsESP, Steps, Holding,
       FromUnmarked, FromPreset, FromBuilding, FromBuilt, FromOptions, FromValidated,
       FromInstalled, artifactVars, machineVars
  <2> QED BY <2>1, <2>2, HolderKeeps DEF Steps
<1>12. CASE TakeLock(r)
  <2>1. lock = None /\ lock' = r /\ pc'[r] = "locked"
    BY <1>12, <1>b DEF TakeLock, LockFree
  <2>2. RunInv(r)'
    BY <2>1 DEF RunInv, Steps, Holding, FromUnmarked, FromPreset, FromBuilding,
       FromBuilt, FromOptions, FromValidated, FromInstalled
  <2>3. ASSUME NEW q \in Runs, q # r PROVE RunInv(q)'
    <3>1. pc'[q] = pc[q] /\ RunInv(q) /\ pc[q] \in Steps
      BY <1>12, <2>3 DEF TakeLock, GoTo, TypeOK, RunType, RunsInv
    <3>2. pc[q] \notin Holding
      BY <2>1, <3>1 DEF RunInv
    <3> QED BY <3>1, <3>2 DEF RunInv, Holding, FromUnmarked, FromPreset, FromBuilding,
       FromBuilt, FromOptions, FromValidated, FromInstalled
  <2> QED BY <2>2, <2>3 DEF RunsInv
<1>13. CASE LockBusy(r)
  BY <1>13, OutsiderKeeps DEF LockBusy, artifactVars, machineVars
<1>14. CASE NoEsp(r)
  BY <1>14, ExitKeeps DEF NoEsp
<1>15. CASE ValidateEsp(r)
  <2>1. CASE EspIsValid
    <3>1. pc[r] \in Holding /\ GoTo(r, "validated") /\ lock' = lock
      BY <2>1, <1>15 DEF ValidateEsp, At, Holding, Steps
    <3>2. RunInv(r)'
      BY <2>1, <3>1, <1>15, <1>a, <1>b DEF ValidateEsp, EspIsValid, At, RunInv, IsESP,
         Steps, Holding, FromUnmarked, FromPreset, FromBuilding, FromBuilt, FromOptions,
         FromValidated, FromInstalled, machineVars
    <3> QED BY <3>1, <3>2, HolderKeeps DEF Steps
  <2>2. CASE ~EspIsValid
    BY <2>2, <1>15, ExitKeeps DEF ValidateEsp
  <2> QED BY <2>1, <2>2
<1>16. CASE SwitchCfg(r)
  <2>1. CASE CfgHasEntry
    <3>1. pc[r] \in Holding /\ GoTo(r, "switched") /\ lock' = lock
      BY <2>1, <1>16 DEF SwitchCfg, At, Holding, Steps
    <3>2. RunInv(r)'
      BY <2>1, <3>1, <1>16, <1>a, <1>b DEF SwitchCfg, CfgHasEntry, At, RunInv, IsESP, Steps,
         Holding, FromUnmarked, FromPreset, FromBuilding, FromBuilt, FromOptions,
     FromValidated, FromInstalled, machineVars
    <3> QED BY <3>1, <3>2, HolderKeeps DEF Steps
  <2>2. CASE ~CfgHasEntry
    BY <2>2, <1>16, ExitKeeps DEF SwitchCfg
  <2> QED BY <2>1, <2>2
<1>17. CASE WriteMarker(r)
  <2>1. lock = r
    BY <1>17, <1>a DEF WriteMarker, At, RunInv, Holding, Steps
  <2> QED BY <2>1, <1>17, ExitKeeps DEF WriteMarker
<1> QED BY <1>1, <1>2, <1>3, <1>4, <1>5, <1>6, <1>7, <1>8, <1>9, <1>10, <1>11, <1>12,
           <1>13, <1>14, <1>15, <1>16, <1>17 DEF Step

\* Every step keeps the facts of all runs.
LEMMA NextRuns == TypeOK /\ RunsInv /\ [Next]_vars => RunsInv'
<1> SUFFICES ASSUME TypeOK, RunsInv, [Next]_vars PROVE RunsInv'
  OBVIOUS
<1>1. ASSUME NEW r \in Runs, Start(r) PROVE RunsInv'
  BY <1>1, OutsiderKeeps DEF Start, artifactVars, machineVars
<1>2. ASSUME NEW r \in Runs, Step(r) PROVE RunsInv'
  BY <1>2, StepRuns
<1>3. ASSUME NEW r \in Runs, Fail(r) PROVE RunsInv'
  BY <1>3, ExitKeeps DEF Fail
<1>4. CASE Boot
  <2>1. \A r \in Runs : pc'[r] \in {"off", "started"}
    BY <1>4 DEF Boot
  <2> QED BY <2>1 DEF RunsInv, RunInv, Holding, FromUnmarked, FromPreset, FromBuilding,
     FromBuilt, FromOptions, FromValidated, FromInstalled
<1>5. CASE UNCHANGED vars
  <2>1. /\ UNCHANGED <<part, mounted, standard, plymouth, console, image, loaders, tmpCfg,
                        cfg, marker, lock>>
        /\ pc' = pc
    BY <1>5 DEF vars, artifactVars, machineVars
  <2> QED BY <2>1 DEF RunsInv, RunInv, IsESP
<1> QED BY <1>1, <1>2, <1>3, <1>4, <1>5 DEF Next

\* What is mounted without fstab is what select_fallback_esp chose.
LEMMA NextChoice == TypeOK /\ MountedByChoice /\ [Next]_vars => MountedByChoice'
<1> SUFFICES ASSUME TypeOK, MountedByChoice, [Next]_vars PROVE MountedByChoice'
  OBVIOUS
<1>1. UNCHANGED machineVars /\ FallbackEsp' = FallbackEsp /\ fstab' = fstab
  BY MachineStays, MachineKeeps DEF machineVars
<1>2. mounted' \in {mounted, fstab, None} \/ mounted' \in FallbackEsp
  BY DEF Next, Step, vars, artifactVars, boundVars, Start, TakeLock, LockBusy, RemoveMarker,
       WritePreset, BeginImage, EndImage, SetGrubOptions, MountEsp, NoEsp, AlreadyMounted,
       ValidateEsp, BeginLoader, EndLoader, BeginCfg, EndCfg, SwitchCfg, WriteMarker, Fail,
       Boot
<1> QED BY <1>1, <1>2 DEF MountedByChoice

\* Every loader is installed on what was validated, and chosen if fstab is silent.
LEMMA NextLoaders ==
  TypeOK /\ RunsInv /\ MountedByChoice /\ LoadersOnEsp /\ [Next]_vars => LoadersOnEsp'
<1> SUFFICES ASSUME TypeOK, RunsInv, MountedByChoice, LoadersOnEsp, [Next]_vars
             PROVE  LoadersOnEsp'
  OBVIOUS
<1>1. /\ FallbackEsp' = FallbackEsp /\ SameDisk' = SameDisk /\ fstab' = fstab
      /\ \A p \in Parts : IsESP(p)' <=> IsESP(p)
  BY MachineStays, MachineKeeps DEF machineVars
<1>2. \/ loaders' \subseteq loaders
      \/ loaders' = loaders \cup {mounted} /\ \E r \in Runs : pc[r] = "installing"
  BY DEF At, Next, Step, vars, artifactVars, boundVars, Start, TakeLock, LockBusy,
     RemoveMarker, WritePreset, BeginImage, EndImage, SetGrubOptions, MountEsp, NoEsp,
     AlreadyMounted, ValidateEsp, BeginLoader, EndLoader, BeginCfg, EndCfg, SwitchCfg,
     WriteMarker, Fail, Boot
<1>3. \A r \in Runs : pc[r] = "installing" => mounted # None /\ IsESP(mounted)
  BY DEF RunsInv, RunInv, FromValidated, FromOptions, FromBuilt, FromBuilding,
     FromPreset, FromUnmarked, Holding, Steps
<1>4. \A p \in FallbackEsp : SameDisk # {} => p \in SameDisk
  BY DEF FallbackEsp
<1>5. loaders \subseteq Parts /\ (mounted # None => mounted \in Parts)
  BY DEF TypeOK, FileType, MachineType
<1> QED BY <1>1, <1>2, <1>3, <1>4, <1>5 DEF LoadersOnEsp, MountedByChoice

\* With the marker there, only steps before its removal happen; it comes back
\* with WriteMarker alone.
LEMMA MarkerFrames ==
  ASSUME [Next]_vars, marker', \A r \in Runs : pc[r] \in FromUnmarked => ~marker
  PROVE  \/ marker /\ image' = image /\ cfg' = cfg /\ loaders' = loaders
         \/ \E r \in Runs : WriteMarker(r)
<1>1. CASE \E r \in Runs : WriteMarker(r)
  BY <1>1
<1>2. CASE ~\E r \in Runs : WriteMarker(r)
  <2>1. marker
    BY <1>2 DEF MarkerRemoved, Next, Step, vars, artifactVars, boundVars, Start,
       TakeLock, LockBusy, RemoveMarker, WritePreset, BeginImage, EndImage,
       SetGrubOptions, MountEsp, NoEsp, AlreadyMounted, ValidateEsp, BeginLoader,
       EndLoader, BeginCfg, EndCfg, SwitchCfg, WriteMarker, Fail, Boot
  <2>2. \A r \in Runs : pc[r] \notin FromUnmarked
    BY <2>1
  <2>3. image' = image /\ cfg' = cfg /\ loaders' = loaders
    BY <2>2, <1>2 DEF FromUnmarked, Holding, Steps, At, CfgMeanwhile,
       Next, Step, vars, artifactVars, boundVars, Start, TakeLock, LockBusy, RemoveMarker,
       WritePreset, BeginImage, EndImage, SetGrubOptions, MountEsp, NoEsp, AlreadyMounted,
       ValidateEsp, BeginLoader, EndLoader, BeginCfg, EndCfg, SwitchCfg, WriteMarker, Fail,
       Boot
  <2> QED BY <2>1, <2>3
<1> QED BY <1>1, <1>2

\* The marker: the run that holds the lock removed it before it touched
\* anything, and sets it when it has everything in place.
LEMMA NextMarker ==
  TypeOK /\ RunsInv /\ MarkerMeansBootable /\ [Next]_vars => MarkerMeansBootable'
<1> SUFFICES ASSUME TypeOK, RunsInv, MarkerMeansBootable, [Next]_vars, marker'
             PROVE  Bootable'
  BY DEF MarkerMeansBootable
<1>1. \A p \in Parts : IsESP(p)' <=> IsESP(p)
  BY MachineStays, MachineKeeps
<1>2. \A r \in Runs : pc[r] \in FromUnmarked => ~marker
  BY DEF RunsInv, RunInv
<1>3. \/ marker /\ image' = image /\ cfg' = cfg /\ loaders' = loaders
      \/ \E r \in Runs : WriteMarker(r)
  BY <1>2, MarkerFrames
<1>4. CASE marker /\ image' = image /\ cfg' = cfg /\ loaders' = loaders
  BY <1>1, <1>4 DEF MarkerMeansBootable, Bootable, TypeOK, FileType
<1>5. CASE \E r \in Runs : WriteMarker(r)
  <2>1. PICK r \in Runs : WriteMarker(r)
    BY <1>5
  <2>2. image = "ours" /\ cfg = "valid" /\ mounted \in loaders /\ IsESP(mounted)
    BY <2>1 DEF WriteMarker, At, RunsInv, RunInv, FromBuilt, FromBuilding, FromPreset,
       FromUnmarked, Holding, Steps, FromInstalled, FromValidated, FromOptions
  <2>3. image' = image /\ cfg' = cfg /\ loaders' = loaders
    BY <2>1 DEF WriteMarker
  <2> QED BY <1>1, <2>2, <2>3 DEF Bootable, TypeOK, FileType
<1> QED BY <1>3, <1>4, <1>5

\* The invariant is inductive.
LEMMA InitIInv == Init => IInv
<1> SUFFICES ASSUME Init PROVE IInv
  OBVIOUS
<1> USE ConstantsOK
<1>1. ~marker /\ marker \in BOOLEAN /\ standard \in BOOLEAN /\ console \in BOOLEAN
  BY DEF Init
<1>2. TypeOK
  <2>1. MachineType /\ FileType
    BY DEF Init, MachineType, FileType
  <2>2. FlagType
    BY <1>1 DEF Init, FlagType
  <2>3. RunType
    <3>1. pc \in [Runs -> Steps] /\ lock = None
      BY DEF Init, Steps
    <3>2. 0 \in 0..MaxFaults /\ 0 \in 0..MaxManual
      OBVIOUS
    <3>3. faults = 0 /\ manual = 0
      BY DEF Init
    <3> QED BY <3>1, <3>2, <3>3 DEF RunType
  <2> QED BY <2>1, <2>2, <2>3 DEF TypeOK
<1>3. RunsInv
  BY DEF Init, RunsInv, RunInv, Holding, FromUnmarked, FromPreset, FromBuilding, FromBuilt,
     FromOptions, FromValidated, FromInstalled
<1>4. MountedByChoice /\ LoadersOnEsp
  BY DEF Init, MountedByChoice, LoadersOnEsp
<1>5. MarkerMeansBootable
  BY <1>1 DEF MarkerMeansBootable
<1> QED BY <1>2, <1>3, <1>4, <1>5 DEF IInv

LEMMA NextIInv == IInv /\ [Next]_vars => IInv'
  BY NextType, NextRuns, NextChoice, NextLoaders, NextMarker DEF IInv

\* The invariant holds throughout.
THEOREM InductiveInvariant == Spec => []IInv
  BY InitIInv, NextIInv, PTL DEF Spec

\* The machine, the boot artifacts and the runs keep their types.
THEOREM TypeCorrect == Spec => []TypeOK
<1>1. IInv => TypeOK
  BY DEF IInv
<1> QED BY <1>1, InductiveInvariant, PTL

\* While the completion marker is there, the image, the loader and the
\* configuration on disk are those of a complete repair.
THEOREM MarkerIsTrue == Spec => []MarkerMeansBootable
<1>1. IInv => MarkerMeansBootable
  BY DEF IInv
<1> QED BY <1>1, InductiveInvariant, PTL

\* No run installs a loader on anything but a validated ESP.
THEOREM LoadersStayOnEsp == Spec => []LoadersOnEsp
<1>1. IInv => LoadersOnEsp
  BY DEF IInv
<1> QED BY <1>1, InductiveInvariant, PTL

\* A grub.cfg with a kernel entry is only ever replaced by one that has it.
THEOREM CfgKept == Spec => BootableCfgKept
<1>1. [Next]_vars => (HasEntry(cfg) => HasEntry(cfg'))
  <2> SUFFICES ASSUME [Next]_vars PROVE HasEntry(cfg) => HasEntry(cfg')
    OBVIOUS
  <2>1. cfg' = cfg \/ (cfg' = tmpCfg /\ tmpCfg \in {"valid", "dated"})
    BY DEF CfgMeanwhile, CfgHasEntry, Next, Step, vars, artifactVars, boundVars, Start,
       TakeLock, LockBusy, RemoveMarker, WritePreset, BeginImage, EndImage,
       SetGrubOptions, MountEsp, NoEsp, AlreadyMounted, ValidateEsp, BeginLoader,
       EndLoader, BeginCfg, EndCfg, SwitchCfg, WriteMarker, Fail, Boot
  <2> QED BY <2>1 DEF HasEntry
<1> QED BY <1>1, PTL DEF Spec, BootableCfgKept
=============================================================================
