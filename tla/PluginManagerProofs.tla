-------------------------- MODULE PluginManagerProofs --------------------------
(***************************************************************************)
(* Theorems of PluginManager, for any number of requests, instances and    *)
(* versions, any runtime kind, any allowed calls and any faults (unless a  *)
(* theorem restricts them), and that it implements the token game.         *)
(***************************************************************************)
EXTENDS PluginManager, TLAPS

\* The tuples of unchanged variables, spelled out.
USE DEF db, disk, locals

--------------------------------------------------------------------------------
(* The inductive invariant.  A rollback writes back what the start had read: *)
(* neither the type of the row nor its enabled flag is preserved unless what *)
(* the handlers remember is part of the invariant.                           *)
IInv == TypeOK /\ LocalsOK /\ EnabledMatchesStatus

\* The same in three parts, by what an action has to preserve.
LocalInv ==
  /\ pc \in [Reqs -> Labels]
  /\ held \in [Reqs -> Handles]
  /\ seen \in [Reqs -> RowOrNone]
  /\ target \in [Reqs -> Versions \cup {NoVersion}]
  /\ LocalsOK
RowInv == registry \in RowOrNone /\ EnabledMatchesStatus
DataInv ==
  /\ versionRows \in [Versions -> [pending : Nat, installed : Nat]]
  /\ rows \subseteq Tables
  /\ handle \in Handles
  /\ alive \subseteq Instances
  /\ pkg \in [Versions -> PackageState]

LEMMA Parts == IInv <=> LocalInv /\ RowInv /\ DataInv
  BY DEF IInv, TypeOK, LocalInv, RowInv, DataInv

LEMMA PartsPrime == IInv' <=> LocalInv' /\ RowInv' /\ DataInv'
  BY DEF IInv, TypeOK, LocalInv, RowInv, DataInv

LEMMA InitInv == Init => IInv
<1> SUFFICES ASSUME Init PROVE IInv
  OBVIOUS
<1> USE DEF Init
<1>1. RowInv
  <2>1. CASE Pristine
    BY <2>1 DEF Pristine, RowInv, RowOrNone, NoRow, EnabledMatchesStatus
  <2>2. ASSUME NEW v \in Versions, Installed(v)
        PROVE  RowInv
    <3>1. registry \in Row
      BY <2>2 DEF Installed, Row, Status
    <3>. QED
      BY <2>2, <3>1 DEF Installed, RowInv, RowOrNone, EnabledMatchesStatus
  <2>. QED
    BY <2>1, <2>2
<1>2. versionRows \in [Versions -> [pending : Nat, installed : Nat]]
  BY DEF Pristine, Installed, NoRows
<1>3. rows \subseteq Tables /\ pkg \in [Versions -> PackageState]
  BY DEF Pristine, Installed, Tables, PackageState
<1>4. handle \in Handles /\ alive \subseteq Instances
  BY DEF Handles
<1>5. LocalInv
  BY DEF LocalInv, LocalsOK, Handles, RowOrNone, Labels, StartLabels, InstallLabels, Holding
<1>. QED
  BY <1>1, <1>2, <1>3, <1>4, <1>5, Parts DEF DataInv

\* Returning from a handler.
LEMMA ReturnLocal ==
  ASSUME LocalInv, NEW r \in Reqs, Return(r)
  PROVE  LocalInv'
  BY DEF LocalInv, LocalsOK, Return, Goto, Labels, Handles, RowOrNone,
         StartLabels, InstallLabels, Holding

\* Going on to another await of the same handler, with the same variables.
LEMMA ContinueLocal ==
  ASSUME LocalInv, NEW r \in Reqs, NEW label \in Labels, Continue(r, label),
         label \in StartLabels => pc[r] \in StartLabels,
         label \in InstallLabels => pc[r] \in InstallLabels,
         label \in Holding <=> pc[r] \in Holding
  PROVE  LocalInv'
  BY DEF LocalInv, LocalsOK, Continue, Goto

\* No row or a row in any of the three states can be written over like this.
LEMMA WriteRow ==
  ASSUME RowInv, NEW enabled \in BOOLEAN, NEW status \in Status,
         WriteIgnoringErrors(enabled, status),
         status = "running" => enabled,
         status = "installed" => ~enabled
  PROVE  RowInv'
<1>1. CASE UNCHANGED registry
  BY <1>1 DEF RowInv, EnabledMatchesStatus
<1>2. CASE update_plugin_runtime_state(enabled, status)
  <2>1. CASE Registered
    <3>1. registry \in Row
      BY <2>1 DEF RowInv, RowOrNone, Registered, NoRow
    <3>2. registry' = [registry EXCEPT !.enabled = enabled, !.status = status]
      BY <1>2, <2>1 DEF update_plugin_runtime_state
    <3>3. registry' \in Row /\ registry'.status = status /\ registry'.enabled = enabled
      BY <3>1, <3>2 DEF Row
    <3>. QED
      BY <3>3 DEF RowInv, RowOrNone, EnabledMatchesStatus
  <2>2. CASE ~Registered
    BY <1>2, <2>2
    DEF update_plugin_runtime_state, RowInv, RowOrNone, NoRow, EnabledMatchesStatus
  <2>. QED
    BY <2>1, <2>2
<1>. QED
  BY <1>1, <1>2 DEF WriteIgnoringErrors

--------------------------------------------------------------------------------
(* Each handler preserves the inductive invariant.                          *)

LEMMA StartInv ==
  ASSUME IInv, NEW r \in Reqs, Start(r)
  PROVE  IInv'
<1> SUFFICES LocalInv' /\ RowInv' /\ DataInv'
  BY PartsPrime
<1> USE Parts DEF At, Called
<1>1. CASE StartLoad(r)
  <2>1. registry \in Row /\ registry.status = "installed" /\ ~registry.enabled
    BY <1>1 DEF StartLoad, Startable, RowInv, RowOrNone, NoRow, EnabledMatchesStatus
  <2>2. LocalInv'
    BY <1>1, <2>1 DEF StartLoad, Goto, LocalInv, LocalsOK, RowOrNone, Labels,
       StartLabels, InstallLabels, Holding
  <2>. QED
    BY <1>1, <2>2 DEF StartLoad, RowInv, EnabledMatchesStatus, DataInv
<1>2. CASE StartLoadVersion(r)
  <2>1. LocalInv'
    BY <1>2, ReturnLocal, ContinueLocal
    DEF StartLoadVersion, Labels, StartLabels, InstallLabels, Holding
  <2>. QED
    BY <1>2, <2>1 DEF StartLoadVersion, RowInv, EnabledMatchesStatus, DataInv
<1>3. CASE StartReadManifest(r)
  <2>1. LocalInv'
    BY <1>3, ReturnLocal, ContinueLocal
    DEF StartReadManifest, Labels, StartLabels, InstallLabels, Holding
  <2>. QED
    BY <1>3, <2>1 DEF StartReadManifest, RowInv, EnabledMatchesStatus, DataInv
<1>4. CASE StartMarkRunning(r)
  <2>1. LocalInv'
    BY <1>4, ContinueLocal
    DEF StartMarkRunning, Labels, StartLabels, InstallLabels, Holding
  <2>2. RowInv'
    BY <1>4, WriteRow DEF StartMarkRunning, Status
  <2>. QED
    BY <1>4, <2>1, <2>2 DEF StartMarkRunning, DataInv
<1>5. CASE StartSpawn(r)
  <2> PICK i \in Fresh, label \in AfterSpawn :
         /\ alive' = alive \cup {i}
         /\ held' = [held EXCEPT ![r] = i]
         /\ Goto(r, label)
    BY <1>5 DEF StartSpawn
  <2>1. i \in Instances /\ i # NoHandle
    BY ConstantsAssumption DEF Fresh
  <2>2. label \in {"start_wait", "start_publish"}
    BY ConstantsAssumption DEF AfterSpawn
  <2>3. LocalInv'
    BY <1>5, <2>1, <2>2 DEF StartSpawn, Goto, LocalInv, LocalsOK, Handles, Labels,
       StartLabels, InstallLabels, Holding
  <2>. QED
    BY <1>5, <2>1, <2>3 DEF StartSpawn, RowInv, EnabledMatchesStatus, DataInv
<1>6. CASE StartSpawnFails(r)
  <2>1. LocalInv'
    BY <1>6, ContinueLocal
    DEF StartSpawnFails, Labels, StartLabels, InstallLabels, Holding
  <2>. QED
    BY <1>6, <2>1 DEF StartSpawnFails, RowInv, EnabledMatchesStatus, DataInv
<1>7. CASE StartReady(r)
  <2>1. LocalInv'
    BY <1>7, ContinueLocal
    DEF StartReady, Labels, StartLabels, InstallLabels, Holding
  <2>. QED
    BY <1>7, <2>1 DEF StartReady, RowInv, EnabledMatchesStatus, DataInv
<1>8. CASE StartHealthFails(r)
  <2>1. LocalInv'
    BY <1>8 DEF StartHealthFails, Goto, LocalInv, LocalsOK, Handles, Labels,
       StartLabels, InstallLabels, Holding
  <2>. QED
    BY <1>8, <2>1 DEF StartHealthFails, KillUnhealthy, RowInv, EnabledMatchesStatus, DataInv
<1>9. CASE StartPublish(r)
  <2>1. LocalInv'
    BY <1>9 DEF StartPublish, Goto, LocalInv, LocalsOK, Handles, Labels,
       StartLabels, InstallLabels, Holding
  <2>2. held[r] \in Handles
    BY DEF LocalInv
  <2>. QED
    BY <1>9, <2>1, <2>2
    DEF StartPublish, set_runtime_handle, RowInv, EnabledMatchesStatus, DataInv
<1>10. CASE StartNav(r)
  <2>1. LocalInv'
    BY <1>10, ReturnLocal DEF StartNav
  <2>. QED
    BY <1>10, <2>1 DEF StartNav, Tables, RowInv, EnabledMatchesStatus, DataInv
<1>11. CASE StartRollback(r)
  <2>1. LocalInv'
    BY <1>11, ReturnLocal DEF StartRollback
  <2>2. seen[r].status = "installed" /\ ~seen[r].enabled /\ seen[r].enabled \in BOOLEAN
    BY <1>11 DEF StartRollback, LocalInv, LocalsOK, StartLabels, Row
  <2>3. RowInv'
    BY <1>11, <2>2, WriteRow DEF StartRollback, RollbackState, Status
  <2>. QED
    BY <1>11, <2>1, <2>3 DEF StartRollback, DataInv
<1>. QED
  BY <1>1, <1>2, <1>3, <1>4, <1>5, <1>6, <1>7, <1>8, <1>9, <1>10, <1>11 DEF Start

LEMMA StopInv ==
  ASSUME IInv, NEW r \in Reqs, Stop(r)
  PROVE  IInv'
<1> SUFFICES LocalInv' /\ RowInv' /\ DataInv'
  BY PartsPrime
<1> USE Parts DEF At, Called
<1>1. CASE StopLoad(r)
  <2>1. LocalInv'
    BY <1>1, ContinueLocal
    DEF StopLoad, Labels, StartLabels, StopLabels, InstallLabels, Holding
  <2>. QED
    BY <1>1, <2>1 DEF StopLoad, RowInv, EnabledMatchesStatus, DataInv
<1>2. CASE StopClaim(r)
  <2>1. handle \in Handles /\ handle # NoHandle
    BY <1>2 DEF StopClaim, ClaimHandle, DataInv
  <2>2. LocalInv'
    BY <1>2, <2>1 DEF StopClaim, ClaimHandle, Goto, LocalInv, LocalsOK, Labels,
       StartLabels, StopLabels, InstallLabels, Holding
  <2>. QED
    BY <1>2, <2>2
    DEF StopClaim, ClaimHandle, remove_runtime_handle, Handles, RowInv,
        EnabledMatchesStatus, DataInv
<1>3. CASE StopNotFound(r)
  <2>1. LocalInv'
    BY <1>3, ReturnLocal
    DEF StopNotFound
  <2>. QED
    BY <1>3, <2>1 DEF StopNotFound, RowInv, EnabledMatchesStatus, DataInv
<1>4. CASE StopRuntime(r)
  <2>1. LocalInv'
    BY <1>4, ContinueLocal
    DEF StopRuntime, Labels, StartLabels, StopLabels, InstallLabels, Holding
  <2>2. alive' \subseteq Instances
    BY <1>4, ConstantsAssumption DEF StopRuntime, AliveAfterStop, DataInv
  <2>. QED
    BY <1>4, <2>1, <2>2 DEF StopRuntime, RowInv, EnabledMatchesStatus, DataInv
<1>5. CASE StopRuntimeFails(r)
  <2>1. LocalInv'
    BY <1>5, ContinueLocal
    DEF StopRuntimeFails, Labels, StartLabels, StopLabels, InstallLabels, Holding
  <2>. QED
    BY <1>5, <2>1 DEF StopRuntimeFails, RowInv, EnabledMatchesStatus, DataInv
<1>6. CASE StopCommit(r)
  <2>1. LocalInv'
    BY <1>6, ReturnLocal DEF StopCommit
  <2>2. RowInv'
    BY <1>6, WriteRow DEF StopCommit, CommitState, Status
  <2>. QED
    BY <1>6, <2>1, <2>2 DEF StopCommit, DataInv
<1>7. CASE StopRestore(r)
  <2>1. LocalInv'
    BY <1>7, ReturnLocal DEF StopRestore
  <2>2. held[r] \in Handles
    BY DEF LocalInv
  <2>. QED
    BY <1>7, <2>1, <2>2
    DEF StopRestore, RestoreHandle, set_runtime_handle, RowInv, EnabledMatchesStatus,
        DataInv
<1>. QED
  BY <1>1, <1>2, <1>3, <1>4, <1>5, <1>6, <1>7 DEF Stop

LEMMA UninstallInv ==
  ASSUME IInv, NEW r \in Reqs, Uninst(r)
  PROVE  IInv'
<1> SUFFICES LocalInv' /\ RowInv' /\ DataInv'
  BY PartsPrime
<1> USE Parts DEF At, Called
<1>1. CASE UninstallClaim(r)
  <2>1. handle \in Handles
    BY DEF DataInv
  <2>2. LocalInv'
    BY <1>1, <2>1 DEF UninstallClaim, ClaimHandle, Goto, LocalInv, LocalsOK, Labels,
       StartLabels, UninstallLabels, InstallLabels, Holding
  <2>3. handle' \in Handles
    BY <1>1, <2>1 DEF UninstallClaim, ClaimHandle, remove_runtime_handle, KeepHandle, Handles
  <2>. QED
    BY <1>1, <2>2, <2>3 DEF UninstallClaim, RowInv, EnabledMatchesStatus, DataInv
<1>2. CASE UninstallStop(r)
  <2>1. LocalInv'
    BY <1>2 DEF UninstallStop, Goto, LocalInv, LocalsOK, Handles, Labels,
       StartLabels, UninstallLabels, InstallLabels, Holding
  <2>2. alive' \subseteq Instances
    BY <1>2, ConstantsAssumption
    DEF UninstallStop, AliveAfterUninstall, AliveAfterStop, DataInv
  <2>. QED
    BY <1>2, <2>1, <2>2 DEF UninstallStop, RowInv, EnabledMatchesStatus, DataInv
<1>3. CASE UninstallStopFails(r)
  <2>1. LocalInv'
    BY <1>3, ReturnLocal
    DEF UninstallStopFails
  <2>. QED
    BY <1>3, <2>1 DEF UninstallStopFails, RowInv, EnabledMatchesStatus, DataInv
<1>4. CASE UninstallLoad(r)
  <2>1. registry \in RowOrNone
    BY DEF RowInv
  <2>2. LocalInv'
    BY <1>4, <2>1 DEF UninstallLoad, Goto, LocalInv, LocalsOK, Labels,
       StartLabels, UninstallLabels, InstallLabels, Holding
  <2>. QED
    BY <1>4, <2>2 DEF UninstallLoad, RowInv, EnabledMatchesStatus, DataInv
<1>5. CASE UninstallNotFound(r)
  <2>1. LocalInv'
    BY <1>5, ReturnLocal
    DEF UninstallNotFound
  <2>. QED
    BY <1>5, <2>1 DEF UninstallNotFound, RowInv, EnabledMatchesStatus, DataInv
<1>6. CASE UninstallDbError(r)
  <2>1. LocalInv'
    BY <1>6, ReturnLocal
    DEF UninstallDbError
  <2>. QED
    BY <1>6, <2>1 DEF UninstallDbError, RowInv, EnabledMatchesStatus, DataInv
<1>7. CASE UninstallPkill(r)
  <2>1. LocalInv'
    BY <1>7, ContinueLocal
    DEF UninstallPkill, Labels, StartLabels, UninstallLabels, InstallLabels, Holding
  <2>. QED
    BY <1>7, <2>1
    DEF UninstallPkill, RowInv, EnabledMatchesStatus, DataInv
<1>8. CASE UninstallDirs(r)
  <2>1. LocalInv'
    BY <1>8, ContinueLocal
    DEF UninstallDirs, Labels, StartLabels, UninstallLabels, InstallLabels, Holding
  <2>. QED
    BY <1>8, <2>1
    DEF UninstallDirs, PackageState, RowInv, EnabledMatchesStatus, DataInv
<1>9. CASE UninstallGrants(r)
  <2>1. LocalInv'
    BY <1>9, ContinueLocal
    DEF UninstallGrants, Labels, StartLabels, UninstallLabels, InstallLabels, Holding
  <2>. QED
    BY <1>9, <2>1
    DEF UninstallGrants, DeleteRows, RowInv, EnabledMatchesStatus, DataInv
<1>10. CASE UninstallVersions(r)
  <2>1. LocalInv'
    BY <1>10, ContinueLocal
    DEF UninstallVersions, Labels, StartLabels, UninstallLabels, InstallLabels, Holding
  <2>. QED
    BY <1>10, <2>1
    DEF UninstallVersions, DeleteVersions, NoRows, RowInv, EnabledMatchesStatus, DataInv
<1>11. CASE UninstallNav(r)
  <2>1. LocalInv'
    BY <1>11, ContinueLocal
    DEF UninstallNav, Labels, StartLabels, UninstallLabels, InstallLabels, Holding
  <2>. QED
    BY <1>11, <2>1
    DEF UninstallNav, DeleteRows, RowInv, EnabledMatchesStatus, DataInv
<1>12. CASE UninstallRegistry(r)
  <2>1. LocalInv'
    BY <1>12, ReturnLocal DEF UninstallRegistry
  <2>2. RowInv'
    BY <1>12 DEF UninstallRegistry, DeleteRegistry, RowInv, RowOrNone, NoRow,
       EnabledMatchesStatus
  <2>. QED
    BY <1>12, <2>1, <2>2 DEF UninstallRegistry, DataInv
<1>. QED
  BY <1>1, <1>2, <1>3, <1>4, <1>5, <1>6, <1>7, <1>8, <1>9, <1>10, <1>11, <1>12 DEF Uninst

LEMMA RegisterInv ==
  ASSUME IInv, NEW r \in Reqs, Register(r)
  PROVE  IInv'
<1> SUFFICES LocalInv' /\ RowInv' /\ DataInv'
  BY PartsPrime
<1> USE Parts DEF At, Called
<1>1. CASE RegisterCall(r)
  <2>1. LocalInv'
    BY <1>1 DEF RegisterCall, Goto, LocalInv, LocalsOK, Labels, StartLabels,
       InstallLabels, Holding
  <2>. QED
    BY <1>1, <2>1
    DEF RegisterCall, SetPackage, PackageState, RowInv, EnabledMatchesStatus, DataInv
<1>2. CASE RegisterExtract(r)
  <2>1. LocalInv'
    BY <1>2, ContinueLocal
    DEF RegisterExtract, Labels, StartLabels, InstallLabels, Holding
  <2>. QED
    BY <1>2, <2>1
    DEF RegisterExtract, SetPackage, PackageState, RowInv, EnabledMatchesStatus, DataInv
<1>3. CASE RegisterExtractFails(r)
  <2>1. LocalInv'
    BY <1>3, ReturnLocal
    DEF RegisterExtractFails
  <2>. QED
    BY <1>3, <2>1
    DEF RegisterExtractFails, SetPackage, PackageState, RowInv, EnabledMatchesStatus, DataInv
<1>4. CASE RegisterFindRow(r)
  <2>1. registry \in RowOrNone
    BY DEF RowInv
  <2>2. LocalInv'
    BY <1>4, <2>1 DEF RegisterFindRow, Goto, LocalInv, LocalsOK, Labels, StartLabels,
       InstallLabels, Holding
  <2>. QED
    BY <1>4, <2>2 DEF RegisterFindRow, RowInv, EnabledMatchesStatus, DataInv
<1>5. CASE RegisterWriteRow(r)
  <2>1. LocalInv'
    BY <1>5, ReturnLocal, ContinueLocal
    DEF RegisterWriteRow, Labels, StartLabels, InstallLabels, Holding
  <2>2. target[r] \in Versions
    BY <1>5 DEF RegisterWriteRow, LocalInv, LocalsOK, InstallLabels
  <2>3. registry.enabled \in BOOLEAN
    <3>1. registry \in Row => registry.enabled \in BOOLEAN
      BY DEF Row
    <3>2. NoRow.enabled = FALSE
      BY DEF NoRow
    <3>. QED
      BY <3>1, <3>2 DEF RowInv, RowOrNone
  <2>4. RegisteredRow(target[r]) \in Row /\ RegisteredRow(target[r]).status = "pending"
    BY <2>2, <2>3 DEF RegisteredRow, Row, Status
  <2>5. registry' \in {registry, RegisteredRow(target[r])}
    BY <1>5 DEF RegisterWriteRow
  <2>6. RowInv'
    BY <2>4, <2>5 DEF RowInv, RowOrNone, EnabledMatchesStatus
  <2>. QED
    BY <1>5, <2>1, <2>6 DEF RegisterWriteRow, DataInv
<1>6. CASE RegisterVersion(r)
  <2>1. LocalInv'
    BY <1>6, ContinueLocal
    DEF RegisterVersion, Labels, StartLabels, InstallLabels, Holding
  <2>2. target[r] \in Versions
    BY <1>6 DEF RegisterVersion, LocalInv, LocalsOK, InstallLabels
  <2>3. versionRows' \in [Versions -> [pending : Nat, installed : Nat]]
    BY <1>6, <2>2 DEF RegisterVersion, DataInv
  <2>. QED
    BY <1>6, <2>1, <2>3 DEF RegisterVersion, RowInv, EnabledMatchesStatus, DataInv
<1>7. CASE RegisterGrants(r)
  <2>1. LocalInv'
    BY <1>7, ReturnLocal
    DEF RegisterGrants
  <2>. QED
    BY <1>7, <2>1
    DEF RegisterGrants, Tables, RowInv, EnabledMatchesStatus, DataInv
<1>8. CASE RegisterDbError(r)
  <2>1. LocalInv'
    BY <1>8, ReturnLocal
    DEF RegisterDbError
  <2>. QED
    BY <1>8, <2>1
    DEF RegisterDbError, RowInv, EnabledMatchesStatus, DataInv
<1>9. CASE RegisterRemoveFails(r)
  <2>1. LocalInv'
    BY <1>9, ReturnLocal
    DEF RegisterRemoveFails
  <2>. QED
    BY <1>9, <2>1
    DEF RegisterRemoveFails, SetPackage, PackageState, RowInv, EnabledMatchesStatus, DataInv
<1>. QED
  BY <1>1, <1>2, <1>3, <1>4, <1>5, <1>6, <1>7, <1>8, <1>9 DEF Register

LEMMA MaterializeInv ==
  ASSUME IInv, NEW r \in Reqs, Materialize(r)
  PROVE  IInv'
<1> SUFFICES LocalInv' /\ RowInv' /\ DataInv'
  BY PartsPrime
<1> USE Parts DEF At, Called
<1>1. CASE MaterializeCall(r)
  <2>1. LocalInv'
    BY <1>1 DEF MaterializeCall, Goto, LocalInv, LocalsOK, Labels, StartLabels,
       InstallLabels, Holding
  <2>. QED
    BY <1>1, <2>1 DEF MaterializeCall, RowInv, EnabledMatchesStatus, DataInv
<1>2. CASE MaterializeCommands(r)
  <2>1. LocalInv'
    BY <1>2, ContinueLocal
    DEF MaterializeCommands, Labels, StartLabels, InstallLabels, Holding
  <2>. QED
    BY <1>2, <2>1
    DEF MaterializeCommands, SetPackage, PackageState, RowInv, EnabledMatchesStatus, DataInv
<1>3. CASE MaterializeCommandsFail(r)
  <2>1. LocalInv'
    BY <1>3, ReturnLocal
    DEF MaterializeCommandsFail
  <2>. QED
    BY <1>3, <2>1
    DEF MaterializeCommandsFail, SetPackage, PackageState, RowInv, EnabledMatchesStatus, DataInv
<1>4. CASE MaterializeLoadPrevious(r)
  <2>1. registry \in RowOrNone
    BY DEF RowInv
  <2>2. LocalInv'
    BY <1>4, <2>1 DEF MaterializeLoadPrevious, Goto, LocalInv, LocalsOK, Labels,
       StartLabels, InstallLabels, Holding
  <2>. QED
    BY <1>4, <2>2 DEF MaterializeLoadPrevious, RowInv, EnabledMatchesStatus, DataInv
<1>5. CASE MaterializeUpgrade(r)
  <2>1. LocalInv'
    BY <1>5, ContinueLocal
    DEF MaterializeUpgrade, Labels, StartLabels, InstallLabels, Holding
  <2>. QED
    BY <1>5, <2>1
    DEF MaterializeUpgrade, PackageState, RowInv, EnabledMatchesStatus, DataInv
<1>6. CASE MaterializeUpgradeFails(r)
  <2>1. LocalInv'
    BY <1>6, ReturnLocal
    DEF MaterializeUpgradeFails
  <2>. QED
    BY <1>6, <2>1
    DEF MaterializeUpgradeFails, SetPackage, PackageState, RowInv, EnabledMatchesStatus,
        DataInv
<1>7. CASE MaterializeFindRow(r)
  <2>1. LocalInv'
    BY <1>7, ContinueLocal
    DEF MaterializeFindRow, Labels, StartLabels, InstallLabels, Holding
  <2>. QED
    BY <1>7, <2>1
    DEF MaterializeFindRow, RowInv, EnabledMatchesStatus, DataInv
<1>8. CASE MaterializeWriteRow(r)
  <2>1. LocalInv'
    BY <1>8, ReturnLocal, ContinueLocal
    DEF MaterializeWriteRow, Labels, StartLabels, InstallLabels, Holding
  <2>2. target[r] \in Versions
    BY <1>8 DEF MaterializeWriteRow, LocalInv, LocalsOK, InstallLabels
  <2>3. /\ MaterializedRow(target[r]) \in Row
        /\ MaterializedRow(target[r]).status = "installed"
        /\ ~MaterializedRow(target[r]).enabled
    BY <2>2 DEF MaterializedRow, Row, Status
  <2>4. registry' \in {registry, MaterializedRow(target[r])}
    BY <1>8 DEF MaterializeWriteRow
  <2>5. RowInv'
    BY <2>3, <2>4 DEF RowInv, RowOrNone, EnabledMatchesStatus
  <2>. QED
    BY <1>8, <2>1, <2>5 DEF MaterializeWriteRow, DataInv
<1>9. CASE MaterializeVersion(r)
  <2>1. LocalInv'
    BY <1>9, ReturnLocal DEF MaterializeVersion
  <2>2. target[r] \in Versions
    BY <1>9 DEF MaterializeVersion, LocalInv, LocalsOK, InstallLabels
  <2>3. versionRows' \in [Versions -> [pending : Nat, installed : Nat]]
    BY <1>9, <2>2 DEF MaterializeVersion, MarkOneRow, MarkNoRow, DataInv
  <2>. QED
    BY <1>9, <2>1, <2>3 DEF MaterializeVersion, RowInv, EnabledMatchesStatus, DataInv
<1>10. CASE MaterializeDbError(r)
  <2>1. LocalInv'
    BY <1>10, ReturnLocal
    DEF MaterializeDbError
  <2>. QED
    BY <1>10, <2>1
    DEF MaterializeDbError, RowInv, EnabledMatchesStatus, DataInv
<1>. QED
  BY <1>1, <1>2, <1>3, <1>4, <1>5, <1>6, <1>7, <1>8, <1>9, <1>10 DEF Materialize

--------------------------------------------------------------------------------
(* Faults, and the step lemma.                                              *)

LEMMA FaultInv ==
  ASSUME IInv,
         Restart \/ (\E i \in Instances : Exit(i)) \/ (\E r \in Reqs : Disconnect(r))
  PROVE  IInv'
<1> SUFFICES LocalInv' /\ RowInv' /\ DataInv'
  BY PartsPrime
<1> USE Parts
<1>1. CASE Restart
  <2>1. LocalInv'
    BY <1>1 DEF Restart, LocalInv, LocalsOK, Handles, RowOrNone, Labels,
       StartLabels, InstallLabels, Holding
  <2>. QED
    BY <1>1, <2>1 DEF Restart, Interrupted, RowInv, EnabledMatchesStatus, DataInv, Handles
<1>2. ASSUME NEW i \in Instances, Exit(i)
      PROVE  LocalInv' /\ RowInv' /\ DataInv'
  BY <1>2 DEF Exit, LocalInv, LocalsOK, RowInv, EnabledMatchesStatus, DataInv
<1>3. ASSUME NEW r \in Reqs, Disconnect(r)
      PROVE  LocalInv' /\ RowInv' /\ DataInv'
  <2>1. LocalInv'
    BY <1>3, ReturnLocal DEF Disconnect
  <2>2. alive' \subseteq Instances
    BY <1>3, ConstantsAssumption DEF Disconnect, AliveAfterStop, DataInv
  <2>3. pkg' \in [Versions -> PackageState]
    BY <1>3 DEF Disconnect, Interrupted
  <2>. QED
    BY <1>3, <2>1, <2>2, <2>3 DEF Disconnect, RowInv, EnabledMatchesStatus, DataInv
<1>. QED
  BY <1>1, <1>2, <1>3

LEMMA StepInv == IInv /\ [Next]_vars => IInv'
<1> SUFFICES ASSUME IInv, [Next]_vars PROVE IInv'
  OBVIOUS
<1>1. ASSUME NEW r \in Reqs, Handler(r)
      PROVE  IInv'
  BY <1>1, StartInv, StopInv, UninstallInv, RegisterInv, MaterializeInv DEF Handler
<1>2. CASE UNCHANGED vars
  BY <1>2 DEF vars, IInv, TypeOK, LocalsOK, EnabledMatchesStatus
<1>. QED
  BY <1>1, <1>2, FaultInv DEF Next

LEMMA Invariance == Spec => []IInv
  BY InitInv, StepInv, PTL DEF Spec

--------------------------------------------------------------------------------
(* Type correctness: the row and the local copies of it keep their shape     *)
(* through every interleaving of the five handlers and every fault.          *)
THEOREM TypeCorrect == Spec => []TypeOK
<1>1. IInv => TypeOK
  BY DEF IInv
<1>. QED
  BY <1>1, Invariance, PTL

(* The enabled flag follows the status, whatever is called concurrently and  *)
(* whatever fails: running plugins are enabled, installed ones are not.      *)
THEOREM EnabledFollowsStatus == Spec => []EnabledMatchesStatus
<1>1. IInv => EnabledMatchesStatus
  BY DEF IInv
<1>. QED
  BY <1>1, Invariance, PTL

(* A start rolls back to an installed, not enabled row, and no handler keeps *)
(* a runtime handle past the point where it must have passed it on.          *)
THEOREM HandlersRemember == Spec => []LocalsOK
<1>1. IInv => LocalsOK
  BY DEF IInv
<1>. QED
  BY <1>1, Invariance, PTL

--------------------------------------------------------------------------------
(* The manager implements the token game of RuntimeOwnership: the map of     *)
(* runtime handles is the slot, the local variable of each handler its       *)
(* hand.  What is proved about tokens then holds for runtime handles.        *)

\* A theorem about tokens, read for handles.
TokenGame == INSTANCE RuntimeOwnershipProofs WITH
  Holders <- Reqs, Tokens <- Instances, Nothing <- NoHandle,
  slot <- handle, hand <- held

LEMMA InitRefines == Init => Ownership!Init
  BY DEF Init, Ownership!Init

\* A handler that returns without touching the map drops what it holds.
LEMMA ReturnDrops ==
  ASSUME NEW r \in Reqs, Return(r), UNCHANGED handle
  PROVE  Ownership!Next
  BY DEF Return, Ownership!Next, Ownership!Drop

LEMMA ContinueStutters ==
  ASSUME NEW r \in Reqs, NEW label, Continue(r, label), UNCHANGED handle
  PROVE  UNCHANGED Ownership!vars
  BY DEF Continue, Ownership!vars

\* A handler has nothing in hand when it takes the handle out of the map.
LEMMA ClaimWithdraws ==
  ASSUME IInv, NEW r \in Reqs, pc[r] \notin Holding, ClaimHandle(r)
  PROVE  Ownership!Next
<1>1. held[r] = NoHandle
  BY DEF IInv, LocalsOK
<1>. QED
  BY <1>1 DEF ClaimHandle, remove_runtime_handle, Ownership!Next, Ownership!Withdraw

LEMMA StartRefines ==
  ASSUME IInv, NEW r \in Reqs, Start(r)
  PROVE  [Ownership!Next]_(Ownership!vars)
<1>1. CASE StartLoad(r)
  BY <1>1 DEF StartLoad, Ownership!vars
<1>2. CASE StartLoadVersion(r) \/ StartReadManifest(r)
  BY <1>2, ReturnDrops, ContinueStutters DEF StartLoadVersion, StartReadManifest
<1>3. CASE StartMarkRunning(r) \/ StartSpawnFails(r) \/ StartReady(r)
  BY <1>3, ContinueStutters DEF StartMarkRunning, StartSpawnFails, StartReady
<1>4. CASE StartSpawn(r)
  <2>1. PICK i \in Fresh : held' = [held EXCEPT ![r] = i]
    BY <1>4 DEF StartSpawn
  <2>2. i \in Instances \ Ownership!InUse
    BY <2>1 DEF Fresh, Ownership!InUse
  <2>3. UNCHANGED handle
    BY <1>4 DEF StartSpawn
  <2>. QED
    BY <2>1, <2>2, <2>3 DEF Ownership!Next, Ownership!Create
<1>5. CASE StartHealthFails(r)
  BY <1>5 DEF StartHealthFails, Ownership!Next, Ownership!Drop
<1>6. CASE StartPublish(r)
  <2>1. held[r] # NoHandle
    BY <1>6 DEF StartPublish, At, IInv, LocalsOK, Holding
  <2>. QED
    BY <1>6, <2>1
    DEF StartPublish, set_runtime_handle, Ownership!Next, Ownership!Deposit
<1>7. CASE StartNav(r) \/ StartRollback(r)
  BY <1>7, ReturnDrops DEF StartNav, StartRollback
<1>. QED
  BY <1>1, <1>2, <1>3, <1>4, <1>5, <1>6, <1>7 DEF Start

LEMMA StopRefines ==
  ASSUME IInv, NEW r \in Reqs, Stop(r)
  PROVE  [Ownership!Next]_(Ownership!vars)
<1>1. CASE StopLoad(r) \/ StopRuntime(r) \/ StopRuntimeFails(r)
  BY <1>1, ContinueStutters DEF StopLoad, StopRuntime, StopRuntimeFails
<1>2. CASE StopClaim(r)
  BY <1>2, ClaimWithdraws DEF StopClaim, At, Holding
<1>3. CASE StopNotFound(r) \/ StopCommit(r)
  BY <1>3, ReturnDrops DEF StopNotFound, StopCommit
<1>4. CASE StopRestore(r)
  <2>1. held[r] # NoHandle
    BY <1>4 DEF StopRestore, At, IInv, LocalsOK, Holding
  <2>. QED
    BY <1>4, <2>1
    DEF StopRestore, RestoreHandle, set_runtime_handle, Return, Ownership!Next,
        Ownership!Deposit
<1>. QED
  BY <1>1, <1>2, <1>3, <1>4 DEF Stop

LEMMA UninstallRefines ==
  ASSUME IInv, NEW r \in Reqs, Uninst(r)
  PROVE  [Ownership!Next]_(Ownership!vars)
<1>1. CASE UninstallClaim(r)
  BY <1>1, ClaimWithdraws
  DEF UninstallClaim, Called, At, Holding, KeepHandle, Ownership!vars
<1>2. CASE UninstallStop(r)
  BY <1>2 DEF UninstallStop, Ownership!Next, Ownership!Drop
<1>3. CASE UninstallLoad(r)
  BY <1>3 DEF UninstallLoad, Ownership!vars
<1>4. CASE \/ UninstallStopFails(r) \/ UninstallNotFound(r) \/ UninstallDbError(r)
           \/ UninstallRegistry(r)
  BY <1>4, ReturnDrops
  DEF UninstallStopFails, UninstallNotFound, UninstallDbError, UninstallRegistry
<1>5. CASE \/ UninstallPkill(r) \/ UninstallDirs(r) \/ UninstallGrants(r)
           \/ UninstallVersions(r) \/ UninstallNav(r)
  BY <1>5, ContinueStutters
  DEF UninstallPkill, UninstallDirs, UninstallGrants, UninstallVersions, UninstallNav
<1>. QED
  BY <1>1, <1>2, <1>3, <1>4, <1>5 DEF Uninst

\* Neither phase of an install touches a handle.
LEMMA InstallRefines ==
  ASSUME NEW r \in Reqs, Register(r) \/ Materialize(r)
  PROVE  [Ownership!Next]_(Ownership!vars)
<1>1. CASE RegisterCall(r) \/ RegisterFindRow(r) \/ MaterializeCall(r)
           \/ MaterializeLoadPrevious(r)
  BY <1>1
  DEF RegisterCall, RegisterFindRow, MaterializeCall, MaterializeLoadPrevious,
      Ownership!vars
<1>2. CASE \/ RegisterExtract(r) \/ RegisterVersion(r) \/ MaterializeCommands(r)
           \/ MaterializeUpgrade(r) \/ MaterializeFindRow(r)
  BY <1>2, ContinueStutters
  DEF RegisterExtract, RegisterVersion, MaterializeCommands, MaterializeUpgrade,
      MaterializeFindRow
<1>3. CASE \/ RegisterRemoveFails(r) \/ RegisterExtractFails(r) \/ RegisterGrants(r)
           \/ RegisterDbError(r) \/ MaterializeCommandsFail(r)
           \/ MaterializeUpgradeFails(r) \/ MaterializeVersion(r) \/ MaterializeDbError(r)
  BY <1>3, ReturnDrops
  DEF RegisterRemoveFails, RegisterExtractFails, RegisterGrants, RegisterDbError, MaterializeCommandsFail,
      MaterializeUpgradeFails, MaterializeVersion, MaterializeDbError
<1>4. CASE RegisterWriteRow(r) \/ MaterializeWriteRow(r)
  BY <1>4, ReturnDrops, ContinueStutters DEF RegisterWriteRow, MaterializeWriteRow
<1>. QED
  BY <1>1, <1>2, <1>3, <1>4 DEF Register, Materialize

LEMMA StepRefines == IInv /\ [Next]_vars => [Ownership!Next]_(Ownership!vars)
<1> SUFFICES ASSUME IInv, [Next]_vars PROVE [Ownership!Next]_(Ownership!vars)
  OBVIOUS
<1>1. ASSUME NEW r \in Reqs, Handler(r)
      PROVE  [Ownership!Next]_(Ownership!vars)
  BY <1>1, StartRefines, StopRefines, UninstallRefines, InstallRefines DEF Handler
<1>2. ASSUME NEW r \in Reqs, Disconnect(r)
      PROVE  [Ownership!Next]_(Ownership!vars)
  BY <1>2, ReturnDrops DEF Disconnect
<1>3. ASSUME NEW i \in Instances, Exit(i)
      PROVE  [Ownership!Next]_(Ownership!vars)
  BY <1>3 DEF Exit, locals, Ownership!vars
<1>4. CASE Restart
  BY <1>4 DEF Restart, Ownership!Next, Ownership!Crash
<1>5. CASE UNCHANGED vars
  BY <1>5 DEF vars, Ownership!vars
<1>. QED
  BY <1>1, <1>2, <1>3, <1>4, <1>5 DEF Next

--------------------------------------------------------------------------------
(* The manager implements the token game: no interleaving of handlers,       *)
(* disconnects and restarts copies a runtime handle or conjures one up.      *)
THEOREM ImplementsOwnership == Spec => OwnershipSpec
  BY InitRefines, StepRefines, Invariance, PTL DEF Spec, OwnershipSpec, Ownership!Spec

(* A runtime handle is in the map or in the hands of one handler, never in   *)
(* two places, so no two stops or uninstalls signal the same runtime.        *)
THEOREM OneOwner == Spec => []HandleLinear
<1>1. Ownership!Init => TokenGame!Init
  BY DEF Ownership!Init, TokenGame!Init
<1>2. [Ownership!Next]_(Ownership!vars) => [TokenGame!Next]_(TokenGame!vars)
  BY DEF Ownership!Next, Ownership!Create, Ownership!Deposit, Ownership!Withdraw,
         Ownership!Drop, Ownership!Crash, Ownership!InUse, Ownership!vars,
         TokenGame!Next, TokenGame!Create, TokenGame!Deposit, TokenGame!Withdraw,
         TokenGame!Drop, TokenGame!Crash, TokenGame!InUse, TokenGame!vars
<1>3. TokenGame!Linear => Ownership!Linear
  BY DEF Ownership!Linear, TokenGame!Linear
<1>. QED
  BY <1>1, <1>2, <1>3, ImplementsOwnership, TokenGame!OwnershipLinear, PTL
  DEF OwnershipSpec, HandleLinear, Ownership!Spec, TokenGame!Spec
================================================================================
