------------------------------ MODULE OwnerProofs ------------------------------
(***************************************************************************)
(* A running plugin always has an owner, as long as handlers run to their  *)
(* end (no restart, no disconnect), their statements succeed, and nobody   *)
(* uninstalls: registrations and materializations do no harm, and neither  *)
(* do dying instances, a refusing engine or reused pids.                   *)
(* If one client starts and the others only stop, the row and the map      *)
(* agree whenever nobody is being served, and no live process or container *)
(* is forgotten.  A second starter breaks both: two starts in flight own   *)
(* the row together.                                                       *)
(***************************************************************************)
EXTENDS PluginManagerProofs

USE DEF db, disk, locals

Reliable == Faults \cap {"restart", "disconnect", "dberror"} = {}
NobodyUninstalls == \A r \in Reqs : "uninstall" \notin Calls[r]

\* Where a handler owns a row that says "running".
Owning == {"start_spawn", "start_wait", "start_publish", "start_rollback",
           "stop_runtime", "stop_commit", "stop_restore"}

Owned == registry.status = "running" =>
           handle # NoHandle \/ \E r \in Reqs : pc[r] \in Owning

OwnerInv == IInv /\ Owned /\ \A r \in Reqs : pc[r] \notin UninstallLabels

LEMMA OwnedIsRunningHasOwner == Owned => RunningHasOwner
  BY DEF Owned, RunningHasOwner, Owning, Starting, StoppingRuntime

\* A step keeps the owner if the row does not become "running", the handle
\* stays, and the handler that moves was no owner or still is one.
LEMMA OwnerStays ==
  ASSUME Owned, pc \in [Reqs -> Labels], NEW r \in Reqs, NEW label,
         Goto(r, label),
         registry'.status = "running" => registry.status = "running",
         handle' = handle,
         pc[r] \in Owning => label \in Owning
  PROVE  Owned'
  BY DEF Owned, Goto

\* The handler that moves becomes an owner, whatever it wrote.
LEMMA OwnerArrives ==
  ASSUME pc \in [Reqs -> Labels], NEW r \in Reqs, NEW label \in Owning, Goto(r, label)
  PROVE  Owned'
  BY DEF Owned, Goto

\* A write that is not allowed to fail leaves a row that is not "running".
LEMMA WriteSettles ==
  ASSUME Reliable, NEW enabled, NEW status, status # "running", registry \in RowOrNone,
         WriteIgnoringErrors(enabled, status)
  PROVE  registry'.status # "running"
<1>1. update_plugin_runtime_state(enabled, status)
  BY DEF Reliable, WriteIgnoringErrors
<1>2. CASE Registered
  <2>1. registry \in Row
    BY <1>2 DEF Registered, RowOrNone, NoRow
  <2>2. registry' = [registry EXCEPT !.enabled = enabled, !.status = status]
    BY <1>1, <1>2 DEF update_plugin_runtime_state
  <2>. QED
    BY <2>1, <2>2 DEF Row
<1>3. CASE ~Registered
  BY <1>1, <1>3 DEF update_plugin_runtime_state, NoRow
<1>. QED
  BY <1>2, <1>3

LEMMA StartOwned ==
  ASSUME OwnerInv, Reliable, NEW r \in Reqs, Start(r)
  PROVE  Owned'
<1> USE DEF OwnerInv, At, Called, Continue, Return, Owning
<1>0. Owned /\ pc \in [Reqs -> Labels] /\ registry \in RowOrNone
  BY DEF IInv, TypeOK
<1>1. CASE StartLoad(r) \/ StartLoadVersion(r) \/ StartReadManifest(r) \/ StartNav(r)
  BY <1>0, <1>1, OwnerStays
  DEF StartLoad, StartLoadVersion, StartReadManifest, StartNav
<1>2. CASE StartMarkRunning(r)
  BY <1>0, <1>2, OwnerArrives DEF StartMarkRunning
<1>3. CASE StartSpawn(r)
  BY <1>0, <1>3, OwnerArrives, ConstantsAssumption DEF StartSpawn, AfterSpawn
<1>4. CASE StartSpawnFails(r) \/ StartReady(r) \/ StartHealthFails(r)
  BY <1>0, <1>4, OwnerArrives DEF StartSpawnFails, StartReady, StartHealthFails
<1>5. CASE StartPublish(r)
  <2>1. held[r] # NoHandle
    BY <1>5 DEF StartPublish, IInv, LocalsOK, Holding
  <2>. QED
    BY <1>5, <2>1 DEF StartPublish, set_runtime_handle, Owned
<1>6. CASE StartRollback(r)
  <2>1. seen[r].status # "running"
    BY <1>6 DEF StartRollback, IInv, LocalsOK, StartLabels
  <2>2. registry'.status # "running"
    BY <1>0, <1>6, <2>1, WriteSettles DEF StartRollback, RollbackState
  <2>. QED
    BY <2>2 DEF Owned
<1>. QED
  BY <1>1, <1>2, <1>3, <1>4, <1>5, <1>6 DEF Start

LEMMA StopOwned ==
  ASSUME OwnerInv, Reliable, NEW r \in Reqs, Stop(r)
  PROVE  Owned'
<1> USE DEF OwnerInv, At, Called, Continue, Return, Owning
<1>0. Owned /\ pc \in [Reqs -> Labels] /\ registry \in RowOrNone
  BY DEF IInv, TypeOK
<1>1. CASE StopLoad(r) \/ StopNotFound(r)
  BY <1>0, <1>1, OwnerStays DEF StopLoad, StopNotFound
<1>2. CASE StopClaim(r) \/ StopRuntime(r) \/ StopRuntimeFails(r)
  BY <1>0, <1>2, OwnerArrives DEF StopClaim, StopRuntime, StopRuntimeFails
<1>3. CASE StopCommit(r)
  <2>1. registry'.status # "running"
    BY <1>0, <1>3, WriteSettles DEF StopCommit, CommitState
  <2>. QED
    BY <2>1 DEF Owned
<1>4. CASE StopRestore(r)
  <2>1. held[r] # NoHandle
    BY <1>4 DEF StopRestore, IInv, LocalsOK, Holding
  <2>. QED
    BY <1>4, <2>1 DEF StopRestore, RestoreHandle, set_runtime_handle, Owned
<1>. QED
  BY <1>1, <1>2, <1>3, <1>4 DEF Stop

\* An install writes "pending" or "installed", never "running".
LEMMA InstallOwned ==
  ASSUME OwnerInv, NEW r \in Reqs, Register(r) \/ Materialize(r)
  PROVE  Owned'
<1> USE DEF OwnerInv, At, Called, Continue, Return, Owning
<1>0. Owned /\ pc \in [Reqs -> Labels]
  BY DEF IInv, TypeOK
<1>1. CASE \/ RegisterCall(r) \/ RegisterRemoveFails(r) \/ RegisterExtract(r)
           \/ RegisterExtractFails(r) \/ RegisterFindRow(r) \/ RegisterVersion(r)
           \/ RegisterGrants(r) \/ RegisterDbError(r)
  BY <1>0, <1>1, OwnerStays
  DEF RegisterCall, RegisterRemoveFails, RegisterExtract, RegisterExtractFails,
      RegisterFindRow, RegisterVersion, RegisterGrants, RegisterDbError
<1>2. CASE \/ MaterializeCall(r) \/ MaterializeCommands(r) \/ MaterializeCommandsFail(r)
           \/ MaterializeLoadPrevious(r) \/ MaterializeUpgrade(r)
           \/ MaterializeUpgradeFails(r) \/ MaterializeFindRow(r)
           \/ MaterializeVersion(r) \/ MaterializeDbError(r)
  BY <1>0, <1>2, OwnerStays
  DEF MaterializeCall, MaterializeCommands, MaterializeCommandsFail,
      MaterializeLoadPrevious, MaterializeUpgrade, MaterializeUpgradeFails,
      MaterializeFindRow, MaterializeVersion, MaterializeDbError
<1>3. CASE RegisterWriteRow(r)
  <2>1. registry'.status = "running" => registry.status = "running"
    BY <1>3 DEF RegisterWriteRow, RegisteredRow
  <2>. QED
    BY <1>0, <1>3, <2>1, OwnerStays DEF RegisterWriteRow
<1>4. CASE MaterializeWriteRow(r)
  <2>1. registry'.status = "running" => registry.status = "running"
    BY <1>4 DEF MaterializeWriteRow, MaterializedRow
  <2>. QED
    BY <1>0, <1>4, <2>1, OwnerStays DEF MaterializeWriteRow
<1>. QED
  BY <1>1, <1>2, <1>3, <1>4 DEF Register, Materialize

\* A slot that is never asked to uninstall never does.
LEMMA NoUninstallStep ==
  ASSUME OwnerInv, NobodyUninstalls, NEW r \in Reqs, Handler(r)
  PROVE  /\ ~Uninst(r)
         /\ \A q \in Reqs : pc'[q] \notin UninstallLabels
<1>1. pc \in [Reqs -> Labels] /\ \A q \in Reqs : pc[q] \notin UninstallLabels
  BY DEF OwnerInv, IInv, TypeOK
<1>2. ~Uninst(r)
  BY <1>1
  DEF NobodyUninstalls, Uninst, UninstallLabels, At, Called, UninstallClaim, UninstallStop,
      UninstallStopFails, UninstallLoad, UninstallNotFound, UninstallDbError,
      UninstallPkill, UninstallDirs, UninstallGrants, UninstallVersions, UninstallNav,
      UninstallRegistry
<1>3. \E label \in Labels \ UninstallLabels : Goto(r, label)
  <2> USE DEF Continue, Return, Labels, StartLabels, StopLabels, InstallLabels,
              UninstallLabels
  <2>1. CASE Start(r)
    BY <2>1, ConstantsAssumption
    DEF Start, StartLoad, StartLoadVersion, StartReadManifest, StartMarkRunning,
        AfterSpawn, StartSpawn, StartSpawnFails, StartReady, StartHealthFails,
        StartPublish, StartNav, StartRollback
  <2>2. CASE Stop(r)
    BY <2>2
    DEF Stop, StopLoad, StopClaim, StopNotFound, StopRuntime, StopRuntimeFails,
        StopCommit, StopRestore
  <2>3. CASE Register(r)
    BY <2>3
    DEF Register, RegisterCall, RegisterRemoveFails, RegisterExtract,
        RegisterExtractFails, RegisterFindRow, RegisterWriteRow, RegisterVersion,
        RegisterGrants, RegisterDbError
  <2>4. CASE Materialize(r)
    BY <2>4
    DEF Materialize, MaterializeCall, MaterializeCommands, MaterializeCommandsFail,
        MaterializeLoadPrevious, MaterializeUpgrade, MaterializeUpgradeFails,
        MaterializeFindRow, MaterializeWriteRow, MaterializeVersion, MaterializeDbError
  <2>. QED
    BY <1>2, <2>1, <2>2, <2>3, <2>4 DEF Handler
<1>. QED
  BY <1>1, <1>2, <1>3 DEF Goto

--------------------------------------------------------------------------------
(* A plugin whose row says "running" has its handle in the map, or a start   *)
(* or stop in flight that will write the outcome: for any number of clients  *)
(* that start, stop, register and materialize concurrently.                  *)
THEOREM RunningOwned ==
  ASSUME Reliable, NobodyUninstalls
  PROVE  Spec => []RunningHasOwner
<1>1. Init => OwnerInv
  <2> SUFFICES ASSUME Init PROVE OwnerInv
    OBVIOUS
  <2>1. registry.status # "running"
    BY DEF Init, Pristine, Installed, NoRow
  <2>2. \A r \in Reqs : pc[r] \notin UninstallLabels
    BY DEF Init, UninstallLabels
  <2>. QED
    BY <2>1, <2>2, InitInv DEF OwnerInv, Owned
<1>2. OwnerInv /\ [Next]_vars => OwnerInv'
  <2> SUFFICES ASSUME OwnerInv, [Next]_vars PROVE OwnerInv'
    OBVIOUS
  <2>1. IInv'
    BY StepInv DEF OwnerInv
  <2>2. ASSUME NEW r \in Reqs, Handler(r)
        PROVE  Owned' /\ \A q \in Reqs : pc'[q] \notin UninstallLabels
    BY <2>2, NoUninstallStep, StartOwned, StopOwned, InstallOwned DEF Handler
  <2>3. ASSUME NEW i \in Instances, Exit(i)
        PROVE  UNCHANGED <<registry, handle, pc>>
    BY <2>3 DEF Exit
  <2>4. ~Restart /\ \A r \in Reqs : ~Disconnect(r)
    BY DEF Restart, Disconnect, Reliable
  <2>5. CASE UNCHANGED <<registry, handle, pc>>
    BY <2>1, <2>5 DEF OwnerInv, Owned
  <2>. QED
    BY <2>1, <2>2, <2>3, <2>4, <2>5 DEF OwnerInv, Next, vars
<1>3. OwnerInv => RunningHasOwner
  BY OwnedIsRunningHasOwner DEF OwnerInv
<1>. QED
  BY <1>1, <1>2, <1>3, PTL DEF Spec

--------------------------------------------------------------------------------
(* One client starts, any number of clients stop.                            *)

\* Only s starts; the others stop.
OnlyStarter(s) ==
  /\ s \in Reqs
  /\ \A r \in Reqs : Calls[r] \subseteq {"start", "stop"}
  /\ \A r \in Reqs \ {s} : "start" \notin Calls[r]

Early == {"start_version", "start_manifest", "start_mark"}

Slots(s) ==
  \A r \in Reqs : /\ pc[r] \in {"idle"} \cup StartLabels \cup StopLabels
                  /\ pc[r] \in StartLabels => r = s

\* The row is "running" exactly as long as somebody owns it, and the map and
\* the handlers never own it together.
SingleOwner(s) ==
  /\ \A q, r \in Reqs : pc[q] \in Owning /\ pc[r] \in Owning => q = r
  /\ \A r \in Reqs : pc[r] \in Owning => handle = NoHandle
  /\ registry.status = "running"
       <=> handle # NoHandle \/ \E r \in Reqs : pc[r] \in Owning
  /\ pc[s] \in Early => registry.status = "installed"

StoppedIsDead == \A r \in Reqs : pc[r] = "stop_commit" => held[r] \notin alive

StarterInv(s) == IInv /\ Slots(s) /\ SingleOwner(s)
ReachInv == StoppedIsDead /\ NoOrphan

--------------------------------------------------------------------------------
LEMMA WriteTakes ==
  ASSUME Reliable, NEW enabled, NEW status, Registered, registry \in RowOrNone,
         WriteIgnoringErrors(enabled, status)
  PROVE  registry'.status = status
<1>1. registry \in Row
  BY DEF Registered, RowOrNone, NoRow
<1>2. registry' = [registry EXCEPT !.enabled = enabled, !.status = status]
  BY DEF Reliable, WriteIgnoringErrors, update_plugin_runtime_state
<1>. QED
  BY <1>1, <1>2 DEF Row

\* A step of a handler that owns nothing before and after it.
LEMMA BystanderMoves ==
  ASSUME NEW s \in Reqs, SingleOwner(s), pc \in [Reqs -> Labels],
         NEW r \in Reqs, NEW label, Goto(r, label), UNCHANGED <<registry, handle>>,
         pc[r] \notin Owning, label \notin Owning,
         label \in Early => registry.status = "installed"
  PROVE  SingleOwner(s)'
  BY DEF SingleOwner, Goto

\* The owner goes on as the owner.
LEMMA OwnerMoves ==
  ASSUME NEW s \in Reqs, SingleOwner(s), pc \in [Reqs -> Labels],
         NEW r \in Reqs, NEW label, Goto(r, label), UNCHANGED <<registry, handle>>,
         pc[r] \in Owning, label \in Owning
  PROVE  SingleOwner(s)'
  BY DEF SingleOwner, Goto, Owning, Early

\* The owner writes its outcome and returns.
LEMMA OwnerSettles ==
  ASSUME NEW s \in Reqs, SingleOwner(s), pc \in [Reqs -> Labels],
         NEW r \in Reqs, Goto(r, "idle"), UNCHANGED handle,
         pc[r] \in Owning, registry'.status = "installed"
  PROVE  SingleOwner(s)'
  BY DEF SingleOwner, Goto, Owning, Early

\* The owner puts its handle into the map.
LEMMA OwnerDeposits ==
  ASSUME NEW s \in Reqs, SingleOwner(s), pc \in [Reqs -> Labels],
         NEW r \in Reqs, NEW label, Goto(r, label), label \notin Owning \cup Early,
         pc[r] \in Owning, handle' # NoHandle, UNCHANGED registry
  PROVE  SingleOwner(s)'
<1>1. registry.status = "running"
  BY DEF SingleOwner
<1>2. \A q \in Reqs : pc'[q] \notin Owning
  BY DEF SingleOwner, Goto
<1>3. pc'[s] \notin Early
  BY <1>1 DEF SingleOwner, Goto
<1>. QED
  BY <1>1, <1>2, <1>3 DEF SingleOwner

\* An owned row is there to be written.
LEMMA OwnedIsRegistered ==
  ASSUME NEW s \in Reqs, SingleOwner(s), NEW r \in Reqs, pc[r] \in Owning
  PROVE  Registered
  BY DEF SingleOwner, Registered

--------------------------------------------------------------------------------
(* Who may be where.                                                        *)
LEMMA SlotsStep ==
  ASSUME NEW s, OnlyStarter(s), StarterInv(s), NEW r \in Reqs, Handler(r)
  PROVE  /\ Start(r) \/ Stop(r)
         /\ Start(r) => r = s
         /\ Slots(s)'
<1>0. /\ pc \in [Reqs -> Labels] /\ s \in Reqs
      /\ pc[r] \in {"idle"} \cup StartLabels \cup StopLabels
      /\ pc[r] \in StartLabels => r = s
      /\ Calls[r] \subseteq {"start", "stop"} /\ ("start" \in Calls[r] => r = s)
  BY DEF OnlyStarter, StarterInv, Slots, IInv, TypeOK
<1> USE DEF StartLabels, StopLabels, At, Called, Continue, Return
<1>1. ~Uninst(r)
  BY <1>0
  DEF Uninst, UninstallClaim, UninstallStop, UninstallStopFails, UninstallLoad,
      UninstallNotFound, UninstallDbError, UninstallPkill, UninstallDirs,
      UninstallGrants, UninstallVersions, UninstallNav, UninstallRegistry
<1>2. ~Register(r)
  BY <1>0
  DEF Register, RegisterCall, RegisterRemoveFails, RegisterExtract,
      RegisterExtractFails, RegisterFindRow, RegisterWriteRow, RegisterVersion,
      RegisterGrants, RegisterDbError
<1>3. ~Materialize(r)
  BY <1>0
  DEF Materialize, MaterializeCall, MaterializeCommands, MaterializeCommandsFail,
      MaterializeLoadPrevious, MaterializeUpgrade, MaterializeUpgradeFails,
      MaterializeFindRow, MaterializeWriteRow, MaterializeVersion, MaterializeDbError
<1>4. ASSUME Start(r)
      PROVE  r = s /\ \E label \in {"idle"} \cup StartLabels : Goto(r, label)
  BY <1>0, <1>4, ConstantsAssumption
  DEF Start, StartLoad, StartLoadVersion, StartReadManifest, StartMarkRunning,
      AfterSpawn, StartSpawn, StartSpawnFails, StartReady, StartHealthFails,
      StartPublish, StartNav, StartRollback
<1>5. ASSUME Stop(r)
      PROVE  \E label \in {"idle"} \cup StopLabels : Goto(r, label)
  BY <1>5
  DEF Stop, StopLoad, StopClaim, StopNotFound, StopRuntime, StopRuntimeFails,
      StopCommit, StopRestore
<1>6. Start(r) \/ Stop(r)
  BY <1>1, <1>2, <1>3 DEF Handler
<1>7. Slots(s)
  BY DEF StarterInv
<1>8. Slots(s)'
  <2>1. CASE Start(r)
    BY <1>0, <1>4, <1>7, <2>1 DEF Slots, Goto
  <2>2. CASE Stop(r)
    BY <1>0, <1>5, <1>7, <2>2 DEF Slots, Goto
  <2>. QED
    BY <1>6, <2>1, <2>2
<1>. QED
  BY <1>4, <1>6, <1>8

LEMMA StartSingleOwner ==
  ASSUME Reliable, NEW s \in Reqs, StarterInv(s), Start(s)
  PROVE  SingleOwner(s)'
<1>0. SingleOwner(s) /\ pc \in [Reqs -> Labels] /\ registry \in RowOrNone
  BY DEF StarterInv, IInv, TypeOK
<1> USE DEF At, Called, Continue, Return, Owning, Early
<1>1. CASE StartLoad(s)
  BY <1>0, <1>1, BystanderMoves DEF StartLoad, Startable
<1>2. CASE StartLoadVersion(s) \/ StartReadManifest(s) \/ StartNav(s)
  <2>1. pc[s] \in Early => registry.status = "installed"
    BY <1>0 DEF SingleOwner
  <2>. QED
    BY <1>0, <1>2, <2>1, BystanderMoves
    DEF StartLoadVersion, StartReadManifest, StartNav
<1>3. CASE StartMarkRunning(s)
  <2>1. registry.status = "installed" /\ handle = NoHandle
        /\ \A r \in Reqs : pc[r] \notin Owning
    BY <1>0, <1>3 DEF StartMarkRunning, SingleOwner
  <2>2. registry'.status = "running"
    BY <1>0, <1>3, <2>1, WriteTakes DEF StartMarkRunning, Registered
  <2>. QED
    BY <1>0, <1>3, <2>1, <2>2 DEF StartMarkRunning, SingleOwner, Goto
<1>4. CASE StartSpawn(s)
  BY <1>0, <1>4, OwnerMoves, ConstantsAssumption DEF StartSpawn, AfterSpawn
<1>5. CASE StartSpawnFails(s) \/ StartReady(s) \/ StartHealthFails(s)
  BY <1>0, <1>5, OwnerMoves DEF StartSpawnFails, StartReady, StartHealthFails
<1>6. CASE StartPublish(s)
  <2>1. held[s] # NoHandle
    BY <1>6 DEF StartPublish, StarterInv, IInv, LocalsOK, Holding
  <2>. QED
    BY <1>0, <1>6, <2>1, OwnerDeposits DEF StartPublish, set_runtime_handle
<1>7. CASE StartRollback(s)
  <2>1. seen[s].status = "installed"
    BY <1>7 DEF StartRollback, StarterInv, IInv, LocalsOK, StartLabels
  <2>2. Registered
    BY <1>0, <1>7, OwnedIsRegistered DEF StartRollback
  <2>3. registry'.status = "installed"
    BY <1>0, <1>7, <2>1, <2>2, WriteTakes DEF StartRollback, RollbackState
  <2>. QED
    BY <1>0, <1>7, <2>3, OwnerSettles DEF StartRollback
<1>. QED
  BY <1>1, <1>2, <1>3, <1>4, <1>5, <1>6, <1>7 DEF Start

LEMMA StopSingleOwner ==
  ASSUME Reliable, NEW s \in Reqs, StarterInv(s), NEW r \in Reqs, Stop(r)
  PROVE  SingleOwner(s)'
<1>0. SingleOwner(s) /\ pc \in [Reqs -> Labels] /\ registry \in RowOrNone
  BY DEF StarterInv, IInv, TypeOK
<1> USE DEF At, Called, Continue, Return, Owning, Early
<1>1. CASE StopLoad(r) \/ StopNotFound(r)
  BY <1>0, <1>1, BystanderMoves DEF StopLoad, StopNotFound
<1>2. CASE StopClaim(r)
  <2>1. handle # NoHandle /\ handle' = NoHandle /\ Goto(r, "stop_runtime")
        /\ UNCHANGED registry
    BY <1>2 DEF StopClaim, ClaimHandle, remove_runtime_handle
  <2>2. registry.status = "running" /\ \A q \in Reqs : pc[q] \notin Owning
    BY <1>0, <2>1 DEF SingleOwner
  <2>. QED
    BY <1>0, <2>1, <2>2 DEF SingleOwner, Goto
<1>3. CASE StopRuntime(r) \/ StopRuntimeFails(r)
  BY <1>0, <1>3, OwnerMoves DEF StopRuntime, StopRuntimeFails
<1>4. CASE StopCommit(r)
  <2>1. Registered
    BY <1>0, <1>4, OwnedIsRegistered DEF StopCommit
  <2>2. registry'.status = "installed"
    BY <1>0, <1>4, <2>1, WriteTakes DEF StopCommit, CommitState
  <2>. QED
    BY <1>0, <1>4, <2>2, OwnerSettles DEF StopCommit
<1>5. CASE StopRestore(r)
  <2>1. held[r] # NoHandle
    BY <1>5 DEF StopRestore, StarterInv, IInv, LocalsOK, Holding
  <2>. QED
    BY <1>0, <1>5, <2>1, OwnerDeposits DEF StopRestore, RestoreHandle, set_runtime_handle
<1>. QED
  BY <1>1, <1>2, <1>3, <1>4, <1>5 DEF Stop

LEMMA StarterStep ==
  ASSUME Reliable, NEW s, OnlyStarter(s), StarterInv(s), [Next]_vars
  PROVE  StarterInv(s)'
<1>1. IInv'
  BY StepInv DEF StarterInv
<1>2. ASSUME NEW r \in Reqs, Handler(r)
      PROVE  Slots(s)' /\ SingleOwner(s)'
  BY <1>2, SlotsStep, StartSingleOwner, StopSingleOwner DEF OnlyStarter
<1>3. ~Restart /\ \A r \in Reqs : ~Disconnect(r)
  BY DEF Restart, Disconnect, Reliable
<1>4. ASSUME NEW i \in Instances, Exit(i)
      PROVE  UNCHANGED <<registry, handle, pc>>
  BY <1>4 DEF Exit
<1>5. CASE UNCHANGED <<registry, handle, pc>>
  BY <1>1, <1>5 DEF StarterInv, Slots, SingleOwner
<1>. QED
  BY <1>1, <1>2, <1>3, <1>4, <1>5 DEF StarterInv, Next, vars

LEMMA StarterInit ==
  ASSUME NEW s, OnlyStarter(s), Init
  PROVE  StarterInv(s) /\ ReachInv
<1>1. registry.status # "running"
  BY DEF Init, Pristine, Installed, NoRow
<1>2. \A r \in Reqs : pc[r] = "idle"
  BY DEF Init
<1>3. Slots(s) /\ SingleOwner(s)
  BY <1>1, <1>2
  DEF OnlyStarter, Init, Slots, SingleOwner, Owning, Early, StartLabels, StopLabels
<1>4. ReachInv
  BY <1>2 DEF ReachInv, StoppedIsDead, NoOrphan, Init
<1>. QED
  BY <1>3, <1>4, InitInv DEF StarterInv

--------------------------------------------------------------------------------
(* With one client that starts and any number that stop, the row says        *)
(* "running" exactly when the map has the runtime, whenever no request is    *)
(* in flight.                                                                *)
THEOREM OneStarterConsistent ==
  ASSUME Reliable, NEW s, OnlyStarter(s)
  PROVE  Spec => []StateConsistency
<1>1. Init => StarterInv(s)
  BY StarterInit
<1>2. StarterInv(s) /\ [Next]_vars => StarterInv(s)'
  BY StarterStep
<1>3. StarterInv(s) => StateConsistency
  BY DEF StarterInv, SingleOwner, StateConsistency, Quiet, Owning
<1>. QED
  BY <1>1, <1>2, <1>3, PTL DEF Spec

--------------------------------------------------------------------------------
(* Every live instance stays within reach.                                  *)

\* Nothing is spawned, no handle moves and nobody finishes a stop.
LEMMA ReachFrame ==
  ASSUME ReachInv, UNCHANGED <<handle, held>>, alive' \subseteq alive,
         pc \in [Reqs -> Labels], NEW r \in Reqs, NEW label, label # "stop_commit",
         Goto(r, label)
  PROVE  ReachInv'
  BY DEF ReachInv, StoppedIsDead, NoOrphan, Goto

\* A handler returns with nothing in hand.
LEMMA ReachReturn ==
  ASSUME ReachInv, IInv, UNCHANGED <<handle, alive>>, NEW r \in Reqs, Return(r),
         held[r] \notin alive
  PROVE  ReachInv'
<1>1. pc \in [Reqs -> Labels] /\ held \in [Reqs -> Handles]
  BY DEF IInv, TypeOK
<1>2. \A q \in Reqs : held'[q] = IF q = r THEN NoHandle ELSE held[q]
  BY <1>1 DEF Return
<1>3. \A q \in Reqs : pc'[q] = IF q = r THEN "idle" ELSE pc[q]
  BY <1>1 DEF Return, Goto
<1>. QED
  BY <1>2, <1>3 DEF ReachInv, StoppedIsDead, NoOrphan

\* Where a handler holds nothing, it loses nothing when it returns.
LEMMA EmptyHanded ==
  ASSUME IInv, NEW r \in Reqs, pc[r] \notin Holding
  PROVE  held[r] = NoHandle /\ held[r] \notin alive
  BY ConstantsAssumption DEF IInv, TypeOK, LocalsOK

LEMMA StartReach ==
  ASSUME NEW s \in Reqs, StarterInv(s), ReachInv, Start(s)
  PROVE  ReachInv'
<1>0. /\ IInv /\ SingleOwner(s)
      /\ pc \in [Reqs -> Labels] /\ held \in [Reqs -> Handles] /\ alive \subseteq Instances
  BY DEF StarterInv, IInv, TypeOK
<1> USE DEF At, Called, Holding
<1>1. CASE StartLoad(s) \/ StartMarkRunning(s) \/ StartSpawnFails(s) \/ StartReady(s)
  BY <1>0, <1>1, ReachFrame
  DEF StartLoad, StartMarkRunning, StartSpawnFails, StartReady, Continue
<1>2. CASE \/ StartLoadVersion(s) \/ StartReadManifest(s) \/ StartNav(s)
           \/ StartRollback(s)
  BY <1>0, <1>2, ReachFrame, ReachReturn, EmptyHanded
  DEF StartLoadVersion, StartReadManifest, StartNav, StartRollback, Continue
<1>3. CASE StartSpawn(s)
  <2>1. PICK i \in Fresh, label \in AfterSpawn :
          alive' = alive \cup {i} /\ held' = [held EXCEPT ![s] = i] /\ Goto(s, label)
    BY <1>3 DEF StartSpawn
  <2>2. held[s] \notin alive
    BY <1>0, <1>3, EmptyHanded DEF StartSpawn
  <2>3. \A q \in Reqs : held[q] # i
    BY <2>1 DEF Fresh
  <2>4. label # "stop_commit"
    BY <2>1, ConstantsAssumption DEF AfterSpawn
  <2>5. UNCHANGED handle
    BY <1>3 DEF StartSpawn
  <2>6. StoppedIsDead'
    <3>1. ASSUME NEW q \in Reqs, pc'[q] = "stop_commit"
          PROVE  held'[q] \notin alive'
      BY <1>0, <2>1, <2>3, <2>4, <3>1 DEF ReachInv, StoppedIsDead, Goto
    <3>. QED
      BY <3>1 DEF StoppedIsDead
  <2>7. NoOrphan'
    <3>1. \A q \in Reqs : held'[q] = IF q = s THEN i ELSE held[q]
      BY <1>0, <2>1
    <3>. QED
      BY <2>1, <2>2, <2>5, <3>1 DEF ReachInv, NoOrphan
  <2>. QED
    BY <2>6, <2>7 DEF ReachInv
<1>4. CASE StartHealthFails(s)
  <2>1. \A q \in Reqs : held'[q] = IF q = s THEN NoHandle ELSE held[q]
    BY <1>0, <1>4 DEF StartHealthFails
  <2>2. \A q \in Reqs : pc'[q] = IF q = s THEN "start_rollback" ELSE pc[q]
    BY <1>0, <1>4 DEF StartHealthFails, Goto
  <2>. QED
    BY <1>4, <2>1, <2>2
    DEF StartHealthFails, KillUnhealthy, ReachInv, StoppedIsDead, NoOrphan
<1>5. CASE StartPublish(s)
  <2>1. handle = NoHandle /\ NoHandle \notin alive
    BY <1>0, <1>5, ConstantsAssumption DEF StartPublish, SingleOwner, Owning
  <2>2. \A q \in Reqs : held'[q] = IF q = s THEN NoHandle ELSE held[q]
    BY <1>0, <1>5 DEF StartPublish
  <2>3. \A q \in Reqs : pc'[q] = IF q = s THEN "start_nav" ELSE pc[q]
    BY <1>0, <1>5 DEF StartPublish, Goto
  <2>. QED
    BY <1>5, <2>1, <2>2, <2>3
    DEF StartPublish, set_runtime_handle, ReachInv, StoppedIsDead, NoOrphan
<1>. QED
  BY <1>1, <1>2, <1>3, <1>4, <1>5 DEF Start

LEMMA StopReach ==
  ASSUME Kind # "wasm", NEW s \in Reqs, StarterInv(s), ReachInv, NEW r \in Reqs, Stop(r)
  PROVE  ReachInv'
<1>0. /\ IInv /\ SingleOwner(s)
      /\ pc \in [Reqs -> Labels] /\ held \in [Reqs -> Handles] /\ alive \subseteq Instances
  BY DEF StarterInv, IInv, TypeOK
<1> USE DEF At, Called, Holding
<1>1. CASE StopLoad(r) \/ StopRuntimeFails(r)
  BY <1>0, <1>1, ReachFrame DEF StopLoad, StopRuntimeFails, Continue
<1>2. CASE StopNotFound(r)
  BY <1>0, <1>2, ReachReturn, EmptyHanded DEF StopNotFound
<1>3. CASE StopClaim(r)
  <2>1. held[r] \notin alive
    BY <1>0, <1>3, EmptyHanded DEF StopClaim
  <2>2. \A q \in Reqs : held'[q] = IF q = r THEN handle ELSE held[q]
    BY <1>0, <1>3 DEF StopClaim, ClaimHandle
  <2>3. \A q \in Reqs : pc'[q] = IF q = r THEN "stop_runtime" ELSE pc[q]
    BY <1>0, <1>3 DEF StopClaim, Goto
  <2>. QED
    BY <1>3, <2>1, <2>2, <2>3 DEF StopClaim, ReachInv, StoppedIsDead, NoOrphan
<1>4. CASE StopRuntime(r)
  <2>1. alive' = alive \ {held[r]} \/ alive' = {}
    BY <1>4, ConstantsAssumption DEF StopRuntime, AliveAfterStop
  <2>2. alive' \subseteq alive /\ held[r] \notin alive'
    BY <2>1
  <2>3. UNCHANGED <<handle, held>>
    BY <1>4 DEF StopRuntime, Continue
  <2>4. \A q \in Reqs : pc'[q] = IF q = r THEN "stop_commit" ELSE pc[q]
    BY <1>0, <1>4 DEF StopRuntime, Continue, Goto
  <2>. QED
    BY <2>2, <2>3, <2>4 DEF ReachInv, StoppedIsDead, NoOrphan
<1>5. CASE StopCommit(r)
  <2>1. held[r] \notin alive
    BY <1>5 DEF StopCommit, ReachInv, StoppedIsDead
  <2>. QED
    BY <1>0, <1>5, <2>1, ReachReturn DEF StopCommit
<1>6. CASE StopRestore(r)
  <2>1. handle = NoHandle /\ NoHandle \notin alive
    BY <1>0, <1>6, ConstantsAssumption DEF StopRestore, SingleOwner, Owning
  <2>2. \A q \in Reqs : held'[q] = IF q = r THEN NoHandle ELSE held[q]
    BY <1>0, <1>6 DEF StopRestore, Return
  <2>3. \A q \in Reqs : pc'[q] = IF q = r THEN "idle" ELSE pc[q]
    BY <1>0, <1>6 DEF StopRestore, Return, Goto
  <2>. QED
    BY <1>6, <2>1, <2>2, <2>3
    DEF StopRestore, RestoreHandle, set_runtime_handle, ReachInv, StoppedIsDead, NoOrphan
<1>. QED
  BY <1>1, <1>2, <1>3, <1>4, <1>5, <1>6 DEF Stop

LEMMA ReachStep ==
  ASSUME Reliable, Kind # "wasm", NEW s, OnlyStarter(s), StarterInv(s), ReachInv,
         [Next]_vars
  PROVE  ReachInv'
<1>1. ASSUME NEW r \in Reqs, Handler(r)
      PROVE  ReachInv'
  BY <1>1, SlotsStep, StartReach, StopReach DEF OnlyStarter
<1>2. ~Restart /\ \A r \in Reqs : ~Disconnect(r)
  BY DEF Restart, Disconnect, Reliable
<1>3. ASSUME NEW i \in Instances, Exit(i)
      PROVE  alive' \subseteq alive /\ UNCHANGED <<handle, held, pc>>
  BY <1>3 DEF Exit
<1>4. CASE alive' \subseteq alive /\ UNCHANGED <<handle, held, pc>>
  BY <1>4 DEF ReachInv, StoppedIsDead, NoOrphan
<1>. QED
  BY <1>1, <1>2, <1>3, <1>4 DEF Next, vars

(* With one client that starts, no live process or container is ever lost:   *)
(* its handle is in the map or with the handler that deals with it.  A wasm  *)
(* runner is left out: its stop does not wait for it to die.                 *)
THEOREM OneStarterReaches ==
  ASSUME Reliable, Kind # "wasm", NEW s, OnlyStarter(s)
  PROVE  Spec => []NoOrphan
<1>1. Init => StarterInv(s) /\ ReachInv
  BY StarterInit
<1>2. StarterInv(s) /\ ReachInv /\ [Next]_vars => StarterInv(s)' /\ ReachInv'
  BY StarterStep, ReachStep
<1>3. ReachInv => NoOrphan
  BY DEF ReachInv
<1>. QED
  BY <1>1, <1>2, <1>3, PTL DEF Spec
================================================================================
