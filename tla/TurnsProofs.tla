------------------------------ MODULE TurnsProofs ------------------------------
(***************************************************************************)
(* What holds when administrators take turns: a registration or an         *)
(* uninstall has the plugin to itself and one materialization is served at *)
(* a time, while any number of clients starts and stops the plugin.        *)
(***************************************************************************)
EXTENDS PluginManagerProofs

USE DEF db, disk, locals

TurnsSpec == Init /\ [][Next /\ TakingTurns]_vars

Alone == RegisterLabels \cup UninstallLabels

\* The step of a handler moves r to a label and leaves the locals of the others.
Moves(r, label) ==
  /\ Goto(r, label)
  /\ pc[r] # "idle" \/ label # "idle"
  /\ \A q \in Reqs \ {r} : seen'[q] = seen[q] /\ target'[q] = target[q]

LEMMA StartMoves ==
  ASSUME IInv, NEW r \in Reqs, Start(r)
  PROVE  /\ pc[r] \in StartLabels \/ StartLoad(r)
         /\ \E label \in {"idle"} \cup StartLabels : Moves(r, label)
  BY ConstantsAssumption
  DEF Moves, Start, StartLoad, StartLoadVersion, StartReadManifest, StartMarkRunning,
      AfterSpawn, StartSpawn, StartSpawnFails, StartReady, StartHealthFails,
      StartPublish, StartNav, StartRollback, At, Called, Continue, Return, Goto,
      StartLabels, IInv, TypeOK

LEMMA StopMoves ==
  ASSUME IInv, NEW r \in Reqs, Stop(r)
  PROVE  /\ pc[r] \in StopLabels \/ StopLoad(r)
         /\ \E label \in {"idle"} \cup StopLabels : Moves(r, label)
  BY DEF Moves, Stop, StopLoad, StopClaim, StopNotFound, StopRuntime, StopRuntimeFails,
         StopCommit, StopRestore, At, Called, Continue, Return, Goto, StopLabels,
         IInv, TypeOK

LEMMA UninstallMoves ==
  ASSUME IInv, NEW r \in Reqs, Uninst(r)
  PROVE  /\ pc[r] \in UninstallLabels \/ UninstallClaim(r)
         /\ \E label \in {"idle"} \cup UninstallLabels : Moves(r, label)
  BY DEF Moves, Uninst, UninstallClaim, UninstallStop, UninstallStopFails, UninstallLoad,
         UninstallNotFound, UninstallDbError, UninstallPkill, UninstallDirs,
         UninstallGrants, UninstallVersions, UninstallNav, UninstallRegistry, At, Called,
         Continue, Return, Goto, UninstallLabels, IInv, TypeOK

LEMMA RegisterMoves ==
  ASSUME IInv, NEW r \in Reqs, Register(r), ~RegisterRemoveFails(r)
  PROVE  /\ pc[r] \in RegisterLabels \/ RegisterCall(r)
         /\ \E label \in {"idle"} \cup RegisterLabels : Moves(r, label)
  BY DEF Moves, Register, RegisterCall, RegisterExtract, RegisterExtractFails,
         RegisterFindRow, RegisterWriteRow, RegisterVersion, RegisterGrants,
         RegisterDbError, At, Called, Continue, Return, Goto, RegisterLabels, IInv, TypeOK

LEMMA MaterializeMoves ==
  ASSUME IInv, NEW r \in Reqs, Materialize(r)
  PROVE  /\ pc[r] \in MaterializeLabels \/ MaterializeCall(r)
         /\ \E label \in {"idle"} \cup MaterializeLabels : Moves(r, label)
  BY DEF Moves, Materialize, MaterializeCall, MaterializeCommands, MaterializeCommandsFail,
         MaterializeLoadPrevious, MaterializeUpgrade, MaterializeUpgradeFails,
         MaterializeFindRow, MaterializeWriteRow, MaterializeVersion, MaterializeDbError,
         At, Called, Continue, Return, Goto, MaterializeLabels, RegisterLabels,
         InstallLabels, IInv, TypeOK

\* Who starts or stops meets neither a registration nor an uninstall, who
\* materializes no other materialization, and the other two nobody at all.
LEMMA Bystanders ==
  ASSUME Exclusive, Exclusive', pc \in [Reqs -> Labels], NEW r \in Reqs, NEW label,
         Moves(r, label), NEW q \in Reqs \ {r}
  PROVE  /\ pc'[q] = pc[q] /\ seen'[q] = seen[q] /\ target'[q] = target[q]
         /\ pc[q] \notin Alone
         /\ pc[r] \in Alone \/ label \in Alone => pc[q] = "idle"
         /\ pc[r] \in MaterializeLabels \/ label \in MaterializeLabels =>
              pc[q] \notin MaterializeLabels
<1>1. pc'[q] = pc[q] /\ pc'[r] = label
  BY DEF Moves, Goto
<1>2. "idle" \notin Alone \cup MaterializeLabels
  BY DEF Alone, RegisterLabels, MaterializeLabels, InstallLabels, UninstallLabels
<1>. QED
  BY <1>1, <1>2 DEF Exclusive, Alone, Moves

--------------------------------------------------------------------------------
(* Nothing outlives the row, while statements succeed.  The tables that an    *)
(* uninstall has passed stay empty, and without a row nobody works on the     *)
(* plugin but those who install it or have found that it is gone.             *)

StatementsSucceed == "dberror" \notin Faults

Gone ==
  ~Registered =>
    /\ rows = {} /\ handle = NoHandle
    /\ \A v \in Versions : RowsOf(v) = 0
    /\ \A r \in Reqs : pc[r] \in {"idle", "un_load", "reg_extract", "reg_row", "reg_write"}
                                   \cup MaterializeLabels

Wiped ==
  \A r \in Reqs :
    /\ pc[r] \in UninstallLabels => handle = NoHandle
    /\ pc[r] \in {"un_versions", "un_nav", "un_registry"} => "grants" \notin rows
    /\ pc[r] \in {"un_nav", "un_registry"} => \A v \in Versions : RowsOf(v) = 0
    /\ pc[r] = "un_registry" => "nav" \notin rows

GoneInv == IInv /\ Exclusive /\ Gone /\ Wiped

\* A write to the columns of the row neither inserts nor deletes it.
LEMMA WriteKeepsRow ==
  ASSUME registry \in RowOrNone, NEW enabled, NEW status,
         WriteIgnoringErrors(enabled, status)
  PROVE  /\ Registered => /\ registry'.version = registry.version
                          /\ registry'.status \in {registry.status, status}
         /\ ~Registered => registry' = registry
<1>1. CASE Registered
  <2>1. registry \in Row
    BY <1>1 DEF Registered, RowOrNone, NoRow
  <2>2. registry' \in {registry, [registry EXCEPT !.enabled = enabled, !.status = status]}
    BY <1>1 DEF WriteIgnoringErrors, update_plugin_runtime_state
  <2>. QED
    BY <1>1, <2>1, <2>2 DEF Row
<1>2. CASE ~Registered
  BY <1>2 DEF WriteIgnoringErrors, update_plugin_runtime_state, Registered, RowOrNone, Row,
              Status
<1>. QED
  BY <1>1, <1>2

\* Starts and stops touch neither versions nor packages, and the row they find
\* keeps its version and is installed or running after them as it was before.
LEMMA ControlWrites ==
  ASSUME IInv, NEW r \in Reqs, Start(r) \/ Stop(r), Registered
  PROVE  /\ UNCHANGED <<versionRows, pkg>>
         /\ registry'.version = registry.version
         /\ registry'.status \in {registry.status, "installed", "running"}
<1>1. registry \in RowOrNone
  BY DEF IInv, TypeOK
<1>2. CASE StartMarkRunning(r)
  BY <1>1, <1>2, WriteKeepsRow DEF StartMarkRunning
<1>3. CASE StartRollback(r)
  <2>1. seen[r].status = "installed"
    BY <1>3 DEF StartRollback, At, IInv, LocalsOK, StartLabels
  <2>. QED
    BY <1>1, <1>3, <2>1, WriteKeepsRow DEF StartRollback, RollbackState
<1>4. CASE StopCommit(r)
  BY <1>1, <1>4, WriteKeepsRow DEF StopCommit, CommitState
<1>5. CASE Start(r) /\ ~StartMarkRunning(r) /\ ~StartRollback(r)
  BY <1>5
  DEF Start, StartLoad, StartLoadVersion, StartReadManifest, StartSpawn, StartSpawnFails,
      StartReady, StartHealthFails, StartPublish, StartNav
<1>6. CASE Stop(r) /\ ~StopCommit(r)
  BY <1>6
  DEF Stop, StopLoad, StopClaim, StopNotFound, StopRuntime, StopRuntimeFails, StopRestore
<1>. QED
  BY <1>2, <1>3, <1>4, <1>5, <1>6 DEF Start, Stop

LEMMA ControlGone ==
  ASSUME GoneInv, Exclusive', NEW r \in Reqs, Start(r) \/ Stop(r)
  PROVE  Gone' /\ Wiped'
<1>1. pc \in [Reqs -> Labels] /\ IInv
  BY DEF GoneInv, IInv, TypeOK
<1>2. /\ pc[r] \in StartLabels \cup StopLabels \/ StartLoad(r) \/ StopLoad(r)
      /\ \E label \in {"idle"} \cup StartLabels \cup StopLabels : Moves(r, label)
  BY <1>1, StartMoves, StopMoves
<1>3. Registered
  BY <1>2
  DEF GoneInv, Gone, StartLabels, StopLabels, MaterializeLabels, InstallLabels,
      RegisterLabels, StartLoad, Startable, StopLoad, Registered
<1>4. Registered'
  BY <1>1, <1>3, ControlWrites DEF Registered
<1>5. \A q \in Reqs : pc'[q] \notin UninstallLabels
  <2>1. ASSUME NEW q \in Reqs \ {r} PROVE pc'[q] \notin UninstallLabels
    BY <1>1, <1>2, <2>1, Bystanders DEF GoneInv, Alone
  <2>2. pc'[r] \notin UninstallLabels
    BY <1>1, <1>2 DEF Moves, Goto, StartLabels, StopLabels, UninstallLabels
  <2>. QED
    BY <2>1, <2>2
<1>. QED
  BY <1>4, <1>5 DEF Gone, Wiped, UninstallLabels

\* A registration that fails before its first write changes no table.
LEMMA RemoveFailsGone ==
  ASSUME GoneInv, NEW r \in Reqs, RegisterRemoveFails(r)
  PROVE  Gone' /\ Wiped'
<1>1. pc \in [Reqs -> Labels]
  BY DEF GoneInv, IInv, TypeOK
<1>2. UNCHANGED <<pc, registry, versionRows, rows, handle>>
  BY <1>1 DEF RegisterRemoveFails, Return, Goto, Called, At
<1>. QED
  BY <1>2 DEF GoneInv, Gone, Wiped, Registered, RowsOf

\* Only who registers or materializes can work without a row, and then nothing
\* but the row itself is inserted.
LEMMA InstallGone ==
  ASSUME GoneInv, Exclusive', NEW r \in Reqs,
         Register(r) \/ Materialize(r), ~RegisterRemoveFails(r)
  PROVE  Gone' /\ Wiped'
<1>1. pc \in [Reqs -> Labels] /\ IInv
  BY DEF GoneInv, IInv, TypeOK
<1>2. PICK label \in {"idle"} \cup InstallLabels :
        /\ Moves(r, label)
        /\ pc[r] \in Alone \/ label \in Alone \/ pc[r] \in MaterializeLabels
             \/ label \in MaterializeLabels
  <2>1. CASE Register(r)
    <3>1. PICK label \in {"idle"} \cup RegisterLabels : Moves(r, label)
      BY <1>1, <2>1, RegisterMoves
    <3>2. pc[r] \in RegisterLabels \/ label \in RegisterLabels
      BY <1>1, <2>1, <3>1, RegisterMoves DEF RegisterCall, Moves, Goto, RegisterLabels
    <3>. QED
      BY <3>1, <3>2 DEF Alone, RegisterLabels, InstallLabels
  <2>2. CASE Materialize(r)
    <3>1. PICK label \in {"idle"} \cup MaterializeLabels : Moves(r, label)
      BY <1>1, <2>2, MaterializeMoves
    <3>2. pc[r] \in MaterializeLabels \/ label \in MaterializeLabels
      BY <1>1, <2>2, <3>1, MaterializeMoves
      DEF MaterializeCall, Moves, Goto, MaterializeLabels, RegisterLabels, InstallLabels
    <3>. QED
      BY <3>1, <3>2 DEF MaterializeLabels
  <2>. QED
    BY <2>1, <2>2
<1>3. \A q \in Reqs \ {r} : pc'[q] = pc[q] /\ pc'[q] \notin UninstallLabels
  BY <1>1, <1>2, Bystanders DEF GoneInv, Alone
<1>4. pc'[r] = label /\ label \notin UninstallLabels
  BY <1>1, <1>2 DEF Moves, Goto, InstallLabels, UninstallLabels
<1>5. Wiped'
  BY <1>3, <1>4 DEF Wiped, UninstallLabels
<1>6. ASSUME ~Registered'
      PROVE  /\ ~Registered /\ rows' = {} /\ handle' = NoHandle
             /\ \A v \in Versions : RowsOf(v)' = 0
             /\ label \in {"idle", "reg_extract", "reg_row", "reg_write"}
                            \cup MaterializeLabels
  <2>1. ~Registered
    BY <1>6
    DEF Registered, RegisteredRow, MaterializedRow, Register, RegisterCall,
        RegisterExtract, RegisterExtractFails, RegisterFindRow, RegisterWriteRow,
        RegisterVersion, RegisterGrants, RegisterDbError, Materialize, MaterializeCall,
        MaterializeCommands, MaterializeCommandsFail, MaterializeLoadPrevious,
        MaterializeUpgrade, MaterializeUpgradeFails, MaterializeFindRow,
        MaterializeWriteRow, MaterializeVersion, MaterializeDbError
  <2>2. /\ rows = {} /\ handle = NoHandle /\ \A v \in Versions : RowsOf(v) = 0
        /\ pc[r] \notin {"reg_version", "reg_grants"}
    BY <2>1
    DEF GoneInv, Gone, MaterializeLabels, RegisterLabels
  <2>3. CASE Register(r)
    <3>1. ~RegisterVersion(r) /\ ~RegisterGrants(r)
      BY <2>2 DEF RegisterVersion, RegisterGrants, At
    <3>2. UNCHANGED <<versionRows, rows, handle>>
      BY <2>3, <3>1
      DEF Register, RegisterCall, RegisterExtract, RegisterExtractFails, RegisterFindRow,
          RegisterWriteRow, RegisterDbError
    <3>3. label \in {"idle", "reg_extract", "reg_row", "reg_write"}
      <4>1. CASE RegisterWriteRow(r)
        BY <1>1, <1>4, <1>6, <4>1
        DEF RegisterWriteRow, RegisteredRow, Registered, Return, Goto
      <4>2. CASE ~RegisterWriteRow(r)
        BY <1>1, <1>4, <2>3, <3>1, <4>2
        DEF Register, RegisterCall, RegisterExtract, RegisterExtractFails,
            RegisterFindRow, RegisterDbError, Continue, Return, Goto
      <4>. QED
        BY <4>1, <4>2
    <3>. QED
      BY <2>1, <2>2, <3>2, <3>3 DEF RowsOf
  <2>4. CASE Materialize(r)
    <3>1. UNCHANGED <<rows, handle>> /\ label \in {"idle"} \cup MaterializeLabels
      BY <1>1, <1>4, <2>4, MaterializeMoves
      DEF Materialize, MaterializeCall, MaterializeCommands, MaterializeCommandsFail,
          MaterializeLoadPrevious, MaterializeUpgrade, MaterializeUpgradeFails,
          MaterializeFindRow, MaterializeWriteRow, MaterializeVersion, MaterializeDbError,
          Moves, Goto
    <3>2. UNCHANGED versionRows
      <4>1. ASSUME MaterializeVersion(r) PROVE UNCHANGED versionRows
        <5>1. target[r] \in Versions
          BY <1>1, <4>1 DEF MaterializeVersion, At, IInv, LocalsOK, InstallLabels
        <5>2. versionRows[target[r]] \in [pending : Nat, installed : Nat]
          BY <1>1, <5>1 DEF IInv, TypeOK
        <5>3. versionRows[target[r]].pending = 0
          BY <2>2, <5>1, <5>2 DEF RowsOf
        <5>. QED
          BY <4>1, <5>3 DEF MaterializeVersion, MarkOneRow, MarkNoRow
      <4>. QED
        BY <2>4, <4>1
        DEF Materialize, MaterializeCall, MaterializeCommands, MaterializeCommandsFail,
            MaterializeLoadPrevious, MaterializeUpgrade, MaterializeUpgradeFails,
            MaterializeFindRow, MaterializeWriteRow, MaterializeDbError
    <3>. QED
      BY <2>1, <2>2, <3>1, <3>2 DEF RowsOf
  <2>. QED
    BY <2>1, <2>3, <2>4
<1>7. Gone'
  BY <1>3, <1>4, <1>6 DEF Gone, GoneInv
<1>. QED
  BY <1>5, <1>7

\* An uninstall passes one table after the other, alone.
LEMMA UninstallGone ==
  ASSUME GoneInv, Exclusive', StatementsSucceed, NEW r \in Reqs, Uninst(r)
  PROVE  Gone' /\ Wiped'
<1>1. pc \in [Reqs -> Labels] /\ IInv
  BY DEF GoneInv, IInv, TypeOK
<1>2. PICK label \in {"idle"} \cup UninstallLabels :
        Moves(r, label) /\ (pc[r] \in Alone \/ label \in Alone)
  BY <1>1, UninstallMoves DEF UninstallClaim, Moves, Goto, UninstallLabels, Alone
<1>3. \A q \in Reqs \ {r} : pc'[q] = "idle"
  BY <1>1, <1>2, Bystanders DEF GoneInv
<1>4. pc'[r] = label
  BY <1>1, <1>2 DEF Moves, Goto
<1> USE DEF At, Called, Continue, Return, Goto, UninstallLabels
<1>5. SUFFICES
        /\ label \in UninstallLabels => handle' = NoHandle
        /\ label \in {"un_versions", "un_nav", "un_registry"} => "grants" \notin rows'
        /\ label \in {"un_nav", "un_registry"} => \A v \in Versions : RowsOf(v)' = 0
        /\ label = "un_registry" => "nav" \notin rows'
        /\ ~Registered' => /\ rows' = {} /\ handle' = NoHandle
                           /\ \A v \in Versions : RowsOf(v)' = 0
                           /\ label \in {"idle", "un_load"}
  BY <1>3, <1>4 DEF Gone, Wiped
<1> DEFINE Unregistered == /\ rows = {} /\ handle = NoHandle
                           /\ \A v \in Versions : RowsOf(v) = 0
<1>6. /\ pc[r] \in UninstallLabels => handle = NoHandle
      /\ ~Registered => Unregistered /\ pc[r] \in {"idle", "un_load"}
                                                     \cup InstallLabels
  BY DEF GoneInv, Gone, Wiped, MaterializeLabels, InstallLabels
<1>7. CASE UninstallClaim(r)
  <2>1. handle' = NoHandle /\ UNCHANGED <<registry, versionRows, rows>>
    BY <1>7 DEF UninstallClaim, ClaimHandle, KeepHandle, remove_runtime_handle
  <2>2. label = (IF handle # NoHandle THEN "un_stop" ELSE "un_load")
    BY <1>1, <1>4, <1>7 DEF UninstallClaim
  <2>. QED
    BY <1>6, <2>1, <2>2 DEF Registered, RowsOf
<1>8. CASE \/ UninstallStop(r) \/ UninstallStopFails(r) \/ UninstallLoad(r)
           \/ UninstallNotFound(r) \/ UninstallDbError(r) \/ UninstallPkill(r)
           \/ UninstallDirs(r)
  BY <1>1, <1>4, <1>6, <1>8
  DEF UninstallStop, UninstallStopFails, UninstallLoad, UninstallNotFound,
      UninstallDbError, UninstallPkill, UninstallDirs, Registered, RowsOf, InstallLabels,
      StatementsSucceed, IInv, TypeOK
<1>9. CASE UninstallGrants(r)
  BY <1>1, <1>4, <1>6, <1>9
  DEF UninstallGrants, DeleteRows, StatementsSucceed, Registered, InstallLabels, IInv, TypeOK
<1>10. CASE UninstallVersions(r)
  BY <1>1, <1>4, <1>6, <1>10
  DEF UninstallVersions, DeleteVersions, StatementsSucceed, Registered, InstallLabels,
      RowsOf, NoRows, GoneInv, Wiped, IInv, TypeOK
<1>11. CASE UninstallNav(r)
  BY <1>1, <1>4, <1>6, <1>11
  DEF UninstallNav, DeleteRows, StatementsSucceed, Registered, InstallLabels, RowsOf,
      GoneInv, Wiped, IInv, TypeOK
<1>12. CASE UninstallRegistry(r)
  <2>1. rows = {}
    BY <1>1, <1>12 DEF UninstallRegistry, GoneInv, Wiped, IInv, TypeOK, Tables
  <2>. QED
    BY <1>1, <1>4, <1>6, <1>12, <2>1
    DEF UninstallRegistry, RowsOf, GoneInv, Wiped, IInv, TypeOK
<1>. QED
  BY <1>7, <1>8, <1>9, <1>10, <1>11, <1>12 DEF Uninst

\* Whatever dies or is dropped, no row of any table is written.
LEMMA FaultGone ==
  ASSUME GoneInv,
         Restart \/ (\E i \in Instances : Exit(i)) \/ (\E r \in Reqs : Disconnect(r))
  PROVE  Gone' /\ Wiped'
<1>1. UNCHANGED <<registry, versionRows, rows>> /\ handle' \in {handle, NoHandle}
  BY DEF Restart, Exit, Disconnect
<1>2. \A q \in Reqs : pc'[q] \in {pc[q], "idle"}
  BY DEF Restart, Exit, Disconnect, Return, Goto, GoneInv, IInv, TypeOK
<1>3. \A q \in Reqs : pc'[q] # "idle" => pc'[q] = pc[q]
  BY <1>2
<1>4. Gone'
  BY <1>1, <1>2 DEF GoneInv, Gone, Registered, RowsOf
<1>5. Wiped'
  BY <1>1, <1>3 DEF GoneInv, Wiped, RowsOf, UninstallLabels
<1>. QED
  BY <1>4, <1>5

LEMMA GoneStep == StatementsSucceed /\ GoneInv /\ [Next /\ TakingTurns]_vars => GoneInv'
<1> SUFFICES ASSUME StatementsSucceed, GoneInv, [Next /\ TakingTurns]_vars
             PROVE  GoneInv'
  OBVIOUS
<1>1. IInv'
  BY StepInv DEF GoneInv
<1>2. CASE UNCHANGED vars
  BY <1>1, <1>2
  DEF vars, GoneInv, Exclusive, Gone, Wiped, Registered, RowsOf
<1>3. CASE Next /\ TakingTurns
  <2>1. Exclusive'
    BY <1>3 DEF TakingTurns
  <2>2. Gone' /\ Wiped'
    BY <1>3, <2>1, ControlGone, InstallGone, RemoveFailsGone, UninstallGone, FaultGone
    DEF Next, Handler
  <2>. QED
    BY <1>1, <2>1, <2>2 DEF GoneInv
<1>. QED
  BY <1>2, <1>3

(* An uninstalled plugin has no version rows, no grants, no navigation item  *)
(* and no handle, for any number of clients, if administrators take turns    *)
(* and statements succeed: whatever was started, stopped or materialized     *)
(* before, whatever died, was dropped or lost by a restart.                  *)
THEOREM UninstalledIsGone ==
  ASSUME StatementsSucceed
  PROVE  TurnsSpec => []NothingOutlivesUninstall
<1>1. Init => GoneInv
  <2> SUFFICES ASSUME Init PROVE GoneInv
    OBVIOUS
  <2>1. Exclusive /\ Wiped
    BY DEF Init, Exclusive, Wiped, UninstallLabels, MaterializeLabels, RegisterLabels,
           InstallLabels
  <2>2. Gone
    BY DEF Init, Pristine, Installed, Gone, Registered, RowsOf, NoRows
  <2>. QED
    BY <2>1, <2>2, InitInv DEF GoneInv
<1>2. GoneInv => NothingOutlivesUninstall
  BY DEF GoneInv, Gone, NothingOutlivesUninstall
<1>. QED
  BY <1>1, <1>2, GoneStep, PTL DEF TurnsSpec

--------------------------------------------------------------------------------
(* The package of an installed plugin is prepared, while nothing but          *)
(* instances, the engine and pids misbehaves.                                 *)

HandlersSucceed == Faults \subseteq {"exit", "engine", "pidreuse"}

Usable == {"installed", "running"}

\* Nobody starts or stops a plugin that is about to be registered or is gone.
NeverPending ==
  \A r \in Reqs : pc[r] \in StartLabels \cup StopLabels => registry.status \in Usable

\* A package has its version rows, unless its registration is about to add one.
HasRows ==
  \A v \in Versions :
    pkg[v] # "absent" =>
      \/ RowsOf(v) > 0
      \/ \E r \in Reqs : pc[r] \in {"reg_row", "reg_write", "reg_version"} /\ target[r] = v

Unregistering == {"un_grants", "un_versions", "un_nav", "un_registry"}

\* What the one who installs or uninstalls has read or done is still so.
StillSo(r) ==
  /\ pc[r] = "reg_write" => seen[r] = registry
  /\ pc[r] \in {"mat_prev", "mat_upgrade", "mat_row", "mat_write"} =>
       pkg[target[r]] = "prepared"
  /\ pc[r] \in Unregistering => \A v \in Versions : pkg[v] = "absent"

\* Where a handler has unmade the package of the row and will rewrite the row.
Rewriting == {"reg_extract", "reg_row", "reg_write", "mat_row", "mat_write"}
               \cup Unregistering

RowPrepared ==
  registry.status \in Usable =>
    pkg[registry.version] = "prepared" \/ \E r \in Reqs : pc[r] \in Rewriting

PreparedParts == NeverPending /\ HasRows /\ (\A r \in Reqs : StillSo(r)) /\ RowPrepared
PreparedInv == IInv /\ Exclusive /\ PreparedParts

LEMMA PreparedMeans == PreparedInv => InstalledIsPrepared
  BY DEF PreparedInv, PreparedParts, InstalledIsPrepared, Quiet, RowPrepared, HasRows,
         Usable, Rewriting, Unregistering, IInv, TypeOK, RowOrNone, Row, NoRow

\* A start or stop writes the status of a row only, and meets nobody who would
\* mind: those who register or uninstall have the plugin to themselves.
LEMMA ControlPrepared ==
  ASSUME PreparedInv, Exclusive', NEW r \in Reqs, Start(r) \/ Stop(r)
  PROVE  PreparedParts'
<1>1. pc \in [Reqs -> Labels] /\ IInv
  BY DEF PreparedInv, IInv, TypeOK
<1>2. PICK label \in {"idle"} \cup StartLabels \cup StopLabels : Moves(r, label)
  BY <1>1, StartMoves, StopMoves
<1>3. pc[r] \in StartLabels \cup StopLabels \/ StartLoad(r) \/ StopLoad(r)
  BY <1>1, StartMoves, StopMoves
<1>4. registry.status \in Usable
  BY <1>3
  DEF PreparedInv, PreparedParts, NeverPending, StartLoad, Startable, StopLoad, Usable
<1>5. /\ UNCHANGED <<versionRows, pkg>>
      /\ registry'.version = registry.version
      /\ registry'.status \in Usable
  BY <1>1, <1>4, ControlWrites DEF Usable, Registered
<1>6. \A q \in Reqs \ {r} :
        /\ pc'[q] = pc[q] /\ seen'[q] = seen[q] /\ target'[q] = target[q]
        /\ pc[q] \notin Alone
  BY <1>1, <1>2, Bystanders DEF PreparedInv
<1>7. pc'[r] = label /\ pc[r] \in {"idle"} \cup StartLabels \cup StopLabels
  BY <1>1, <1>2, <1>3 DEF Moves, Goto, StartLoad, StopLoad, Called, At
<1> USE DEF Alone, RegisterLabels, UninstallLabels, StartLabels, StopLabels
<1>8. NeverPending'
  BY <1>5 DEF NeverPending
<1>9. HasRows'
  BY <1>5, <1>6, <1>7 DEF PreparedInv, PreparedParts, HasRows, RowsOf
<1>10. \A q \in Reqs : StillSo(q)'
  BY <1>5, <1>6, <1>7 DEF PreparedInv, PreparedParts, StillSo, Unregistering
<1>11. RowPrepared'
  BY <1>4, <1>5, <1>6, <1>7
  DEF PreparedInv, PreparedParts, RowPrepared, Rewriting, Unregistering
<1>. QED
  BY <1>8, <1>9, <1>10, <1>11 DEF PreparedParts

\* Where r is alone, the parts are about r only.
LEMMA AlonePrepared ==
  ASSUME NEW r \in Reqs, NEW label \in {"idle"} \cup RegisterLabels \cup UninstallLabels,
         pc'[r] = label, \A q \in Reqs \ {r} : pc'[q] = "idle",
         StillSo(r)',
         \A v \in Versions :
           pkg'[v] # "absent" =>
             \/ RowsOf(v)' > 0
             \/ label \in {"reg_row", "reg_write", "reg_version"} /\ target'[r] = v,
         registry'.status \in Usable =>
           pkg'[registry'.version] = "prepared" \/ label \in Rewriting
  PROVE  PreparedParts'
<1> USE DEF StartLabels, StopLabels, RegisterLabels, UninstallLabels, Rewriting,
            Unregistering
<1>1. NeverPending'
  BY DEF NeverPending
<1>2. HasRows'
  BY DEF HasRows
<1>3. \A q \in Reqs : StillSo(q)'
  BY DEF StillSo
<1>4. RowPrepared'
  BY DEF RowPrepared
<1>. QED
  BY <1>1, <1>2, <1>3, <1>4 DEF PreparedParts

LEMMA RegisterPrepared ==
  ASSUME PreparedInv, Exclusive', HandlersSucceed, NEW r \in Reqs, Register(r)
  PROVE  PreparedParts'
<1>1. pc \in [Reqs -> Labels] /\ IInv
  BY DEF PreparedInv, IInv, TypeOK
<1>0. ~RegisterRemoveFails(r)
  BY DEF RegisterRemoveFails, HandlersSucceed
<1>2. PICK label \in {"idle"} \cup RegisterLabels :
        Moves(r, label) /\ (pc[r] \in Alone \/ label \in Alone)
  BY <1>0, <1>1, RegisterMoves DEF RegisterCall, Moves, Goto, RegisterLabels, Alone
<1>3. \A q \in Reqs \ {r} : pc[q] = "idle" /\ pc'[q] = "idle"
  BY <1>1, <1>2, Bystanders DEF PreparedInv
<1>4. pc'[r] = label
  BY <1>1, <1>2 DEF Moves, Goto
<1>5. \A v \in Versions :
        pkg[v] # "absent" =>
          \/ RowsOf(v) > 0
          \/ pc[r] \in {"reg_row", "reg_write", "reg_version"} /\ target[r] = v
  BY <1>3 DEF PreparedInv, PreparedParts, HasRows
<1>6. registry.status \in Usable =>
        pkg[registry.version] = "prepared" \/ pc[r] \in Rewriting
  BY <1>3 DEF PreparedInv, PreparedParts, RowPrepared, Rewriting, Unregistering
<1>7. /\ target[r] \in Versions \/ pc[r] = "idle"
      /\ StillSo(r)
  BY <1>0, <1>1, RegisterMoves
  DEF RegisterCall, Called, At, RegisterLabels, InstallLabels, IInv, LocalsOK,
      PreparedInv, PreparedParts
<1> DEFINE Rest ==
      /\ StillSo(r)'
      /\ \A v \in Versions :
           pkg'[v] # "absent" =>
             \/ RowsOf(v)' > 0
             \/ label \in {"reg_row", "reg_write", "reg_version"} /\ target'[r] = v
      /\ registry'.status \in Usable =>
           pkg'[registry'.version] = "prepared" \/ label \in Rewriting
<1>8. SUFFICES Rest
  BY <1>3, <1>4, AlonePrepared
<1> USE DEF At, Called, Continue, Return, Goto, SetPackage
<1>9. /\ pkg \in [Versions -> PackageState] /\ seen \in [Reqs -> RowOrNone]
      /\ versionRows \in [Versions -> [pending : Nat, installed : Nat]]
      /\ registry \in RowOrNone /\ target \in [Reqs -> Versions \cup {NoVersion}]
  BY <1>1 DEF IInv, TypeOK
<1>10. CASE RegisterCall(r)
  <2>1. /\ pc[r] = "idle" /\ label = "reg_extract" /\ UNCHANGED <<registry, versionRows>>
        /\ \E v \in Versions : pkg' = [pkg EXCEPT ![v] = "absent"]
    BY <1>1, <1>4, <1>10 DEF RegisterCall
  <2>. QED
    BY <1>4, <1>5, <1>9, <2>1 DEF StillSo, RowsOf, Rewriting, Unregistering
<1>11. CASE RegisterExtract(r)
  <2>1. /\ pc[r] = "reg_extract" /\ label = "reg_row"
        /\ UNCHANGED <<registry, versionRows, target>>
        /\ pkg' = [pkg EXCEPT ![target[r]] = "registered"]
    BY <1>1, <1>4, <1>11 DEF RegisterExtract
  <2>. QED
    BY <1>4, <1>5, <1>9, <2>1 DEF StillSo, RowsOf, Rewriting, Unregistering
<1>12. CASE RegisterFindRow(r)
  <2>1. /\ pc[r] = "reg_row" /\ label = "reg_write" /\ seen'[r] = registry
        /\ UNCHANGED <<registry, versionRows, target, pkg>>
    BY <1>1, <1>4, <1>9, <1>12 DEF RegisterFindRow
  <2>. QED
    BY <1>4, <1>5, <2>1 DEF StillSo, RowsOf, Rewriting, Unregistering
<1>13. CASE RegisterWriteRow(r)
  <2>1. seen[r] = registry
    BY <1>7, <1>13 DEF RegisterWriteRow, StillSo
  <2>2. seen[r] = NoRow <=> ~Registered
    BY <1>9, <2>1 DEF Registered, RowOrNone, Row, NoRow, Status
  <2>3. /\ pc[r] = "reg_write" /\ label = "reg_version"
        /\ registry' = RegisteredRow(target[r])
        /\ UNCHANGED <<versionRows, target, pkg>>
    BY <1>1, <1>4, <1>13, <2>2 DEF RegisterWriteRow
  <2>. QED
    BY <1>4, <1>5, <2>3 DEF StillSo, RowsOf, RegisteredRow, Usable, Unregistering
<1>14. CASE RegisterVersion(r)
  <2>1. /\ pc[r] = "reg_version" /\ label = "reg_grants"
        /\ UNCHANGED <<registry, pkg>>
        /\ versionRows' = [versionRows EXCEPT ![target[r]].pending = @ + 1]
    BY <1>1, <1>4, <1>14 DEF RegisterVersion
  <2>2. \A v \in Versions : RowsOf(v) > 0 \/ v = target[r] => RowsOf(v)' > 0
    BY <1>7, <1>9, <2>1 DEF RowsOf
  <2>. QED
    BY <1>4, <1>5, <1>6, <2>1, <2>2 DEF StillSo, Rewriting, Unregistering
<1>15. CASE RegisterGrants(r)
  <2>1. /\ pc[r] = "reg_grants" /\ label = "idle"
        /\ UNCHANGED <<registry, versionRows, pkg>>
    BY <1>1, <1>4, <1>15 DEF RegisterGrants
  <2>. QED
    BY <1>4, <1>5, <1>6, <2>1 DEF StillSo, RowsOf, Rewriting, Unregistering
<1>16. ~RegisterExtractFails(r) /\ ~RegisterDbError(r)
  BY DEF RegisterExtractFails, RegisterDbError, HandlersSucceed
<1>. QED
  BY <1>0, <1>10, <1>11, <1>12, <1>13, <1>14, <1>15, <1>16 DEF Register

LEMMA UninstallPrepared ==
  ASSUME PreparedInv, Exclusive', HandlersSucceed, NEW r \in Reqs, Uninst(r)
  PROVE  PreparedParts'
<1>1. pc \in [Reqs -> Labels] /\ IInv
  BY DEF PreparedInv, IInv, TypeOK
<1>2. PICK label \in {"idle"} \cup UninstallLabels :
        Moves(r, label) /\ (pc[r] \in Alone \/ label \in Alone)
  BY <1>1, UninstallMoves DEF UninstallClaim, Moves, Goto, UninstallLabels, Alone
<1>3. \A q \in Reqs \ {r} : pc[q] = "idle" /\ pc'[q] = "idle"
  BY <1>1, <1>2, Bystanders DEF PreparedInv
<1>4. pc'[r] = label /\ pc[r] \in {"idle"} \cup UninstallLabels
  BY <1>1, <1>2, UninstallMoves DEF Moves, Goto, UninstallClaim, Called, At
<1>5. \A v \in Versions : pkg[v] # "absent" => RowsOf(v) > 0
  BY <1>3, <1>4 DEF PreparedInv, PreparedParts, HasRows, UninstallLabels
<1>6. registry.status \in Usable =>
        pkg[registry.version] = "prepared" \/ pc[r] \in Unregistering
  BY <1>3, <1>4
  DEF PreparedInv, PreparedParts, RowPrepared, Rewriting, Unregistering, UninstallLabels
<1>7. StillSo(r)
  BY DEF PreparedInv, PreparedParts
<1> DEFINE Rest ==
      /\ StillSo(r)'
      /\ \A v \in Versions : pkg'[v] # "absent" => RowsOf(v)' > 0
      /\ registry'.status \in Usable =>
           pkg'[registry'.version] = "prepared" \/ label \in Unregistering
<1>8. SUFFICES Rest
  BY <1>3, <1>4, AlonePrepared DEF Rewriting
<1> USE DEF At, Called, Continue, Return, Goto, Unregistering, StillSo
<1>9. CASE \/ UninstallClaim(r) \/ UninstallStop(r) \/ UninstallStopFails(r)
           \/ UninstallLoad(r) \/ UninstallNotFound(r) \/ UninstallPkill(r)
  <2>1. /\ UNCHANGED <<registry, versionRows, pkg>> /\ pc[r] \notin Unregistering
        /\ label \in {"idle", "un_stop", "un_load", "un_pkill", "un_dirs"}
    BY <1>1, <1>4, <1>9
    DEF UninstallClaim, UninstallStop, UninstallStopFails, UninstallLoad,
        UninstallNotFound, UninstallPkill
  <2>. QED
    BY <1>4, <1>5, <1>6, <2>1 DEF RowsOf
<1>10. CASE UninstallDirs(r)
  <2>1. label = "un_grants" /\ \A v \in Versions : pkg'[v] = "absent"
    BY <1>1, <1>4, <1>10 DEF UninstallDirs, HandlersSucceed
  <2>. QED
    BY <1>4, <2>1
<1>11. CASE UninstallGrants(r) \/ UninstallVersions(r) \/ UninstallNav(r)
  <2>1. /\ UNCHANGED pkg /\ pc[r] \in Unregistering
        /\ label \in {"un_versions", "un_nav", "un_registry"}
    BY <1>1, <1>4, <1>11 DEF UninstallGrants, UninstallVersions, UninstallNav
  <2>. QED
    BY <1>4, <1>7, <2>1
<1>12. CASE UninstallRegistry(r)
  <2>1. UNCHANGED pkg /\ pc[r] \in Unregistering /\ label = "idle" /\ registry' = NoRow
    BY <1>1, <1>4, <1>12 DEF UninstallRegistry, DeleteRegistry, HandlersSucceed
  <2>. QED
    BY <1>4, <1>7, <2>1 DEF NoRow, Usable
<1>13. ~UninstallDbError(r)
  BY DEF UninstallDbError, HandlersSucceed
<1>. QED
  BY <1>9, <1>10, <1>11, <1>12, <1>13 DEF Uninst

\* A materialization meets starts and stops, which mind the status only.
LEMMA MaterializePrepared ==
  ASSUME PreparedInv, Exclusive', HandlersSucceed, NEW r \in Reqs, Materialize(r)
  PROVE  PreparedParts'
<1>1. pc \in [Reqs -> Labels] /\ IInv
  BY DEF PreparedInv, IInv, TypeOK
<1>2. pc[r] \in MaterializeLabels \/ MaterializeCall(r)
  BY <1>1, MaterializeMoves
<1>3. PICK label \in {"idle"} \cup MaterializeLabels :
        /\ Moves(r, label)
        /\ pc[r] \in MaterializeLabels \/ label \in MaterializeLabels
  BY <1>1, <1>2, MaterializeMoves
  DEF MaterializeCall, Moves, Goto, MaterializeLabels, RegisterLabels, InstallLabels
<1>4. \A q \in Reqs \ {r} :
        /\ pc'[q] = pc[q] /\ seen'[q] = seen[q] /\ target'[q] = target[q]
        /\ pc[q] \notin Alone \cup MaterializeLabels
  BY <1>1, <1>3, Bystanders DEF PreparedInv
<1>5. pc'[r] = label /\ pc[r] \in {"idle"} \cup MaterializeLabels
  BY <1>1, <1>2, <1>3 DEF Moves, Goto, MaterializeCall, Called, At
<1> USE DEF Alone, RegisterLabels, UninstallLabels, MaterializeLabels, InstallLabels,
            Unregistering, Rewriting
<1>6. \A v \in Versions : pkg[v] # "absent" => RowsOf(v) > 0
  BY <1>4, <1>5 DEF PreparedInv, PreparedParts, HasRows
<1>7. registry.status \in Usable =>
        pkg[registry.version] = "prepared" \/ pc[r] \in {"mat_row", "mat_write"}
  BY <1>4, <1>5 DEF PreparedInv, PreparedParts, RowPrepared
<1>8. StillSo(r) /\ \A q \in Reqs : pc[q] \in StartLabels \cup StopLabels =>
                                      registry.status \in Usable
  BY DEF PreparedInv, PreparedParts, NeverPending
<1>9. /\ pkg \in [Versions -> PackageState] /\ seen \in [Reqs -> RowOrNone]
      /\ versionRows \in [Versions -> [pending : Nat, installed : Nat]]
      /\ registry \in RowOrNone
      /\ pc[r] # "idle" => target[r] \in Versions
  BY <1>1, <1>5 DEF IInv, TypeOK, LocalsOK
<1> DEFINE Rest ==
      /\ StillSo(r)'
      /\ registry.status \in Usable => registry'.status \in Usable
      /\ \A v \in Versions : pkg'[v] # "absent" => RowsOf(v)' > 0
      /\ registry'.status \in Usable =>
           pkg'[registry'.version] = "prepared" \/ label \in {"mat_row", "mat_write"}
<1>10. SUFFICES Rest
  <2>1. NeverPending'
    BY <1>4, <1>5, <1>8, Rest DEF NeverPending, StartLabels, StopLabels
  <2>2. HasRows' /\ RowPrepared'
    BY <1>5, Rest DEF HasRows, RowPrepared
  <2>3. \A q \in Reqs : StillSo(q)'
    BY <1>4, Rest DEF StillSo
  <2>. QED
    BY <2>1, <2>2, <2>3 DEF PreparedParts
<1> USE DEF At, Called, Continue, Return, Goto, SetPackage, StillSo
<1>11. CASE MaterializeCall(r) \/ MaterializeUpgradeFails(r)
  <2>1. /\ label \in {"idle", "mat_commands"} /\ pc[r] \in {"idle", "mat_upgrade"}
        /\ UNCHANGED <<registry, versionRows, pkg>>
    BY <1>1, <1>5, <1>11 DEF MaterializeCall, MaterializeUpgradeFails, HandlersSucceed
  <2>. QED
    BY <1>5, <1>6, <1>7, <2>1 DEF RowsOf
<1>12. CASE MaterializeCommands(r)
  <2>1. /\ label = "mat_prev" /\ pc[r] = "mat_commands" /\ pkg[target[r]] # "absent"
        /\ UNCHANGED <<registry, versionRows, target>>
        /\ pkg' = [pkg EXCEPT ![target[r]] = "prepared"]
    BY <1>1, <1>5, <1>12 DEF MaterializeCommands
  <2>. QED
    BY <1>5, <1>6, <1>7, <1>9, <2>1 DEF RowsOf, Usable, RowOrNone, Row, NoRow
<1>13. CASE MaterializeCommandsFail(r)
  <2>1. /\ label = "idle" /\ pc[r] = "mat_commands"
        /\ UNCHANGED <<registry, versionRows, pkg>>
    BY <1>1, <1>5, <1>13 DEF MaterializeCommandsFail, HandlersSucceed
  <2>. QED
    BY <1>5, <1>6, <1>7, <2>1 DEF RowsOf
<1>14. CASE MaterializeLoadPrevious(r)
  <2>1. /\ label = "mat_upgrade" /\ pc[r] = "mat_prev"
        /\ UNCHANGED <<registry, versionRows, pkg, target>>
    BY <1>1, <1>5, <1>14 DEF MaterializeLoadPrevious
  <2>. QED
    BY <1>5, <1>6, <1>7, <1>8, <2>1 DEF RowsOf
<1>15. CASE MaterializeUpgrade(r)
  <2>1. /\ label = "mat_row" /\ pc[r] = "mat_upgrade"
        /\ UNCHANGED <<registry, versionRows, target>>
        /\ \A v \in Versions : pkg'[v] \in {pkg[v], "absent"}
        /\ pkg'[target[r]] = pkg[target[r]]
    BY <1>1, <1>5, <1>9, <1>15 DEF MaterializeUpgrade, PreviousVersions
  <2>. QED
    BY <1>5, <1>6, <1>8, <2>1 DEF RowsOf
<1>16. CASE MaterializeFindRow(r)
  <2>1. /\ label = IF Registered THEN "mat_write" ELSE "mat_version"
        /\ pc[r] = "mat_row" /\ UNCHANGED <<registry, versionRows, pkg, target>>
    BY <1>1, <1>5, <1>16 DEF MaterializeFindRow
  <2>. QED
    BY <1>5, <1>6, <1>8, <2>1 DEF RowsOf, Registered, Usable
<1>17. CASE MaterializeWriteRow(r)
  <2>1. /\ label \in {"mat_version", "idle"} /\ pc[r] = "mat_write"
        /\ UNCHANGED <<versionRows, pkg>>
        /\ registry' = IF Registered THEN MaterializedRow(target[r]) ELSE registry
    BY <1>1, <1>5, <1>17 DEF MaterializeWriteRow
  <2>. QED
    BY <1>5, <1>6, <1>8, <2>1 DEF RowsOf, Registered, Usable, MaterializedRow
<1>18. CASE MaterializeVersion(r)
  <2>1. /\ label = "idle" /\ pc[r] = "mat_version" /\ UNCHANGED <<registry, pkg>>
        /\ MarkOneRow(target[r]) \/ UNCHANGED versionRows
    BY <1>1, <1>5, <1>18 DEF MaterializeVersion, MarkNoRow
  <2>2. \A v \in Versions : RowsOf(v) > 0 => RowsOf(v)' > 0
    BY <1>9, <2>1 DEF RowsOf, MarkOneRow
  <2>. QED
    BY <1>5, <1>6, <1>7, <2>1, <2>2
<1>19. ~MaterializeDbError(r)
  BY DEF MaterializeDbError, HandlersSucceed
<1>. QED
  BY <1>11, <1>12, <1>13, <1>14, <1>15, <1>16, <1>17, <1>18, <1>19 DEF Materialize

LEMMA PreparedStep == HandlersSucceed /\ PreparedInv /\ [Next /\ TakingTurns]_vars
                        => PreparedInv'
<1> SUFFICES ASSUME HandlersSucceed, PreparedInv, [Next /\ TakingTurns]_vars
             PROVE  PreparedInv'
  OBVIOUS
<1>1. IInv'
  BY StepInv DEF PreparedInv
<1>2. ASSUME UNCHANGED <<registry, versionRows, pkg, pc, seen, target>>
      PROVE  PreparedInv'
  BY <1>1, <1>2
  DEF PreparedInv, PreparedParts, Exclusive, NeverPending, HasRows, StillSo, RowPrepared,
      RowsOf
<1>3. CASE Next /\ TakingTurns
  <2>1. Exclusive'
    BY <1>3 DEF TakingTurns
  <2>2. ASSUME NEW r \in Reqs, Handler(r) PROVE PreparedParts'
    BY <2>1, <2>2, ControlPrepared, RegisterPrepared, UninstallPrepared,
       MaterializePrepared DEF Handler
  <2>3. ASSUME NEW i \in Instances, Exit(i) PROVE PreparedInv'
    BY <1>2, <2>3 DEF Exit
  <2>4. ~Restart /\ \A r \in Reqs : ~Disconnect(r)
    BY DEF Restart, Disconnect, HandlersSucceed
  <2>. QED
    BY <1>1, <1>3, <2>1, <2>2, <2>3, <2>4 DEF Next, PreparedInv
<1>. QED
  BY <1>2, <1>3 DEF vars

(* An installed or running plugin has its package, with the lifecycle        *)
(* commands done, and a version row, for any number of clients that start    *)
(* and stop it while administrators take turns and handlers succeed: an      *)
(* upgrade removes the old package only when it is about to name the new.    *)
THEOREM InstalledStaysPrepared ==
  ASSUME HandlersSucceed
  PROVE  TurnsSpec => []InstalledIsPrepared
<1>1. Init => PreparedInv
  <2> SUFFICES ASSUME Init PROVE PreparedInv
    OBVIOUS
  <2> USE DEF Init, Pristine, Installed, NoRow
  <2>1. Exclusive
    BY DEF Exclusive, UninstallLabels, MaterializeLabels, RegisterLabels, InstallLabels
  <2>2. NeverPending /\ \A r \in Reqs : StillSo(r)
    BY DEF NeverPending, StillSo, StartLabels, StopLabels, Unregistering
  <2>3. HasRows /\ RowPrepared
    BY DEF HasRows, RowPrepared, RowsOf, Usable
  <2>. QED
    BY <2>1, <2>2, <2>3, InitInv DEF PreparedInv, PreparedParts
<1>2. PreparedInv => InstalledIsPrepared
  BY PreparedMeans
<1>. QED
  BY <1>1, <1>2, PreparedStep, PTL DEF TurnsSpec
================================================================================
