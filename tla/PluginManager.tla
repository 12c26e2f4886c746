----------------------------- MODULE PluginManager -----------------------------
(***************************************************************************)
(* The admin API and its environment: requests of all five kinds           *)
(* interleave at their awaits while instances die by themselves, clients   *)
(* disconnect and the host process restarts.  "Faults" says which of these *)
(* a run allows and "Calls" which requests there can be.                   *)
(***************************************************************************)
EXTENDS RuntimeControl, PackageInstall, Uninstall

--------------------------------------------------------------------------------
(* The environment.                                                         *)

\* An instance terminates without being asked to.
Exit(i) ==
  /\ "exit" \in Faults
  /\ i \in alive
  /\ alive' = alive \ {i}
  /\ UNCHANGED <<db, handle, disk, locals>>

\* Code without an await runs to its end: publishing a handle that was just
\* obtained and restoring one after a failed stop.
Uncancellable == {"idle", "start_publish", "stop_restore"}
Stopping == {"stop_runtime", "un_stop"}

\* A process is signalled in the same poll that claims its handle.
Cancellable(r) ==
  /\ pc[r] \notin Uncancellable
  /\ pc[r] \in Stopping /\ Kind = "process" => held[r] \in alive

\* What may become of the package directory of v when handler r ends at its await:
\* what was being unpacked, prepared or removed is left half done.
LeftBehind(r, v) ==
  CASE pc[r] = "reg_extract" /\ v = target[r] -> {pkg[v], "registered", "invalid"}
    [] pc[r] = "mat_commands" /\ v = target[r] -> {pkg[v], "invalid"}
    [] pc[r] = "mat_upgrade" /\ PreviousVersions(r) # {} /\ v = target[r] -> {pkg[v], "invalid"}
    [] pc[r] = "mat_upgrade" /\ v \in PreviousVersions(r) -> Torn(v)
    [] pc[r] = "un_dirs" -> Torn(v)
    [] OTHER -> {pkg[v]}

Interrupted(handlers) ==
  /\ pkg' \in [Versions -> PackageState]
  /\ \A v \in Versions : pkg'[v] \in {pkg[v]} \cup UNION {LeftBehind(r, v) : r \in handlers}

\* The client is gone and the server drops the handler at its await; what was
\* already asked of the OS, the engine or a blocking thread still happens.
Disconnect(r) ==
  /\ "disconnect" \in Faults
  /\ Cancellable(r)
  /\ Return(r)
  /\ alive' \in {alive} \cup IF pc[r] \in Stopping THEN AliveAfterStop(r) ELSE {}
  /\ Interrupted({r})
  /\ UNCHANGED <<db, handle>>

\* init_plugin_runtime_manager: the map starts empty; the rows, and what handlers
\* did to the directories, are left as they are.  Instances live on in a process
\* group or a container of their own.
Restart ==
  /\ "restart" \in Faults
  /\ handle' = NoHandle
  /\ alive' \in SUBSET alive
  /\ pc' = [r \in Reqs |-> "idle"]
  /\ held' = [r \in Reqs |-> NoHandle]
  /\ seen' = [r \in Reqs |-> NoRow]
  /\ target' = [r \in Reqs |-> NoVersion]
  /\ Interrupted(Reqs)
  /\ UNCHANGED db

Handler(r) == Start(r) \/ Stop(r) \/ Uninst(r) \/ Register(r) \/ Materialize(r)

Next ==
  \/ \E r \in Reqs : Handler(r) \/ Disconnect(r)
  \/ \E i \in Instances : Exit(i)
  \/ Restart

Spec == Init /\ [][Next]_vars

\* A request that is being served, and a stop that is.
Serve(r)     == pc[r] # "idle" /\ Handler(r)
ServeStop(r) == pc[r] # "idle" /\ Stop(r)

\* The async runtime polls every handler that is not dropped, and the awaits of
\* a stop end: a database statement, a "kill", a wait for a process group that is
\* bounded, a "docker stop".
FairSpec == Spec /\ \A r \in Reqs : WF_vars(ServeStop(r))

\* Every handler ends, as starts and stops of wasm runners do, and a client
\* keeps asking to stop a plugin that runs.
InsistentSpec == Spec /\ \A r \in Reqs : WF_vars(Serve(r)) /\ WF_vars(StopLoad(r))

RegisterLabels == {"reg_extract", "reg_row", "reg_write", "reg_version", "reg_grants"}
MaterializeLabels == InstallLabels \ RegisterLabels

\* Registrations and uninstalls have the plugin to themselves and one
\* materialization is served at a time; starts and stops come as they like.
Exclusive ==
  /\ \A r \in Reqs :
       pc[r] \in RegisterLabels \cup UninstallLabels =>
         \A s \in Reqs \ {r} : pc[s] = "idle"
  /\ \A r, s \in Reqs :
       pc[r] \in MaterializeLabels /\ pc[s] \in MaterializeLabels => r = s

\* The administrators take turns: an action constraint of a run.
TakingTurns == Exclusive'

--------------------------------------------------------------------------------
(* Vocabulary of the properties.                                            *)

\* A start that has written "running" and not yet handed over or rolled back.
Starting(r) == pc[r] \in {"start_spawn", "start_wait", "start_publish", "start_rollback"}

\* A stop that has taken the handle and not yet written its outcome.
StoppingRuntime(r) == pc[r] \in {"stop_runtime", "stop_commit", "stop_restore"}

Quiet == \A r \in Reqs : pc[r] = "idle"

\* Where a handler has a runtime handle in a local variable.
Holding == {"start_wait", "start_publish", "stop_runtime", "stop_commit",
            "stop_restore", "un_stop"}

(* The map of handles and the handlers play the token game of             *)
(* RuntimeOwnership, whatever clients call and whatever fails: no step      *)
(* copies a handle, and only a start makes one.                             *)
Ownership == INSTANCE RuntimeOwnership WITH
  Holders <- Reqs, Tokens <- Instances, Nothing <- NoHandle,
  slot <- handle, hand <- held

OwnershipSpec == Ownership!Spec

(* A runtime handle is in one place only: in the map, or in the local        *)
(* variable of one handler.  This is what "only first caller succeeds" at    *)
(* remove_runtime_handle is for: two stops, or a stop and an uninstall,      *)
(* never signal the same runtime.                                            *)
HandleLinear == Ownership!Linear

(* A plugin whose row says "running" has somebody who can end that: its      *)
(* handle is in the map, or a start, a stop or an uninstall in flight will   *)
(* write the outcome.  Holds for interleaved starts and stops whose backends *)
(* fail or whose instances die, through registrations and materializations,  *)
(* and through uninstalls whose stop succeeds.                               *)
RunningHasOwner ==
  registry.status = "running" =>
    \/ handle # NoHandle
    \/ \E r \in Reqs : Starting(r) \/ StoppingRuntime(r) \/ pc[r] \in UninstallLabels

(* The enabled flag follows the status: it is set whenever the plugin is     *)
(* running and clear whenever it is installed, although a rollback writes    *)
(* back flags read long before and a registration keeps the old flag.        *)
EnabledMatchesStatus ==
  /\ registry.status = "running" => registry.enabled
  /\ registry.status = "installed" => ~registry.enabled

(* What a handler remembers across its awaits.  A start remembers a row that *)
(* was installed and not enabled, so that a rollback never writes "running"  *)
(* or an enabled flag; a handler has a runtime handle in hand exactly        *)
(* between obtaining it and passing it on, on every path.                    *)
LocalsOK ==
  \A r \in Reqs :
    /\ pc[r] \in StartLabels =>
         seen[r] \in Row /\ seen[r].status = "installed" /\ ~seen[r].enabled
    /\ pc[r] \in InstallLabels => target[r] \in Versions
    /\ held[r] # NoHandle <=> pc[r] \in Holding

(* Once no request is in flight, the row and the memory agree: the status is *)
(* "running" exactly when the map has a handle.                              *)
StateConsistency ==
  Quiet => (registry.status = "running" <=> handle # NoHandle)

(* Every live instance can still be reached by somebody: none is forgotten   *)
(* by a failed start, an overwritten handle or a stop that gave up.          *)
NoOrphan == alive \subseteq {handle} \cup {held[r] : r \in Reqs}

(* An installed or running plugin has the package its row points at, with    *)
(* the lifecycle commands done, whatever is started and stopped while it is  *)
(* prepared.  Holds when administrators take turns (Exclusive).              *)
InstalledIsPrepared ==
  Quiet /\ registry.status \in {"installed", "running"} =>
    pkg[registry.version] = "prepared" /\ RowsOf(registry.version) > 0

(* Nothing outlives the row: an uninstalled plugin has no version rows, no   *)
(* grants, no navigation item and no handle.  Holds when administrators take *)
(* turns, whatever was started and stopped before.                           *)
NothingOutlivesUninstall ==
  Quiet /\ ~Registered =>
    /\ rows = {}
    /\ \A v \in Versions : RowsOf(v) = 0
    /\ handle = NoHandle

(* A stop in progress is settled: the row leaves "running", or the handle is *)
(* back in the map for another attempt.                                      *)
StopSettles ==
  \A r \in Reqs :
    pc[r] = "stop_runtime" ~> (registry.status # "running" \/ handle # NoHandle)

(* "running" is left again: a client that keeps asking for a stop gets one.  *)
Stoppable == registry.status = "running" ~> registry.status # "running"

--------------------------------------------------------------------------------
(* What the README promises and the code does not keep.                     *)

(* README: materialize executes upgrade_commands.  A plugin that still has   *)
(* another version's prepared package is being upgraded.                     *)
UpgradeRunsCommands ==
  [][\A r \in Reqs :
       MaterializeUpgrade(r) /\ (\E v \in Versions \ {target[r]} : pkg[v] = "prepared")
         => PreviousVersions(r) # {}]_vars
================================================================================
