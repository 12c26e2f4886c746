---------------------------- MODULE RuntimeControl -----------------------------
(***************************************************************************)
(* start_plugin_runtime and stop_plugin_runtime with the runtime backends  *)
(* they drive (runtime/process.rs, docker.rs, wasm.rs).                    *)
(*                                                                         *)
(* An instance is one incarnation of the runtime.  A process or wasm       *)
(* handle names its pid, so a stop reaches the incarnation it was made     *)
(* for; a container is named after the plugin, so a stop reaches whichever *)
(* container has the name, and the engine runs at most one of them.        *)
(***************************************************************************)
EXTENDS PluginState

Fresh == Instances \ (alive \cup {handle} \cup {held[r] : r \in Reqs})

--------------------------------------------------------------------------------
(* start_plugin_runtime                                                     *)

BadStartable == Registered /\ registry.status # "running"

\* A missing, a running and a pending plugin are refused.
Startable == registry.status = "installed"

StartLoad(r) ==
  /\ Called(r, "start")
  /\ Startable
  /\ seen' = [seen EXCEPT ![r] = registry]
  /\ Goto(r, "start_version")
  /\ UNCHANGED <<db, handle, alive, disk, held, target>>

StartLoadVersion(r) ==
  /\ At(r, "start_version")
  /\ IF RowsOf(seen[r].version) > 0
     THEN Continue(r, "start_manifest")
     ELSE Return(r)
  /\ UNCHANGED <<db, handle, alive, disk>>

\* plugin.json may be missing from an invalid package; the configuration paths
\* may not be creatable: either error returns before anything was written.
StartReadManifest(r) ==
  /\ At(r, "start_manifest")
  /\ \/ pkg[seen[r].version] # "absent" /\ Continue(r, "start_mark")
     \/ Return(r)
  /\ UNCHANGED <<db, handle, alive, disk>>

\* The status is written before the runtime exists.
StartMarkRunning(r) ==
  /\ At(r, "start_mark")
  /\ WriteIgnoringErrors(TRUE, "running")
  /\ Continue(r, "start_spawn")
  /\ UNCHANGED <<versionRows, rows, handle, alive, disk>>

CanSpawn(r) ==
  CASE Kind = "docker" -> alive = {}
    [] OTHER           -> pkg[seen[r].version] # "absent"

\* A process with a base_url is health checked and a container is awaited; a
\* process without one and a wasm runner are handed back as soon as they run.
AfterSpawn ==
  CASE Kind = "process" -> {"start_wait", "start_publish"}
    [] Kind = "docker"  -> {"start_wait"}
    [] Kind = "wasm"    -> {"start_publish"}

StartSpawn(r) ==
  /\ At(r, "start_spawn")
  /\ CanSpawn(r)
  /\ \E i \in Fresh, label \in AfterSpawn :
       /\ alive' = alive \cup {i}
       /\ held' = [held EXCEPT ![r] = i]
       /\ Goto(r, label)
  /\ UNCHANGED <<db, handle, disk, seen, target>>

StartSpawnFails(r) ==
  /\ At(r, "start_spawn")
  /\ Continue(r, "start_rollback")
  /\ UNCHANGED <<db, handle, alive, disk>>

\* The health URL is the plugin's, not the instance's: any live one answers it.
StartReady(r) ==
  /\ At(r, "start_wait")
  /\ Kind = "process" => alive # {}
  /\ Continue(r, "start_publish")
  /\ UNCHANGED <<db, handle, alive, disk>>

BadKillUnhealthy(r) == alive
KillUnhealthy(r) == alive \ {held[r]}

\* The last retry fails: the process group is killed, the pid forgotten.
StartHealthFails(r) ==
  /\ At(r, "start_wait")
  /\ Kind = "process"
  /\ alive' = KillUnhealthy(r)
  /\ held' = [held EXCEPT ![r] = NoHandle]
  /\ Goto(r, "start_rollback")
  /\ UNCHANGED <<db, handle, disk, seen, target>>

\* insert() replaces whatever handle the map holds.
StartPublish(r) ==
  /\ At(r, "start_publish")
  /\ set_runtime_handle(held[r])
  /\ held' = [held EXCEPT ![r] = NoHandle]
  /\ Goto(r, "start_nav")
  /\ UNCHANGED <<db, alive, disk, seen, target>>

\* ensure_default_nav_item: only a manifest with a UI, errors ignored.
StartNav(r) ==
  /\ At(r, "start_nav")
  /\ rows' \in {rows, rows \cup {"nav"}}
  /\ Return(r)
  /\ UNCHANGED <<registry, versionRows, handle, alive, disk>>

BadRollback(r) == WriteIgnoringErrors(TRUE, seen[r].status)
BadNoRollback(r) == UNCHANGED registry
RollbackState(r) == WriteIgnoringErrors(seen[r].enabled, seen[r].status)

StartRollback(r) ==
  /\ At(r, "start_rollback")
  /\ RollbackState(r)
  /\ Return(r)
  /\ UNCHANGED <<versionRows, rows, handle, alive, disk>>

Start(r) ==
  \/ StartLoad(r) \/ StartLoadVersion(r) \/ StartReadManifest(r)
  \/ StartMarkRunning(r)
  \/ StartSpawn(r) \/ StartSpawnFails(r)
  \/ StartReady(r) \/ StartHealthFails(r)
  \/ StartPublish(r) \/ StartNav(r) \/ StartRollback(r)

--------------------------------------------------------------------------------
(* Stopping a runtime, as stop and uninstall both do it.                    *)

StopSucceeds(r) ==
  IF Kind = "docker" THEN alive # {}
                     ELSE held[r] \in alive \/ "pidreuse" \in Faults

StopErrs(r) ==
  IF Kind = "docker" THEN alive = {} \/ "engine" \in Faults
                     ELSE held[r] \notin alive

\* A process group is waited for and at last killed; "kill" of a wasm runner
\* only sends the signal.
AliveAfterStop(r) ==
  CASE Kind = "process" -> {alive \ {held[r]}}
    [] Kind = "docker"  -> {{}}
    [] Kind = "wasm"    -> {alive, alive \ {held[r]}}

(* stop_plugin_runtime                                                      *)

StopLoad(r) ==
  /\ Called(r, "stop")
  /\ registry.status = "running"
  /\ Continue(r, "stop_claim")
  /\ UNCHANGED <<db, handle, alive, disk>>

BadClaimHandle(r) ==
  /\ handle # NoHandle
  /\ held' = [held EXCEPT ![r] = handle]
  /\ KeepHandle

\* DashMap::remove hands the handle to one caller.
ClaimHandle(r) ==
  /\ handle # NoHandle
  /\ held' = [held EXCEPT ![r] = handle]
  /\ remove_runtime_handle

StopClaim(r) ==
  /\ At(r, "stop_claim")
  /\ ClaimHandle(r)
  /\ Goto(r, "stop_runtime")
  /\ UNCHANGED <<db, alive, disk, seen, target>>

StopNotFound(r) ==
  /\ At(r, "stop_claim")
  /\ handle = NoHandle
  /\ Return(r)
  /\ UNCHANGED <<db, handle, alive, disk>>

StopRuntime(r) ==
  /\ At(r, "stop_runtime")
  /\ StopSucceeds(r)
  /\ alive' \in AliveAfterStop(r)
  /\ Continue(r, "stop_commit")
  /\ UNCHANGED <<db, handle, disk>>

StopRuntimeFails(r) ==
  /\ At(r, "stop_runtime")
  /\ StopErrs(r)
  /\ Continue(r, "stop_restore")
  /\ UNCHANGED <<db, handle, alive, disk>>

CommitState(r) == WriteIgnoringErrors(FALSE, "installed")

StopCommit(r) ==
  /\ At(r, "stop_commit")
  /\ CommitState(r)
  /\ Return(r)
  /\ UNCHANGED <<versionRows, rows, handle, alive, disk>>

BadRestoreHandle(r) == KeepHandle
RestoreHandle(r) == set_runtime_handle(held[r])

StopRestore(r) ==
  /\ At(r, "stop_restore")
  /\ RestoreHandle(r)
  /\ Return(r)
  /\ UNCHANGED <<db, alive, disk>>

Stop(r) ==
  \/ StopLoad(r) \/ StopClaim(r) \/ StopNotFound(r)
  \/ StopRuntime(r) \/ StopRuntimeFails(r)
  \/ StopCommit(r) \/ StopRestore(r)
================================================================================
