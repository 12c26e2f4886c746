------------------------------- MODULE Uninstall -------------------------------
(***************************************************************************)
(* uninstall_plugin: the runtime is stopped, then everything the host      *)
(* keeps about the plugin is deleted, one store and one table at a time.   *)
(* The tables only the host API writes (tasks, shared records, migration   *)
(* states) and the plugin's SQLite directory are left out.                 *)
(***************************************************************************)
EXTENDS RuntimeControl

\* Take the handle out of the map, if there is one.
UninstallClaim(r) ==
  /\ Called(r, "uninstall")
  /\ IF handle # NoHandle
     THEN ClaimHandle(r) /\ Goto(r, "un_stop")
     ELSE KeepHandle /\ UNCHANGED held /\ Goto(r, "un_load")
  /\ UNCHANGED <<db, alive, disk, seen, target>>

AliveAfterUninstall(r) == AliveAfterStop(r)

UninstallStop(r) ==
  /\ At(r, "un_stop")
  /\ StopSucceeds(r)
  /\ alive' \in AliveAfterUninstall(r)
  /\ held' = [held EXCEPT ![r] = NoHandle]
  /\ Goto(r, "un_load")
  /\ UNCHANGED <<db, handle, disk, seen, target>>

\* The error of the stop is returned; the handle is not put back.
UninstallStopFails(r) ==
  /\ At(r, "un_stop")
  /\ StopErrs(r)
  /\ Return(r)
  /\ UNCHANGED <<db, handle, alive, disk>>

UninstallLoad(r) ==
  /\ At(r, "un_load")
  /\ Registered
  /\ seen' = [seen EXCEPT ![r] = registry]
  /\ Goto(r, "un_pkill")
  /\ UNCHANGED <<db, handle, alive, disk, held, target>>

UninstallNotFound(r) ==
  /\ At(r, "un_load")
  /\ ~Registered
  /\ Return(r)
  /\ UNCHANGED <<db, handle, alive, disk>>

\* The reads are not ignored: their error ends the handler.
UninstallDbError(r) ==
  /\ pc[r] \in {"un_load", "un_pkill"}
  /\ "dberror" \in Faults
  /\ Return(r)
  /\ UNCHANGED <<db, handle, alive, disk>>

\* pkill -f on the runtime directory of the current version: whatever process
\* has that path on its command line; no container has.
UninstallPkill(r) ==
  /\ At(r, "un_pkill")
  /\ IF RowsOf(seen[r].version) > 0 /\ Kind # "docker"
     THEN alive' \in SUBSET alive
     ELSE UNCHANGED alive
  /\ Continue(r, "un_dirs")
  /\ UNCHANGED <<db, handle, disk>>

\* The errors of remove_dir_all are dropped.
UninstallDirs(r) ==
  /\ At(r, "un_dirs")
  /\ \/ pkg' = [v \in Versions |-> "absent"]
     \/ /\ "badremove" \in Faults
        /\ pkg' \in [Versions -> PackageState]
        /\ \A v \in Versions : pkg'[v] \in Torn(v)
  /\ Continue(r, "un_grants")
  /\ UNCHANGED <<db, handle, alive>>

\* Each delete is a statement of its own and its error is dropped.
DeleteRows(table) ==
  \/ rows' = rows \ {table}
  \/ "dberror" \in Faults /\ UNCHANGED rows

UninstallGrants(r) ==
  /\ At(r, "un_grants")
  /\ DeleteRows("grants")
  /\ Continue(r, "un_versions")
  /\ UNCHANGED <<registry, versionRows, handle, alive, disk>>

BadDeleteVersions(r) ==
  versionRows' = [versionRows EXCEPT ![seen[r].version] = NoRows]

DeleteVersions(r) ==
  \/ versionRows' = [v \in Versions |-> NoRows]
  \/ "dberror" \in Faults /\ UNCHANGED versionRows

UninstallVersions(r) ==
  /\ At(r, "un_versions")
  /\ DeleteVersions(r)
  /\ Continue(r, "un_nav")
  /\ UNCHANGED <<registry, rows, handle, alive, disk>>

UninstallNav(r) ==
  /\ At(r, "un_nav")
  /\ DeleteRows("nav")
  /\ Continue(r, "un_registry")
  /\ UNCHANGED <<registry, versionRows, handle, alive, disk>>

BadDeleteRegistry == update_plugin_runtime_state(FALSE, "uninstalled")

DeleteRegistry ==
  \/ registry' = NoRow
  \/ "dberror" \in Faults /\ UNCHANGED registry

UninstallRegistry(r) ==
  /\ At(r, "un_registry")
  /\ DeleteRegistry
  /\ Return(r)
  /\ UNCHANGED <<versionRows, rows, handle, alive, disk>>

Uninst(r) ==
  \/ UninstallClaim(r) \/ UninstallStop(r) \/ UninstallStopFails(r)
  \/ UninstallLoad(r) \/ UninstallNotFound(r) \/ UninstallDbError(r)
  \/ UninstallPkill(r) \/ UninstallDirs(r)
  \/ UninstallGrants(r) \/ UninstallVersions(r) \/ UninstallNav(r)
  \/ UninstallRegistry(r)
================================================================================
