------------------------------ MODULE PluginState ------------------------------
(***************************************************************************)
(* What the plugin manager keeps about ONE plugin id, and the operations   *)
(* on it that every admin handler goes through.  The state lives in four   *)
(* places that no transaction joins:                                       *)
(*   - the database: the registry row, the version rows, dependent rows;   *)
(*   - the memory of the host: the runtime handle of the plugin;           *)
(*   - the operating system or the container engine: live instances;       *)
(*   - the disk: one package directory per version.                        *)
(* A request slot is an HTTP request being served.  A handler is split at  *)
(* its awaits: pc names the await a request has reached, and everything    *)
(* the code does between two awaits is one action.  Plugins share none of  *)
(* this state, so one plugin id stands for all.                            *)
(*                                                                         *)
(* A definition whose name starts with "Bad" is a deliberately wrong       *)
(* variant of the one that follows it.  No action uses it: it is put in    *)
(* the place of the right one to see the properties fail.                  *)
(***************************************************************************)
EXTENDS Naturals, FiniteSets

CONSTANTS
  Reqs,           \* request slots of the admin API
  Instances,      \* runtime instances (processes or containers) ever spawned
  Versions,       \* version strings of the plugin
  NoHandle,       \* no runtime handle
  NoVersion,      \* no version
  Kind,           \* the runtime kind of the manifest
  Calls,          \* the operations each request slot may be asked for
  Faults,         \* what may go wrong in a run
  MaxVersionRows  \* bound: version rows per version

Ops == {"start", "stop", "uninstall", "register", "materialize"}

FaultKinds ==
  { "exit",        \* an instance terminates by itself
    "restart",     \* the host process goes down and comes back
    "disconnect",  \* a client goes away and its handler is dropped at an await
    "dberror",     \* a database statement fails
    "engine",      \* the container engine refuses to stop a container
    "pidreuse",    \* the pid of a dead instance belongs to somebody else
    "badzip",      \* a package does not extract or does not validate
    "badstep",     \* a lifecycle command fails after others changed the package
    "badremove" }  \* a directory is not removed, or only in part

ASSUME ConstantsAssumption ==
  /\ NoHandle \notin Instances
  /\ NoVersion \notin Versions
  /\ Kind \in {"process", "docker", "wasm"}
  /\ Calls \in [Reqs -> SUBSET Ops]
  /\ Faults \subseteq FaultKinds
  /\ MaxVersionRows \in Nat

VARIABLES
  registry,     \* yh_plg_registry: the row of the plugin
  versionRows,  \* yh_plg_versions: number of rows, by version and status
  rows,         \* the dependent tables that hold a row of the plugin
  handle,       \* active_runtimes[plugin_id]
  alive,        \* instances that the OS or the engine runs
  pkg,          \* the package directory of each version
  pc,           \* await each request has reached
  held,         \* runtime handle in a local variable of the handler
  seen,         \* registry row the handler has read
  target        \* version the request is about

db     == <<registry, versionRows, rows>>
disk   == pkg
locals == <<pc, held, seen, target>>
vars   == <<registry, versionRows, rows, handle, alive, pkg, pc, held, seen, target>>

--------------------------------------------------------------------------------
StartLabels == {"start_version", "start_manifest", "start_mark", "start_spawn",
                "start_wait", "start_publish", "start_nav", "start_rollback"}
StopLabels  == {"stop_claim", "stop_runtime", "stop_commit", "stop_restore"}
UninstallLabels == {"un_stop", "un_load", "un_pkill", "un_dirs", "un_grants",
                    "un_versions", "un_nav", "un_registry"}
InstallLabels == {"reg_extract", "reg_row", "reg_write", "reg_version",
                  "reg_grants", "mat_commands", "mat_prev", "mat_upgrade",
                  "mat_row", "mat_write", "mat_version"}
Labels == {"idle"} \cup StartLabels \cup StopLabels \cup UninstallLabels
            \cup InstallLabels

\* "none" stands for the absence of the row.
Status  == {"pending", "installed", "running"}
Row     == [status : Status, enabled : BOOLEAN, version : Versions]
NoRow   == [status |-> "none", enabled |-> FALSE, version |-> NoVersion]
RowOrNone == Row \cup {NoRow}

\* "registered": unpacked and validated; "prepared": lifecycle commands done;
\* "invalid": what a registration or a command that fails half way leaves.
PackageState == {"absent", "invalid", "registered", "prepared"}
Tables == {"grants", "nav"}
NoRows == [pending |-> 0, installed |-> 0]

Registered == registry.status # "none"
Handles    == Instances \cup {NoHandle}

TypeOK ==
  /\ registry \in RowOrNone
  /\ versionRows \in [Versions -> [pending : Nat, installed : Nat]]
  /\ rows \subseteq Tables
  /\ handle \in Handles
  /\ alive \subseteq Instances
  /\ pkg \in [Versions -> PackageState]
  /\ pc \in [Reqs -> Labels]
  /\ held \in [Reqs -> Handles]
  /\ seen \in [Reqs -> RowOrNone]
  /\ target \in [Reqs -> Versions \cup {NoVersion}]

--------------------------------------------------------------------------------
(* The host process has just started.  The database and the disk are what   *)
(* an earlier run left: nothing, or one version installed and never enabled.*)
Pristine ==
  /\ registry = NoRow
  /\ versionRows = [v \in Versions |-> NoRows]
  /\ rows = {}
  /\ pkg = [v \in Versions |-> "absent"]

Installed(v) ==
  /\ registry = [status |-> "installed", enabled |-> FALSE, version |-> v]
  /\ versionRows = [w \in Versions |->
                      IF w = v THEN [pending |-> 0, installed |-> 1] ELSE NoRows]
  /\ rows = {"grants"}
  /\ pkg = [w \in Versions |-> IF w = v THEN "prepared" ELSE "absent"]

Init ==
  /\ Pristine \/ \E v \in Versions : Installed(v)
  /\ handle = NoHandle
  /\ alive = {}
  /\ pc = [r \in Reqs |-> "idle"]
  /\ held = [r \in Reqs |-> NoHandle]
  /\ seen = [r \in Reqs |-> NoRow]
  /\ target = [r \in Reqs |-> NoVersion]

--------------------------------------------------------------------------------
(* Control flow of a handler.                                               *)
At(r, label)   == pc[r] = label
Goto(r, label) == pc' = [pc EXCEPT ![r] = label]

\* The client calls operation op on a free slot.
Called(r, op) == At(r, "idle") /\ op \in Calls[r]

\* The handler returns: its local variables are gone.
Return(r) ==
  /\ Goto(r, "idle")
  /\ held' = [held EXCEPT ![r] = NoHandle]
  /\ seen' = [seen EXCEPT ![r] = NoRow]
  /\ target' = [target EXCEPT ![r] = NoVersion]

Continue(r, label) == Goto(r, label) /\ UNCHANGED <<held, seen, target>>

(* The in-memory map of runtime handles.                                    *)
KeepHandle == UNCHANGED handle
remove_runtime_handle == handle' = NoHandle
set_runtime_handle(h) == handle' = h

(* The registry row: enabled and status are written together, and a row     *)
(* that is gone stays gone.                                                 *)
update_plugin_runtime_state(enabled, status) ==
  registry' = IF Registered
              THEN [registry EXCEPT !.enabled = enabled, !.status = status]
              ELSE NoRow

\* "let _ = update...": the error of the statement is dropped.
WriteIgnoringErrors(enabled, status) ==
  \/ update_plugin_runtime_state(enabled, status)
  \/ "dberror" \in Faults /\ UNCHANGED registry

RowsOf(v) == versionRows[v].pending + versionRows[v].installed

(* What remove_dir_all leaves of a package when it fails or is interrupted. *)
Torn(v) == IF pkg[v] = "absent" THEN {"absent"} ELSE {pkg[v], "invalid", "absent"}
================================================================================
