# A TLA+ model of the extension manager

This directory holds a formal model of the plugin ("extension") manager in
`src/`: TLA+ modules translated from the Rust code, TLC configurations that
model-check them on small instances, and theorems with proofs that the TLA+
proof system (TLAPS) checks for every value of the constants.

The manager is a set of axum handlers over a SQL database, an in-memory map of
runtime handles, package directories on disk, and processes, containers or wasm
runners of the operating system. No transaction and no lock joins two of these.
A handler is an `async fn`; between two of its awaits any other handler may run,
and hyper drops it at an await when its client goes away. That is what the model
is about: everything between two awaits is one action, and `pc` names the await
that a request has reached.

## 1. The system

| Component (code) | State | Operations | What makes it hard |
|---|---|---|---|
| Runtime control (`handlers.rs` 585-965) | registry row, runtime handle, live instance | start, stop | status is checked, written, and rolled back in separate statements |
| Runtime backends (`runtime/*.rs`) | processes, containers, wasm runners | spawn, health check, stop, kill | instances die by themselves; pids are reused; the engine may refuse |
| Runtime handle map (`manager.rs` 55-165) | `active_runtimes: DashMap` | set, get, remove | lost at a restart; two stops race for one handle |
| Two-phase install (`installer.rs` 337-577) | registry row, version rows, package directories, grants | register, materialize | neither looks at the status or at a running instance; half-done work stays |
| Setup steps (`installer.rs` 581-1012) | package directory | download, extract, move, run, ... | retried on what a failed attempt left; tasks outlive a dropped handler |
| Configuration file (`manager.rs` 217-260, `handlers.rs` 1261-1316) | `config.toml` | get, put, merge at materialize | exists?, read, merge and write are separate awaits |
| Uninstall (`handlers.rs` 975-1101) | all of it | uninstall | eight deletes whose errors are dropped |
| Permission grants (`permissions.rs`) | `yh_plg_permission_grants` | replace, check, delete | find-then-insert without a unique key |
| Host API records (`host_api.rs` 1087-1798) | shared records, migration states, tasks, navigation items | upsert, get, list, delete | find-then-insert; permission checked some awaits before the write |
| Migrations (`host_api.rs` 1466-1559) | host database, migration state | execute | many statements, no transaction, no "already applied?" |
| Host start-up (`manager.rs` 257-318) | the map | init | the database still says what was running |
| WebSocket bridge (`public.rs` 387-510) | two sockets, two pumps | upgrade, connect, pump | `select!` drops a pump with a message in hand |
| Host API proxies, public UI and HTTP proxy, market, manifest, configuration, routes | little or none of their own | | I/O, other crates, or parsing |

Interactions: the admin handlers call the installer, the registry helpers and the
backends; registration resets the grants that every host API endpoint checks;
uninstall deletes the rows of every other component; a started plugin calls the
host API; migrations read the version that registration writes; materialize
executes the setup steps in the package directory that registration filled; a
bridge is opened to the base url of the handle in the map.

What has to hold, per component:

* *Runtime control, map, backends*: a handle is never in two places; what is
  "running" can be ended by somebody; row and map agree when nothing is in
  flight; no process or container is forgotten; a stop is settled.
* *Install, uninstall*: what is installed has a prepared package; nothing
  outlives an uninstall.
* *Setup steps, configuration file*: a success is complete, whatever attempts
  before it left; a command runs what the steps before it provide and finds its
  configuration; what fails its checksum gets nowhere.
* *WebSocket bridge*: what is said is heard in order and once; the two directions
  end together, and when a peer does.
* *Grants, records*: one row per key; a revoked permission stays revoked;
  an uninstall leaves nothing.
* *Migrations*: "applied" means that the whole script took effect.

## 2. Modules

All state is that of ONE plugin id, and of one bridge: two plugins share no row,
directory, handle or instance, and two bridges share no socket.

    PluginState ---- RuntimeControl ---- Uninstall ----.
         \                                              PluginManager -- MCPluginManager
          `--------- PackageInstall -------------------'      |  |
                                                               |  `- INSTANCE RuntimeOwnership
                                                               `- *Proofs

    HostState -- PermissionGrants -- HostRecords -- Migrations -- HostApi -- MCHostApi --.
                                                                   |  `- HostApiProofs    MCUninstallHistory
                                                                   `- UninstallHistory --'

    SetupSteps -- Materialization -- WriteOnce -- MCMaterialization
                      |                  `--------.
                      `- MaterializationProofs -- SetupProofs

    WsBridge -- MCWsBridge
       |  `- WsBridgeProofs
       `- INSTANCE CutPipes

`PluginState` declares the constants and variables of the first component and
the helpers every handler uses (`set_runtime_handle`, `remove_runtime_handle`,
`update_plugin_runtime_state`).

| Variable | Code |
|---|---|
| `registry` | the row of `yh_plg_registry` (status, enabled, current_version) |
| `versionRows` | rows of `yh_plg_versions`, counted by version and status |
| `rows` | whether `yh_plg_permission_grants` and `yh_plg_nav_items` hold a row |
| `handle` | `active_runtimes[plugin_id]` |
| `alive` | processes, containers or wasm runners that exist |
| `pkg` | the package directory of each version |
| `pc`, `held`, `seen`, `target` | await, handle in a local variable, row read earlier, version asked for, per request |

`RuntimeControl` has one action per await of `start_plugin_runtime` and
`stop_plugin_runtime`, error paths and rollback included, for a plugin whose
`Kind` is process, docker or wasm. `PackageInstall` has register and materialize;
`Uninstall` the uninstall handler. `PluginManager` composes them with the
environment: instances that exit, clients that disconnect (`Disconnect` drops the
handler at its await; what was already asked of the OS or of a blocking thread
still happens), and restarts of the host. Either of the two, and a removal or an
upgrade command that fails, may leave a package directory half done (`LeftBehind`,
`Torn`). `RuntimeOwnership` is an abstract
specification: handles are tokens that are created in a hand, deposited in the
slot, withdrawn by one hand and deposited again, or lost, and never copied.
`Exclusive` says that registrations and uninstalls have the manager to themselves
and that one materialization is served at a time, while starts and stops come as
they like; a run takes it as the action constraint `TakingTurns`.

`HostState` declares the second component: `grants`, `records` (four tables),
`version`, `ran` (migration statements that took effect), and per request `pc`,
`call`, `found`, `next`, `loaded`. A version string may be registered with different
packages one after the other (`Shipped`), each of which brings its own migration
files (`Script`); a migration loads the file of any of them, and `loaded`
remembers which. `denied` is a history variable: permissions
denied by a finished update since which nobody has asked to grant them.
`PermissionGrants`, `HostRecords` and `Migrations` have one action per await of
the handlers in `permissions.rs` and `host_api.rs`; `HostApi` adds the deletes of
an uninstall and requests that are dropped or fail (`Abort`). `UninstallHistory`
adds `spared`: the keys of the requests that were past their permission check
when the grants were deleted, and the rows whose delete failed.

`SetupSteps` holds the eleven actions of a manifest's `install_commands` as pure
operators on the files of a package directory: whether a condition holds, whether
a step is possible, and the writes it consists of. `Outcome(script, n)` is the
files after `n` steps, each executed once on a fresh package.
`Materialization` is `materialize_plugin` around them.

| Variable | Code |
|---|---|
| `script`, `files` | `install_commands`, the package directory |
| `config` | `config.toml`: missing, not JSON, a JSON value, or an object with keys |
| `pc`, `call`, `pos`, `dl`, `url`, `todo`, `text` | per request: await, body, step, downloads counted, where it downloads from, writes left to the task it awaits, text it is about to write |
| `leftovers` | blocking tasks and commands whose handler was dropped |
| `last`, `tainted`, `harm`, `asked` | history: how the latest attempt ended, attempts that are promised nothing, what went wrong since the registration, keys a client may expect |

Its actions are the awaits of `ensure_plugin_config_paths`, of the two
configuration endpoints, and of `execute_commands_with_overrides`: `Download` and
`Downloaded`, `Unpack`, `BeginTask`, `TaskWrites`, `TaskEnds` and `QuickStep` with
the ways in which each of them fails; `Drop` is a client that disconnects,
`Leftover` what its task still writes. `Reregister` removes the directory for a
registration of the same version and `Extracts` unpacks the zip, file by file;
`RemovalFails` and `ExtractFails` are the ways in which that goes wrong.
`WriteOnce` defines the scripts about which completeness is proved.

`WsBridge` is `forward_websocket`: `Read`, `Send`, `SendClose`, `ReadEnds` and
`SendFails` are the arms of a pump, `End` the `select!` that drops both; `Say`,
`Hear`, `StopReading` and `Vanish` are the peers and their network, `Reset` what
a dropped socket loses.

| Variable | Code |
|---|---|
| `active` | the map has a handle with a base url |
| `bridge`, `pump` | how far the handler is; what each pump awaits |
| `inbox`, `hand`, `wire` | messages before, in and behind each pump |
| `present`, `reading` | peers whose connection is up, and that read |
| `said`, `heard` | history: what each peer sent and received |

`CutPipes` is what the peers are promised: two FIFO pipes, cut at one instant;
the cut decides how much of either still arrives at most.

The names of actions follow the handlers (`StopClaim`, `StopRuntime`,
`StopCommit`, ...); PROJECT.json gives the source lines of each definition. A
definition `Bad...` is a deliberately wrong variant of the one after it, used by
no action: put in its place it makes a property fail, which shows that the
property depends on that code.

Abstractions worth knowing:

* An instance is one incarnation of a runtime. A process or wasm handle names
  its pid and so one incarnation; a container handle is the container's name.
* `update_plugin_runtime_state` is a find and an update in the code and one step
  here. `RegisterWriteRow` and the host API writes keep the two apart.
* SIGKILL takes effect at once; a wasm `kill` may or may not have.
* A package directory is absent, registered, prepared or invalid: what an
  extraction, a command or a removal that fails or is interrupted leaves.
* In `Materialization` the removal of a directory is one step; one that fails, or
  goes on behind a dropped request, is taken to end at once, with some files gone
  (`Gone`) or all.
* A record key stands for all a handler filters by (collection, record key and
  owner; scope and migration key; task key; item key). Payloads are model values.
* A permission check and the call it admits are one step: a refusal changes
  nothing. Whichever of several rows of a permission or key the database returns
  first is chosen nondeterministically.
* A row id is a pair of what the row is about and a number that no table and no
  handler uses for it (`Numbers`), as a fresh UUID is.
* A file of a package directory is missing, half-written, or holds one of a few
  contents; a link is a content that leads to a path. Directories, modes and the
  strip of leading path components are left out.
* A mirror delivers what `Served` says; junk is delivered only where a step has a
  checksum, since the code can tell it from nothing else.
* A task that unpacks, copies or runs is a sequence of writes, one step each. After
  a disconnect it goes on, or dies with the host.
* Sockets of a bridge take `Window` messages before the peer has to read; a dropped
  socket that has unread input, or gets more, may lose the tail of what it sent.
* The WebSocket libraries answer pings and close frames on the socket they come
  from. These answers pass no pump and are left out: `said`, `wire` and `heard` are
  what one peer sends to the other.
* The database row, version row and file of a migration are read as one: all three
  follow from the version read first. A migration file that is read while it is
  being unpacked counts as the file of a package of its own.
* `AppliedMeansRan` needs to know which package's script a record is about; the
  applied value carries it although the stored JSON does not.

## 3. Runs

The components have state spaces of their own, so each run fixes the calls
that each request slot may be asked for (`Calls`), the faults (`Faults`), the
kind and the sizes.

| Run | Instance | Checks | States |
|---|---|---|---|
| `manager` | 2 slots, all operations, 3 instances, process, every fault but a refusing engine | `TypeOK`, `LocalsOK`, `EnabledMatchesStatus`, `HandleLinear`, refinement of `RuntimeOwnership` | 1.05 M |
| `control` | 1 starting and 3 stopping clients, process, exits, reused pids, fairness | `StateConsistency`, `NoOrphan`, `StopSettles` | 1.7 k |
| `serial` | 2 slots, all operations, wasm, 3 instances, 2 versions, up to 2 rows each, `TakingTurns` | `InstalledIsPrepared`, `NothingOutlivesUninstall`, `RunningHasOwner` | 850 k |
| `host_records` | 2 plugin slots with keys of their own and deletes, 1 admin who opens everything, denies two permissions in one request, registers and uninstalls, dropped requests, failing deletes | `HostStateOK`, `OneRowPerKey`, `GoneStaysGone`, `RevokeHolds`, `UninstallClears` | 1.15 M |
| `host_migrations` | 2 slots execute one migration, one of them also lists and deletes, 1 registers, grants and uninstalls, 2 packages of one version, dropped requests | `AppliedMeansRan`, `OnlyDuplicatesOverrule` | 1.2 M |
| `setup` | 2 slots, 6 scripts with all 11 actions and all conditions, registrations await by await, a mirror, junk, failing writes, disconnects | `MTypeOK`, `NothingUnverified`, `SuccessIsComplete`, `RunsWhatWasPrepared`, `CommandsSeeConfig` | 2.9 M |
| `bridge` | 2 peers with 2 messages each, window 1, peers that close, vanish, stop reading or talk on after the end, fairness | `TypeOK`, `InOrder`, `ClosedIsHeard`, refinement of `CutPipes`, `BridgeEnds` | 363 k |
| `v_restart` | 1 slot, process, restarts | `StateConsistency` fails | |
| `v_crash` | 1 slot, process, exits, fairness | `Stoppable` fails | |
| `v_uninstall_fails` | 1 slot, docker, a refusing engine | `RunningHasOwner` fails | |
| `v_upgrade` | 1 slot, 2 versions | `UpgradeRunsCommands` fails | |
| `v_revoke` | 2 admins, 1 plugin slot | `RevokeHolds` fails | |

Why the bounds are enough. Two slots are enough for every race between two
handlers; where a third one matters (a bystander of two stops, an admin beside
two requests) there are three or more. An instance is named only while it is
alive, in the map or in a hand, and names are reused afterwards, so three
instances serve any number of starts one after the other. `MaxVersionRows` bounds
the rows that repeated registrations of one version insert; two is enough for "the
other row". `Numbers` is large enough that a handler never waits for an id in
`host_records`; in `host_migrations` and `v_revoke` it bounds the number of
duplicate rows. Migration scripts have two and three statements, so a request can
be interrupted before, between and after them; one version with two packages
allows every change of the file that a second version would. `control` is about
processes, whose kill of an unhealthy instance is what `NoOrphan` depends on; a
container whose stop the engine refuses is in `v_uninstall_fails` and, for all kinds
but wasm, in the theorem `OneStarterReaches`. `serial` has no faults because its
properties speak of what complete operations leave.

The scripts of `setup` are the shapes that retries endanger: downloads of which a
guard skips the first one later, an archive behind a guard, an archive of the
package with a link made anew and a command behind it, an artifact that is moved
away, steps that write every file once, and a command that is a file of the package
itself. Two slots give overlapping attempts, an attempt beside a registration or an
edit of the configuration, and any number of retries one after the other.
`MaxLeftovers` is one leftover task at a time, enough for "somebody else writes". A
removal that fails takes one of two sets of files (`Gone`), all or some. Of two
scripts (`OnTorn`) an attempt may also begin while the package is torn; of the
others attempts only run into a registration. With two messages each (`MaxSaid`) a
peer of `bridge` can have one in the inbox, one in hand and one on the wire of
either direction, and a window of one makes a pump wait.

Checking for deadlock is off: a manager that nobody calls stops, a bridge that is
over stays so, and the bounds on rows and ids end some runs.

Symmetry: `manager` and `serial` permute slots and instances, which no
definition distinguishes and no liveness property is checked with.

### Fairness

`FairSpec` (run `control`): a stop that has begun gets all its turns. The async
runtime polls every handler that is not dropped, and each await of a stop ends:
a database statement, the wait for a process group, which is bounded and then
kills, and `docker stop`. Starts are given no fairness, as a health request may
hang. `InsistentSpec` (run `v_crash`) also lets every handler end and a client
ask for a stop again and again; it is more than the code promises and makes the
counterexample stronger: even so, a plugin whose process has died is never
stopped.

`FairSpec` of `WsBridge` (run `bridge`): a pump gets its turns, as the task of the
bridge is polled whenever a socket is ready, and a peer that reads reads on. No peer
has to: it may stop reading at any time while its connection stays up
(`StopReading`), and as no send has a timeout (`public.rs` 454), the pump towards
it may then be stuck for ever (`Stuck`). `BridgeEnds` says that nothing else keeps an
open bridge open once a peer is gone or has closed. There is no fairness for
`Connect`: `connect_async` has no timeout.

### What the documents say and the code does not do

* **A restart leaves "running" behind** (`v_restart`; `manager.rs` 301). The map
  starts empty, the row still says running: start is refused because of the row,
  stop because of the map.
* **A crashed plugin cannot be stopped** (`v_crash`; `process.rs` 146). The pid is
  gone, so every stop fails and restores the handle; the row says running for ever.
* **A failing uninstall loses the handle** (`v_uninstall_fails`; `handlers.rs`
  981). SECURITY.md says the handle is kept when stopping fails.
* **Upgrade commands never run** (`v_upgrade`; `installer.rs` 504). Registration
  has already written the new `current_version` when materialize compares it.
* **A revoked permission may still be granted** (`v_revoke`; `permissions.rs` 45).
  Two updates that both find no row insert two; a later denial changes one.

### What the assumptions of the runs keep out

A passing run says what holds under its constants. Where the code does worse
without the restriction, this is how; each behaviour is in the model and appears
when the constant is relaxed.

* `control` has one starting client. With two, the start that the engine refuses
  rolls the row back to "installed" while the other's container runs
  (`handlers.rs` 619 and 749), and a handle can be overwritten and its instance
  forgotten.
* The proof of `RunningHasOwner` excludes, and `serial` has none of, restarts,
  disconnects and failing statements: a client that goes away while its start
  waits leaves "running" without a handle (`handlers.rs` 669). It holds through an
  uninstall whose stop succeeds (`serial`) and not through another
  (`v_uninstall_fails`).
* `serial` lets registrations and uninstalls have the manager to themselves. A stop
  that ends after a concurrent registration overwrites "pending" with
  "installed" (`handlers.rs` 920); a start in flight publishes its handle, and its
  navigation item, after an uninstall has deleted everything (`handlers.rs` 731).
* `serial` has no bad packages and no failing removals: registering a version again
  removes its package directory before the new zip is known to be good
  (`installer.rs` 359), and an interrupted registration, upgrade or removal leaves
  "installed" with a package that is not.
* Registering and materializing a running plugin makes it "installed" with the
  instance still alive, and so does a wasm stop for as long as the signal takes
  (`installer.rs` 385, `wasm.rs` 135), so there is no property that an installed
  plugin has no live instance.
* Registering a version twice leaves a row that stays pending (`installer.rs` 411).
* `host_records` gives every key one writer. Two upserts of one key both find no
  row and insert two (`host_api.rs` 1106), in all four tables.
* `UninstallClears` spares the rows of upserts that were past their permission
  check: they are inserted after the uninstall has emptied their table
  (`handlers.rs` 1065).
* In `setup` one client writes the configuration. With two, the values of one are
  lost between the other's read and write (`handlers.rs` 1273), and a default file
  may overwrite what was just written (`manager.rs` 233).
* `SuccessIsComplete` and `RunsWhatWasPrepared` excuse four things. An attempt that
  skips a download and has overrides: the count shifts and it asks a mirror for
  another step's file (`installer.rs` 795). An attempt during which another one
  fails, since that one may have moved files away. Attempts that overlap each
  other or a leftover task where, since the registration, a write also failed halfway
  or overrides shifted (`Promised`): the second attempt's guard sees the half-written
  file of the first and skips the step that would have repaired it (`installer.rs`
  72). And whatever happens on a package that is torn: from the removal by a
  registration of the same version until a registration ends with the package
  whole, as it was shipped, and nobody at work on it (`Fresh`). An attempt that
  goes on meanwhile may write over the new package, or make a mark there without
  what it guards, as `Guarding` does: download `bin`, then `lib` unless `out` is
  there, then run `app`, which makes `out`. The attempt has downloaded `lib`, the
  directory is emptied (`installer.rs` 359), the attempt makes `out`, and the next one
  skips `lib` and succeeds. No fault is needed for that.
* The guards of the scripts name a file that a later step makes. A
  `file_not_exists` guard on the file that its own step downloads is skipped for
  ever once that download has failed halfway.
* `CommandsSeeConfig` excuses a `config.toml` whose JSON is no object: nothing can
  be inserted, and nobody is told (`handlers.rs` 1273).
* `ClosedIsHeard` says that what was said is on its way when the close frame ends
  the bridge. It need not arrive: a dropped socket that has unread input, or gets
  more, may be reset, and its tail lost (`public.rs` 486).
* A peer that keeps its connection and reads no more keeps the bridge open, and the
  other peer's socket with it, for as long as it likes (`public.rs` 454).
* A bridge survives the stop of its runtime until the sockets go down: the handle
  is read once, at the upgrade (`public.rs` 184).

## 4. Proofs

All theorems hold for every number of requests, instances, versions, keys and
statements, and for all calls and faults unless an assumption is listed. TLC
checked every inductive invariant's parts on the small instances first.

| Theorem (module) | Says | Assumes |
|---|---|---|
| `TypeCorrect`, `HandlersRemember`, `EnabledFollowsStatus` (`PluginManagerProofs`) | `[]TypeOK`, `[]LocalsOK`, `[]EnabledMatchesStatus` | |
| `OwnershipLinear` (`RuntimeOwnershipProofs`) | in the token game no token is in two places | |
| `ImplementsOwnership`, `OneOwner` (`PluginManagerProofs`) | the manager implements the token game; `[]HandleLinear` | |
| `RunningOwned` (`OwnerProofs`) | `[]RunningHasOwner` | no restart, disconnect, database error; nobody uninstalls |
| `OneStarterConsistent` (`OwnerProofs`) | `[]StateConsistency` | the same faults excluded; one starting client, the others stop |
| `OneStarterReaches` (`OwnerProofs`) | `[]NoOrphan` | the same, and the kind is not wasm |
| `UninstalledIsGone` (`TurnsProofs`) | `TurnsSpec => []NothingOutlivesUninstall` | no database error |
| `InstalledStaysPrepared` (`TurnsProofs`) | `TurnsSpec => []InstalledIsPrepared` | no fault but exiting instances, a refusing engine and reused pids |
| `HostStateCorrect` (`HostApiProofs`) | `[]HostStateOK` | |
| `MigrationsComplete` (`HostApiProofs`) | `[]AppliedMeansRan` | |
| `RevocationsHoldButForDuplicates` (`HostApiProofs`) | `[]OnlyDuplicatesOverrule` | |
| `DeletedStaysDeleted` (`HostApiProofs`) | `GoneStaysGone` | |
| `OneWriterOneRow` (`HostApiProofs`) | `[]OneRowPerKey` | one slot writes each key, one slot grants or registers |
| `OneAdminRevokes` (`HostApiProofs`) | `RevokeHolds` | the same |
| `UninstallsClear` (`HostApiProofs`) | `HistorySpec => UninstallClears` | one slot grants, registers or uninstalls |
| `NothingUnverifiedEver` (`MaterializationProofs`) | `[]NothingUnverified` | `SetupConstants`, `MirrorConstants` |
| `MaterializationTypeCorrect` (`MaterializationProofs`) | `[]MTypeOK` | `SetupConstants` |
| `CommandsFindTheirValues` (`MaterializationProofs`) | `CommandsSeeConfig` | `OneConfigures`: one slot reads and writes the configuration |
| `SuccessComplete`, `CommandsRunWhatWasPrepared` (`SetupProofs`) | `[]SuccessIsComplete`, `RunsWhatWasPrepared` | the script is write-once |
| `BridgeTypeCorrect`, `BridgeDeliversInOrder` (`WsBridgeProofs`) | `[]TypeOK`, `[]InOrder` | |
| `ClosedIsHeardOut` (`WsBridgeProofs`) | `ClosedIsHeard` | |
| `BridgeImplementsPipes` (`WsBridgeProofs`) | the bridge implements the cut pipes | |

The arguments:

* `IInv` is `TypeOK`, `LocalsOK` and `EnabledMatchesStatus` together. The flag is
  only right because a rollback writes back a row that was "installed" and not
  enabled when the start read it, which is a fact about locals.
* The refinement maps `handle` to the slot and `held` to the hands. Each step is
  one of the game's or a stutter; `LocalsOK` is needed to know that a handler
  that deposits has something in hand and one that withdraws has not.
  `HandleLinear` is then not proved on the manager at all but inherited.
* `OwnerInv` adds to `IInv` that a "running" row has a handle in the map or a
  handler at a label that owns the row, and that no uninstall is under way. Every
  action either leaves the owner alone or passes the ownership on.
* `StarterInv` strengthens this for one starter: at most one handler owns the
  row, owner and map exclude each other, and "running" is equivalent to one of
  them. `ReachInv` adds that a stop about to commit holds a dead instance, which is
  false of wasm.
* `TurnsSpec` is `Spec` whose steps obey `TakingTurns`, as the run `serial` takes
  them. `GoneInv`: without a row nobody is at work but those who install it or have
  just found that it is gone, so nothing else can insert; the tables that an
  uninstall has passed stay empty, since it is alone. Restarts and dropped handlers
  do no harm here: they write no table. `PreparedInv`: whoever has unmade the
  package of the row (a registration, an upgrade, an uninstall) is still on the way
  to rewriting the row, which is why every way out in between had to be excluded;
  every package has a version row; and a plugin that a start or stop works on is
  never pending, so that a rollback or a late "installed" cannot bring back a
  version that was registered again.
* `MigrationInv`: ids are unique and the row a handler remembers keeps its key
  while it exists; every executing request has executed the statements before its
  position of the script it loaded; hence what is stored as applied has run, whatever
  package is registered meanwhile.
* `GoneStaysGone` follows from `HostStateOK` alone: an update writes only a row that
  is there, and whoever inserts takes a new id.
* `GrantInv`: the same about grant ids, and `DenialsFinal`: nobody is about to
  grant a permission that counts as denied; hence a granted row of a denied
  permission has a sibling that says no.
* `UniqueInv` adds that keys are unique and that a search which found nothing would
  still find nothing: who else could have inserted is ruled out by `OneWriter` and
  `OneAdmin`, and that is all that keeps two upserts from inserting both
  (`host_api.rs` 1106). `RevokeHolds` follows from this uniqueness and
  `OnlyDuplicatesOverrule`: the one overruling the latter allows needs two rows.
* `CleanInv`: only clean writes are left to any task, awaited or left over, and an
  attempt that downloads does so from the url of its step or one of its overrides.
  Without the tasks in it the invariant is not inductive: an archive that is
  unpacked was verified some steps before. The lemmas show that no step of a
  script makes junk out of clean files.
* `ClearInv`: while an uninstall is under way the tables it has passed hold nothing
  but spared rows, and whoever is about to insert one is spared. New requests are
  refused, since the grants went first; `OneAdministrator` is what the run
  has too: with two, the second could grant again between the deletes.
* `TypeInv` is `MTypeOK`, the clean writes of `CleanInv` and the shape of what each
  request remembers at each await.
* `ConfigInv` adds that a request that reads, merges and writes the configuration
  holds the merge of what is there. `OneConfigures` says that one slot asks for
  `get`, `put` or values, and `Drop` does not reach these awaits; with two
  slots one's values are lost, see above.
* `SetupInv` is about write-once scripts (`WriteOnce`): the steps that apply on a
  fresh package bring each file with one content, over nothing of the package; a
  condition asks for what no step brings, or guards its step by a mark that only
  later steps bring; and every url that a step may be given, by whichever override
  it counts to, delivers what the step's own url stands for. The sequential meaning
  (`Outcome`) is a recursive function, and induction over the steps is by a
  least counterexample (`LeastNumber`). The invariant: every file is the package's,
  a product, or half written (`Tidy`); tasks owe products (`Owed`); an
  attempt that is promised something finds what the steps before it bring
  (`AttemptsDone`), and a mark that is there, or about to be, tells the truth
  (`Marks`). The last two need each other: a skipped step has been done because its
  mark is there, and the mark is there because an attempt came so far. They hold while
  attempts overlap or writes fail, not both (`Calm`, as `Promised`): alone, an
  attempt repairs what was left half written before it goes on; and what is
  never half written is only ever written with the same content. `WholeInv` is
  `SetupInv` while the package is not torn. While it is, nothing is claimed; a
  registration that ends with the package as it was shipped, no attempt, no leftover
  and no other extraction re-establishes it, since that is an initial state for it.
* `CloseIsLast`: nothing is said behind a close frame; hence when a pump sends one
  on, what it has behind it in the inbox is nothing.
* `BridgeInv`: for each direction what was heard, the wire, the hand and the inbox,
  in this order, are the beginning of what was said, and all of it while the
  bridge is open and the source is there. `PipesStep` maps each step to one of
  `CutPipes`: the end of the bridge is the cut, a message taken from the wire is
  heard, a reset loses the end of a pipe, and pumping is a stutter.

The constants' assumptions (`ConstantsAssumption`, `HostConstants`,
`SetupConstants`, `MirrorConstants`, `BridgeConstants`, `NullRow`) say that the null
values are no members of their sets and that calls, faults, kind and scripts have
their types; those of `Materialization` also say that junk comes from nowhere but a
mirror. TLC evaluates them in every run.

Only model-checked: liveness (`StopSettles`, `Stoppable`, `BridgeEnds`), which is
out of this prover's reach; and `SuccessIsComplete` and `RunsWhatWasPrepared` for
scripts that are not write-once, of which the run `setup` has some.

## 5. Not modelled

* **Docker compose**: a project is started under the compose file's name and
  stopped by a container name it never had; what the stop then does depends on the
  compose file. The development server that the wasm backend spawns where
  the runner is missing is a spawn like the other.
* **The SQLite directory** of a plugin and the audit log: files and rows that no
  handler reads back.
* **Directories, modes and stripped path components** in the setup steps.
* **Host API proxies** (key-value store, VFS, notifications): calls into crates
  that are not in this repository.
* **Public UI files and the HTTP proxy**: one request and one response, no state.
* **Market, manifest validation, configuration, routes**: a fetch that ends in
  `register`, data checks without state, getters, tables.
* `PluginManager` and `Materialization` are not composed: the former has the
  outcomes of the setup steps (prepared, unchanged or invalid), the latter their
  interior.
* `PluginManager` and `HostApi` are not composed: the row whose version migrations read
  (`version`) is written by `Register` of `HostApi` and deleted by its uninstall,
  which repeat the relevant statements of `PackageInstall` and `Uninstall`.

## 6. Plan

1. Compose as a fourth kind of `RuntimeControl`.
2. `PluginLifecycle`, the state machine that SECURITY.md 4.1 and 4.2 draw, as an
   abstract specification that the manager implements with one starting client.
3. `PluginManager` and `HostApi` over one registry row: migrations and uninstalls
   against starts and registrations.
4. A proof of `RunningHasOwner` with uninstalls whose stop succeeds.
5. `SuccessIsComplete` for scripts that move files.
