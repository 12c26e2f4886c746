---------------------------- MODULE PackageInstall -----------------------------
(***************************************************************************)
(* The two-phase install: register (unzip and write the rows) and          *)
(* materialize (lifecycle commands, then the status).  Neither looks at    *)
(* the status or at the runtime handle of the plugin.                      *)
(***************************************************************************)
EXTENDS PluginState

InstallInFlight(v) == {r \in Reqs : pc[r] \in InstallLabels /\ target[r] = v}

SetPackage(v, state) == pkg' = [pkg EXCEPT ![v] = state]

--------------------------------------------------------------------------------
(* register_plugin_from_zip_bytes: a zip whose manifest or checksum is bad  *)
(* is refused before this first action.                                     *)

\* The directory of the version is removed before the zip is unpacked.
RegisterCall(r) ==
  /\ Called(r, "register")
  /\ \E v \in Versions :
       /\ RowsOf(v) + Cardinality(InstallInFlight(v)) < MaxVersionRows
       /\ SetPackage(v, "absent")
       /\ target' = [target EXCEPT ![r] = v]
  /\ Goto(r, "reg_extract")
  /\ UNCHANGED <<db, handle, alive, held, seen>>

RegisterRemoveFails(r) ==
  /\ Called(r, "register")
  /\ "badremove" \in Faults
  /\ \E v \in Versions : pkg[v] # "absent" /\ SetPackage(v, "invalid")
  /\ Return(r)
  /\ UNCHANGED <<db, handle, alive>>

RegisterExtract(r) ==
  /\ At(r, "reg_extract")
  /\ SetPackage(target[r], "registered")
  /\ Continue(r, "reg_row")
  /\ UNCHANGED <<db, handle, alive>>

\* Extraction or the basic validation fails: the directory is left as it is.
RegisterExtractFails(r) ==
  /\ At(r, "reg_extract")
  /\ "badzip" \in Faults
  /\ SetPackage(target[r], "invalid")
  /\ Return(r)
  /\ UNCHANGED <<db, handle, alive>>

RegisterFindRow(r) ==
  /\ At(r, "reg_row")
  /\ seen' = [seen EXCEPT ![r] = registry]
  /\ Goto(r, "reg_write")
  /\ UNCHANGED <<db, handle, alive, disk, held, target>>

\* An update keeps the enabled flag.
BadRegisteredRow(v) ==
  [status |-> IF Registered THEN registry.status ELSE "pending",
   enabled |-> registry.enabled, version |-> v]
RegisteredRow(v) ==
  [status |-> "pending", enabled |-> registry.enabled, version |-> v]

\* A row that was found is updated and a missing one inserted; the statement
\* fails when that changed since, and the handler returns the error.
RegisterWriteRow(r) ==
  /\ At(r, "reg_write")
  /\ IF seen[r] = NoRow <=> ~Registered
     THEN registry' = RegisteredRow(target[r]) /\ Continue(r, "reg_version")
     ELSE UNCHANGED registry /\ Return(r)
  /\ UNCHANGED <<versionRows, rows, handle, alive, disk>>

RegisterVersion(r) ==
  /\ At(r, "reg_version")
  /\ versionRows' = [versionRows EXCEPT ![target[r]].pending = @ + 1]
  /\ Continue(r, "reg_grants")
  /\ UNCHANGED <<registry, rows, handle, alive, disk>>

\* A manifest without permissions writes no grant.
RegisterGrants(r) ==
  /\ At(r, "reg_grants")
  /\ rows' \in {rows, rows \cup {"grants"}}
  /\ Return(r)
  /\ UNCHANGED <<registry, versionRows, handle, alive, disk>>

\* A failing statement ends the handler; what was written stays.
RegisterDbError(r) ==
  /\ pc[r] \in {"reg_row", "reg_write", "reg_version", "reg_grants"}
  /\ "dberror" \in Faults
  /\ Return(r)
  /\ UNCHANGED <<db, handle, alive, disk>>

Register(r) ==
  \/ RegisterCall(r) \/ RegisterRemoveFails(r)
  \/ RegisterExtract(r) \/ RegisterExtractFails(r)
  \/ RegisterFindRow(r) \/ RegisterWriteRow(r) \/ RegisterVersion(r) \/ RegisterGrants(r)
  \/ RegisterDbError(r)

--------------------------------------------------------------------------------
(* materialize_plugin_from_zip                                              *)

\* The manifest comes from the package directory of the version asked for.
MaterializeCall(r) ==
  /\ Called(r, "materialize")
  /\ \E v \in Versions :
       /\ pkg[v] # "absent"
       /\ target' = [target EXCEPT ![r] = v]
  /\ Goto(r, "mat_commands")
  /\ UNCHANGED <<db, handle, alive, disk, held, seen>>

\* install_commands and validation succeed on a directory that is still there.
MaterializeCommands(r) ==
  /\ At(r, "mat_commands")
  /\ pkg[target[r]] # "absent"
  /\ SetPackage(target[r], "prepared")
  /\ Continue(r, "mat_prev")
  /\ UNCHANGED <<db, handle, alive>>

\* A command or the validation fails: earlier commands are not undone.
MaterializeCommandsFail(r) ==
  /\ At(r, "mat_commands")
  /\ \/ UNCHANGED pkg
     \/ "badstep" \in Faults /\ SetPackage(target[r], "invalid")
  /\ Return(r)
  /\ UNCHANGED <<db, handle, alive>>

\* The current version of the row is read.
MaterializeLoadPrevious(r) ==
  /\ At(r, "mat_prev")
  /\ seen' = [seen EXCEPT ![r] = registry]
  /\ Goto(r, "mat_upgrade")
  /\ UNCHANGED <<db, handle, alive, disk, held, target>>

PreviousVersions(r) == {seen[r].version} \ {NoVersion, target[r]}

\* Another version was current: upgrade_commands, then its directory goes.
MaterializeUpgrade(r) ==
  /\ At(r, "mat_upgrade")
  /\ pkg' = [v \in Versions |-> IF v \in PreviousVersions(r) THEN "absent" ELSE pkg[v]]
  /\ Continue(r, "mat_row")
  /\ UNCHANGED <<db, handle, alive>>

\* A command fails, others having changed the package, or the old directory
\* cannot be removed.
MaterializeUpgradeFails(r) ==
  /\ At(r, "mat_upgrade")
  /\ PreviousVersions(r) # {}
  /\ \/ UNCHANGED pkg
     \/ "badstep" \in Faults /\ SetPackage(target[r], "invalid")
     \/ /\ "badremove" \in Faults
        /\ \E v \in PreviousVersions(r) : pkg[v] # "absent" /\ SetPackage(v, "invalid")
  /\ Return(r)
  /\ UNCHANGED <<db, handle, alive>>

MaterializedRow(v) ==
  [status |-> "installed", enabled |-> FALSE, version |-> v]

\* A missing row is not an error: it is skipped.
MaterializeFindRow(r) ==
  /\ At(r, "mat_row")
  /\ Continue(r, IF Registered THEN "mat_write" ELSE "mat_version")
  /\ UNCHANGED <<db, handle, alive, disk>>

\* The update fails, and the handler with it, if the row is gone by now.
MaterializeWriteRow(r) ==
  /\ At(r, "mat_write")
  /\ IF Registered
     THEN registry' = MaterializedRow(target[r]) /\ Continue(r, "mat_version")
     ELSE UNCHANGED registry /\ Return(r)
  /\ UNCHANGED <<versionRows, rows, handle, alive, disk>>

\* One of the rows of the version, whichever the database returns first.
MarkOneRow(v) ==
  /\ versionRows[v].pending > 0
  /\ versionRows' = [versionRows EXCEPT ![v] =
                       [pending |-> @.pending - 1, installed |-> @.installed + 1]]

\* The row found is installed already, or there is none.
MarkNoRow(v) ==
  /\ versionRows[v].installed > 0 \/ RowsOf(v) = 0
  /\ UNCHANGED versionRows

MaterializeVersion(r) ==
  /\ At(r, "mat_version")
  /\ MarkOneRow(target[r]) \/ MarkNoRow(target[r])
  /\ Return(r)
  /\ UNCHANGED <<registry, rows, handle, alive, disk>>

MaterializeDbError(r) ==
  /\ pc[r] \in {"mat_prev", "mat_row", "mat_write", "mat_version"}
  /\ "dberror" \in Faults
  /\ Return(r)
  /\ UNCHANGED <<db, handle, alive, disk>>

Materialize(r) ==
  \/ MaterializeCall(r) \/ MaterializeCommands(r) \/ MaterializeCommandsFail(r)
  \/ MaterializeLoadPrevious(r) \/ MaterializeUpgrade(r) \/ MaterializeUpgradeFails(r)
  \/ MaterializeFindRow(r) \/ MaterializeWriteRow(r) \/ MaterializeVersion(r)
  \/ MaterializeDbError(r)
================================================================================
