-------------------------------- MODULE HostApi --------------------------------
(***************************************************************************)
(* Host API requests of a plugin interleave, await by await, with the      *)
(* admin requests that update its grants, register a version of it or      *)
(* uninstall it.                                                           *)
(***************************************************************************)
EXTENDS Migrations

(* uninstall_plugin, from the point where it begins to delete rows.  Each   *)
(* delete is a statement of its own whose error is dropped.                 *)
BadWipeOrder == <<"task", "nav", "migration">>
WipeOrder == <<"task", "nav", "shared", "migration">>

UninstallCalled(r) ==
  \E c \in Calls[r] :
    /\ c.op = "uninstall"
    /\ version # NoVersion
    /\ Accept(r, c, "wipe_grants")
    /\ UNCHANGED <<tables, denied>>

\* Without a row every permission is denied.
WipeGrants(r) ==
  /\ At(r, "wipe_grants")
  /\ \/ /\ grants' = {}
        /\ denied' = {p \in Permissions : \A s \in Reqs : ~StillGrants(s, p)}
     \/ "dberror" \in Faults /\ UNCHANGED <<grants, denied>>
  /\ Goto(r, "wipe_records")
  /\ UNCHANGED <<records, version, ran, call, found, next, loaded>>

WipeRecords(r) ==
  /\ At(r, "wipe_records")
  /\ \/ records' = {row \in records : row.table # WipeOrder[next[r]]}
     \/ "dberror" \in Faults /\ UNCHANGED records
  /\ next' = [next EXCEPT ![r] = @ + 1]
  /\ Goto(r, IF next[r] = Len(WipeOrder) THEN "wipe_registry" ELSE "wipe_records")
  /\ UNCHANGED <<grants, version, ran, call, found, loaded, denied>>

WipeRegistry(r) ==
  /\ At(r, "wipe_registry")
  /\ \/ version' = NoVersion
     \/ "dberror" \in Faults /\ UNCHANGED version
  /\ Return(r)
  /\ UNCHANGED <<grants, records, ran, denied>>

Uninstall(r) ==
  UninstallCalled(r) \/ WipeGrants(r) \/ WipeRecords(r) \/ WipeRegistry(r)

(* A statement fails and its error ends the handler, or the client is gone  *)
(* and the handler is dropped at its await.                                 *)
Abort(r) ==
  /\ "abort" \in Faults
  /\ pc[r] # "idle"
  /\ Return(r)
  /\ UNCHANGED <<tables, denied>>

HostNext ==
  \E r \in Reqs : Grant(r) \/ Record(r) \/ Execute(r) \/ Uninstall(r) \/ Abort(r)

HostSpec == HostInit /\ [][HostNext]_hvars

--------------------------------------------------------------------------------
(* What a handler knows across its awaits: the call it serves, a position   *)
(* within what it loops over, the package whose script it executes, and,    *)
(* between its search and its write only, a row for the very permission or  *)
(* key that it writes.                                                      *)
FoundOK(r) ==
  \/ found[r] = NoRow
  \/ /\ pc[r] = "g_write"
     /\ found[r] \in GrantRow
     /\ found[r].permission = Current(r).permission
  \/ /\ pc[r] \in {"write", "store"}
     /\ found[r] \in RecordRow
     /\ found[r].table = call[r].table /\ found[r].key = call[r].key

HandlerOK(r) ==
  /\ pc[r] \in HostLabels => call[r] \in HostCall
  /\ pc[r] \in {"run", "store"} => loaded[r] \in Packages
  /\ pc[r] \in {"g_find", "g_write"} => call[r] \in GrantsCall \cup RegisterCall
  /\ pc[r] = "g_write" => next[r] <= Len(Items(call[r]))
  /\ pc[r] \in {"idle", "load", "wipe_grants"} => next[r] = 1
  /\ pc[r] = "wipe_records" => next[r] <= Len(WipeOrder)
  /\ FoundOK(r)

HostStateOK == HostTypeOK /\ \A r \in Reqs : HandlerOK(r)

(* A key has one row and a permission has one row, although nothing in the  *)
(* database says so.  Holds if every key has one writer and admin requests  *)
(* come one at a time, whatever is deleted under a handler between its      *)
(* search and its write.                                                    *)
OneRowPerKey ==
  /\ \A a, b \in records : a.table = b.table /\ a.key = b.key => a = b
  /\ \A a, b \in grants : a.permission = b.permission => a = b

(* A deleted row does not come back: a handler that had found it before the *)
(* delete or the uninstall, and writes after it, fails or finds a row that  *)
(* was inserted since.                                                      *)
GoneStaysGone ==
  [][\A r \in Reqs :
       found[r] # NoRow /\ ~HasId(grants \cup records, found[r].id)
         => ~HasId(grants' \cup records', found[r].id)]_hvars

(* A permission stays revoked: once an update or an uninstall that denies   *)
(* it has taken effect, no request passes the check for it until somebody   *)
(* asks to grant it again.                                                  *)
RevokeHolds ==
  [][\A r \in Reqs :
       pc[r] = "idle" /\ pc'[r] \in HostLabels /\ call'[r].op # "list_all"
         => Needed(call'[r]) \notin denied]_hvars

(* With any number of admins at once a revoked permission can be granted    *)
(* all the same, but for one reason only: two rows for it.                  *)
OnlyDuplicatesOverrule ==
  \A row \in grants :
    row.granted /\ row.permission \in denied =>
      \E other \in RowsFor(row.permission) : ~other.granted

(* A migration recorded as applied has taken effect completely: every       *)
(* statement of the script that was loaded, whoever else executes one for   *)
(* the key, upgrades, uninstalls or registers the version again with other  *)
(* files meanwhile.                                                         *)
AppliedMeansRan ==
  \A row \in records : \A p \in Packages :
    row.value = Applied(p) =>
      \A i \in DOMAIN Script[p][row.key] : Script[p][row.key][i] \in ran
================================================================================
