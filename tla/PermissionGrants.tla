---------------------------- MODULE PermissionGrants ---------------------------
(***************************************************************************)
(* The grant rows of a plugin: the admin handler that updates them, the    *)
(* registration that resets them, and the check the host API makes.        *)
(***************************************************************************)
EXTENDS HostState

\* The permission a host API endpoint requires.
Needed(c) ==
  CASE c.table = "shared" /\ c.op \in {"upsert", "delete"} -> "db-shared-write"
    [] c.table = "shared" /\ c.op \in {"get", "list"}      -> "db-shared-read"
    [] c.table = "migration" -> "db-sqlite"
    [] c.table = "task"      -> "scheduler"
    [] c.table = "nav"       -> "web-api"

RowsFor(permission) == {row \in grants : row.permission = permission}

\* A permission without a row is not granted; of several rows any one is read.
BadGranted(permission) == \A row \in RowsFor(permission) : row.granted
Granted(permission) == \E row \in RowsFor(permission) : row.granted

\* What a request writes: its own items, or a denial of all the manifest asks.
Items(c) ==
  IF c.op = "register"
  THEN [i \in DOMAIN Manifest |-> [permission |-> Manifest[i], granted |-> FALSE]]
  ELSE c.items

Grants(item, permission) == item.permission = permission /\ item.granted

\* Among the items that r has still to write one grants the permission.
StillGrants(r, permission) ==
  /\ pc[r] \in {"g_find", "g_write"}
  /\ \E i \in DOMAIN Items(call[r]) :
       i >= next[r] /\ Grants(Items(call[r])[i], permission)

GrantedBy(c) ==
  {p \in Permissions : \E i \in DOMAIN Items(c) : Grants(Items(c)[i], p)}

GrantCall(r) ==
  \E c \in Calls[r] :
    /\ c.op = "grant"
    /\ Accept(r, c, "g_find")
    /\ denied' = denied \ GrantedBy(c)
    /\ UNCHANGED tables

\* register_plugin_from_zip_bytes, as far as this state goes: the registry row
\* has the new version before the grants are reset.
Register(r) ==
  \E c \in Calls[r] :
    /\ c.op = "register"
    /\ Accept(r, c, "g_find")
    /\ version' = c.version
    /\ UNCHANGED <<grants, records, ran, denied>>

Current(r) == Items(call[r])[next[r]]

GrantFind(r) ==
  /\ At(r, "g_find")
  /\ next[r] <= Len(Items(call[r]))
  /\ \E row \in FindOne(RowsFor(Current(r).permission)) :
       found' = [found EXCEPT ![r] = row]
  /\ Goto(r, "g_write")
  /\ UNCHANGED <<tables, call, next, loaded, denied>>

\* A denial takes effect unless an update that grants the permission is under way.
Denies(r) ==
  ~Current(r).granted /\ \A s \in Reqs : ~StillGrants(s, Current(r).permission)

\* The next item, once the current one is written.
ItemWritten(r) ==
  /\ next' = [next EXCEPT ![r] = @ + 1]
  /\ found' = [found EXCEPT ![r] = NoRow]
  /\ Goto(r, "g_find")
  /\ denied' = denied \cup IF Denies(r) THEN {Current(r).permission} ELSE {}
  /\ UNCHANGED <<call, loaded>>

BadSetGranted(id, granted) ==
  {IF row.id = id THEN [row EXCEPT !.granted = @ \/ granted] ELSE row : row \in grants}

SetGranted(id, granted) ==
  {IF row.id = id THEN [row EXCEPT !.granted = granted] ELSE row : row \in grants}

GrantUpdate(r) ==
  /\ At(r, "g_write")
  /\ found[r] # NoRow /\ HasId(grants, found[r].id)
  /\ grants' = SetGranted(found[r].id, Current(r).granted)
  /\ ItemWritten(r)
  /\ UNCHANGED <<records, version, ran>>

\* The row has been deleted meanwhile: the statement fails.
GrantGone(r) ==
  /\ At(r, "g_write")
  /\ found[r] # NoRow /\ ~HasId(grants, found[r].id)
  /\ Return(r)
  /\ UNCHANGED <<tables, denied>>

GrantInsert(r) ==
  /\ At(r, "g_write")
  /\ found[r] = NoRow
  /\ FreshIds(grants, <<Current(r).permission>>) # {}
  /\ grants' = grants \cup {[id |-> NewId(grants, <<Current(r).permission>>),
                            permission |-> Current(r).permission,
                            granted |-> Current(r).granted]}
  /\ ItemWritten(r)
  /\ UNCHANGED <<records, version, ran>>

GrantsDone(r) ==
  /\ At(r, "g_find")
  /\ next[r] > Len(Items(call[r]))
  /\ Return(r)
  /\ UNCHANGED <<tables, denied>>

Grant(r) ==
  \/ GrantCall(r) \/ Register(r) \/ GrantFind(r) \/ GrantsDone(r)
  \/ GrantUpdate(r) \/ GrantGone(r) \/ GrantInsert(r)
================================================================================
