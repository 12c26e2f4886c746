------------------------------ MODULE HostRecords ------------------------------
(***************************************************************************)
(* The host API endpoints that keep keyed records: one permission check,   *)
(* then a read, a delete, or the search for a row followed by its update   *)
(* or the insertion of a new one.  After the check the handlers of the     *)
(* four tables make the same statements, so one set of actions does.       *)
(***************************************************************************)
EXTENDS PermissionGrants

\* The permission is checked at the first await; a refusal changes nothing.
Admit(r, c, label) ==
  /\ Granted(Needed(c))
  /\ Accept(r, c, label)
  /\ UNCHANGED <<tables, denied>>

Endpoint(r, op, table, label) ==
  \E c \in Calls[r] : c.op = op /\ c.table = table /\ Admit(r, c, label)

UpsertSharedRecord(r)   == Endpoint(r, "upsert", "shared", "find")
GetSharedRecord(r)      == Endpoint(r, "get", "shared", "read")
ListSharedRecords(r)    == Endpoint(r, "list", "shared", "read")
DeleteSharedRecord(r)   == Endpoint(r, "delete", "shared", "delete")
UpsertMigrationState(r) == Endpoint(r, "upsert", "migration", "find")
GetMigrationState(r)    == Endpoint(r, "get", "migration", "read")
ListMigrationStates(r)  == Endpoint(r, "list", "migration", "read")
UpsertTask(r)           == Endpoint(r, "upsert", "task", "find")
ListTasks(r)            == Endpoint(r, "list", "task", "read")
UpsertNavItem(r)        == Endpoint(r, "upsert", "nav", "find")
ListNavItems(r)         == Endpoint(r, "list", "nav", "read")

\* Without a plugin id the navigation items of all are listed, unchecked.
ListAllNavItems(r) ==
  \E c \in Calls[r] :
    /\ c.op = "list_all"
    /\ Accept(r, c, "read")
    /\ UNCHANGED <<tables, denied>>

RecordCheck(r) ==
  \/ UpsertSharedRecord(r) \/ GetSharedRecord(r)
  \/ ListSharedRecords(r) \/ DeleteSharedRecord(r)
  \/ UpsertMigrationState(r) \/ GetMigrationState(r) \/ ListMigrationStates(r)
  \/ UpsertTask(r) \/ ListTasks(r) \/ UpsertNavItem(r) \/ ListNavItems(r)

Read(r) ==
  /\ At(r, "read")
  /\ Return(r)
  /\ UNCHANGED <<tables, denied>>

BadMatching(c) == {row \in records : row.table = c.table}
Matching(c) == {row \in records : row.table = c.table /\ row.key = c.key}

Delete(r) ==
  /\ At(r, "delete")
  /\ records' = records \ Matching(call[r])
  /\ Return(r)
  /\ UNCHANGED <<grants, version, ran, denied>>

Find(r, label) ==
  /\ \E row \in FindOne(Matching(call[r])) : found' = [found EXCEPT ![r] = row]
  /\ Goto(r, label)
  /\ UNCHANGED <<tables, call, next, loaded, denied>>

UpsertFind(r) == At(r, "find") /\ Find(r, "write")

SetValue(id, value) ==
  {IF row.id = id THEN [row EXCEPT !.value = value] ELSE row : row \in records}

Subject(r) == <<call[r].table, call[r].key>>
NewRecord(r, value) ==
  [id |-> NewId(records, Subject(r)), table |-> call[r].table, key |-> call[r].key,
   value |-> value]

BadInsert(r, value) ==
  /\ FreshIds(records, Subject(r)) # {}
  /\ records' = records \cup {NewRecord(r, value)}

Insert(r, value) ==
  /\ found[r] = NoRow
  /\ FreshIds(records, Subject(r)) # {}
  /\ records' = records \cup {NewRecord(r, value)}

BadUpdate(r, value) ==
  /\ found[r] # NoRow
  /\ records' = SetValue(found[r].id, value) \cup {[found[r] EXCEPT !.value = value]}

Update(r, value) ==
  /\ found[r] # NoRow /\ HasId(records, found[r].id)
  /\ records' = SetValue(found[r].id, value)

\* The row has been deleted meanwhile: the update fails.
Gone(r) ==
  /\ found[r] # NoRow /\ ~HasId(records, found[r].id)
  /\ UNCHANGED records

Write(r, value) ==
  /\ Insert(r, value) \/ Update(r, value) \/ Gone(r)
  /\ Return(r)
  /\ UNCHANGED <<grants, version, ran, denied>>

UpsertWrite(r) == At(r, "write") /\ Write(r, call[r].value)

Record(r) ==
  \/ RecordCheck(r) \/ ListAllNavItems(r) \/ Read(r) \/ Delete(r)
  \/ UpsertFind(r) \/ UpsertWrite(r)
================================================================================
