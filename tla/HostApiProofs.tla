----------------------------- MODULE HostApiProofs -----------------------------
(***************************************************************************)
(* Proofs about HostApi for any number of requests, keys and versions: the *)
(* handlers keep their state in order, and a migration recorded as applied *)
(* was executed completely. Where each key has one writer there is one row *)
(* for it, and what an administrator denies stays denied. An uninstall     *)
(* leaves no row but of requests that were in flight.                      *)
(***************************************************************************)
EXTENDS UninstallHistory, TLAPS

(* A call is known by its operation.                                        *)
LEMMA CallShapes ==
  ASSUME NEW r \in Reqs, NEW c \in Calls[r]
  PROVE  /\ c \in AnyCall
         /\ c.op \in HostOps => c \in HostCall
         /\ c.op = "grant" => c \in GrantsCall
         /\ c.op = "register" => c \in RegisterCall
  BY HostConstants
  DEF AnyCall, HostCall, GrantsCall, RegisterCall, UninstallCall, HostOps

(* What an admin request writes is a sequence of items.                     *)
LEMMA ItemsType ==
  ASSUME NEW c \in GrantsCall \cup RegisterCall
  PROVE  Items(c) \in Seq(Item)
<1>1. CASE c \in GrantsCall
  BY <1>1 DEF GrantsCall, Items
<1>2. CASE c \in RegisterCall
  <2>1. /\ Len(Manifest) \in Nat
        /\ DOMAIN Manifest = 1..Len(Manifest)
        /\ \A i \in 1..Len(Manifest) : Manifest[i] \in Permissions
    BY HostConstants
  <2>2. Items(c) \in [1..Len(Manifest) -> Item]
    BY <1>2, <2>1 DEF RegisterCall, Items, Item
  <2> QED BY <2>1, <2>2
<1> QED BY <1>1, <1>2

LEMMA CurrentType ==
  ASSUME HostStateOK, NEW r \in Reqs, pc[r] \in {"g_find", "g_write"},
         next[r] <= Len(Items(call[r]))
  PROVE  Current(r) \in Item
<1>1. Items(call[r]) \in Seq(Item)
  BY ItemsType DEF HostStateOK, HandlerOK
<1>2. next[r] \in 1..Len(Items(call[r]))
  BY <1>1 DEF HostStateOK, HostTypeOK
<1> QED BY <1>1, <1>2 DEF Current

(* What a handler knows depends on its own local variables only.            *)
LEMMA HandlerFrame ==
  ASSUME NEW r, HandlerOK(r), pc'[r] = pc[r], call'[r] = call[r],
         found'[r] = found[r], next'[r] = next[r], loaded'[r] = loaded[r]
  PROVE  HandlerOK(r)'
  BY DEF HandlerOK, FoundOK, Current

(* A handler that returns knows nothing.                                    *)
LEMMA ReturnOK ==
  ASSUME HostStateOK, NEW r \in Reqs, Return(r),
         grants' \subseteq GrantRow, records' \subseteq RecordRow,
         version' \in Versions \cup {NoVersion}, ran' \subseteq Statements,
         denied' \subseteq Permissions
  PROVE  HostStateOK'
<1>1. HostTypeOK'
  BY DEF HostStateOK, HostTypeOK, Return, Goto
<1>2. HandlerOK(r)'
  BY DEF HostStateOK, HostTypeOK, Return, Goto, HandlerOK, FoundOK, HostLabels
<1>3. ASSUME NEW s \in Reqs, s # r PROVE HandlerOK(s)'
  BY <1>3, HandlerFrame DEF HostStateOK, HostTypeOK, Return, Goto
<1> QED BY <1>1, <1>2, <1>3 DEF HostStateOK

(* A request that is accepted knows its call only.                          *)
LEMMA AcceptOK ==
  ASSUME HostStateOK, NEW r \in Reqs, NEW c \in Calls[r], NEW label,
         Accept(r, c, label),
         label \in {"find", "read", "delete", "load", "g_find", "wipe_grants"},
         label \in HostLabels => c.op \in HostOps,
         label = "g_find" => c.op \in {"grant", "register"},
         UNCHANGED <<grants, records, ran>>,
         version' \in Versions \cup {NoVersion}, denied' \subseteq Permissions
  PROVE  HostStateOK'
<1>1. HostTypeOK'
  BY CallShapes DEF HostStateOK, HostTypeOK, Accept, Goto, At, HostLabels, AdminLabels
<1>2. found[r] = NoRow
  BY DEF HostStateOK, HandlerOK, FoundOK, Accept, At
<1>3. HandlerOK(r)'
  BY <1>2, CallShapes
  DEF HostStateOK, HostTypeOK, Accept, Goto, At, HandlerOK, FoundOK, HostLabels
<1>4. ASSUME NEW s \in Reqs, s # r PROVE HandlerOK(s)'
  BY <1>4, HandlerFrame DEF HostStateOK, HostTypeOK, Accept, Goto
<1> QED BY <1>1, <1>3, <1>4 DEF HostStateOK

LEMMA NewIdFresh ==
  ASSUME NEW table, NEW about, FreshIds(table, about) # {}
  PROVE  /\ NewId(table, about) \in {about} \X Numbers
         /\ ~HasId(table, NewId(table, about))
         /\ \A r \in Reqs : found[r] # NoRow => found[r].id # NewId(table, about)
<1>1. NewId(table, about) \in FreshIds(table, about)
  BY DEF NewId
<1> QED BY <1>1 DEF FreshIds, HasId

(* What a search returns.                                                   *)
LEMMA FindOneType ==
  ASSUME NEW rows, NEW row \in FindOne(rows)
  PROVE  row = NoRow \/ row \in rows
  BY DEF FindOne

(* The write of an upsert or of a migration keeps the shape of the table.   *)
LEMMA WriteType ==
  ASSUME HostStateOK, NEW r \in Reqs, call[r] \in HostCall,
         NEW value \in Values \cup {Applied(p) : p \in Packages}, Write(r, value)
  PROVE  records' \subseteq RecordRow
<1>1. CASE Insert(r, value)
  BY <1>1, NewIdFresh
  DEF HostStateOK, HostTypeOK, Insert, NewRecord, Subject, RecordRow, HostCall
<1>2. CASE Update(r, value)
  BY <1>2 DEF HostStateOK, HostTypeOK, Update, SetValue, RecordRow
<1>3. CASE Gone(r)
  BY <1>3 DEF HostStateOK, HostTypeOK, Gone
<1> QED BY <1>1, <1>2, <1>3 DEF Write

LEMMA ItemWrittenOK ==
  ASSUME HostStateOK, NEW r \in Reqs, At(r, "g_write"), ItemWritten(r),
         grants' \subseteq GrantRow, UNCHANGED <<records, version, ran>>
  PROVE  HostStateOK'
<1>1. HostTypeOK'
  <2>1. Current(r) \in Item
    BY CurrentType DEF HostStateOK, HandlerOK, At
  <2>2. denied' \subseteq Permissions
    BY <2>1 DEF HostStateOK, HostTypeOK, ItemWritten, Item
  <2> QED BY <2>2 DEF HostStateOK, HostTypeOK, ItemWritten, Goto, AdminLabels
<1>2. HandlerOK(r)'
  BY DEF HostStateOK, HostTypeOK, At, ItemWritten, Goto, HandlerOK, FoundOK, HostLabels
<1>3. ASSUME NEW s \in Reqs, s # r PROVE HandlerOK(s)'
  BY <1>3, HandlerFrame DEF HostStateOK, HostTypeOK, ItemWritten, Goto
<1> QED BY <1>1, <1>2, <1>3 DEF HostStateOK

LEMMA GrantOK ==
  ASSUME HostStateOK, NEW r \in Reqs, Grant(r)
  PROVE  HostStateOK'
<1> USE DEF tables
<1>1. CASE GrantCall(r)
  BY <1>1, AcceptOK DEF GrantCall, HostStateOK, HostTypeOK, HostLabels
<1>2. CASE Register(r)
  <2>1. PICK c \in Calls[r] : /\ c.op = "register"
                             /\ Accept(r, c, "g_find")
                             /\ version' = c.version
                             /\ UNCHANGED <<grants, records, ran, denied>>
    BY <1>2 DEF Register
  <2>2. c.version \in Versions
    BY <2>1, CallShapes DEF RegisterCall
  <2> QED BY <2>1, <2>2, AcceptOK DEF HostStateOK, HostTypeOK, HostLabels
<1>3. CASE GrantFind(r)
  <2>1. PICK row \in FindOne(RowsFor(Current(r).permission)) :
          found' = [found EXCEPT ![r] = row]
    BY <1>3 DEF GrantFind
  <2>2. \/ row = NoRow
        \/ row \in GrantRow /\ row.permission = Current(r).permission
    BY FindOneType DEF RowsFor, HostStateOK, HostTypeOK
  <2>3. HostTypeOK'
    BY <1>3, <2>1, <2>2
    DEF GrantFind, HostStateOK, HostTypeOK, Goto, AdminLabels
  <2>4. HandlerOK(r)'
    BY <1>3, <2>1, <2>2
    DEF GrantFind, HostStateOK, HostTypeOK, Goto, At, HandlerOK, FoundOK, HostLabels,
        Current
  <2>5. ASSUME NEW s \in Reqs, s # r PROVE HandlerOK(s)'
    BY <1>3, <2>1, <2>5, HandlerFrame DEF GrantFind, HostStateOK, HostTypeOK, Goto
  <2> QED BY <2>3, <2>4, <2>5 DEF HostStateOK
<1>4. CASE GrantsDone(r)
  BY <1>4, ReturnOK DEF GrantsDone, HostStateOK, HostTypeOK
<1>5. CASE GrantUpdate(r)
  <2>1. Current(r) \in Item
    BY <1>5, CurrentType DEF GrantUpdate, At, HostStateOK, HandlerOK
  <2>2. grants' \subseteq GrantRow
    BY <1>5, <2>1 DEF GrantUpdate, SetGranted, HostStateOK, HostTypeOK, GrantRow, Item
  <2> QED BY <1>5, <2>2, ItemWrittenOK DEF GrantUpdate
<1>6. CASE GrantGone(r)
  BY <1>6, ReturnOK DEF GrantGone, HostStateOK, HostTypeOK
<1>7. CASE GrantInsert(r)
  <2>1. Current(r) \in Item
    BY <1>7, CurrentType DEF GrantInsert, At, HostStateOK, HandlerOK
  <2>2. grants' \subseteq GrantRow
    BY <1>7, <2>1, NewIdFresh DEF GrantInsert, HostStateOK, HostTypeOK, GrantRow, Item
  <2> QED BY <1>7, <2>2, ItemWrittenOK DEF GrantInsert
<1> QED BY <1>1, <1>2, <1>3, <1>4, <1>5, <1>6, <1>7 DEF Grant

LEMMA FindOK ==
  ASSUME HostStateOK, NEW r \in Reqs, pc[r] \in HostLabels,
         NEW label \in {"write", "store"}, Find(r, label),
         label = "store" => loaded[r] \in Packages
  PROVE  HostStateOK'
<1>1. PICK row \in FindOne(Matching(call[r])) : found' = [found EXCEPT ![r] = row]
  BY DEF Find
<1>2. \/ row = NoRow
      \/ row \in RecordRow /\ row.table = call[r].table /\ row.key = call[r].key
  BY FindOneType DEF Matching, HostStateOK, HostTypeOK
<1>3. HostTypeOK'
  BY <1>1, <1>2 DEF Find, HostStateOK, HostTypeOK, Goto, HostLabels, tables
<1>4. HandlerOK(r)'
  BY <1>1, <1>2
  DEF Find, HostStateOK, HostTypeOK, Goto, HandlerOK, FoundOK, HostLabels, tables
<1>5. ASSUME NEW s \in Reqs, s # r PROVE HandlerOK(s)'
  BY <1>1, <1>5, HandlerFrame DEF Find, HostStateOK, HostTypeOK, Goto
<1> QED BY <1>3, <1>4, <1>5 DEF HostStateOK

LEMMA AdmitOK ==
  ASSUME HostStateOK, NEW r \in Reqs, NEW c \in Calls[r],
         NEW label \in {"find", "read", "delete", "load"},
         c.op \in HostOps, Admit(r, c, label)
  PROVE  HostStateOK'
  BY AcceptOK DEF Admit, tables, HostStateOK, HostTypeOK

\* Every endpoint begins with the check of its permission.
LEMMA Checked ==
  ASSUME NEW r \in Reqs, RecordCheck(r)
  PROVE  \E c \in Calls[r] : \E label \in {"find", "read", "delete"} :
           c.op \in HostOps /\ Admit(r, c, label)
  BY DEF RecordCheck, UpsertSharedRecord, GetSharedRecord, ListSharedRecords,
         DeleteSharedRecord, UpsertMigrationState, GetMigrationState,
         ListMigrationStates, UpsertTask, ListTasks, UpsertNavItem, ListNavItems,
         Endpoint, HostOps

LEMMA WriteOK ==
  ASSUME HostStateOK, NEW r \in Reqs, call[r] \in HostCall,
         NEW value \in Values \cup {Applied(p) : p \in Packages}, Write(r, value)
  PROVE  HostStateOK'
  BY WriteType, ReturnOK DEF Write, HostStateOK, HostTypeOK

LEMMA RecordOK ==
  ASSUME HostStateOK, NEW r \in Reqs, Record(r)
  PROVE  HostStateOK'
<1>1. CASE RecordCheck(r)
  BY <1>1, Checked, AdmitOK
<1>2. CASE ListAllNavItems(r)
  BY <1>2, AcceptOK DEF ListAllNavItems, HostOps, tables, HostStateOK, HostTypeOK
<1>3. CASE Read(r)
  BY <1>3, ReturnOK DEF Read, tables, HostStateOK, HostTypeOK
<1>4. CASE Delete(r)
  BY <1>4, ReturnOK DEF Delete, HostStateOK, HostTypeOK
<1>5. CASE UpsertFind(r)
  BY <1>5, FindOK DEF UpsertFind, At, HostLabels
<1>6. CASE UpsertWrite(r)
  <2>1. call[r] \in HostCall
    BY <1>6 DEF UpsertWrite, At, HostStateOK, HandlerOK, HostLabels
  <2>2. call[r].value \in Values
    BY <2>1 DEF HostCall
  <2> QED BY <1>6, <2>1, <2>2, WriteOK DEF UpsertWrite
<1> QED BY <1>1, <1>2, <1>3, <1>4, <1>5, <1>6 DEF Record

LEMMA ExecuteOK ==
  ASSUME HostStateOK, NEW r \in Reqs, Execute(r)
  PROVE  HostStateOK'
<1> USE DEF tables
<1>1. CASE ExecuteCheck(r)
  BY <1>1, AdmitOK DEF ExecuteCheck, HostOps
<1>2. CASE ExecuteLoad(r)
  <2>0. PICK p \in Packages : loaded' = [loaded EXCEPT ![r] = p]
    BY <1>2, HostConstants DEF ExecuteLoad, HostStateOK, HostTypeOK
  <2>1. HostTypeOK'
    BY <1>2, <2>0 DEF ExecuteLoad, HostStateOK, HostTypeOK, Goto, HostLabels
  <2>2. HandlerOK(r)'
    BY <1>2, <2>0
    DEF ExecuteLoad, HostStateOK, HostTypeOK, At, Goto, HandlerOK, FoundOK, HostLabels
  <2>3. ASSUME NEW s \in Reqs, s # r PROVE HandlerOK(s)'
    BY <1>2, <2>3, HandlerFrame DEF ExecuteLoad, HostStateOK, HostTypeOK, Goto
  <2> QED BY <2>1, <2>2, <2>3 DEF HostStateOK
<1>3. CASE ExecuteNoScript(r)
  BY <1>3, ReturnOK DEF ExecuteNoScript, HostStateOK, HostTypeOK
<1>4. CASE ExecuteStatement(r)
  <2>1. /\ loaded[r] \in Packages
        /\ call[r] \in HostCall
    BY <1>4 DEF ExecuteStatement, At, HostStateOK, HandlerOK, HostLabels
  <2>2. ScriptOf(r) \in Seq(Statements)
    BY <2>1, HostConstants DEF ScriptOf, HostCall
  <2>3. NextStatement(r) \in Statements
    BY <1>4, <2>2 DEF ExecuteStatement, NextStatement, HostStateOK, HostTypeOK
  <2>4. HostTypeOK'
    BY <1>4, <2>3 DEF ExecuteStatement, HostStateOK, HostTypeOK
  <2>5. HandlerOK(r)'
    BY <1>4
    DEF ExecuteStatement, HostStateOK, HostTypeOK, At, HandlerOK, FoundOK, HostLabels
  <2>6. ASSUME NEW s \in Reqs, s # r PROVE HandlerOK(s)'
    BY <1>4, <2>6, HandlerFrame DEF ExecuteStatement, HostStateOK, HostTypeOK
  <2> QED BY <2>4, <2>5, <2>6 DEF HostStateOK
<1>5. CASE ExecuteStatementFails(r)
  BY <1>5, ReturnOK DEF ExecuteStatementFails, HostStateOK, HostTypeOK
<1>6. CASE ExecuteFind(r)
  BY <1>6, FindOK DEF ExecuteFind, At, HostLabels, HostStateOK, HandlerOK
<1>7. CASE ExecuteStore(r)
  <2>1. call[r] \in HostCall /\ loaded[r] \in Packages
    BY <1>7 DEF ExecuteStore, At, HostStateOK, HandlerOK, HostLabels
  <2> QED BY <1>7, <2>1, WriteOK DEF ExecuteStore
<1> QED BY <1>1, <1>2, <1>3, <1>4, <1>5, <1>6, <1>7 DEF Execute

LEMMA UninstallOK ==
  ASSUME HostStateOK, NEW r \in Reqs, Uninstall(r)
  PROVE  HostStateOK'
<1> USE DEF tables
<1>1. CASE UninstallCalled(r)
  BY <1>1, AcceptOK DEF UninstallCalled, HostStateOK, HostTypeOK, HostLabels
<1>2. CASE WipeGrants(r)
  <2>1. HostTypeOK'
    BY <1>2 DEF WipeGrants, HostStateOK, HostTypeOK, Goto, AdminLabels
  <2>2. HandlerOK(r)'
    BY <1>2
    DEF WipeGrants, HostStateOK, HostTypeOK, At, Goto, HandlerOK, FoundOK,
        HostLabels, WipeOrder
  <2>3. ASSUME NEW s \in Reqs, s # r PROVE HandlerOK(s)'
    BY <1>2, <2>3, HandlerFrame DEF WipeGrants, HostStateOK, HostTypeOK, Goto
  <2> QED BY <2>1, <2>2, <2>3 DEF HostStateOK
<1>3. CASE WipeRecords(r)
  <2>1. HostTypeOK'
    BY <1>3 DEF WipeRecords, HostStateOK, HostTypeOK, Goto, AdminLabels
  <2>2. HandlerOK(r)'
    <3>1. Len(WipeOrder) = 4
      BY DEF WipeOrder
    <3>2. next[r] \in Nat /\ next[r] <= 4 /\ found[r] = NoRow
      BY <1>3, <3>1 DEF WipeRecords, At, HostStateOK, HostTypeOK, HandlerOK, FoundOK
    <3>3. /\ pc'[r] \in {"wipe_records", "wipe_registry"}
          /\ pc'[r] = "wipe_records" => next'[r] <= 4
          /\ found'[r] = NoRow
      BY <1>3, <3>1, <3>2 DEF WipeRecords, HostStateOK, HostTypeOK, Goto
    <3> QED BY <3>1, <3>3 DEF HandlerOK, FoundOK, HostLabels
  <2>3. ASSUME NEW s \in Reqs, s # r PROVE HandlerOK(s)'
    BY <1>3, <2>3, HandlerFrame DEF WipeRecords, HostStateOK, HostTypeOK, Goto
  <2> QED BY <2>1, <2>2, <2>3 DEF HostStateOK
<1>4. CASE WipeRegistry(r)
  BY <1>4, ReturnOK DEF WipeRegistry, HostStateOK, HostTypeOK
<1> QED BY <1>1, <1>2, <1>3, <1>4 DEF Uninstall

LEMMA HostInitOK == ASSUME HostInit PROVE HostStateOK
  BY DEF HostInit, HostStateOK, HostTypeOK, HandlerOK, FoundOK, HostLabels

LEMMA HostNextOK ==
  ASSUME HostStateOK, [HostNext]_hvars
  PROVE  HostStateOK'
<1>1. CASE UNCHANGED hvars
  <2>1. HostTypeOK'
    BY <1>1 DEF hvars, HostStateOK, HostTypeOK
  <2>2. ASSUME NEW s \in Reqs PROVE HandlerOK(s)'
    BY <1>1, HandlerFrame DEF hvars, HostStateOK
  <2> QED BY <2>1, <2>2 DEF HostStateOK
<1>2. ASSUME NEW r \in Reqs, Abort(r) PROVE HostStateOK'
  BY <1>2, ReturnOK DEF Abort, tables, HostStateOK, HostTypeOK
<1> QED BY <1>1, <1>2, GrantOK, RecordOK, ExecuteOK, UninstallOK DEF HostNext

(* The tables keep their shape, and a handler never mixes up the call it    *)
(* serves, its position in a loop and the row it found, whatever is deleted *)
(* or written between its awaits.                                           *)
THEOREM HostStateCorrect == HostSpec => []HostStateOK
  BY HostInitOK, HostNextOK, PTL DEF HostSpec

--------------------------------------------------------------------------------
(* An update changes the value of the row it found and nothing else.        *)
LEMMA UpdateRows ==
  ASSUME HostStateOK, NEW r \in Reqs, NEW value, Update(r, value),
         NEW row \in records'
  PROVE  \E old \in records :
           /\ row.id = old.id /\ row.key = old.key
           /\ IF old.id = found[r].id THEN row.value = value ELSE row = old
<1>1. PICK old \in records :
        row = IF old.id = found[r].id THEN [old EXCEPT !.value = value] ELSE old
  BY DEF Update, SetValue
<1>2. old \in RecordRow
  BY DEF HostStateOK, HostTypeOK
<1> QED BY <1>1, <1>2 DEF RecordRow

(* Rows are inserted with an id that no handler remembers, and nothing else   *)
(* gives a table an id that it did not have.                                *)
LEMMA WrittenIds ==
  ASSUME HostStateOK, NEW r \in Reqs, NEW value, Write(r, value), NEW row \in records'
  PROVE  \/ HasId(records, row.id)
         \/ \A s \in Reqs : found[s] # NoRow => found[s].id # row.id
<1>1. CASE Insert(r, value)
  BY <1>1, NewIdFresh DEF Insert, NewRecord, HasId
<1>2. CASE Update(r, value)
  BY <1>2, UpdateRows DEF HasId
<1>3. CASE Gone(r)
  BY <1>3 DEF Gone, HasId
<1> QED BY <1>1, <1>2, <1>3 DEF Write

LEMMA RecordIds ==
  ASSUME HostStateOK, HostNext, NEW row \in records'
  PROVE  \/ HasId(records, row.id)
         \/ \A s \in Reqs : found[s] # NoRow => found[s].id # row.id
<1>1. PICK r \in Reqs : Grant(r) \/ Record(r) \/ Execute(r) \/ Uninstall(r) \/ Abort(r)
  BY DEF HostNext
<1>2. CASE UpsertWrite(r) \/ ExecuteStore(r)
  BY <1>2, WrittenIds DEF UpsertWrite, ExecuteStore
<1>3. CASE ~UpsertWrite(r) /\ ~ExecuteStore(r)
  <2>1. CASE RecordCheck(r)
    BY <2>1, Checked DEF Admit, tables, HasId
  <2>2. CASE ~RecordCheck(r)
    <3>1. records' \subseteq records
      BY <1>1, <1>3, <2>2
      DEF Grant, GrantCall, Register, GrantFind, GrantsDone, GrantUpdate, GrantGone,
          GrantInsert, Record, ListAllNavItems, Read, Delete, UpsertFind, Find, Execute,
          ExecuteCheck, Admit, ExecuteLoad, ExecuteNoScript, ExecuteStatement,
          ExecuteStatementFails, ExecuteFind, Uninstall, UninstallCalled, WipeGrants,
          WipeRecords, WipeRegistry, Abort, tables
    <3> QED BY <3>1 DEF HasId
  <2> QED BY <2>1, <2>2
<1> QED BY <1>2, <1>3

LEMMA GrantIds ==
  ASSUME HostStateOK, HostNext, NEW row \in grants'
  PROVE  \/ HasId(grants, row.id)
         \/ \A s \in Reqs : found[s] # NoRow => found[s].id # row.id
<1>1. PICK r \in Reqs : Grant(r) \/ Record(r) \/ Execute(r) \/ Uninstall(r) \/ Abort(r)
  BY DEF HostNext
<1>2. CASE GrantUpdate(r)
  BY <1>2 DEF GrantUpdate, SetGranted, GrantRow, HasId, HostStateOK, HostTypeOK
<1>3. CASE GrantInsert(r)
  BY <1>3, NewIdFresh DEF GrantInsert, HasId
<1>4. CASE RecordCheck(r)
  BY <1>4, Checked DEF Admit, tables, HasId
<1>5. CASE ~GrantUpdate(r) /\ ~GrantInsert(r) /\ ~RecordCheck(r)
  <2>1. grants' \subseteq grants
    BY <1>1, <1>5
    DEF Grant, GrantCall, Register, GrantFind, GrantsDone, GrantGone, Record,
        ListAllNavItems, Read, Delete, UpsertFind, Find, UpsertWrite, Write, Execute,
        ExecuteCheck, Admit, ExecuteLoad, ExecuteNoScript, ExecuteStatement,
        ExecuteStatementFails, ExecuteFind, ExecuteStore, Uninstall, UninstallCalled,
        WipeGrants, WipeRecords, WipeRegistry, Abort, tables
  <2> QED BY <2>1 DEF HasId
<1> QED BY <1>2, <1>3, <1>4, <1>5

(* A deleted row never comes back, for any number of requests, keys, admins  *)
(* and uninstalls: who had found it before fails or writes another.          *)
THEOREM DeletedStaysDeleted == HostSpec => GoneStaysGone
<1>1. ASSUME HostStateOK, HostNext, NEW r \in Reqs, found[r] # NoRow,
             ~HasId(grants \cup records, found[r].id)
      PROVE  ~HasId(grants' \cup records', found[r].id)
  <2>1. ~HasId(grants, found[r].id) /\ ~HasId(records, found[r].id)
    BY <1>1 DEF HasId
  <2>2. ASSUME NEW row \in grants' \cup records' PROVE row.id # found[r].id
    BY <1>1, <2>1, <2>2, GrantIds, RecordIds
  <2> QED BY <2>2 DEF HasId
<1>2. HostStateOK /\ [HostNext]_hvars =>
        [\A r \in Reqs :
           found[r] # NoRow /\ ~HasId(grants \cup records, found[r].id)
             => ~HasId(grants' \cup records', found[r].id)]_hvars
  BY <1>1
<1> QED BY <1>2, HostStateCorrect, PTL DEF HostSpec, GoneStaysGone

--------------------------------------------------------------------------------
(* A migration in progress has executed the statements before its position. *)
ExecutedSoFar(r) ==
  /\ pc[r] \in {"run", "store"} =>
       \A i \in DOMAIN ScriptOf(r) : i < next[r] => ScriptOf(r)[i] \in ran
  /\ pc[r] = "store" => next[r] > Len(ScriptOf(r))

(* An id stands for one row, and the row a handler remembers, if it is still *)
(* there, still has the key it had.                                         *)
SameRow(r) ==
  pc[r] \in {"write", "store"} /\ found[r] # NoRow =>
    \A row \in records : row.id = found[r].id => row.key = found[r].key

IdsOK ==
  /\ \A a, b \in records : a.id = b.id => a = b
  /\ \A r \in Reqs : SameRow(r)

MigrationInv ==
  /\ HostStateOK
  /\ IdsOK
  /\ \A r \in Reqs : ExecutedSoFar(r)
  /\ AppliedMeansRan

LEMMA MigrationInitOK == ASSUME HostInit PROVE MigrationInv
  BY HostInitOK DEF HostInit, MigrationInv, ExecutedSoFar, AppliedMeansRan, IdsOK, SameRow

(* Deletions and a handler that forgets its row do no harm.                 *)
LEMMA IdsShrink ==
  ASSUME IdsOK, records' \subseteq records,
         \A s \in Reqs : \/ pc'[s] \notin {"write", "store"}
                         \/ pc'[s] = pc[s] /\ found'[s] = found[s]
  PROVE  IdsOK'
  BY DEF IdsOK, SameRow

(* Neither do the writes: an update keeps the keys, an insertion is fresh.  *)
LEMMA IdsWrite ==
  ASSUME HostStateOK, IdsOK, NEW r \in Reqs, NEW value, Write(r, value)
  PROVE  IdsOK'
<1>1. \A s \in Reqs : \/ pc'[s] \notin {"write", "store"}
                      \/ pc'[s] = pc[s] /\ found'[s] = found[s]
  BY DEF Write, Return, Goto, HostStateOK, HostTypeOK
<1>2. CASE Insert(r, value)
  <2>1. /\ \A row \in records : row.id # NewId(records, Subject(r))
        /\ \A s \in Reqs : found[s] # NoRow => found[s].id # NewId(records, Subject(r))
    BY <1>2, NewIdFresh DEF Insert, HasId
  <2>2. \A row \in records' : row \in records \/ row.id = NewId(records, Subject(r))
    BY <1>2 DEF Insert, NewRecord
  <2>3. \A a, b \in records' : a.id = b.id => a = b
    BY <1>2, <2>1 DEF Insert, NewRecord, IdsOK
  <2>4. \A s \in Reqs : SameRow(s)'
    BY <1>1, <2>1, <2>2 DEF IdsOK, SameRow
  <2> QED BY <2>3, <2>4 DEF IdsOK
<1>3. CASE Update(r, value)
  <2>1. \A row \in records' : \E old \in records :
          /\ old.id = row.id /\ old.key = row.key
          /\ row = IF old.id = found[r].id THEN [old EXCEPT !.value = value] ELSE old
    BY <1>3 DEF Update, SetValue, HostStateOK, HostTypeOK, RecordRow
  <2>2. \A a, b \in records' : a.id = b.id => a = b
    BY <2>1 DEF IdsOK
  <2>3. \A s \in Reqs : SameRow(s)'
    BY <1>1, <2>1 DEF IdsOK, SameRow
  <2> QED BY <2>2, <2>3 DEF IdsOK
<1>4. CASE Gone(r)
  BY <1>1, <1>4, IdsShrink DEF Gone
<1> QED BY <1>2, <1>3, <1>4 DEF Write

LEMMA IdsFind ==
  ASSUME HostStateOK, IdsOK, NEW r \in Reqs, NEW label, Find(r, label)
  PROVE  IdsOK'
<1>1. PICK row \in FindOne(Matching(call[r])) : found' = [found EXCEPT ![r] = row]
  BY DEF Find
<1>2. row = NoRow \/ row \in records
  BY FindOneType DEF Matching
<1>3. SameRow(r)'
  BY <1>1, <1>2 DEF Find, tables, HostStateOK, HostTypeOK, IdsOK, SameRow
<1>4. ASSUME NEW s \in Reqs \ {r} PROVE SameRow(s)'
  BY <1>1, <1>4 DEF Find, tables, Goto, HostStateOK, HostTypeOK, IdsOK, SameRow
<1> QED BY <1>3, <1>4 DEF Find, tables, IdsOK

LEMMA ExecutedFrame ==
  ASSUME NEW s, ExecutedSoFar(s), pc'[s] = pc[s], call'[s] = call[s],
         next'[s] = next[s], loaded'[s] = loaded[s], ran \subseteq ran'
  PROVE  ExecutedSoFar(s)'
  BY DEF ExecutedSoFar, ScriptOf

(* A step that executes no statement, stores no row and starts no script.   *)
LEMMA UnrelatedStep ==
  ASSUME MigrationInv, NEW r \in Reqs, records' \subseteq records, ran' = ran,
         pc'[r] \notin {"run", "store"},
         \A s \in Reqs \ {r} : /\ pc'[s] = pc[s] /\ call'[s] = call[s]
                               /\ next'[s] = next[s] /\ loaded'[s] = loaded[s]
  PROVE  (\A s \in Reqs : ExecutedSoFar(s)') /\ AppliedMeansRan'
<1>1. ExecutedSoFar(r)'
  BY DEF ExecutedSoFar
<1>2. ASSUME NEW s \in Reqs \ {r} PROVE ExecutedSoFar(s)'
  BY ExecutedFrame DEF MigrationInv
<1>3. AppliedMeansRan'
  BY DEF MigrationInv, AppliedMeansRan
<1> QED BY <1>1, <1>2, <1>3

LEMMA ScriptType ==
  ASSUME HostStateOK, NEW r \in Reqs, pc[r] \in {"run", "store"}
  PROVE  /\ loaded[r] \in Packages /\ call[r] \in HostCall
         /\ ScriptOf(r) \in Seq(Statements)
         /\ next[r] \in Nat
  BY HostConstants DEF HostStateOK, HostTypeOK, HandlerOK, HostLabels, ScriptOf, HostCall

(* The row a handler writes is a client's, or that of an executed script.   *)
LEMMA WriteKeepsApplied ==
  ASSUME MigrationInv, NEW r \in Reqs, call[r] \in HostCall,
         NEW value, Write(r, value),
         \A p \in Packages : value = Applied(p) =>
           \A i \in DOMAIN Script[p][call[r].key] : Script[p][call[r].key][i] \in ran,
         pc[r] \in {"write", "store"}
  PROVE  AppliedMeansRan'
<1>1. ran' = ran
  BY DEF Write
<1>2. CASE Insert(r, value)
  BY <1>1, <1>2 DEF Insert, NewRecord, MigrationInv, AppliedMeansRan
<1>3. CASE Update(r, value)
  <2>1. \A row \in records : row.id = found[r].id => row.key = call[r].key
    BY <1>3 DEF Update, MigrationInv, IdsOK, SameRow, HostStateOK, HandlerOK, FoundOK
  <2>2. SUFFICES ASSUME NEW row \in records', NEW p \in Packages, row.value = Applied(p),
                        NEW i \in DOMAIN Script[p][row.key]
                 PROVE  Script[p][row.key][i] \in ran
    BY <1>1 DEF AppliedMeansRan
  <2>3. PICK old \in records :
          /\ row.key = old.key
          /\ IF old.id = found[r].id THEN row.value = value ELSE row = old
    BY <1>3, UpdateRows DEF MigrationInv
  <2>4. CASE old.id = found[r].id
    BY <2>1, <2>2, <2>3, <2>4
  <2>5. CASE old.id # found[r].id
    BY <2>2, <2>3, <2>5 DEF MigrationInv, AppliedMeansRan
  <2> QED BY <2>4, <2>5
<1>4. CASE Gone(r)
  BY <1>1, <1>4 DEF Gone, MigrationInv, AppliedMeansRan
<1> QED BY <1>2, <1>3, <1>4 DEF Write

LEMMA MigrationWrite ==
  ASSUME MigrationInv, NEW r \in Reqs, call[r] \in HostCall,
         pc[r] \in {"write", "store"}, NEW value, Write(r, value),
         \A p \in Packages : value = Applied(p) => pc[r] = "store" /\ p = loaded[r]
  PROVE  IdsOK' /\ (\A s \in Reqs : ExecutedSoFar(s)') /\ AppliedMeansRan'
<1>1. IdsOK'
  BY IdsWrite DEF MigrationInv
<1>2. ASSUME NEW p \in Packages, value = Applied(p),
             NEW i \in DOMAIN Script[p][call[r].key]
      PROVE  Script[p][call[r].key][i] \in ran
  <2>1. pc[r] = "store" /\ p = loaded[r]
    BY <1>2
  <2>2. ScriptOf(r) \in Seq(Statements) /\ next[r] > Len(ScriptOf(r)) /\ next[r] \in Nat
    BY <2>1, ScriptType DEF MigrationInv, ExecutedSoFar
  <2>3. i \in DOMAIN ScriptOf(r) /\ i < next[r]
    BY <1>2, <2>1, <2>2 DEF ScriptOf
  <2> QED BY <2>1, <2>3 DEF MigrationInv, ExecutedSoFar, ScriptOf
<1>3. AppliedMeansRan'
  BY <1>2, WriteKeepsApplied
<1>4. /\ ran' = ran /\ pc'[r] = "idle"
      /\ \A s \in Reqs \ {r} : /\ pc'[s] = pc[s] /\ call'[s] = call[s]
                                /\ next'[s] = next[s] /\ loaded'[s] = loaded[s]
  BY DEF Write, Return, Goto, MigrationInv, HostStateOK, HostTypeOK
<1>5. \A s \in Reqs : ExecutedSoFar(s)'
  <2>1. ExecutedSoFar(r)'
    BY <1>4 DEF ExecutedSoFar
  <2>2. ASSUME NEW s \in Reqs \ {r} PROVE ExecutedSoFar(s)'
    BY <1>4, ExecutedFrame DEF MigrationInv
  <2> QED BY <2>1, <2>2
<1> QED BY <1>1, <1>3, <1>5

(* What the steps of an admin and the ends of a request have in common.     *)
LEMMA HarmlessStep ==
  ASSUME MigrationInv, NEW r \in Reqs, records' \subseteq records, ran' = ran,
         pc'[r] \notin {"run", "write", "store"},
         \A s \in Reqs \ {r} : /\ pc'[s] = pc[s] /\ call'[s] = call[s]
                               /\ next'[s] = next[s] /\ loaded'[s] = loaded[s]
                               /\ found'[s] = found[s]
  PROVE  IdsOK' /\ (\A s \in Reqs : ExecutedSoFar(s)') /\ AppliedMeansRan'
<1>1. IdsOK'
  <2>1. \A s \in Reqs : \/ pc'[s] \notin {"write", "store"}
                        \/ pc'[s] = pc[s] /\ found'[s] = found[s]
    OBVIOUS
  <2> QED BY <2>1, IdsShrink DEF MigrationInv
<1>2. (\A s \in Reqs : ExecutedSoFar(s)') /\ AppliedMeansRan'
  BY UnrelatedStep
<1> QED BY <1>1, <1>2

LEMMA MigrationGrant ==
  ASSUME MigrationInv, NEW r \in Reqs, Grant(r)
  PROVE  IdsOK' /\ (\A s \in Reqs : ExecutedSoFar(s)') /\ AppliedMeansRan'
<1>1. /\ records' = records /\ ran' = ran
      /\ pc'[r] \notin {"run", "write", "store"}
      /\ \A s \in Reqs \ {r} : /\ pc'[s] = pc[s] /\ call'[s] = call[s]
                                /\ next'[s] = next[s] /\ loaded'[s] = loaded[s]
                                /\ found'[s] = found[s]
  BY DEF Grant, GrantCall, Register, GrantFind, GrantsDone, GrantUpdate, GrantGone,
         GrantInsert, ItemWritten, Accept, Return, Goto, tables,
         MigrationInv, HostStateOK, HostTypeOK
<1> QED BY <1>1, HarmlessStep

LEMMA MigrationUninstall ==
  ASSUME MigrationInv, NEW r \in Reqs, Uninstall(r) \/ Abort(r)
  PROVE  IdsOK' /\ (\A s \in Reqs : ExecutedSoFar(s)') /\ AppliedMeansRan'
<1>1. /\ records' \subseteq records /\ ran' = ran
      /\ pc'[r] \notin {"run", "write", "store"}
      /\ \A s \in Reqs \ {r} : /\ pc'[s] = pc[s] /\ call'[s] = call[s]
                                /\ next'[s] = next[s] /\ loaded'[s] = loaded[s]
                                /\ found'[s] = found[s]
  BY DEF Uninstall, UninstallCalled, WipeGrants, WipeRecords, WipeRegistry, Abort,
         Accept, Return, Goto, tables, MigrationInv, HostStateOK, HostTypeOK
<1> QED BY <1>1, HarmlessStep

LEMMA MigrationRecord ==
  ASSUME MigrationInv, NEW r \in Reqs, Record(r)
  PROVE  IdsOK' /\ (\A s \in Reqs : ExecutedSoFar(s)') /\ AppliedMeansRan'
<1>1. CASE RecordCheck(r) \/ ListAllNavItems(r) \/ Read(r) \/ Delete(r)
  <2>1. /\ records' \subseteq records /\ ran' = ran
        /\ pc'[r] \notin {"run", "write", "store"}
        /\ \A s \in Reqs \ {r} : /\ pc'[s] = pc[s] /\ call'[s] = call[s]
                                  /\ next'[s] = next[s] /\ loaded'[s] = loaded[s]
                                  /\ found'[s] = found[s]
    BY <1>1, Checked DEF Admit, ListAllNavItems, Read, Delete, Accept, Return, Goto,
                         tables, MigrationInv, HostStateOK, HostTypeOK
  <2> QED BY <2>1, HarmlessStep
<1>2. CASE UpsertFind(r)
  <2>1. IdsOK'
    BY <1>2, IdsFind DEF UpsertFind, MigrationInv
  <2>2. /\ records' = records /\ ran' = ran /\ pc'[r] = "write"
        /\ \A s \in Reqs \ {r} : /\ pc'[s] = pc[s] /\ call'[s] = call[s]
                                  /\ next'[s] = next[s] /\ loaded'[s] = loaded[s]
    BY <1>2 DEF UpsertFind, Find, Goto, tables, MigrationInv, HostStateOK, HostTypeOK
  <2> QED BY <2>1, <2>2, UnrelatedStep
<1>3. CASE UpsertWrite(r)
  <2>1. call[r] \in HostCall /\ pc[r] = "write"
    BY <1>3 DEF UpsertWrite, At, MigrationInv, HostStateOK, HandlerOK, HostLabels
  <2>2. call[r].value \in Values
    BY <2>1 DEF HostCall
  <2>3. \A p \in Packages : call[r].value # Applied(p)
    BY <2>2, HostConstants
  <2> QED BY <1>3, <2>1, <2>3, MigrationWrite DEF UpsertWrite
<1> QED BY <1>1, <1>2, <1>3 DEF Record

LEMMA MigrationExecute ==
  ASSUME MigrationInv, NEW r \in Reqs, Execute(r)
  PROVE  IdsOK' /\ (\A s \in Reqs : ExecutedSoFar(s)') /\ AppliedMeansRan'
<1>1. CASE ExecuteCheck(r) \/ ExecuteNoScript(r) \/ ExecuteStatementFails(r)
  <2>1. /\ records' = records /\ ran' = ran
        /\ pc'[r] \notin {"run", "write", "store"}
        /\ \A s \in Reqs \ {r} : /\ pc'[s] = pc[s] /\ call'[s] = call[s]
                                  /\ next'[s] = next[s] /\ loaded'[s] = loaded[s]
                                  /\ found'[s] = found[s]
    BY <1>1 DEF ExecuteCheck, Admit, ExecuteNoScript, ExecuteStatementFails, Accept,
                Return, Goto, tables, MigrationInv, HostStateOK, HostTypeOK
  <2> QED BY <2>1, HarmlessStep
<1>2. CASE ExecuteLoad(r)
  <2>1. /\ records' = records /\ ran' = ran /\ pc'[r] = "run" /\ next'[r] = 1
        /\ \A s \in Reqs \ {r} : /\ pc'[s] = pc[s] /\ call'[s] = call[s]
                                  /\ next'[s] = next[s] /\ loaded'[s] = loaded[s]
                                  /\ found'[s] = found[s]
    BY <1>2 DEF ExecuteLoad, At, Goto, tables,
                MigrationInv, HostStateOK, HostTypeOK, HandlerOK
  <2>2. IdsOK'
    <3>1. \A s \in Reqs : \/ pc'[s] \notin {"write", "store"}
                          \/ pc'[s] = pc[s] /\ found'[s] = found[s]
      BY <2>1
    <3> QED BY <2>1, <3>1, IdsShrink DEF MigrationInv
  <2>3. ExecutedSoFar(r)'
    <3>1. MigrationInv /\ HostStateOK'
      BY <1>2, ExecuteOK DEF Execute, MigrationInv
    <3>2. ScriptOf(r)' \in Seq(Statements)
      BY <2>1, <3>1, HostConstants
      DEF HostStateOK, HandlerOK, HostLabels, ScriptOf, HostCall
    <3> QED BY <2>1, <3>2 DEF ExecutedSoFar
  <2>4. ASSUME NEW s \in Reqs \ {r} PROVE ExecutedSoFar(s)'
    BY <2>1, ExecutedFrame DEF MigrationInv
  <2>5. AppliedMeansRan'
    BY <2>1 DEF MigrationInv, AppliedMeansRan
  <2> QED BY <2>2, <2>3, <2>4, <2>5
<1>3. CASE ExecuteStatement(r)
  <2>1. /\ records' = records /\ ran' = ran \cup {NextStatement(r)}
        /\ pc' = pc /\ call' = call /\ found' = found /\ loaded' = loaded
        /\ next'[r] = next[r] + 1
        /\ \A s \in Reqs \ {r} : next'[s] = next[s]
        /\ pc[r] = "run"
    BY <1>3 DEF ExecuteStatement, At, MigrationInv, HostStateOK, HostTypeOK
  <2>2. IdsOK'
    BY <2>1, IdsShrink DEF MigrationInv
  <2>3. ExecutedSoFar(r)'
    <3>1. ScriptOf(r) \in Seq(Statements) /\ next[r] \in Nat /\ ScriptOf(r)' = ScriptOf(r)
      BY <2>1, ScriptType DEF MigrationInv, ScriptOf
    <3>2. \A i \in DOMAIN ScriptOf(r) : i < next[r] + 1 => i < next[r] \/ i = next[r]
      BY <3>1
    <3> QED BY <2>1, <3>1, <3>2 DEF MigrationInv, ExecutedSoFar, NextStatement
  <2>4. ASSUME NEW s \in Reqs \ {r} PROVE ExecutedSoFar(s)'
    BY <2>1, ExecutedFrame DEF MigrationInv
  <2>5. AppliedMeansRan'
    BY <2>1 DEF MigrationInv, AppliedMeansRan
  <2> QED BY <2>2, <2>3, <2>4, <2>5
<1>4. CASE ExecuteFind(r)
  <2>1. IdsOK'
    BY <1>4, IdsFind DEF ExecuteFind, MigrationInv
  <2>2. /\ records' = records /\ ran' = ran /\ call' = call /\ next' = next
        /\ loaded' = loaded /\ pc'[r] = "store" /\ pc[r] = "run"
        /\ \A s \in Reqs \ {r} : pc'[s] = pc[s]
    BY <1>4 DEF ExecuteFind, At, Find, Goto, tables, MigrationInv, HostStateOK, HostTypeOK
  <2>3. ExecutedSoFar(r)'
    BY <1>4, <2>2 DEF ExecuteFind, AllExecuted, MigrationInv, ExecutedSoFar, ScriptOf
  <2>4. ASSUME NEW s \in Reqs \ {r} PROVE ExecutedSoFar(s)'
    BY <2>2, ExecutedFrame DEF MigrationInv
  <2>5. AppliedMeansRan'
    BY <2>2 DEF MigrationInv, AppliedMeansRan
  <2> QED BY <2>1, <2>3, <2>4, <2>5
<1>5. CASE ExecuteStore(r)
  <2>1. call[r] \in HostCall /\ pc[r] = "store"
    BY <1>5 DEF ExecuteStore, At, MigrationInv, HostStateOK, HandlerOK, HostLabels
  <2>2. \A p \in Packages : Applied(loaded[r]) = Applied(p) => p = loaded[r]
    BY DEF Applied
  <2> QED BY <1>5, <2>1, <2>2, MigrationWrite DEF ExecuteStore
<1> QED BY <1>1, <1>2, <1>3, <1>4, <1>5 DEF Execute

LEMMA MigrationNextOK ==
  ASSUME MigrationInv, [HostNext]_hvars
  PROVE  MigrationInv'
<1>1. HostStateOK'
  BY HostNextOK DEF MigrationInv
<1>2. CASE UNCHANGED hvars
  <2>1. IdsOK' /\ AppliedMeansRan'
    BY <1>2, IdsShrink DEF hvars, MigrationInv, AppliedMeansRan
  <2>2. ASSUME NEW s \in Reqs PROVE ExecutedSoFar(s)'
    BY <1>2, ExecutedFrame DEF hvars, MigrationInv
  <2> QED BY <1>1, <2>1, <2>2 DEF MigrationInv
<1>3. CASE HostNext
  BY <1>1, <1>3, MigrationGrant, MigrationRecord, MigrationExecute, MigrationUninstall
  DEF HostNext, MigrationInv
<1> QED BY <1>2, <1>3

(* A migration recorded as applied has taken effect completely, for any     *)
(* number of requests that execute, upgrade and uninstall at the same time. *)
THEOREM MigrationsComplete == HostSpec => []AppliedMeansRan
<1>1. HostSpec => []MigrationInv
  BY MigrationInitOK, MigrationNextOK, PTL DEF HostSpec
<1>2. MigrationInv => AppliedMeansRan
  BY DEF MigrationInv
<1> QED BY <1>1, <1>2, PTL

--------------------------------------------------------------------------------
(* The grant row a handler remembers is still a row of its permission, and  *)
(* nobody is about to grant a permission that counts as denied.             *)
SameGrant(r) ==
  pc[r] = "g_write" /\ found[r] # NoRow =>
    \A row \in grants : row.id = found[r].id => row.permission = Current(r).permission

GrantIdsOK ==
  /\ \A a, b \in grants : a.id = b.id => a = b
  /\ \A r \in Reqs : SameGrant(r)

DenialsFinal == \A r \in Reqs, p \in denied : ~StillGrants(r, p)

GrantInv ==
  /\ HostStateOK
  /\ GrantIdsOK
  /\ DenialsFinal
  /\ OnlyDuplicatesOverrule

LEMMA GrantInitOK == ASSUME HostInit PROVE GrantInv
  BY HostInitOK
  DEF HostInit, GrantInv, GrantIdsOK, SameGrant, DenialsFinal, OnlyDuplicatesOverrule

(* A step that is no admin's write: the rows stay or all go, and no new     *)
(* denial of a permission that somebody is about to grant.                  *)
LEMMA GrantsUntouched ==
  ASSUME GrantInv, NEW r \in Reqs, grants' = grants, denied' \subseteq denied,
         pc'[r] \notin {"g_find", "g_write"},
         \A s \in Reqs \ {r} : /\ pc'[s] = pc[s] /\ call'[s] = call[s]
                               /\ next'[s] = next[s] /\ found'[s] = found[s]
  PROVE  GrantIdsOK' /\ DenialsFinal' /\ OnlyDuplicatesOverrule'
<1>1. ASSUME NEW s \in Reqs PROVE SameGrant(s)' /\ (\A p \in denied' : ~StillGrants(s, p)')
  <2>1. CASE s = r
    BY <2>1 DEF SameGrant, StillGrants
  <2>2. CASE s # r
    BY <2>2 DEF GrantInv, GrantIdsOK, DenialsFinal, SameGrant, StillGrants, Current
  <2> QED BY <2>1, <2>2
<1>2. OnlyDuplicatesOverrule'
  BY DEF GrantInv, OnlyDuplicatesOverrule, RowsFor
<1> QED BY <1>1, <1>2 DEF GrantInv, GrantIdsOK, DenialsFinal

(* Writing an item: what it does to the history and to the other handlers.  *)
LEMMA ItemWrittenFrame ==
  ASSUME GrantInv, NEW r \in Reqs, At(r, "g_write"), ItemWritten(r)
  PROVE  /\ Current(r) \in Item
         /\ DenialsFinal'
         /\ denied \subseteq denied'
         /\ \A p \in denied' : \/ p \in denied
                               \/ p = Current(r).permission /\ ~Current(r).granted
         /\ Current(r).granted => Current(r).permission \notin denied'
         /\ pc'[r] = "g_find"
         /\ \A s \in Reqs \ {r} : /\ pc'[s] = pc[s] /\ call'[s] = call[s]
                                   /\ next'[s] = next[s] /\ found'[s] = found[s]
<1> USE DEF GrantInv
<1>1. Current(r) \in Item
  BY CurrentType DEF At, HostStateOK, HandlerOK
<1>2. /\ denied' = denied \cup IF Denies(r) THEN {Current(r).permission} ELSE {}
      /\ call' = call /\ next'[r] = next[r] + 1 /\ pc'[r] = "g_find"
      /\ next[r] \in Nat
      /\ \A s \in Reqs \ {r} : /\ pc'[s] = pc[s] /\ call'[s] = call[s]
                                /\ next'[s] = next[s] /\ found'[s] = found[s]
  BY DEF ItemWritten, Goto, HostStateOK, HostTypeOK
<1>3. Items(call[r]) \in Seq(Item)
  BY ItemsType DEF At, HostStateOK, HandlerOK
<1>4. \A p : StillGrants(r, p)' => StillGrants(r, p)
  BY <1>2, <1>3 DEF At, StillGrants
<1>5. \A s \in Reqs \ {r} : \A p : StillGrants(s, p)' = StillGrants(s, p)
  BY <1>2 DEF StillGrants
<1>6. DenialsFinal'
  <2>1. Denies(r) => \A s \in Reqs : ~StillGrants(s, Current(r).permission)
    BY DEF Denies
  <2> QED BY <1>2, <1>4, <1>5, <2>1 DEF DenialsFinal
<1>7. Current(r).granted => Current(r).permission \notin denied
  <2>1. SUFFICES ASSUME Current(r).granted
                 PROVE  StillGrants(r, Current(r).permission)
    BY DEF DenialsFinal
  <2>2. next[r] \in DOMAIN Items(call[r]) /\ next[r] >= next[r]
    BY <1>2, <1>3 DEF At, HostStateOK, HandlerOK, HostTypeOK
  <2>3. Grants(Items(call[r])[next[r]], Current(r).permission)
    BY <2>1 DEF Current, Grants
  <2> QED BY <2>2, <2>3 DEF At, StillGrants
<1>8. /\ denied \subseteq denied'
      /\ \A p \in denied' : \/ p \in denied
                            \/ p = Current(r).permission /\ ~Current(r).granted
  BY <1>2 DEF Denies
<1>9. Current(r).granted => Current(r).permission \notin denied'
  BY <1>7, <1>8
<1> QED BY <1>1, <1>2, <1>6, <1>8, <1>9

LEMMA GrantWriteOK ==
  ASSUME GrantInv, NEW r \in Reqs, GrantUpdate(r) \/ GrantInsert(r)
  PROVE  GrantIdsOK' /\ DenialsFinal' /\ OnlyDuplicatesOverrule'
<1> USE DEF GrantInv
<1>1. At(r, "g_write") /\ ItemWritten(r)
  BY DEF GrantUpdate, GrantInsert
<1>2. \A s \in Reqs \ {r} : /\ pc'[s] = pc[s] /\ found'[s] = found[s]
                            /\ Current(s)' = Current(s)
  BY <1>1, ItemWrittenFrame DEF Current
<1>3. CASE GrantUpdate(r)
  <2>1. \A row \in grants : row.id = found[r].id => row.permission = Current(r).permission
    BY <1>3 DEF GrantUpdate, At, GrantIdsOK, SameGrant
  <2>2. \A old \in grants :
          /\ old.id = found[r].id =>
               /\ [old EXCEPT !.granted = Current(r).granted].id = old.id
               /\ [old EXCEPT !.granted = Current(r).granted].permission = old.permission
               /\ [old EXCEPT !.granted = Current(r).granted].granted = Current(r).granted
    BY DEF HostStateOK, HostTypeOK, GrantRow
  <2>3. grants' = {IF row.id = found[r].id THEN [row EXCEPT !.granted = Current(r).granted]
                                           ELSE row : row \in grants}
    BY <1>3 DEF GrantUpdate, SetGranted
  <2>4. \A row \in grants' : \E old \in grants :
          /\ row = IF old.id = found[r].id THEN [old EXCEPT !.granted = Current(r).granted]
                                           ELSE old
          /\ row.id = old.id /\ row.permission = old.permission
          /\ row.granted = IF old.id = found[r].id THEN Current(r).granted ELSE old.granted
    BY <2>2, <2>3
  <2>5. \A old \in grants : \E row \in grants' :
          /\ row.id = old.id /\ row.permission = old.permission
          /\ row.granted = IF old.id = found[r].id THEN Current(r).granted ELSE old.granted
    <3>1. SUFFICES ASSUME NEW old \in grants
                   PROVE  \E row \in grants' :
            /\ row.id = old.id /\ row.permission = old.permission
            /\ row.granted = IF old.id = found[r].id THEN Current(r).granted ELSE old.granted
      OBVIOUS
    <3> DEFINE row == IF old.id = found[r].id
                      THEN [old EXCEPT !.granted = Current(r).granted] ELSE old
    <3>2. row \in grants'
      BY <2>3
    <3>3. /\ row.id = old.id /\ row.permission = old.permission
          /\ row.granted = IF old.id = found[r].id THEN Current(r).granted ELSE old.granted
      BY <2>2
    <3> HIDE DEF row
    <3> QED BY <3>2, <3>3
  <2>6. GrantIdsOK'
    <3>1. \A a, b \in grants' : a.id = b.id => a = b
      BY <2>4 DEF GrantIdsOK
    <3>2. ASSUME NEW s \in Reqs PROVE SameGrant(s)'
      <4>1. CASE s = r
        BY <1>1, <4>1, ItemWrittenFrame DEF SameGrant
      <4>2. CASE s # r
        BY <1>2, <2>4, <4>2 DEF GrantIdsOK, SameGrant
      <4> QED BY <4>1, <4>2
    <3> QED BY <3>1, <3>2 DEF GrantIdsOK
  <2>7. OnlyDuplicatesOverrule'
    <3>1. SUFFICES ASSUME NEW row \in grants', row.granted, row.permission \in denied'
                   PROVE  \E other \in grants' :
                            other.permission = row.permission /\ ~other.granted
      BY DEF OnlyDuplicatesOverrule, RowsFor
    <3>2. PICK old \in grants :
            /\ row.permission = old.permission
            /\ row.granted = IF old.id = found[r].id THEN Current(r).granted ELSE old.granted
      BY <2>4
    <3>3. CASE Current(r).granted
      <4>1. row.permission # Current(r).permission /\ row.permission \in denied
        BY <1>1, <3>1, <3>3, ItemWrittenFrame
      <4>2. old.id # found[r].id
        BY <2>1, <3>2, <4>1
      <4>3. PICK other \in grants : other.permission = row.permission /\ ~other.granted
        BY <3>1, <3>2, <4>1, <4>2 DEF OnlyDuplicatesOverrule, RowsFor
      <4>4. other.id # found[r].id
        BY <2>1, <4>1, <4>3
      <4> QED BY <2>5, <4>3, <4>4
    <3>4. CASE ~Current(r).granted
      <4>1. CASE row.permission \in denied
        <5>1. old.id # found[r].id
          BY <3>1, <3>2, <3>4
        <5>2. PICK other \in grants : other.permission = row.permission /\ ~other.granted
          BY <3>1, <3>2, <4>1, <5>1 DEF OnlyDuplicatesOverrule, RowsFor
        <5> QED BY <2>5, <3>4, <5>2
      <4>2. CASE row.permission = Current(r).permission
        <5>1. PICK mine \in grants : mine.id = found[r].id
          BY <1>3 DEF GrantUpdate, HasId
        <5>2. mine.permission = Current(r).permission
          BY <2>1, <5>1
        <5> QED BY <2>5, <3>4, <4>2, <5>1, <5>2
      <4> QED BY <1>1, <3>1, <4>1, <4>2, ItemWrittenFrame
    <3> QED BY <3>3, <3>4
  <2> QED BY <1>1, <2>6, <2>7, ItemWrittenFrame
<1>4. CASE GrantInsert(r)
  <2> DEFINE new == [id |-> NewId(grants, <<Current(r).permission>>), permission |-> Current(r).permission,
                     granted |-> Current(r).granted]
  <2>1. grants' = grants \cup {new}
    BY <1>4 DEF GrantInsert
  <2>2. /\ \A row \in grants : row.id # NewId(grants, <<Current(r).permission>>)
        /\ \A s \in Reqs : found[s] # NoRow => found[s].id # NewId(grants, <<Current(r).permission>>)
    BY <1>4, NewIdFresh DEF GrantInsert, HasId
  <2>3. GrantIdsOK'
    <3>1. \A a, b \in grants' : a.id = b.id => a = b
      BY <2>1, <2>2 DEF GrantIdsOK
    <3>2. ASSUME NEW s \in Reqs PROVE SameGrant(s)'
      <4>1. CASE s = r
        BY <1>1, <4>1, ItemWrittenFrame DEF SameGrant
      <4>2. CASE s # r
        BY <1>2, <2>1, <2>2, <4>2 DEF GrantIdsOK, SameGrant
      <4> QED BY <4>1, <4>2
    <3> QED BY <3>1, <3>2 DEF GrantIdsOK
  <2>4. OnlyDuplicatesOverrule'
    <3>1. SUFFICES ASSUME NEW row \in grants', row.granted, row.permission \in denied'
                   PROVE  \E other \in grants' :
                            other.permission = row.permission /\ ~other.granted
      BY DEF OnlyDuplicatesOverrule, RowsFor
    <3>2. CASE row = new
      <4>1. Current(r).granted /\ row.permission = Current(r).permission
        BY <3>1, <3>2
      <4> QED BY <1>1, <3>1, <4>1, ItemWrittenFrame
    <3>3. CASE row \in grants
      <4>1. CASE row.permission \in denied
        BY <2>1, <3>1, <3>3, <4>1 DEF OnlyDuplicatesOverrule, RowsFor
      <4>2. CASE row.permission = Current(r).permission /\ ~Current(r).granted
        <5>1. new \in grants' /\ new.permission = row.permission
          BY <2>1, <4>2
        <5>2. ~new.granted
          BY <4>2
        <5> HIDE DEF new
        <5> QED BY <5>1, <5>2
      <4>3. \/ row.permission \in denied
            \/ row.permission = Current(r).permission /\ ~Current(r).granted
        BY <1>1, <3>1, ItemWrittenFrame
      <4> QED BY <4>1, <4>2, <4>3
    <3> QED BY <2>1, <3>2, <3>3
  <2> QED BY <1>1, <2>3, <2>4, ItemWrittenFrame
<1> QED BY <1>3, <1>4

LEMMA GrantNextOK ==
  ASSUME GrantInv, [HostNext]_hvars
  PROVE  GrantInv'
<1>1. HostStateOK'
  BY HostNextOK DEF GrantInv
<1>2. CASE UNCHANGED hvars
  BY <1>1, <1>2
  DEF hvars, GrantInv, GrantIdsOK, SameGrant, DenialsFinal, OnlyDuplicatesOverrule,
      StillGrants, Current, RowsFor
<1>3. ASSUME NEW r \in Reqs, HostNext, GrantUpdate(r) \/ GrantInsert(r)
      PROVE  GrantInv'
  BY <1>1, <1>3, GrantWriteOK DEF GrantInv
<1>4. ASSUME NEW r \in Reqs, GrantCall(r) \/ Register(r)
      PROVE  GrantInv'
  <2> USE DEF GrantInv
  <2>1. PICK c \in Calls[r] :
          /\ c.op \in {"grant", "register"}
          /\ Accept(r, c, "g_find")
          /\ grants' = grants
          /\ \/ c.op = "grant" /\ denied' = denied \ GrantedBy(c)
             \/ c.op = "register" /\ denied' = denied
    BY <1>4 DEF GrantCall, Register, tables
  <2>2. /\ pc'[r] = "g_find" /\ call'[r] = c
        /\ \A s \in Reqs \ {r} : /\ pc'[s] = pc[s] /\ call'[s] = call[s]
                                  /\ next'[s] = next[s] /\ found'[s] = found[s]
    BY <2>1 DEF Accept, Goto, HostStateOK, HostTypeOK
  <2>3. \A p \in denied' : \A i \in DOMAIN Items(c) : ~Grants(Items(c)[i], p)
    <3>1. CASE c.op = "grant"
      BY <2>1, <3>1 DEF GrantedBy, HostStateOK, HostTypeOK
    <3>2. CASE c.op = "register"
      BY <3>2 DEF Items, Grants
    <3> QED BY <2>1, <3>1, <3>2
  <2>4. ASSUME NEW s \in Reqs
        PROVE  SameGrant(s)' /\ (\A p \in denied' : ~StillGrants(s, p)')
    <3>1. CASE s = r
      BY <2>2, <2>3, <3>1 DEF SameGrant, StillGrants
    <3>2. CASE s # r
      BY <2>1, <2>2, <3>2 DEF GrantIdsOK, DenialsFinal, SameGrant, StillGrants, Current
    <3> QED BY <3>1, <3>2
  <2>5. OnlyDuplicatesOverrule'
    BY <2>1 DEF OnlyDuplicatesOverrule, RowsFor
  <2> QED BY <1>1, <2>1, <2>4, <2>5 DEF GrantIdsOK, DenialsFinal
<1>5. ASSUME NEW r \in Reqs, GrantFind(r)
      PROVE  GrantInv'
  <2> USE DEF GrantInv
  <2>1. PICK row \in FindOne(RowsFor(Current(r).permission)) :
          found' = [found EXCEPT ![r] = row]
    BY <1>5 DEF GrantFind
  <2>2. row = NoRow \/ (row \in grants /\ row.permission = Current(r).permission)
    BY FindOneType DEF RowsFor
  <2>3. /\ grants' = grants /\ denied' = denied /\ call' = call /\ next' = next
        /\ pc[r] = "g_find" /\ pc'[r] = "g_write" /\ found'[r] = row
        /\ \A s \in Reqs \ {r} : pc'[s] = pc[s] /\ found'[s] = found[s]
    BY <1>5, <2>1 DEF GrantFind, At, Goto, tables, HostStateOK, HostTypeOK
  <2>4. SameGrant(r)'
    BY <2>2, <2>3 DEF GrantIdsOK, SameGrant, Current
  <2>5. ASSUME NEW s \in Reqs \ {r} PROVE SameGrant(s)'
    BY <2>3 DEF GrantIdsOK, SameGrant, Current
  <2>6. DenialsFinal'
    BY <2>3 DEF DenialsFinal, StillGrants
  <2>7. OnlyDuplicatesOverrule'
    BY <2>3 DEF OnlyDuplicatesOverrule, RowsFor
  <2> QED BY <1>1, <2>3, <2>4, <2>5, <2>6, <2>7 DEF GrantIdsOK
<1>6. ASSUME NEW r \in Reqs, WipeGrants(r), grants' = {}
      PROVE  GrantInv'
  <2> USE DEF GrantInv
  <2>1. /\ call' = call /\ next' = next
        /\ pc'[r] = "wipe_records" /\ \A s \in Reqs \ {r} : pc'[s] = pc[s]
        /\ \A p \in denied' : \A s \in Reqs : ~StillGrants(s, p)
    BY <1>6 DEF WipeGrants, Goto, HostStateOK, HostTypeOK, DenialsFinal
  <2>2. DenialsFinal'
    BY <2>1 DEF DenialsFinal, StillGrants
  <2>3. GrantIdsOK' /\ OnlyDuplicatesOverrule'
    BY <1>6 DEF GrantIdsOK, SameGrant, OnlyDuplicatesOverrule
  <2> QED BY <1>1, <2>2, <2>3
<1>7. ASSUME NEW r \in Reqs,
             \/ GrantsDone(r) \/ GrantGone(r) \/ Record(r) \/ Execute(r) \/ Abort(r)
             \/ UninstallCalled(r) \/ WipeRecords(r) \/ WipeRegistry(r)
             \/ (WipeGrants(r) /\ grants' # {})
      PROVE  GrantInv'
  <2>1. /\ grants' = grants /\ denied' = denied
        /\ pc'[r] \notin {"g_find", "g_write"}
        /\ \A s \in Reqs \ {r} : /\ pc'[s] = pc[s] /\ call'[s] = call[s]
                                  /\ next'[s] = next[s] /\ found'[s] = found[s]
    BY <1>7, Checked DEF GrantsDone, GrantGone, Record, Admit, ListAllNavItems, Read, Delete,
         UpsertFind, Find, UpsertWrite, Write, Execute, ExecuteCheck, ExecuteLoad,
         ExecuteNoScript, ExecuteStatement, ExecuteStatementFails, ExecuteFind,
         ExecuteStore, Abort, UninstallCalled, WipeRecords, WipeRegistry, WipeGrants,
         At, Accept, Return, Goto, tables, GrantInv, HostStateOK, HostTypeOK
  <2> QED BY <1>1, <2>1, GrantsUntouched DEF GrantInv
<1> QED BY <1>2, <1>3, <1>4, <1>5, <1>6, <1>7 DEF HostNext, Grant, Uninstall

(* A permission that counts as denied is granted by a row only if another   *)
(* row of it says the opposite: with any number of admins, registrations    *)
(* and uninstalls at once, duplicate rows are all that can undo a revoke.   *)
THEOREM RevocationsHoldButForDuplicates == HostSpec => []OnlyDuplicatesOverrule
<1>1. HostSpec => []GrantInv
  BY GrantInitOK, GrantNextOK, PTL DEF HostSpec
<1>2. GrantInv => OnlyDuplicatesOverrule
  BY DEF GrantInv
<1> QED BY <1>1, <1>2, PTL

--------------------------------------------------------------------------------
(* One request writes each key, and one at a time updates or resets grants.  *)
Writers == {"upsert", "execute"}
Admins == {"grant", "register"}

OneWriter ==
  \A r, s \in Reqs : \A c \in Calls[r], d \in Calls[s] :
    c.op \in Writers /\ d.op \in Writers /\ c.table = d.table /\ c.key = d.key => r = s

OneAdmin ==
  \A r, s \in Reqs : \A c \in Calls[r], d \in Calls[s] :
    c.op \in Admins /\ d.op \in Admins => r = s

(* A handler serves a call that its slot may be asked for.                   *)
Serves(r) ==
  /\ pc[r] # "idle" => call[r] \in Calls[r]
  /\ pc[r] \in {"find", "write", "load", "run", "store"} => call[r].op \in Writers
  /\ pc[r] \in {"g_find", "g_write"} => call[r].op \in Admins
  /\ pc[r] \in {"wipe_grants", "wipe_records", "wipe_registry"} => call[r].op = "uninstall"

(* A search that found nothing still would, until its handler writes.        *)
StillNone(r) ==
  found[r] = NoRow =>
    /\ pc[r] \in {"write", "store"} => Matching(call[r]) = {}
    /\ pc[r] = "g_write" => RowsFor(Current(r).permission) = {}

UniqueInv ==
  /\ HostStateOK
  /\ \A r \in Reqs : Serves(r) /\ StillNone(r)
  /\ OneRowPerKey

LEMMA UniqueInitOK == ASSUME HostInit PROVE UniqueInv
  BY HostInitOK DEF HostInit, UniqueInv, Serves, StillNone, OneRowPerKey

LEMMA ServesNext ==
  ASSUME HostStateOK, \A s \in Reqs : Serves(s), NEW r \in Reqs,
         Grant(r) \/ Record(r) \/ Execute(r) \/ Uninstall(r) \/ Abort(r)
  PROVE  \A s \in Reqs : Serves(s)'
<1>1. \A s \in Reqs \ {r} : pc'[s] = pc[s] /\ call'[s] = call[s]
  BY Checked
  DEF Grant, GrantCall, Register, GrantFind, GrantsDone, GrantUpdate, GrantGone,
      GrantInsert, ItemWritten, Record, Admit, ListAllNavItems, Read, Delete,
      UpsertFind, Find, UpsertWrite, Write, Execute, ExecuteCheck, ExecuteLoad,
      ExecuteNoScript, ExecuteStatement, ExecuteStatementFails, ExecuteFind,
      ExecuteStore, Uninstall, UninstallCalled, WipeRecords, WipeRegistry, WipeGrants,
      Abort, Accept, Return, Goto, tables, HostStateOK, HostTypeOK
<1>2. Serves(r)'
  <2>1. CASE pc'[r] = "idle"
    BY <2>1 DEF Serves
  <2>2. CASE Grant(r) /\ pc'[r] # "idle"
    BY <2>2
    DEF Grant, GrantCall, Register, GrantFind, GrantsDone, GrantUpdate, GrantGone,
        GrantInsert, ItemWritten, At, Accept, Return, Goto, tables, Serves, Admins,
        HostStateOK, HostTypeOK
  <2>3. CASE Record(r) /\ pc'[r] # "idle"
    <3>1. CASE RecordCheck(r)
      BY <3>1
      DEF RecordCheck, UpsertSharedRecord, GetSharedRecord, ListSharedRecords,
          DeleteSharedRecord, UpsertMigrationState, GetMigrationState,
          ListMigrationStates, UpsertTask, ListTasks, UpsertNavItem, ListNavItems,
          Endpoint, Admit, Accept, Goto, Serves, Writers, HostStateOK, HostTypeOK
    <3>2. CASE ~RecordCheck(r)
      BY <2>3, <3>2
      DEF Record, ListAllNavItems, Read, Delete, UpsertFind, Find, UpsertWrite, Write,
          At, Accept, Return, Goto, tables, Serves, HostStateOK, HostTypeOK
    <3> QED BY <3>1, <3>2
  <2>4. CASE Execute(r) /\ pc'[r] # "idle"
    BY <2>4
    DEF Execute, ExecuteCheck, Admit, ExecuteLoad, ExecuteNoScript, ExecuteStatement,
        ExecuteStatementFails, ExecuteFind, Find, ExecuteStore, Write, At, Accept,
        Return, Goto, tables, Serves, Writers, HostStateOK, HostTypeOK
  <2>5. CASE Uninstall(r) /\ pc'[r] # "idle"
    BY <2>5
    DEF Uninstall, UninstallCalled, WipeGrants, WipeRecords, WipeRegistry,
        At, Accept, Return, Goto, tables, Serves, HostStateOK, HostTypeOK
  <2>6. CASE Abort(r) /\ pc'[r] # "idle"
    BY <2>6 DEF Abort, Return, Goto, HostStateOK, HostTypeOK
  <2> QED BY <2>1, <2>2, <2>3, <2>4, <2>5, <2>6
<1>3. ASSUME NEW s \in Reqs \ {r} PROVE Serves(s)'
  BY <1>1, <1>3 DEF Serves
<1> QED BY <1>2, <1>3

(* Deletions keep rows unique, and what was missing stays missing.           *)
LEMMA UniqueShrink ==
  ASSUME UniqueInv, records' \subseteq records, grants' \subseteq grants,
         \A s \in Reqs : \/ pc'[s] \notin {"write", "store", "g_write"}
                         \/ /\ pc'[s] = pc[s] /\ call'[s] = call[s]
                            /\ found'[s] = found[s] /\ next'[s] = next[s]
  PROVE  OneRowPerKey' /\ \A s \in Reqs : StillNone(s)'
<1>1. OneRowPerKey'
  BY DEF UniqueInv, OneRowPerKey
<1>2. ASSUME NEW s \in Reqs PROVE StillNone(s)'
  BY DEF UniqueInv, StillNone, Matching, RowsFor, Current
<1> QED BY <1>1, <1>2

LEMMA FindOneNone ==
  ASSUME NEW rows, NoRow \notin rows, NoRow \in FindOne(rows)
  PROVE  rows = {}
  BY DEF FindOne

LEMMA TwoWriters ==
  ASSUME OneWriter, NEW r \in Reqs, NEW s \in Reqs, r # s, Serves(r), Serves(s),
         pc[r] \in {"find", "write", "run", "store"},
         pc[s] \in {"find", "write", "run", "store"}
  PROVE  ~(call[r].table = call[s].table /\ call[r].key = call[s].key)
  BY DEF OneWriter, Serves

(* The search of a writer returns the row there is, or finds nothing.        *)
LEMMA UniqueFind ==
  ASSUME UniqueInv, NEW r \in Reqs, NEW label \in {"write", "store"}, Find(r, label)
  PROVE  OneRowPerKey' /\ \A s \in Reqs : StillNone(s)'
<1>1. /\ records' = records /\ grants' = grants /\ call' = call /\ next' = next
      /\ pc'[r] = label /\ \A s \in Reqs \ {r} : pc'[s] = pc[s] /\ found'[s] = found[s]
  BY DEF Find, Goto, tables, UniqueInv, HostStateOK, HostTypeOK
<1>2. found'[r] \in FindOne(Matching(call[r]))
  BY DEF Find, UniqueInv, HostStateOK, HostTypeOK
<1>3. NoRow \notin Matching(call[r])
  BY NullRow DEF Matching, UniqueInv, HostStateOK, HostTypeOK
<1>4. OneRowPerKey'
  BY <1>1 DEF UniqueInv, OneRowPerKey
<1>5. StillNone(r)'
  <2>1. found'[r] = NoRow => Matching(call[r]) = {}
    BY <1>2, <1>3, FindOneNone
  <2> QED BY <1>1, <2>1 DEF StillNone, Matching
<1>6. ASSUME NEW s \in Reqs \ {r} PROVE StillNone(s)'
  BY <1>1, <1>6 DEF UniqueInv, StillNone, Matching, RowsFor, Current
<1> QED BY <1>4, <1>5, <1>6

(* A row is inserted for a key without a row, and for nobody else's key.     *)
LEMMA UniqueWrite ==
  ASSUME OneWriter, UniqueInv, NEW r \in Reqs, pc[r] \in {"write", "store"},
         NEW value, Write(r, value)
  PROVE  OneRowPerKey' /\ \A s \in Reqs : StillNone(s)'
<1>1. /\ grants' = grants /\ pc'[r] = "idle"
      /\ \A s \in Reqs \ {r} : /\ pc'[s] = pc[s] /\ call'[s] = call[s]
                                /\ found'[s] = found[s] /\ next'[s] = next[s]
  BY DEF Write, Return, Goto, UniqueInv, HostStateOK, HostTypeOK
<1>2. CASE Insert(r, value)
  <2> DEFINE new == NewRecord(r, value)
  <2>1. records' = records \cup {new} /\ Matching(call[r]) = {}
    BY <1>2 DEF Insert, UniqueInv, StillNone
  <2>2. new.table = call[r].table /\ new.key = call[r].key
    BY DEF NewRecord
  <2> HIDE DEF new
  <2>3. OneRowPerKey'
    <3>1. \A a \in records : ~(a.table = new.table /\ a.key = new.key)
      BY <2>1, <2>2 DEF Matching
    <3> QED BY <1>1, <2>1, <3>1 DEF UniqueInv, OneRowPerKey
  <2>4. ASSUME NEW s \in Reqs PROVE StillNone(s)'
    <3>1. CASE s = r
      BY <1>1, <3>1 DEF StillNone
    <3>2. CASE s # r /\ pc[s] \in {"write", "store"}
      <4>1. ~(new.table = call[s].table /\ new.key = call[s].key)
        BY <2>2, <3>2, TwoWriters DEF UniqueInv
      <4> QED BY <1>1, <2>1, <3>2, <4>1 DEF UniqueInv, StillNone, Matching
    <3>3. CASE s # r /\ pc[s] \notin {"write", "store"}
      BY <1>1, <3>3 DEF UniqueInv, StillNone, RowsFor, Current
    <3> QED BY <3>1, <3>2, <3>3
  <2> QED BY <2>3, <2>4
<1>3. CASE Update(r, value)
  <2>1. \A row \in records' : \E old \in records :
          /\ row.table = old.table /\ row.key = old.key
          /\ row = IF old.id = found[r].id THEN [old EXCEPT !.value = value] ELSE old
    BY <1>3 DEF Update, SetValue, UniqueInv, HostStateOK, HostTypeOK, RecordRow
  <2>2. OneRowPerKey'
    BY <1>1, <2>1 DEF UniqueInv, OneRowPerKey
  <2>3. ASSUME NEW s \in Reqs PROVE StillNone(s)'
    <3>1. CASE s = r
      BY <1>1, <3>1 DEF StillNone
    <3>2. CASE s # r
      BY <1>1, <2>1, <3>2 DEF UniqueInv, StillNone, Matching, RowsFor, Current
    <3> QED BY <3>1, <3>2
  <2> QED BY <2>2, <2>3
<1>4. CASE Gone(r)
  BY <1>1, <1>4, UniqueShrink DEF Gone
<1> QED BY <1>2, <1>3, <1>4 DEF Write

LEMMA UniqueGrantFind ==
  ASSUME UniqueInv, NEW r \in Reqs, GrantFind(r)
  PROVE  OneRowPerKey' /\ \A s \in Reqs : StillNone(s)'
<1>1. /\ records' = records /\ grants' = grants /\ call' = call /\ next' = next
      /\ pc'[r] = "g_write"
      /\ \A s \in Reqs \ {r} : pc'[s] = pc[s] /\ found'[s] = found[s]
  BY DEF GrantFind, Goto, tables, UniqueInv, HostStateOK, HostTypeOK
<1>2. found'[r] \in FindOne(RowsFor(Current(r).permission))
  BY DEF GrantFind, UniqueInv, HostStateOK, HostTypeOK
<1>3. NoRow \notin RowsFor(Current(r).permission)
  BY NullRow DEF RowsFor, UniqueInv, HostStateOK, HostTypeOK
<1>4. found'[r] = NoRow => RowsFor(Current(r).permission) = {}
  BY <1>2, <1>3, FindOneNone
<1>5. OneRowPerKey'
  BY <1>1 DEF UniqueInv, OneRowPerKey
<1>6. StillNone(r)'
  BY <1>1, <1>4 DEF StillNone, RowsFor, Current
<1>7. ASSUME NEW s \in Reqs \ {r} PROVE StillNone(s)'
  BY <1>1, <1>7 DEF UniqueInv, StillNone, Matching, RowsFor, Current
<1> QED BY <1>5, <1>6, <1>7

LEMMA UniqueGrantWrite ==
  ASSUME OneAdmin, UniqueInv, NEW r \in Reqs, GrantUpdate(r) \/ GrantInsert(r)
  PROVE  OneRowPerKey' /\ \A s \in Reqs : StillNone(s)'
<1>1. /\ records' = records /\ pc[r] = "g_write" /\ pc'[r] = "g_find"
      /\ \A s \in Reqs \ {r} : /\ pc'[s] = pc[s] /\ call'[s] = call[s]
                                /\ found'[s] = found[s] /\ next'[s] = next[s]
  BY DEF GrantUpdate, GrantInsert, ItemWritten, At, Goto,
         UniqueInv, HostStateOK, HostTypeOK
<1>2. \A s \in Reqs \ {r} : pc[s] # "g_write"
  BY <1>1 DEF OneAdmin, UniqueInv, Serves
<1>3. \A s \in Reqs : StillNone(s)'
  BY <1>1, <1>2 DEF UniqueInv, StillNone, Matching
<1>4. CASE GrantUpdate(r)
  <2>1. \A row \in grants' : \E old \in grants :
          /\ row.permission = old.permission
          /\ row = IF old.id = found[r].id THEN [old EXCEPT !.granted = Current(r).granted]
                                           ELSE old
    BY <1>4 DEF GrantUpdate, SetGranted, UniqueInv, HostStateOK, HostTypeOK, GrantRow
  <2> QED BY <1>1, <1>3, <2>1 DEF UniqueInv, OneRowPerKey
<1>5. CASE GrantInsert(r)
  <2> DEFINE new == [id |-> NewId(grants, <<Current(r).permission>>),
                     permission |-> Current(r).permission, granted |-> Current(r).granted]
  <2>1. grants' = grants \cup {new} /\ RowsFor(Current(r).permission) = {}
    BY <1>5 DEF GrantInsert, At, UniqueInv, StillNone
  <2>2. new.permission = Current(r).permission
    OBVIOUS
  <2> HIDE DEF new
  <2>3. \A a \in grants : a.permission # new.permission
    BY <2>1, <2>2 DEF RowsFor
  <2> QED BY <1>1, <1>3, <2>1, <2>3 DEF UniqueInv, OneRowPerKey
<1> QED BY <1>4, <1>5

LEMMA UniqueNext ==
  ASSUME OneWriter, OneAdmin, UniqueInv, [HostNext]_hvars
  PROVE  UniqueInv'
<1>1. HostStateOK'
  BY HostNextOK DEF UniqueInv
<1>2. CASE UNCHANGED hvars
  BY <1>1, <1>2
  DEF hvars, UniqueInv, Serves, StillNone, OneRowPerKey, Matching, RowsFor, Current
<1>3. ASSUME NEW r \in Reqs,
             Grant(r) \/ Record(r) \/ Execute(r) \/ Uninstall(r) \/ Abort(r)
      PROVE  UniqueInv'
  <2>1. \A s \in Reqs : Serves(s)'
    BY <1>3, ServesNext DEF UniqueInv
  <2>2. CASE GrantFind(r)
    BY <1>1, <2>1, <2>2, UniqueGrantFind DEF UniqueInv
  <2>3. CASE GrantUpdate(r) \/ GrantInsert(r)
    BY <1>1, <2>1, <2>3, UniqueGrantWrite DEF UniqueInv
  <2>4. CASE UpsertFind(r) \/ ExecuteFind(r)
    BY <1>1, <2>1, <2>4, UniqueFind DEF UpsertFind, ExecuteFind, UniqueInv
  <2>5. CASE UpsertWrite(r) \/ ExecuteStore(r)
    BY <1>1, <2>1, <2>5, UniqueWrite DEF UpsertWrite, ExecuteStore, At, UniqueInv
  <2>6. CASE \/ GrantCall(r) \/ Register(r) \/ GrantsDone(r) \/ GrantGone(r)
             \/ RecordCheck(r) \/ ListAllNavItems(r) \/ Read(r) \/ Delete(r)
             \/ ExecuteCheck(r) \/ ExecuteLoad(r) \/ ExecuteNoScript(r)
             \/ ExecuteStatement(r) \/ ExecuteStatementFails(r)
             \/ Uninstall(r) \/ Abort(r)
    <3>1. /\ records' \subseteq records /\ grants' \subseteq grants
          /\ pc'[r] \notin {"write", "store", "g_write"}
          /\ \A s \in Reqs \ {r} : /\ pc'[s] = pc[s] /\ call'[s] = call[s]
                                    /\ found'[s] = found[s] /\ next'[s] = next[s]
      BY <2>6, Checked
      DEF GrantCall, Register, GrantsDone, GrantGone, Admit, ListAllNavItems, Read,
          Delete, ExecuteCheck, ExecuteLoad, ExecuteNoScript, ExecuteStatement,
          ExecuteStatementFails, Uninstall, UninstallCalled, WipeGrants, WipeRecords,
          WipeRegistry, Abort, At, Accept, Return, Goto, tables,
          UniqueInv, HostStateOK, HostTypeOK
    <3>2. OneRowPerKey' /\ \A s \in Reqs : StillNone(s)'
      BY <3>1, UniqueShrink
    <3> QED BY <1>1, <2>1, <3>2 DEF UniqueInv
  <2> QED BY <1>3, <2>2, <2>3, <2>4, <2>5, <2>6 DEF Grant, Record, Execute
<1> QED BY <1>2, <1>3 DEF HostNext

(* A key and a permission have one row each although the database knows no   *)
(* unique key, if one request writes each key and one administrator at a     *)
(* time updates grants, whatever is deleted, dropped or failing in between.  *)
THEOREM OneWriterOneRow ==
  ASSUME OneWriter, OneAdmin
  PROVE  HostSpec => []OneRowPerKey
<1>1. HostInit => UniqueInv
  BY UniqueInitOK
<1>2. UniqueInv /\ [HostNext]_hvars => UniqueInv'
  BY UniqueNext
<1>3. UniqueInv => OneRowPerKey
  BY DEF UniqueInv
<1> QED BY <1>1, <1>2, <1>3, PTL DEF HostSpec

(* With one administrator a revoked permission stays revoked: a denial that  *)
(* has taken effect has the only row of its permission.                      *)
THEOREM OneAdminRevokes ==
  ASSUME OneWriter, OneAdmin
  PROVE  HostSpec => RevokeHolds
<1>1. ASSUME OneRowPerKey, OnlyDuplicatesOverrule, HostStateOK, HostNext,
             NEW r \in Reqs, pc[r] = "idle", pc'[r] \in HostLabels,
             call'[r].op # "list_all"
      PROVE  Needed(call'[r]) \notin denied
  <2>1. PICK s \in Reqs : Grant(s) \/ Record(s) \/ Execute(s) \/ Uninstall(s) \/ Abort(s)
    BY <1>1 DEF HostNext
  <2>2. Granted(Needed(call'[r]))
    <3>1. s = r
      BY <1>1, <2>1, Checked
      DEF Grant, GrantCall, Register, GrantFind, GrantsDone, GrantUpdate, GrantGone,
          GrantInsert, ItemWritten, Record, Admit, ListAllNavItems, Read, Delete,
          UpsertFind, Find, UpsertWrite, Write, Execute, ExecuteCheck, ExecuteLoad,
          ExecuteNoScript, ExecuteStatement, ExecuteStatementFails, ExecuteFind,
          ExecuteStore, Uninstall, UninstallCalled, WipeRecords, WipeRegistry,
          WipeGrants, Abort, Accept, Return, Goto, tables, HostLabels,
          HostStateOK, HostTypeOK
    <3>2. \E c \in Calls[r], label \in HostLabels : Admit(r, c, label)
      <4>1. CASE RecordCheck(r)
        BY <4>1, Checked DEF HostLabels
      <4>2. CASE ExecuteCheck(r)
        BY <4>2 DEF ExecuteCheck, HostLabels
      <4>3. CASE ~RecordCheck(r) /\ ~ExecuteCheck(r)
        BY <1>1, <2>1, <3>1, <4>3
        DEF Grant, GrantCall, Register, GrantFind, GrantsDone, GrantUpdate, GrantGone,
            GrantInsert, Record, ListAllNavItems, Read, Delete, UpsertFind, UpsertWrite,
            Execute, ExecuteLoad, ExecuteNoScript, ExecuteStatement,
            ExecuteStatementFails, ExecuteFind, ExecuteStore, Uninstall, UninstallCalled,
            WipeRecords, WipeRegistry, WipeGrants, Abort, At, Accept, Goto, HostLabels,
            HostStateOK, HostTypeOK
      <4> QED BY <4>1, <4>2, <4>3
    <3> QED BY <1>1, <3>2 DEF Admit, Accept, HostStateOK, HostTypeOK
  <2>3. PICK row \in grants : row.permission = Needed(call'[r]) /\ row.granted
    BY <2>2 DEF Granted, RowsFor
  <2>4. SUFFICES ASSUME Needed(call'[r]) \in denied PROVE FALSE
    OBVIOUS
  <2>5. PICK other \in grants : other.permission = row.permission /\ ~other.granted
    BY <1>1, <2>3, <2>4 DEF OnlyDuplicatesOverrule, RowsFor
  <2> QED BY <1>1, <2>3, <2>5 DEF OneRowPerKey
<1>2. OneRowPerKey /\ OnlyDuplicatesOverrule /\ HostStateOK /\ [HostNext]_hvars =>
        [\A r \in Reqs :
           pc[r] = "idle" /\ pc'[r] \in HostLabels /\ call'[r].op # "list_all"
             => Needed(call'[r]) \notin denied]_hvars
  BY <1>1
<1> QED BY <1>2, OneWriterOneRow, RevocationsHoldButForDuplicates, HostStateCorrect,
           PTL DEF HostSpec, RevokeHolds
--------------------------------------------------------------------------------
(* While an uninstall clears the tables: nobody can be admitted any more, or  *)
(* everything is spared; so is what a request on its way will write and what  *)
(* is left in the tables that were passed.                                   *)
OneAdministrator ==
  \A r, s \in Reqs : \A c \in Calls[r], d \in Calls[s] :
    c.op \in Admins \cup {"uninstall"} /\ d.op \in Admins \cup {"uninstall"} => r = s

Wipes(r) == pc[r] \in {"wipe_records", "wipe_registry"}
Passed(r, table) ==
  pc[r] = "wipe_registry" \/ \E j \in 1..next[r] - 1 : WipeOrder[j] = table

Cleared(r) ==
  \A row \in records : Passed(r, row.table) => <<row.table, row.key>> \in spared

SparedOK ==
  /\ grants # {} => spared = Tables \X Keys
  /\ \A s \in Upserting : Subject(s) \in spared
  /\ \A r \in Reqs : Wipes(r) => Cleared(r)

ClearInv ==
  /\ HostStateOK
  /\ \A r \in Reqs : Serves(r)
  /\ Wiping => SparedOK

\* Next to an uninstall there are only requests of the plugin.
LEMMA Alone ==
  ASSUME OneAdministrator, \A r \in Reqs : Serves(r), NEW u \in Reqs,
         pc[u] \in {"wipe_grants", "wipe_records", "wipe_registry"}, NEW s \in Reqs \ {u}
  PROVE  ~Grant(s) /\ ~Uninstall(s)
<1>1. call[u] \in Calls[u] /\ call[u].op = "uninstall"
  BY DEF Serves
<1>2. \A c \in Calls[s] : c.op \notin Admins \cup {"uninstall"}
  BY <1>1 DEF OneAdministrator
<1>3. pc[s] \notin {"g_find", "g_write", "wipe_grants", "wipe_records", "wipe_registry"}
  BY <1>2 DEF Serves, Admins
<1> QED BY <1>2, <1>3
     DEF Grant, GrantCall, Register, GrantFind, GrantsDone, GrantUpdate, GrantGone,
         GrantInsert, Uninstall, UninstallCalled, WipeGrants, WipeRecords, WipeRegistry,
         At, Admins

\* A row is written for the key of the request that writes it.
LEMMA WrittenRows ==
  ASSUME HostStateOK, NEW r \in Reqs, NEW value, Write(r, value)
  PROVE  \A row \in records' :
           \/ \E old \in records : row.table = old.table /\ row.key = old.key
           \/ <<row.table, row.key>> = Subject(r)
<1>1. CASE Insert(r, value)
  BY <1>1 DEF Insert, NewRecord, Subject
<1>2. CASE Update(r, value)
  BY <1>2 DEF Update, SetValue, HostStateOK, HostTypeOK, RecordRow
<1>3. CASE Gone(r)
  BY <1>3 DEF Gone
<1> QED BY <1>1, <1>2, <1>3 DEF Write

\* A request of the plugin writes a row only for its own key.
LEMMA RequestWrites ==
  ASSUME HostStateOK, NEW s \in Reqs, Record(s) \/ Execute(s) \/ Abort(s)
  PROVE  /\ grants' = grants
         /\ \A row \in records' :
              \/ \E old \in records : row.table = old.table /\ row.key = old.key
              \/ s \in Upserting /\ <<row.table, row.key>> = Subject(s)
         /\ \A t \in Reqs \ {s} : UNCHANGED <<pc[t], call[t], next[t]>>
<1>1. CASE UpsertWrite(s) \/ ExecuteStore(s)
  <2>1. PICK value : Write(s, value)
    BY <1>1 DEF UpsertWrite, ExecuteStore
  <2>2. s \in Upserting
    BY <1>1 DEF UpsertWrite, ExecuteStore, At, Upserting
  <2> QED BY <2>1, <2>2, WrittenRows DEF Write, Return, Goto, HostStateOK, HostTypeOK
<1>2. CASE ~(UpsertWrite(s) \/ ExecuteStore(s))
  <2>1. records' \subseteq records
    BY <1>2, Checked
    DEF Record, Admit, ListAllNavItems, Read, Delete, UpsertFind, Find, Execute,
        ExecuteCheck, ExecuteLoad, ExecuteNoScript, ExecuteStatement,
        ExecuteStatementFails, ExecuteFind, Abort, tables
  <2> QED BY <1>2, <2>1, Checked
       DEF Record, Admit, ListAllNavItems, Read, Delete, UpsertFind, Find, Execute,
           ExecuteCheck, ExecuteLoad, ExecuteNoScript, ExecuteStatement,
           ExecuteStatementFails, ExecuteFind, Abort, Accept, Return, Goto, tables,
           HostStateOK, HostTypeOK
<1> QED BY <1>1, <1>2

\* Without a grant no request begins to write.
LEMMA NobodyAdmitted ==
  ASSUME HostStateOK, NEW s \in Reqs, Record(s) \/ Execute(s) \/ Abort(s),
         grants = {}, s \in Upserting'
  PROVE  s \in Upserting /\ call'[s] = call[s]
<1>1. \A c, label : ~Admit(s, c, label)
  BY DEF Admit, Granted, RowsFor
<1>2. ~RecordCheck(s) /\ ~ExecuteCheck(s)
  BY <1>1, Checked DEF ExecuteCheck
<1> QED BY <1>2
     DEF Record, ListAllNavItems, Read, Delete, UpsertFind, Find, UpsertWrite, Write,
         Execute, ExecuteLoad, ExecuteNoScript, ExecuteStatement,
         ExecuteStatementFails, ExecuteFind, ExecuteStore, Abort, At, Accept, Return,
         Goto, tables, Upserting, HostStateOK, HostTypeOK

LEMMA RowSubject ==
  ASSUME HostStateOK, NEW row \in records
  PROVE  <<row.table, row.key>> \in Tables \X Keys
  BY DEF HostStateOK, HostTypeOK, RecordRow

LEMMA UpsertSubject ==
  ASSUME HostStateOK, NEW s \in Upserting
  PROVE  Subject(s) \in Tables \X Keys
<1>1. call[s] \in HostCall
  BY DEF Upserting, HostStateOK, HandlerOK, HostLabels
<1> QED BY <1>1 DEF HostCall, Subject

\* When everything is spared there is nothing to show.
LEMMA AllSpared ==
  ASSUME HostStateOK', spared' = Tables \X Keys
  PROVE  SparedOK'
<1>1. ASSUME NEW row \in records' PROVE <<row.table, row.key>> \in Tables \X Keys
  BY <1>1 DEF HostStateOK, HostTypeOK, RecordRow
<1>2. ASSUME NEW s \in Upserting' PROVE Subject(s)' \in Tables \X Keys
  BY <1>2 DEF HostStateOK, HandlerOK, HostLabels, HostCall, Upserting, Subject
<1> QED BY <1>1, <1>2 DEF SparedOK, Cleared

\* What is added while tables are cleared are rows.
LEMMA Accumulates ==
  ASSUME HostStateOK', Wiping, Wiping', Spare
  PROVE  /\ spared \subseteq spared'
         /\ spared = Tables \X Keys => spared' = Tables \X Keys
         /\ \A row \in Left : <<row.table, row.key>> \in spared'
<1>1. spared' = spared \cup {<<row.table, row.key>> : row \in Left}
  BY DEF Spare
<1>2. \A row \in Left : <<row.table, row.key>> \in Tables \X Keys
  BY DEF Left, HostStateOK, HostTypeOK, RecordRow
<1> QED BY <1>1, <1>2

\* A step of a request of the plugin while an uninstall clears the tables.
LEMMA RequestWhileClearing ==
  ASSUME ClearInv, HostStateOK', Wiping, Wiping', Spare, NEW s \in Reqs, ~Wipes(s),
         Record(s) \/ Execute(s) \/ Abort(s)
  PROVE  SparedOK'
<1> USE DEF ClearInv
<1>1. /\ grants' = grants
      /\ \A row \in records' :
           \/ \E old \in records : row.table = old.table /\ row.key = old.key
           \/ s \in Upserting /\ <<row.table, row.key>> = Subject(s)
      /\ \A t \in Reqs \ {s} : UNCHANGED <<pc[t], call[t], next[t]>>
  BY RequestWrites
<1>2. spared \subseteq spared' /\ (spared = Tables \X Keys => spared' = Tables \X Keys)
  BY Accumulates
<1>3. CASE grants # {}
  BY <1>2, <1>3, AllSpared DEF SparedOK
<1>4. CASE grants = {}
  <2>1. \A t \in Upserting' : Subject(t)' \in spared'
    <3>1. ASSUME NEW t \in Upserting' PROVE t \in Upserting /\ call'[t] = call[t]
      <4>1. CASE t = s
        BY <1>4, <3>1, <4>1, NobodyAdmitted
      <4>2. CASE t # s
        BY <1>1, <3>1, <4>2 DEF Upserting
      <4> QED BY <4>1, <4>2
    <3> QED BY <1>2, <3>1 DEF SparedOK, Subject
  <2>2. ASSUME NEW u \in Reqs, Wipes(u)' PROVE Cleared(u)'
    <3>1. u # s
      <4>1. ~Wipes(s)'
        BY Checked
        DEF Record, Admit, ListAllNavItems, Read, Delete, UpsertFind, Find, UpsertWrite,
            Write, Execute, ExecuteCheck, ExecuteLoad, ExecuteNoScript,
            ExecuteStatement, ExecuteStatementFails, ExecuteFind, ExecuteStore, Abort,
            At, Accept, Return, Goto, tables, Wipes, HostStateOK, HostTypeOK
      <4> QED BY <2>2, <4>1
    <3>2. Wipes(u) /\ pc'[u] = pc[u] /\ next'[u] = next[u]
      BY <1>1, <2>2, <3>1 DEF Wipes
    <3>3. ASSUME NEW row \in records', Passed(u, row.table)'
          PROVE  <<row.table, row.key>> \in spared'
      <4>1. CASE \E old \in records : row.table = old.table /\ row.key = old.key
        BY <1>2, <3>2, <3>3, <4>1 DEF SparedOK, Cleared, Passed
      <4>2. CASE s \in Upserting /\ <<row.table, row.key>> = Subject(s)
        BY <1>2, <4>2 DEF SparedOK
      <4> QED BY <1>1, <4>1, <4>2
    <3> QED BY <3>3 DEF Cleared
  <2> QED BY <1>1, <1>4, <2>1, <2>2 DEF SparedOK
<1> QED BY <1>3, <1>4

\* The next table is cleared, or its delete fails and its rows are spared.
LEMMA TableCleared ==
  ASSUME ClearInv, HostStateOK', Wiping, Wiping', Spare, NEW u \in Reqs, WipeRecords(u),
         \A t \in Reqs \ {u} : ~Wipes(t)
  PROVE  SparedOK'
<1> USE DEF ClearInv
<1>1. /\ grants' = grants /\ call' = call /\ pc[u] = "wipe_records"
      /\ next'[u] = next[u] + 1 /\ next[u] \in Nat \ {0}
      /\ \A t \in Reqs \ {u} : pc'[t] = pc[t]
      /\ pc'[u] \in {"wipe_records", "wipe_registry"}
      /\ pc'[u] = "wipe_registry" => next[u] = 4
  BY DEF WipeRecords, At, Goto, WipeOrder, HostStateOK, HostTypeOK
<1>2. /\ spared \subseteq spared' /\ (spared = Tables \X Keys => spared' = Tables \X Keys)
      /\ \A row \in Left : <<row.table, row.key>> \in spared'
  BY Accumulates
<1>3. CASE grants # {}
  BY <1>2, <1>3, AllSpared DEF SparedOK
<1>4. CASE grants = {}
  <2>1. \A t \in Upserting' : Subject(t)' \in spared'
    BY <1>1, <1>2 DEF SparedOK, Upserting, Subject
  <2>2. ASSUME NEW row \in records', Passed(u, row.table)'
        PROVE  <<row.table, row.key>> \in spared'
    <3>1. row \in records
      BY DEF WipeRecords
    <3>2. CASE row.table = WipeOrder[next[u]]
      BY <1>2, <2>2, <3>2 DEF Left
    <3>3. CASE row.table # WipeOrder[next[u]]
      <4>1. \E j \in 1..next[u] - 1 : WipeOrder[j] = row.table
        <5>1. CASE pc'[u] = "wipe_registry"
          <6>1. row.table \in Tables /\ next[u] = 4
            BY <1>1, <3>1, <5>1 DEF HostStateOK, HostTypeOK, RecordRow
          <6> QED BY <3>3, <6>1 DEF WipeOrder, Tables
        <5>2. CASE \E j \in 1..next'[u] - 1 : WipeOrder[j] = row.table
          BY <1>1, <3>3, <5>2
        <5> QED BY <2>2, <5>1, <5>2 DEF Passed
      <4> QED BY <1>1, <1>2, <3>1, <4>1 DEF SparedOK, Cleared, Passed, Wipes
    <3> QED BY <3>2, <3>3
  <2>3. \A t \in Reqs : Wipes(t)' => Cleared(t)'
    BY <1>1, <2>2 DEF Wipes, Cleared
  <2> QED BY <1>1, <1>4, <2>1, <2>3 DEF SparedOK
<1> QED BY <1>3, <1>4

\* The grants go: from here on only who is on its way can write.
LEMMA GrantsWiped ==
  ASSUME ClearInv, HostStateOK', ~Wiping, Wiping', Spare, NEW u \in Reqs, WipeGrants(u)
  PROVE  SparedOK'
<1> USE DEF ClearInv
<1>1. spared' = IF grants' = {} THEN InFlight ELSE Tables \X Keys
  BY DEF Spare
<1>2. /\ call' = call /\ next' = next /\ pc[u] = "wipe_grants" /\ next[u] = 1
      /\ pc'[u] = "wipe_records" /\ \A t \in Reqs \ {u} : pc'[t] = pc[t]
  BY DEF WipeGrants, At, Goto, HostStateOK, HostTypeOK, HandlerOK
<1>3. CASE grants' # {}
  BY <1>1, <1>3, AllSpared
<1>4. CASE grants' = {}
  <2>1. \A t \in Upserting' : Subject(t)' \in spared'
    BY <1>1, <1>2, <1>4 DEF InFlight, Upserting, Subject
  <2>2. \A t \in Reqs : Wipes(t)' => t = u
    BY <1>2 DEF Wiping, Wipes
  <2>3. Cleared(u)'
    BY <1>2 DEF Cleared, Passed
  <2> QED BY <1>4, <2>1, <2>2, <2>3 DEF SparedOK
<1> QED BY <1>3, <1>4

\* Tables begin to be cleared when the grants have been deleted, and only then.
LEMMA BeginsToClear ==
  ASSUME HostStateOK, NEW r \in Reqs, ~Wipes(r), Wipes(r)',
         Grant(r) \/ Record(r) \/ Execute(r) \/ Uninstall(r) \/ Abort(r)
  PROVE  WipeGrants(r)
  BY Checked
  DEF Grant, GrantCall, Register, GrantFind, GrantsDone, GrantUpdate, GrantGone,
      GrantInsert, ItemWritten, Record, Admit, ListAllNavItems, Read, Delete,
      UpsertFind, Find, UpsertWrite, Write, Execute, ExecuteCheck, ExecuteLoad,
      ExecuteNoScript, ExecuteStatement, ExecuteStatementFails, ExecuteFind,
      ExecuteStore, Uninstall, UninstallCalled, WipeRecords, WipeRegistry,
      Abort, At, Accept, Return, Goto, tables, Wipes, HostStateOK, HostTypeOK

LEMMA OthersStay ==
  ASSUME HostStateOK, NEW r \in Reqs,
         Grant(r) \/ Record(r) \/ Execute(r) \/ Uninstall(r) \/ Abort(r)
  PROVE  \A s \in Reqs \ {r} : pc'[s] = pc[s] /\ call'[s] = call[s]
  BY Checked
  DEF Grant, GrantCall, Register, GrantFind, GrantsDone, GrantUpdate, GrantGone,
      GrantInsert, ItemWritten, Record, Admit, ListAllNavItems, Read, Delete,
      UpsertFind, Find, UpsertWrite, Write, Execute, ExecuteCheck, ExecuteLoad,
      ExecuteNoScript, ExecuteStatement, ExecuteStatementFails, ExecuteFind,
      ExecuteStore, Uninstall, UninstallCalled, WipeRecords, WipeRegistry, WipeGrants,
      Abort, Accept, Return, Goto, tables, HostStateOK, HostTypeOK

LEMMA ClearNext ==
  ASSUME OneAdministrator, ClearInv, HostNext, Spare
  PROVE  ClearInv'
<1> USE DEF ClearInv
<1>1. HostStateOK'
  BY HostNextOK
<1>2. PICK r \in Reqs : Grant(r) \/ Record(r) \/ Execute(r) \/ Uninstall(r) \/ Abort(r)
  BY DEF HostNext
<1>3. \A s \in Reqs : Serves(s)'
  BY <1>2, ServesNext
<1>4. ASSUME Wiping' PROVE SparedOK'
  <2>1. CASE ~Wiping
    <3>1. ~Wipes(r) /\ Wipes(r)'
      BY <1>2, <1>4, <2>1, OthersStay DEF Wiping, Wipes
    <3>2. WipeGrants(r)
      BY <1>2, <3>1, BeginsToClear
    <3> QED BY <1>1, <1>4, <2>1, <3>2, GrantsWiped
  <2>2. CASE Wiping
    <3>1. PICK u \in Reqs : Wipes(u)
      BY <2>2 DEF Wiping, Wipes
    <3>2. pc[u] \in {"wipe_grants", "wipe_records", "wipe_registry"}
      BY <3>1 DEF Wipes
    <3>3. \A t \in Reqs \ {u} : ~Wipes(t)
      <4> SUFFICES ASSUME NEW t \in Reqs \ {u}, Wipes(t) PROVE FALSE
        OBVIOUS
      <4>1. /\ call[t] \in Calls[t] /\ call[t].op = "uninstall"
            /\ call[u] \in Calls[u] /\ call[u].op = "uninstall"
        BY <3>2 DEF Serves, Wipes
      <4> QED BY <4>1 DEF OneAdministrator
    <3>4. CASE r # u
      <4>1. ~Grant(r) /\ ~Uninstall(r)
        BY <3>2, <3>4, Alone
      <4> QED BY <1>1, <1>2, <1>4, <2>2, <3>3, <3>4, <4>1, RequestWhileClearing
    <3>5. CASE r = u
      <4>1. Wipes(u)'
        BY <1>2, <1>4, <3>3, <3>5, OthersStay DEF Wiping, Wipes
      <4>2. WipeRecords(u)
        BY <1>2, <3>1, <3>5, <4>1, Checked
        DEF Grant, GrantCall, Register, GrantFind, GrantsDone, GrantUpdate, GrantGone,
            GrantInsert, Record, Admit, ListAllNavItems, Read, Delete, UpsertFind,
            UpsertWrite, Execute, ExecuteCheck, ExecuteLoad, ExecuteNoScript,
            ExecuteStatement, ExecuteStatementFails, ExecuteFind, ExecuteStore,
            Uninstall, UninstallCalled, WipeGrants, WipeRegistry, Abort, At, Accept,
            Return, Goto, Wipes, HostStateOK, HostTypeOK
      <4> QED BY <1>1, <1>4, <2>2, <3>3, <4>2, TableCleared
    <3> QED BY <3>4, <3>5
  <2> QED BY <2>1, <2>2
<1> QED BY <1>1, <1>3, <1>4

\* The registry row goes last.
LEMMA RowGoesLast ==
  ASSUME HostStateOK, HostNext, version # NoVersion, version' = NoVersion
  PROVE  \E r \in Reqs : pc[r] = "wipe_registry" /\ records' = records /\ grants' = grants
<1>1. PICK r \in Reqs : Grant(r) \/ Record(r) \/ Execute(r) \/ Uninstall(r) \/ Abort(r)
  BY DEF HostNext
<1>2. CASE Register(r)
  <2>1. version' \in Versions
    BY <1>2, CallShapes DEF Register, RegisterCall
  <2> QED BY <2>1, HostConstants
<1>3. CASE ~Register(r)
  <2>1. WipeRegistry(r)
    BY <1>1, <1>3, Checked
    DEF Grant, GrantCall, GrantFind, GrantsDone, GrantUpdate, GrantGone,
        GrantInsert, Record, Admit, ListAllNavItems, Read, Delete,
        UpsertFind, Find, UpsertWrite, Write, Execute, ExecuteCheck, ExecuteLoad,
        ExecuteNoScript, ExecuteStatement, ExecuteStatementFails, ExecuteFind,
        ExecuteStore, Uninstall, UninstallCalled, WipeRecords, WipeGrants, Abort, tables
  <2> QED BY <2>1 DEF WipeRegistry, At
<1> QED BY <1>2, <1>3

(* When the registry row goes, everything else about the plugin is gone but   *)
(* what requests on their way and failing deletes leave: for any number of    *)
(* requests, keys and versions, wherever earlier uninstalls were dropped, if  *)
(* one administrator at a time grants, registers and uninstalls.              *)
THEOREM UninstallsClear ==
  ASSUME OneAdministrator
  PROVE  HistorySpec => UninstallClears
<1>1. HistoryInit => ClearInv
  BY HostInitOK DEF HistoryInit, HostInit, ClearInv, Serves, Wiping
<1>2. ClearInv /\ [HostNext /\ Spare]_<<hvars, spared>> => ClearInv'
  <2>1. CASE HostNext /\ Spare
    BY <2>1, ClearNext
  <2>2. ASSUME ClearInv, UNCHANGED <<hvars, spared>> PROVE ClearInv'
    <3>1. HostStateOK'
      BY <2>2, HostNextOK DEF ClearInv
    <3> QED BY <2>2, <3>1
         DEF hvars, ClearInv, Serves, Wiping, SparedOK, Upserting, Subject, Wipes,
             Cleared, Passed
  <2> QED BY <2>1, <2>2
<1>3. ClearInv /\ [HostNext /\ Spare]_<<hvars, spared>> =>
        [version # NoVersion /\ version' = NoVersion =>
           /\ \A row \in records' : <<row.table, row.key>> \in spared
           /\ grants' # {} => spared = Tables \X Keys]_<<hvars, spared>>
  <2> SUFFICES ASSUME ClearInv, HostNext, version # NoVersion, version' = NoVersion
               PROVE  /\ \A row \in records' : <<row.table, row.key>> \in spared
                      /\ grants' # {} => spared = Tables \X Keys
    OBVIOUS
  <2>1. PICK r \in Reqs : pc[r] = "wipe_registry" /\ records' = records /\ grants' = grants
    BY RowGoesLast DEF ClearInv
  <2>2. SparedOK /\ Cleared(r)
    BY <2>1 DEF ClearInv, Wiping, SparedOK, Wipes
  <2> QED BY <2>1, <2>2 DEF SparedOK, Cleared, Passed
<1> QED BY <1>1, <1>2, <1>3, PTL DEF HistorySpec, UninstallClears
================================================================================
