------------------------------- MODULE HostState -------------------------------
(***************************************************************************)
(* What the host API and the permission admin keep about one plugin id:    *)
(* grant rows, keyed records in four tables, and the effects of migration  *)
(* scripts on the host database.  Every statement is awaited by itself and *)
(* no transaction joins two.  The id is the only key the database knows:   *)
(* that a permission or a record key has one row is up to the handlers.    *)
(*                                                                         *)
(* A key stands for everything a handler filters by besides the plugin     *)
(* (collection, record key and owner; scope and migration key; task key;   *)
(* item key).  As in PluginState, "Bad..." definitions are wrong variants. *)
(***************************************************************************)
EXTENDS Naturals, Sequences, FiniteSets

CONSTANTS
  Reqs,         \* request slots
  Keys,         \* record keys
  Values,       \* payloads of upserts
  Versions,     \* version strings of the plugin
  Packages,     \* packages that are ever registered; each brings its migration files
  Shipped,      \* the packages with a version string: one replaces the files of another
  Numbers,      \* tell apart the ids of rows about the same thing; enough for a run
  Statements,   \* SQL statements of migration scripts
  Repeatable,   \* those that succeed however often they are executed
  Script,       \* the statements of a package's migration file, by key
  Manifest,     \* the permissions the manifest asks for
  Calls,        \* the calls each request slot may be asked for
  Faults,       \* what may go wrong in a run
  NoRow, NoCall, NoVersion, NoPackage

Tables == {"shared", "migration", "task", "nav"}
Permissions == {"db-shared-read", "db-shared-write", "db-sqlite", "scheduler", "web-api"}

Item == [permission : Permissions, granted : BOOLEAN]
HostOps == {"upsert", "get", "list", "list_all", "delete", "execute"}
HostCall == [op : HostOps, table : Tables, key : Keys, value : Values]
GrantsCall == [op : {"grant"}, items : Seq(Item)]
RegisterCall == [op : {"register"}, version : Versions]
UninstallCall == [op : {"uninstall"}]
AnyCall == HostCall \cup GrantsCall \cup RegisterCall \cup UninstallCall

Applied(p) == <<"applied", p>>

ASSUME HostConstants ==
  /\ NoVersion \notin Versions
  /\ Repeatable \subseteq Statements
  /\ NoPackage \notin Packages
  /\ Shipped \in [Versions -> SUBSET Packages]
  /\ Script \in [Packages -> [Keys -> Seq(Statements)]]
  /\ Manifest \in Seq(Permissions)
  /\ DOMAIN Calls = Reqs
  /\ \A r \in Reqs : \A c \in Calls[r] :
       /\ c \in AnyCall
       /\ c.op = "execute" => c.table = "migration"
       /\ c.op = "get" => c.table \in {"shared", "migration"}
       /\ c.op = "delete" => c.table = "shared"
       /\ c.op = "list_all" => c.table = "nav"
  /\ \A p \in Packages : Applied(p) \notin Values
  /\ Faults \subseteq {"abort", "dberror"}

GrantRow  == [id : {<<p>> : p \in Permissions} \X Numbers,
              permission : Permissions, granted : BOOLEAN]
RecordRow == [id : (Tables \X Keys) \X Numbers, table : Tables, key : Keys,
              value : Values \cup {Applied(p) : p \in Packages}]

\* The outcome of a search that finds nothing.
ASSUME NullRow == NoRow \notin GrantRow \cup RecordRow

VARIABLES
  grants,   \* yh_plg_permission_grants
  records,  \* the tables of shared records, migration states, tasks, nav items
  version,  \* current_version of the registry row, NoVersion if there is no row
  ran,      \* migration statements that took effect
  pc,       \* await each request has reached
  call,     \* what the request was asked for
  found,    \* row the handler has read
  next,     \* position in the items, statements or tables the handler loops over
  loaded,   \* package whose migration file was loaded
  denied    \* history: permissions denied by a finished update, and no update
            \* that grants them has been called since

tables == <<grants, records, version, ran>>
hvars == <<grants, records, version, ran, pc, call, found, next, loaded, denied>>

HostLabels  == {"find", "write", "read", "delete", "load", "run", "store"}
AdminLabels == {"g_find", "g_write", "wipe_grants", "wipe_records", "wipe_registry"}

HostTypeOK ==
  /\ grants \subseteq GrantRow
  /\ records \subseteq RecordRow
  /\ version \in Versions \cup {NoVersion}
  /\ ran \subseteq Statements
  /\ pc \in [Reqs -> {"idle"} \cup HostLabels \cup AdminLabels]
  /\ call \in [Reqs -> AnyCall \cup {NoCall}]
  /\ found \in [Reqs -> {NoRow} \cup GrantRow \cup RecordRow]
  /\ next \in [Reqs -> Nat \ {0}]
  /\ loaded \in [Reqs -> Packages \cup {NoPackage}]
  /\ denied \subseteq Permissions

HostInit ==
  /\ grants = {}
  /\ records = {}
  /\ version \in Versions \cup {NoVersion}
  /\ ran = {}
  /\ pc = [r \in Reqs |-> "idle"]
  /\ call = [r \in Reqs |-> NoCall]
  /\ found = [r \in Reqs |-> NoRow]
  /\ next = [r \in Reqs |-> 1]
  /\ loaded = [r \in Reqs |-> NoPackage]
  /\ denied = {}

--------------------------------------------------------------------------------
At(r, label)   == pc[r] = label
Goto(r, label) == pc' = [pc EXCEPT ![r] = label]

\* A free slot is asked for c.
Accept(r, c, label) ==
  /\ At(r, "idle")
  /\ c \in Calls[r]
  /\ Goto(r, label)
  /\ call' = [call EXCEPT ![r] = c]
  /\ UNCHANGED <<found, next, loaded>>

Return(r) ==
  /\ Goto(r, "idle")
  /\ call' = [call EXCEPT ![r] = NoCall]
  /\ found' = [found EXCEPT ![r] = NoRow]
  /\ next' = [next EXCEPT ![r] = 1]
  /\ loaded' = [loaded EXCEPT ![r] = NoPackage]

\* The outcomes of "find ... one": some matching row if there is one.
FindOne(rows) == IF rows = {} THEN {NoRow} ELSE rows

HasId(rows, id) == \E row \in rows : row.id = id

\* A uuid is unlike every id that the table or a handler still knows.  Which one
\* it is does not matter: ids are numbered by what the row is about.
FreshIds(table, about) ==
  {id \in {about} \X Numbers :
     ~HasId(table, id) /\ ~HasId({found[r] : r \in Reqs} \ {NoRow}, id)}
NewId(table, about) == CHOOSE id \in FreshIds(table, about) : TRUE
================================================================================
