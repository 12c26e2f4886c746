------------------------------- MODULE Migrations ------------------------------
(***************************************************************************)
(* execute_migration: the script of the current version, as some package   *)
(* brought it, is executed one statement at a time, then recorded as       *)
(* applied.  Whether it was applied before is never asked.                 *)
(***************************************************************************)
EXTENDS HostRecords

ExecuteCheck(r) == \E c \in Calls[r] : c.op = "execute" /\ Admit(r, c, "load")

ScriptOf(r) == Script[loaded[r]][call[r].key]

\* The three reads follow the version read first, so they count as one.  The file
\* is that of whichever package was last extracted for the version, even if its
\* registration failed or is still under way.
ExecuteLoad(r) ==
  /\ At(r, "load")
  /\ version # NoVersion
  /\ \E p \in Shipped[version] :
       /\ Script[p][call[r].key] # <<>>
       /\ loaded' = [loaded EXCEPT ![r] = p]
  /\ Goto(r, "run")
  /\ UNCHANGED <<tables, call, found, next, denied>>

\* No plugin, no version row, no file, or an empty one.
ExecuteNoScript(r) ==
  /\ At(r, "load")
  /\ Return(r)
  /\ UNCHANGED <<tables, denied>>

NextStatement(r) == ScriptOf(r)[next[r]]
StatementFails(r) == NextStatement(r) \in ran \ Repeatable

ExecuteStatement(r) ==
  /\ At(r, "run")
  /\ next[r] <= Len(ScriptOf(r))
  /\ ~StatementFails(r)
  /\ ran' = ran \cup {NextStatement(r)}
  /\ next' = [next EXCEPT ![r] = @ + 1]
  /\ UNCHANGED <<grants, records, version, pc, call, found, loaded, denied>>

\* Statements that took effect before are not undone.
ExecuteStatementFails(r) ==
  /\ At(r, "run")
  /\ next[r] <= Len(ScriptOf(r))
  /\ StatementFails(r)
  /\ Return(r)
  /\ UNCHANGED <<tables, denied>>

BadAllExecuted(r) == next[r] >= Len(ScriptOf(r))
AllExecuted(r) == next[r] > Len(ScriptOf(r))

ExecuteFind(r) ==
  /\ At(r, "run")
  /\ AllExecuted(r)
  /\ Find(r, "store")

ExecuteStore(r) == At(r, "store") /\ Write(r, Applied(loaded[r]))

Execute(r) ==
  \/ ExecuteCheck(r) \/ ExecuteLoad(r) \/ ExecuteNoScript(r)
  \/ ExecuteStatement(r) \/ ExecuteStatementFails(r)
  \/ ExecuteFind(r) \/ ExecuteStore(r)
================================================================================
