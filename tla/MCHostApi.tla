------------------------------- MODULE MCHostApi -------------------------------
(* Values of the constants of HostApi for TLC.                              *)
EXTENDS HostApi

CONSTANTS r1, r2, r3, k1, k2, x1, x2, v1, p1, p2, s1, s2, s3

\* All packages are registered as one version, which makes every change of the
\* files possible that another version would make.
OneVersion == [v \in Versions |-> Packages]

\* The second package's migration has one more statement.
Scripts == [p \in Packages |->
             [k \in Keys |-> IF p = p1 THEN <<s1, s2>> ELSE <<s1, s2, s3>>]]

NoManifest == <<>>
SqliteManifest == <<"db-sqlite">>
SharedManifest == <<"db-shared-write">>

Host(op, table, key, value) == [op |-> op, table |-> table, key |-> key, value |-> value]
Replace(items) == [op |-> "grant", items |-> items]
Set(permission, granted) == [permission |-> permission, granted |-> granted]
Registers == {[op |-> "register", version |-> v] : v \in Versions}
Uninstalls == {[op |-> "uninstall"]}

\* An admin opens and closes one permission.
Toggle(p) == {Replace(<<Set(p, granted)>>) : granted \in BOOLEAN}

Uses(table, key) == {Host("upsert", table, key, x) : x \in Values}
Drops(key) == {Host("delete", "shared", key, x1)}
Lists(table, key) == {Host("list", table, key, x1)}
Looks(table, key) == Lists(table, key) \cup {Host("get", table, key, x1)}
Browses == {Host("list_all", "nav", k1, x1)}
Migrates(key) == {Host("execute", "migration", key, x1)}

\* An admin opens everything a plugin may ask for.
AllGranted == Replace([i \in 1..4 |->
  Set(<<"db-shared-write", "db-shared-read", "scheduler", "web-api">>[i], TRUE)])

\* The two permissions to write records are denied by one request.
TwoDenied == Replace(<<Set("db-shared-write", FALSE), Set("scheduler", FALSE)>>)

\* Every key of a table has one writer, everybody may delete and one slot is the
\* admin's.
OwnKeys ==
  [r \in Reqs |->
     CASE r = r1 -> Uses("shared", k1) \cup Uses("task", k1) \cup Lists("task", k1)
                      \cup Drops(k1) \cup Looks("shared", k1)
       [] r = r2 -> Uses("shared", k2) \cup Uses("nav", k1) \cup Lists("nav", k1)
                      \cup Drops(k1) \cup Browses
       [] OTHER  -> {AllGranted, TwoDenied}
                      \cup Registers \cup Uninstalls]

\* Two admins and a plugin that uses its permission.
TwoAdmins ==
  [r \in Reqs |-> IF r = r3 THEN Drops(k1) ELSE Toggle("db-shared-write")]

\* Migrations of one key, while permissions and versions come and go and the
\* plugin makes other requests.
Migrators ==
  [r \in Reqs |->
     CASE r = r1 -> Migrates(k1) \cup Uses("migration", k1)
       [] r = r2 -> Migrates(k1) \cup Looks("migration", k1) \cup Toggle("db-sqlite")
                      \cup Browses \cup Drops(k1)
       [] OTHER  -> Registers \cup Uninstalls \cup {Replace(<<Set("db-shared-write", TRUE)>>)}]
================================================================================
