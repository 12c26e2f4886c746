--------------------------- MODULE MCMaterialization ---------------------------
(* Values of the constants of Materialization for TLC.                      *)
EXTENDS WriteOnce

CONSTANTS r1, r2, a

ThePaths == {"app", "bin", "lib", "conf", "arc", "link", "out"}

TheContents == {"stub", "pack", "BIN", "LIB", "CONF", "OUT", "TAR", "->bin", Empty, Junk}

\* The package holds its program, an archive and a marker.
ThePackage ==
  [p \in Paths |-> CASE p = "app" -> "stub" [] p = "arc" -> "pack" [] OTHER -> Missing]

TheUnzip == <<WriteOf("app", "stub"), WriteOf("arc", "pack")>>

TheGone == {Paths, {"app", "lib"}}

TheOrigin == [u \in {"bin", "lib", "mirror", "tar"} |->
                CASE u \in {"bin", "mirror"} -> "BIN"
                  [] u = "lib" -> "LIB"
                  [] OTHER -> "TAR"]

TheServed == [u \in DOMAIN TheOrigin |->
                IF u = "tar" THEN {"TAR", Junk} ELSE {TheOrigin[u]}]

TheEntries ==
  [c \in {"TAR", "pack", Junk} |->
     CASE c = "TAR"  -> <<WriteOf("bin", "BIN"), WriteOf("lib", "LIB")>>
       [] c = "pack" -> <<WriteOf("lib", "LIB"), WriteOf("conf", "CONF")>>
       [] OTHER      -> <<WriteOf("bin", Junk)>>]

TheTarget == [c \in {"->bin"} |-> "bin"]

Always == [test |-> "always", path |-> ""]
Unless(p) == [test |-> "file_not_exists", path |-> p]
If(p) == [test |-> "file_exists", path |-> p]
UnlessSet(name) == [test |-> "env_not_set", path |-> name]

Do(action, when, source, dest, content) ==
  [action |-> action, when |-> when, source |-> source, dest |-> dest,
   content |-> content, url |-> "", sha256 |-> NoCall, archive |-> FALSE]
Get(when, u, dest) ==
  [Do("download", when, dest, dest, "") EXCEPT !.url = u]
GetArchive(when, u, sum, dest) ==
  [Get(when, u, dest) EXCEPT !.sha256 = sum, !.archive = TRUE]

\* Two downloads, the first one not again once the command has run.
Downloads ==
  <<Get(Unless("out"), "bin", "bin"),
    Get(Always, "lib", "lib"),
    Do("chmod", Always, "bin", "bin", ""),
    Do("run", Always, "bin", "out", "OUT")>>

\* A verified archive, guarded by the file that is put in place last.
Archived ==
  <<GetArchive(Unless("out"), "tar", "TAR", "conf"),
    Do("move", Unless("out"), "bin", "out", ""),
    Do("copy", Always, "lib", "link", "")>>

\* An archive of the package, a link that is made anew, a command behind it.
Packaged ==
  <<Do("mkdir", Always, "app", "app", ""),
    Do("extract", If("arc"), "arc", "app", ""),
    Do("write-file", Always, "bin", "bin", "BIN"),
    Do("touch", UnlessSet("QUIET"), "out", "out", ""),
    Do("remove", Always, "link", "link", ""),
    Do("symlink", Always, "bin", "link", "->bin"),
    Do("run", If("link"), "bin", "out", "OUT")>>

\* The artifact is moved out of the way.
Misplaced == <<Do("move", Always, "app", "bin", "")>>

\* What applies is written once: an archive of the package and a download that
\* is executed; a step that does not apply.
Placed ==
  <<Do("extract", If("arc"), "arc", "app", ""),
    Do("touch", Unless("app"), "app", "app", ""),
    Get(Always, "bin", "bin"),
    Do("run", Always, "bin", "out", "OUT")>>

\* A command that is a file of the package itself.
Short ==
  <<Get(Always, "bin", "bin"),
    Do("run", Unless("conf"), "app", "out", "OUT")>>

TheScripts == {Downloads, Archived, Packaged, Misplaced, Placed, Short}

TheOnTorn == {Misplaced, Short}

\* What a mark guards may be missing although the mark could be made without it:
\* a registration between the two would leave it so, were anything promised then.
Guarding ==
  <<Get(Always, "bin", "bin"),
    Get(Unless("out"), "lib", "lib"),
    Do("run", Always, "app", "out", "OUT")>>

\* There are write-once scripts without and with guards.
ASSUME WriteOnce(Placed) /\ Guarded(Placed) = {}
ASSUME WriteOnce(Guarding) /\ Guarded(Guarding) # {}

Ask(want, overrides) == [op |-> "materialize", want |-> want, overrides |-> overrides]
NoOverrides == [i \in {} |-> ""]

TheCalls ==
  [r \in Reqs |->
     IF r = r1
     THEN {Ask({a}, [i \in {0} |-> "mirror"]), [op |-> "get"],
           [op |-> "put", config |-> [kind |-> "value", keys |-> {}]],
           [op |-> "put", config |-> [kind |-> "object", keys |-> Keys \ {a}]]}
     ELSE {Ask({}, NoOverrides), [op |-> "register"]}]
================================================================================
