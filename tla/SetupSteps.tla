------------------------------- MODULE SetupSteps -------------------------------
(***************************************************************************)
(* The setup steps of a manifest, as what they do to the files of a        *)
(* package directory: a step has a condition, an error it ends with when   *)
(* it is not possible, and a sequence of writes.                           *)
(*                                                                         *)
(* Directories, modes and the strip of path components are left out; no    *)
(* step writes through a link.                                             *)
(***************************************************************************)
EXTENDS Naturals, Sequences, SequencesExt, FiniteSetsExt

CONSTANTS
  Paths,    \* files of a package directory
  Contents, \* what they may hold, symbolic links included
  Missing,  \* no file
  Partial,  \* a write that failed halfway
  Empty,    \* an empty file
  Package,  \* the files of the package as registered, for each path
  Origin,   \* what each url is meant to deliver
  Entries,  \* the writes that unpack each archive
  Target,   \* the path each link leads to
  EnvSet    \* names set in the environment of the host

Files == [Paths -> Contents \cup {Missing, Partial}]

WriteOf(p, c) == [path |-> p, data |-> c]

Write(files, w) == [files EXCEPT ![w.path] = w.data]

\* The last write to a path counts.
WriteAll(files, ws) ==
  [p \in Paths |->
     LET hits == {i \in DOMAIN ws : ws[i].path = p} IN
     IF hits = {} THEN files[p] ELSE ws[Max(hits)].data]

\* Reads and std::fs::metadata follow links.
Reads(files, p) == IF files[p] \in DOMAIN Target THEN files[Target[files[p]]] ELSE files[p]

Exists(files, p) == Reads(files, p) # Missing

Holds(files, when) ==
  CASE when.test = "always"          -> TRUE
    [] when.test = "file_not_exists" -> ~Exists(files, when.path)
    [] when.test = "file_exists"     -> Exists(files, when.path)
    [] when.test = "env_not_set"     -> when.path \notin EnvSet

Archive(c) == c \in DOMAIN Entries

Possible(files, step) ==
  CASE step.action = "move" -> files[step.source] # Missing
    [] step.action \in {"copy", "chmod", "run"} -> Exists(files, step.source)
    [] step.action = "extract" -> Archive(Reads(files, step.source))
    [] step.action = "symlink" -> files[step.dest] = Missing
    [] OTHER -> TRUE

\* touch writes an empty file over the one that is there; a link that leads
\* nowhere is not removed.
Effect(files, step) ==
  CASE step.action = "download" ->
         LET data == Origin[step.url] IN
         IF step.archive
         THEN Append(Entries[data], WriteOf(step.dest, Missing))
         ELSE <<WriteOf(step.dest, data)>>
    [] step.action = "extract" -> Entries[Reads(files, step.source)]
    [] step.action = "move" ->
         <<WriteOf(step.dest, files[step.source]), WriteOf(step.source, Missing)>>
    [] step.action = "copy"   -> <<WriteOf(step.dest, Reads(files, step.source))>>
    [] step.action = "remove" ->
         IF Exists(files, step.dest) THEN <<WriteOf(step.dest, Missing)>> ELSE <<>>
    [] step.action = "touch"  -> <<WriteOf(step.dest, Empty)>>
    [] step.action \in {"symlink", "write-file", "run"} ->
         <<WriteOf(step.dest, step.content)>>
    [] step.action \in {"chmod", "mkdir"} -> <<>>

\* One step, without failures and on its own.
Apply(files, step) ==
  IF Holds(files, step.when) THEN WriteAll(files, Effect(files, step)) ELSE files

\* The files after the first n steps, each executed once on a fresh package.
Outcome(script, n) ==
  LET after[k \in 0..Len(script)] ==
        IF k = 0 THEN Package ELSE Apply(after[k - 1], script[k])
  IN after[n]
================================================================================
