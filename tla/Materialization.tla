---------------------------- MODULE Materialization ----------------------------
(***************************************************************************)
(* materialize_plugin, up to the point where its rows are written: it      *)
(* merges the configuration and executes install_commands in the package   *)
(* directory of one version, await by await.  A failing step ends it and   *)
(* leaves what was done; the next attempt starts at the first step.  What  *)
(* a dropped attempt was unpacking, copying or running goes on behind it.  *)
(* The package may be registered again meanwhile: it is removed, which is  *)
(* one step here, and unpacked.                                            *)
(***************************************************************************)
EXTENDS SetupSteps, FiniteSets

CONSTANTS
  Reqs,         \* request slots
  Calls,        \* what each slot may be asked
  Scripts,      \* install_commands of the package
  Served,       \* what each url may deliver
  Artifact,     \* the program or wasm artifact of the runtime
  Unzip,        \* the writes that unpack the package
  Keys,         \* configuration keys
  Junk,         \* what a bad mirror delivers
  Faults,       \* "io": a write fails halfway; "drop": a client disconnects
  MaxLeftovers, \* bound: tasks that outlive their handlers at a time
  Gone,         \* bound: what a removal that fails may have taken
  OnTorn,       \* bound: scripts of which an attempt begins on a torn package
  NoCall

Clean == (Contents \cup {Missing, Partial}) \ {Junk}
Writes == [path : Paths, data : Clean]

\* Junk comes from nowhere but a mirror: not from the package or its archives,
\* not from a step, not from an archive that is not junk itself.  What is missing
\* or half written is no archive and no link.
ASSUME SetupConstants ==
  /\ {Missing, Partial, Empty} \subseteq Clean
  /\ Missing # Partial
  /\ {Missing, Partial} \cap (DOMAIN Entries \cup DOMAIN Target) = {}
  /\ MaxLeftovers \in Nat
  /\ Package \in [Paths -> Clean]
  /\ Unzip \in Seq(Writes) /\ WriteAll([p \in Paths |-> Missing], Unzip) = Package
  /\ \A c \in DOMAIN Target : Target[c] \in Paths
  /\ \A c \in DOMAIN Entries \ {Junk} : Entries[c] \in Seq(Writes)
  /\ \A s \in Scripts :
       /\ s \in Seq(ToSet(s))
       /\ \A step \in ToSet(s) :
            /\ step.source \in Paths /\ step.dest \in Paths /\ step.content \in Clean
            /\ step.sha256 # Junk
            /\ step.when.test \in {"always", "file_not_exists", "file_exists", "env_not_set"}
            /\ step.when.test \in {"file_not_exists", "file_exists"} => step.when.path \in Paths

\* Only what has a checksum comes from a place that may deliver junk.
ASSUME MirrorConstants ==
  \A s \in Scripts : \A step \in ToSet(s) :
    step.action = "download" =>
      /\ Served[step.url] \subseteq Contents
      /\ step.sha256 = NoCall => Junk \notin Served[step.url]
      /\ \A r \in Reqs : \A c \in Calls[r] :
           c.op = "materialize" =>
             \A i \in DOMAIN c.overrides :
               /\ Served[c.overrides[i]] \subseteq Contents
               /\ step.sha256 = NoCall => Junk \notin Served[c.overrides[i]]

VARIABLES
  script,    \* install_commands; never changes
  files,     \* the package directory
  config,    \* config.toml: its kind and, of an object, its keys
  pc, call,  \* per slot: where its handler is and what it was asked
  pos, dl,   \* per slot: the step it is at, the downloads counted so far
  url,       \* per slot: where it downloads from
  todo,      \* per slot: the writes left to the task it awaits
  text,      \* per slot: the configuration it is about to write
  leftovers, \* tasks whose attempt was dropped
  last,      \* history: how the latest attempt ended
  tainted,   \* history: attempts that are not promised anything
  harm,      \* history: what happened since the registration that may do it
  asked      \* history: the keys a client may expect in config.toml

world == <<script, files, config, leftovers, asked>>
locals == <<pos, dl, url, todo, text>>
mvars == <<world, pc, call, locals, last, tainted, harm>>

Labels == {"idle", "ensure", "create", "merge", "write", "step", "fetch", "open", "task", "extract"}
Config == [kind : {"missing", "text", "value", "object"}, keys : SUBSET Keys]
Text == [kind |-> "text", keys |-> {}]

\* A request is no call of another kind; what is put is a text.
ASSUME CallConstants ==
  \A r \in Reqs : NoCall \notin Calls[r] /\
    \A c \in Calls[r] :
      /\ c.op \in {"get", "put", "materialize", "register"}
      /\ c.op = "put" => c.config \in Config
      /\ c.op = "materialize" => c.want \subseteq Keys

MTypeOK ==
  /\ script \in Scripts
  /\ files \in Files
  /\ config \in Config
  /\ \A r \in Reqs :
       /\ pc[r] \in Labels
       /\ call[r] \in Calls[r] \cup {NoCall}
       /\ pc[r] = "idle" <=> call[r] = NoCall
       /\ pos[r] \in 1..Len(script) + 1
       /\ pc[r] \in {"fetch", "open", "task"} => pos[r] <= Len(script)
       /\ dl[r] <= Cardinality({i \in 1..Len(script) : script[i].action = "download"})
       /\ pc[r] \notin {"task", "extract"} => todo[r] = <<>>
  /\ Cardinality(leftovers) <= MaxLeftovers
  /\ last \in {"none", "ok", "failed"}
  /\ tainted \subseteq Reqs
  /\ harm \subseteq {"overlap", "half", "shift", "torn"}
  /\ asked \subseteq Keys

MInit ==
  /\ script \in Scripts
  /\ files = Package
  /\ config = [kind |-> "missing", keys |-> {}]
  /\ pc = [r \in Reqs |-> "idle"]
  /\ call = [r \in Reqs |-> NoCall]
  /\ pos = [r \in Reqs |-> 1]
  /\ dl = [r \in Reqs |-> 0]
  /\ url = [r \in Reqs |-> NoCall]
  /\ todo = [r \in Reqs |-> <<>>]
  /\ text = [r \in Reqs |-> Text]
  /\ leftovers = {}
  /\ last = "none"
  /\ tainted = {}
  /\ harm = {}
  /\ asked = {}

At(r, label) == pc[r] = label
Goto(r, label) == pc' = [pc EXCEPT ![r] = label]
Attempts == {r \in Reqs : pc[r] # "idle" /\ call[r].op = "materialize"}

\* An attempt may begin while another one, or what is left of it, goes on.
MayBegin(c) ==
  c.op = "materialize" /\ ("torn" \in harm => script \in OnTorn)

Overlap(c) ==
  harm' = IF c.op = "materialize" /\ (Attempts # {} \/ leftovers # {})
          THEN harm \cup {"overlap"} ELSE harm

\* Mutation: the count of downloads outlives the attempt.
BadReturn(r) ==
  /\ Goto(r, "idle")
  /\ call' = [call EXCEPT ![r] = NoCall]
  /\ pos' = [pos EXCEPT ![r] = 1]
  /\ url' = [url EXCEPT ![r] = NoCall]
  /\ todo' = [todo EXCEPT ![r] = <<>>]
  /\ text' = [text EXCEPT ![r] = Text]
  /\ UNCHANGED dl

\* The handler returns; its locals are gone.
Return(r) ==
  /\ Goto(r, "idle")
  /\ call' = [call EXCEPT ![r] = NoCall]
  /\ pos' = [pos EXCEPT ![r] = 1]
  /\ dl' = [dl EXCEPT ![r] = 0]
  /\ url' = [url EXCEPT ![r] = NoCall]
  /\ todo' = [todo EXCEPT ![r] = <<>>]
  /\ text' = [text EXCEPT ![r] = Text]

\* An attempt that fails may have undone what a concurrent one relies on.
Fail(r) ==
  /\ Return(r)
  /\ last' = "failed"
  /\ tainted' = (tainted \cup Attempts) \ {r}

\* A write fails halfway: the disk is full.
Half(p) ==
  /\ "io" \in Faults
  /\ files' = Write(files, WriteOf(p, Partial))
  /\ harm' = harm \cup {"half"}

--------------------------------------------------------------------------------
(* The configuration file: ensure_plugin_config_paths, get_plugin_config,    *)
(* update_plugin_config and the merge of materialize_plugin.                 *)

CallConfig(r) ==
  /\ At(r, "idle")
  /\ \E c \in Calls[r] :
       /\ c.op \in {"get", "put"} \/ (MayBegin(c) /\ c.want # {})
       /\ call' = [call EXCEPT ![r] = c]
  /\ Overlap(call'[r])
  /\ Goto(r, "ensure")
  /\ UNCHANGED <<world, locals, last, tainted>>

\* Once the file is there: get returns it, put writes, materialize merges.
Proceed(r) ==
  \/ call[r].op = "get" /\ Return(r)
  \/ /\ call[r].op = "put"
     /\ text' = [text EXCEPT ![r] = call[r].config]
     /\ Goto(r, "write")
     /\ UNCHANGED <<call, pos, dl, url, todo>>
  \/ /\ call[r].op = "materialize"
     /\ Goto(r, "merge")
     /\ UNCHANGED <<call, locals>>

Ensure(r) ==
  /\ At(r, "ensure")
  /\ IF config.kind = "missing" THEN Goto(r, "create") /\ UNCHANGED <<call, locals>>
                                ELSE Proceed(r)
  /\ UNCHANGED <<world, last, tainted, harm>>

\* The default file is a comment.
Create(r) ==
  /\ At(r, "create")
  /\ config' = Text
  /\ asked' = {}
  /\ Proceed(r)
  /\ UNCHANGED <<script, files, leftovers, last, tainted, harm>>

\* Mutation: the values of the request replace the file.
BadMerge(c, want) == [kind |-> "object", keys |-> want]

\* What is not JSON counts as an empty object; nothing can be inserted into a
\* JSON value that is no object, and nobody is told.
Merge(c, want) ==
  IF c.kind = "value" THEN c ELSE [kind |-> "object", keys |-> c.keys \cup want]

ReadConfig(r) ==
  /\ At(r, "merge")
  /\ text' = [text EXCEPT ![r] = Merge(config, call[r].want)]
  /\ Goto(r, "write")
  /\ UNCHANGED <<world, call, pos, dl, url, todo, last, tainted, harm>>

WriteConfig(r) ==
  /\ At(r, "write")
  /\ config' = text[r]
  /\ IF call[r].op = "put"
     THEN asked' = text[r].keys /\ Return(r)
     ELSE asked' = asked \cup call[r].want /\ Goto(r, "step") /\ UNCHANGED <<call, locals>>
  /\ UNCHANGED <<script, files, leftovers, last, tainted, harm>>

\* The file was truncated first.
WriteConfigFails(r) ==
  /\ At(r, "write")
  /\ "io" \in Faults
  /\ config' = Text
  /\ asked' = {}
  /\ IF call[r].op = "put" THEN Return(r) /\ UNCHANGED <<last, tainted>> ELSE Fail(r)
  /\ UNCHANGED <<script, files, leftovers, harm>>

Configure(r) ==
  \/ CallConfig(r) \/ Ensure(r) \/ Create(r) \/ ReadConfig(r)
  \/ WriteConfig(r) \/ WriteConfigFails(r)

--------------------------------------------------------------------------------
(* materialize_plugin_from_zip: execute_commands_with_overrides, then the    *)
(* validation of the artifact.                                               *)

CallSteps(r) ==
  /\ At(r, "idle")
  /\ \E c \in Calls[r] :
       /\ MayBegin(c) /\ c.want = {}
       /\ call' = [call EXCEPT ![r] = c]
  /\ Overlap(call'[r])
  /\ Goto(r, "step")
  /\ UNCHANGED <<world, locals, last, tainted>>

Step(r) == script[pos[r]]

Reached(r) == At(r, "step") /\ pos[r] <= Len(script)

Executes(r, actions) ==
  /\ Reached(r)
  /\ Step(r).action \in actions
  /\ Holds(files, Step(r).when)

\* On to the next step.
Advance(r) ==
  /\ Goto(r, "step")
  /\ pos' = [pos EXCEPT ![r] = @ + 1]
  /\ todo' = [todo EXCEPT ![r] = <<>>]
  /\ UNCHANGED <<call, dl, url, text>>

\* A condition that does not hold.  Overrides are keyed by the number of
\* downloads executed before, so that a skipped one shifts those behind it.
SkipStep(r) ==
  /\ Reached(r)
  /\ ~Holds(files, Step(r).when)
  /\ Advance(r)
  /\ IF Step(r).action = "download" /\ DOMAIN call[r].overrides # {}
     THEN tainted' = tainted \cup {r} /\ harm' = harm \cup {"shift"}
     ELSE UNCHANGED <<tainted, harm>>
  /\ UNCHANGED <<world, last>>

ResolvedUrl(r) ==
  IF dl[r] \in DOMAIN call[r].overrides THEN call[r].overrides[dl[r]] ELSE Step(r).url

Download(r) ==
  /\ Executes(r, {"download"})
  /\ url' = [url EXCEPT ![r] = ResolvedUrl(r)]
  /\ dl' = [dl EXCEPT ![r] = @ + 1]
  /\ Goto(r, "fetch")
  /\ UNCHANGED <<world, call, pos, todo, text, last, tainted, harm>>

\* Mutation: the checksum of an archive is not looked at.
BadVerified(step, data) == step.archive \/ step.sha256 = NoCall \/ step.sha256 = data

Verified(step, data) == step.sha256 = NoCall \/ step.sha256 = data

\* The body has come and its checksum, if the step has one, is right.
Downloaded(r) ==
  /\ At(r, "fetch")
  /\ \E data \in Served[url[r]] :
       /\ Verified(Step(r), data)
       /\ files' = Write(files, WriteOf(Step(r).dest, data))
  /\ IF Step(r).archive
     THEN Goto(r, "open") /\ UNCHANGED <<call, locals>>
     ELSE Advance(r)
  /\ UNCHANGED <<script, config, leftovers, asked, last, tainted, harm>>

\* Mutation: a download that fails does not end the attempt.
BadDownloadFails(r) ==
  /\ At(r, "fetch")
  /\ \/ UNCHANGED <<files, harm>>
     \/ Half(Step(r).dest)
  /\ Advance(r)
  /\ UNCHANGED <<script, config, leftovers, asked, last, tainted>>

\* No answer, a bad status, a wrong checksum, or a write that fails.
DownloadFails(r) ==
  /\ At(r, "fetch")
  /\ \/ UNCHANGED <<files, harm>>
     \/ Half(Step(r).dest)
  /\ Fail(r)
  /\ UNCHANGED <<script, config, leftovers, asked>>

\* A task of the blocking pool, or a child process, begins.
Begin(r, writes) ==
  /\ todo' = [todo EXCEPT ![r] = writes]
  /\ Goto(r, "task")
  /\ UNCHANGED <<world, call, pos, dl, url, text, last, tainted, harm>>

Unpack(r) ==
  /\ At(r, "open")
  /\ Archive(files[Step(r).dest])
  /\ Begin(r, Entries[files[Step(r).dest]])

\* Another attempt has removed the archive.
UnpackFails(r) ==
  /\ At(r, "open")
  /\ ~Archive(files[Step(r).dest])
  /\ Fail(r)
  /\ UNCHANGED <<world, harm>>

Long == {"extract", "copy", "run"}
Quick == {"move", "symlink", "chmod", "mkdir", "remove", "touch", "write-file"}

BeginTask(r) ==
  /\ Executes(r, Long)
  /\ Possible(files, Step(r))
  /\ Begin(r, Effect(files, Step(r)))

QuickStep(r) ==
  /\ Executes(r, Quick)
  /\ Possible(files, Step(r))
  /\ files' = WriteAll(files, Effect(files, Step(r)))
  /\ Advance(r)
  /\ UNCHANGED <<script, config, leftovers, asked, last, tainted, harm>>

\* The step is not possible, or it fails before or within its write.
StepFails(r) ==
  /\ Executes(r, Long \cup Quick)
  /\ \/ /\ ~Possible(files, Step(r)) \/ "io" \in Faults
        /\ UNCHANGED <<files, harm>>
     \/ Step(r).action \in {"touch", "write-file"} /\ Half(Step(r).dest)
  /\ Fail(r)
  /\ UNCHANGED <<script, config, leftovers, asked>>

TaskWrites(r) ==
  /\ At(r, "task")
  /\ todo[r] # <<>>
  /\ files' = Write(files, Head(todo[r]))
  /\ todo' = [todo EXCEPT ![r] = Tail(@)]
  /\ UNCHANGED <<script, config, leftovers, asked, pc, call, pos, dl, url, text, last, tainted, harm>>

\* Mutation: the error inside a task is dropped with its result.
BadTaskEnds(r) ==
  /\ At(r, "task")
  /\ files' = IF Step(r).action = "download"
              THEN Write(files, WriteOf(Step(r).dest, Missing)) ELSE files
  /\ Advance(r)
  /\ UNCHANGED <<script, config, leftovers, asked, last, tainted, harm>>

\* The archive of a download is removed once it is unpacked.
TaskEnds(r) ==
  /\ At(r, "task")
  /\ todo[r] = <<>>
  /\ files' = IF Step(r).action = "download"
              THEN Write(files, WriteOf(Step(r).dest, Missing)) ELSE files
  /\ Advance(r)
  /\ UNCHANGED <<script, config, leftovers, asked, last, tainted, harm>>

\* A bad entry, a full disk; a command may have done all it does and fail.
TaskFails(r) ==
  /\ At(r, "task")
  /\ todo[r] # <<>> \/ Step(r).action = "run"
  /\ \/ UNCHANGED <<files, harm>>
     \/ todo[r] # <<>> /\ Half(Head(todo[r]).path)
  /\ Fail(r)
  /\ UNCHANGED <<script, config, leftovers, asked>>

\* validate_prepared_runtime.
Validate(r) ==
  /\ At(r, "step") /\ pos[r] = Len(script) + 1
  /\ Exists(files, Artifact)
  /\ Return(r)
  /\ last' = IF r \in tainted THEN "none" ELSE "ok"
  /\ tainted' = tainted \ {r}
  /\ UNCHANGED <<world, harm>>

ValidateFails(r) ==
  /\ At(r, "step") /\ pos[r] = Len(script) + 1
  /\ ~Exists(files, Artifact)
  /\ Fail(r)
  /\ UNCHANGED <<world, harm>>

Setup(r) ==
  \/ CallSteps(r) \/ SkipStep(r) \/ Download(r) \/ Downloaded(r) \/ DownloadFails(r)
  \/ Unpack(r) \/ UnpackFails(r) \/ BeginTask(r) \/ QuickStep(r) \/ StepFails(r)
  \/ TaskWrites(r) \/ TaskEnds(r) \/ TaskFails(r) \/ Validate(r) \/ ValidateFails(r)

--------------------------------------------------------------------------------
(* The client disconnects while its handler awaits a download, a task or the  *)
(* removal of a file: the handler is dropped, the task is not (unless the     *)
(* host goes down as well).                                                   *)
Drop(r) ==
  /\ "drop" \in Faults
  /\ \/ pc[r] \in {"fetch", "task"} /\ UNCHANGED files
     \/ /\ Executes(r, {"remove"})
        /\ files' \in {files, WriteAll(files, Effect(files, Step(r)))}
  /\ \/ UNCHANGED leftovers
     \/ /\ todo[r] # <<>> /\ Cardinality(leftovers) < MaxLeftovers
        /\ leftovers' = leftovers \cup {todo[r]}
  /\ Fail(r)
  /\ UNCHANGED <<script, config, asked, harm>>

Leftover(writes) ==
  /\ files' = Write(files, Head(writes))
  /\ leftovers' = ((leftovers \ {writes}) \cup {Tail(writes)}) \ {<<>>}
  /\ UNCHANGED <<script, config, asked, pc, call, locals, last, tainted, harm>>

LeftoverDies(writes) ==
  /\ leftovers' = leftovers \ {writes}
  /\ UNCHANGED <<script, files, config, asked, pc, call, locals, last, tainted, harm>>

--------------------------------------------------------------------------------
(* register_plugin_from_zip_bytes, called for a version that is there: its    *)
(* directory is removed, then the package is unpacked by a task of its own.   *)

RegisterCall(r) == {c \in Calls[r] : c.op = "register"}

\* What was removed counts as torn until a registration has made it whole.
Unmake ==
  /\ last' = "none"
  /\ harm' = harm \cup {"torn"}
  /\ UNCHANGED <<script, config, leftovers, asked, tainted>>

Reregister(r) ==
  /\ At(r, "idle")
  /\ \E c \in RegisterCall(r) : call' = [call EXCEPT ![r] = c]
  /\ files' = [p \in Paths |-> Missing]
  /\ todo' = [todo EXCEPT ![r] = Unzip]
  /\ Goto(r, "extract")
  /\ Unmake
  /\ UNCHANGED <<pos, dl, url, text>>

\* The removal fails halfway, or goes on behind a dropped request.
RemovalFails(r) ==
  /\ At(r, "idle") /\ RegisterCall(r) # {}
  /\ Faults \cap {"io", "drop"} # {}
  /\ \E gone \in Gone :
       files' = [p \in Paths |-> IF p \in gone THEN Missing ELSE files[p]]
  /\ Unmake
  /\ UNCHANGED <<pc, call, locals>>

Extracts(r) ==
  /\ At(r, "extract")
  /\ todo[r] # <<>>
  /\ files' = Write(files, Head(todo[r]))
  /\ todo' = [todo EXCEPT ![r] = Tail(@)]
  /\ UNCHANGED <<script, config, leftovers, asked, pc, call, pos, dl, url, text, last, tainted, harm>>

\* A full disk, or the client disconnects.
ExtractFails(r) ==
  /\ At(r, "extract")
  /\ todo[r] # <<>>
  /\ \/ UNCHANGED <<files, leftovers, harm>>
     \/ Half(Head(todo[r]).path) /\ UNCHANGED leftovers
     \/ /\ "drop" \in Faults /\ Cardinality(leftovers) < MaxLeftovers
        /\ leftovers' = leftovers \cup {todo[r]}
        /\ UNCHANGED <<files, harm>>
  /\ Return(r)
  /\ UNCHANGED <<script, config, asked, last, tainted>>

\* Nobody has touched the package since, and nobody is about to.
Fresh(r) ==
  /\ files = Package
  /\ Attempts = {} /\ leftovers = {}
  /\ \A q \in Reqs \ {r} : ~At(q, "extract")

Registered(r) ==
  /\ At(r, "extract")
  /\ todo[r] = <<>>
  /\ harm' = IF Fresh(r) THEN {} ELSE harm
  /\ last' = "none"
  /\ Return(r)
  /\ UNCHANGED <<world, tainted>>

Registration(r) ==
  \/ Reregister(r) \/ RemovalFails(r) \/ Extracts(r) \/ ExtractFails(r) \/ Registered(r)

MNext ==
  \/ \E r \in Reqs : Configure(r) \/ Setup(r) \/ Drop(r) \/ Registration(r)
  \/ \E w \in leftovers : Leftover(w) \/ LeftoverDies(w)

MSpec == MInit /\ [][MNext]_mvars

--------------------------------------------------------------------------------
(* What has a wrong checksum never gets into the package: no file of it, and  *)
(* no file unpacked from it, whichever mirror an override names.              *)
NothingUnverified == \A p \in Paths : files[p] # Junk

\* Attempts overlap, or writes fail halfway and overrides shift, but not both;
\* and the package is whole.
Promised == harm \subseteq {"overlap"} \/ harm \subseteq {"half", "shift"}

(* An attempt that succeeds has done all of its steps, whatever earlier       *)
(* attempts that failed or were dropped have left and still go on writing:    *)
(* every file the script produces is there, with the contents it should have. *)
(* Not promised to an attempt during which another one fails, nor to one that *)
(* skips a download and has overrides, nor on a package that was not left     *)
(* alone while it was registered again, until it is.                          *)
SuccessIsComplete ==
  last = "ok" /\ Promised /\ leftovers = {} /\ Attempts = {} =>
    LET done == Outcome(script, Len(script)) IN
    \A p \in Paths : done[p] # Missing => files[p] = done[p]

RunBegins(r) == pc[r] = "step" /\ pc'[r] = "task" /\ Step(r).action = "run"

(* A setup command runs the very program that the steps before it provide.    *)
RunsWhatWasPrepared ==
  [][\A r \in Reqs \ tainted :
       RunBegins(r) /\ Promised =>
         LET p == Step(r).source IN files[p] = Outcome(script, pos[r] - 1)[p]]_mvars

(* A setup command finds in config.toml every value its request brought and   *)
(* every value written by earlier ones, unless the file was replaced since or *)
(* holds JSON that is no object.                                              *)
(* Holds for one client at a time that is not dropped while it is written.    *)
CommandsSeeConfig ==
  [][\A r \in Reqs :
       RunBegins(r) /\ config.kind # "value" => call[r].want \cup asked \subseteq config.keys]_mvars
================================================================================
