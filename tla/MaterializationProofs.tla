------------------------- MODULE MaterializationProofs -------------------------
(***************************************************************************)
(* Proofs about Materialization for any scripts, overrides, numbers of     *)
(* attempts and leftover tasks: nothing unverified is ever in a package    *)
(* directory, every state has its shape, and commands find the values that *)
(* requests have written for them.                                         *)
(***************************************************************************)
EXTENDS Materialization, FiniteSetTheorems, TLAPS

(* Where the download of an attempt may come from.                          *)
Sources(r) ==
  {Step(r).url} \cup {call[r].overrides[i] : i \in DOMAIN call[r].overrides}

Slot(r) ==
  /\ pc[r] # "idle" => call[r] \in Calls[r]
  /\ pc[r] = "write" => call[r].op \in {"put", "materialize"}
  /\ pc[r] \in {"merge", "step", "fetch", "open", "task"} => call[r].op = "materialize"
  /\ pc[r] \in {"fetch", "open", "task"} => pos[r] \in 1..Len(script)
  /\ pc[r] = "fetch" => Step(r).action = "download" /\ url[r] \in Sources(r)

Shapes ==
  /\ script \in Scripts
  /\ DOMAIN pc = Reqs /\ DOMAIN call = Reqs /\ DOMAIN url = Reqs
  /\ pos \in [Reqs -> Nat \ {0}]

\* What is left to a task whose attempt was dropped.
Pending == Seq(Writes) \ {<<>>}

(* Only clean writes are left to any task, and an attempt downloads from the  *)
(* url of its step or from one of its overrides.                              *)
CleanInv ==
  /\ Shapes
  /\ files \in [Paths -> Clean]
  /\ todo \in [Reqs -> Seq(Writes)]
  /\ leftovers \subseteq Pending
  /\ \A r \in Reqs : Slot(r)

--------------------------------------------------------------------------------
(* The steps of a script.                                                    *)
LEMMA ScriptSteps ==
  ASSUME NEW s \in Scripts, NEW i \in 1..Len(s)
  PROVE  s[i] \in ToSet(s) /\ Len(s) \in Nat /\ DOMAIN s = 1..Len(s)
<1>1. s \in Seq(ToSet(s))
  BY SetupConstants
<1> QED BY <1>1

LEMMA CleanStep ==
  ASSUME NEW s \in Scripts, NEW i \in 1..Len(s)
  PROVE  /\ s[i].source \in Paths /\ s[i].dest \in Paths /\ s[i].content \in Clean
         /\ s[i].sha256 # Junk
BY ScriptSteps, SetupConstants

LEMMA ScriptLength == ASSUME NEW s \in Scripts PROVE Len(s) \in Nat
<1>1. s \in Seq(ToSet(s))
  BY SetupConstants
<1> QED BY <1>1

(* Whoever reads from clean files reads what is clean.                       *)
LEMMA CleanReads ==
  ASSUME NEW fs \in [Paths -> Clean], NEW p \in Paths
  PROVE  Reads(fs, p) \in Clean
BY SetupConstants DEF Reads

LEMMA CleanWrite ==
  ASSUME NEW fs \in [Paths -> Clean], NEW w \in Writes
  PROVE  Write(fs, w) \in [Paths -> Clean]
BY DEF Write, Writes

LEMMA CleanWriteOf ==
  ASSUME NEW p \in Paths, NEW c \in Clean
  PROVE  WriteOf(p, c) \in Writes
BY DEF WriteOf, Writes

LEMMA CleanEntries ==
  ASSUME NEW c \in Clean, Archive(c)
  PROVE  Entries[c] \in Seq(Writes)
BY SetupConstants DEF Archive, Clean

LEMMA CleanConstants == {Missing, Partial, Empty} \subseteq Clean
BY SetupConstants

(* At most two writes at once leave clean files clean.                       *)
LEMMA CleanWrites ==
  ASSUME NEW fs \in [Paths -> Clean], NEW ws \in Seq(Writes), Len(ws) <= 2
  PROVE  WriteAll(fs, ws) \in [Paths -> Clean]
<1> SUFFICES ASSUME NEW p \in Paths
             PROVE  LET hits == {i \in DOMAIN ws : ws[i].path = p} IN
                    (IF hits = {} THEN fs[p] ELSE ws[Max(hits)].data) \in Clean
  BY DEF WriteAll
<1> DEFINE hits == {i \in DOMAIN ws : ws[i].path = p}
<1>1. DOMAIN ws = 1..Len(ws) /\ Len(ws) \in Nat
  OBVIOUS
<1>2. hits \subseteq {1, 2}
  <2>1. \A i \in 1..Len(ws) : i \in {1, 2}
    BY <1>1
  <2> QED BY <1>1, <2>1
<1>3. CASE hits = {}
  BY <1>3
<1>4. CASE hits # {}
  <2>1. \E x \in hits : \A y \in hits : x >= y
    BY <1>2, <1>4
  <2>2. Max(hits) \in hits
    BY <2>1 DEF Max
  <2>3. ws[Max(hits)] \in Writes
    BY <2>2
  <2> QED BY <1>4, <2>3 DEF Writes
<1> QED BY <1>3, <1>4

(* A quick step is at most two writes, and they are clean.                   *)
LEMMA QuickEffect ==
  ASSUME NEW fs \in [Paths -> Clean], NEW s \in Scripts, NEW i \in 1..Len(s),
         s[i].action \in Quick
  PROVE  Effect(fs, s[i]) \in Seq(Writes) /\ Len(Effect(fs, s[i])) <= 2
<1> DEFINE step == s[i]
<1>1. step.source \in Paths /\ step.dest \in Paths /\ step.content \in Clean
  BY CleanStep
<1>2. /\ WriteOf(step.dest, fs[step.source]) \in Writes
      /\ WriteOf(step.source, Missing) \in Writes /\ WriteOf(step.dest, Missing) \in Writes
      /\ WriteOf(step.dest, Empty) \in Writes /\ WriteOf(step.dest, step.content) \in Writes
  BY <1>1, CleanConstants, CleanWriteOf
<1> HIDE DEF step
<1>3. /\ \A w \in Writes : <<w>> \in Seq(Writes) /\ Len(<<w>>) <= 2
      /\ \A v, w \in Writes : <<v, w>> \in Seq(Writes) /\ Len(<<v, w>>) <= 2
      /\ <<>> \in Seq(Writes) /\ Len(<<>>) <= 2
  OBVIOUS
<1>4. Effect(fs, step) \in
        {<<>>, <<WriteOf(step.dest, Missing)>>, <<WriteOf(step.dest, Empty)>>,
         <<WriteOf(step.dest, step.content)>>,
         <<WriteOf(step.dest, fs[step.source]), WriteOf(step.source, Missing)>>}
  <2>1. step.action \in Quick
    BY DEF step
  <2> QED BY <2>1 DEF Effect, Quick
<1>5. Effect(fs, step) \in Seq(Writes) /\ Len(Effect(fs, step)) <= 2
  BY <1>2, <1>3, <1>4
<1> QED BY <1>5 DEF step

(* What a task is given to do is clean.                                      *)
LEMMA LongEffect ==
  ASSUME NEW fs \in [Paths -> Clean], NEW s \in Scripts, NEW i \in 1..Len(s),
         s[i].action \in Long, Possible(fs, s[i])
  PROVE  Effect(fs, s[i]) \in Seq(Writes)
<1>1. s[i].source \in Paths /\ s[i].dest \in Paths /\ s[i].content \in Clean
  BY CleanStep
<1>2. Reads(fs, s[i].source) \in Clean
  BY <1>1, CleanReads
<1>3. CASE s[i].action = "extract"
  BY <1>2, <1>3, CleanEntries DEF Possible, Effect
<1>4. CASE s[i].action = "copy"
  <2>1. WriteOf(s[i].dest, Reads(fs, s[i].source)) \in Writes
    BY <1>1, <1>2, CleanWriteOf
  <2>2. Effect(fs, s[i]) = <<WriteOf(s[i].dest, Reads(fs, s[i].source))>>
    BY <1>4 DEF Effect
  <2> QED BY <2>1, <2>2
<1>5. CASE s[i].action = "run"
  <2>1. WriteOf(s[i].dest, s[i].content) \in Writes
    BY <1>1, CleanWriteOf
  <2>2. Effect(fs, s[i]) = <<WriteOf(s[i].dest, s[i].content)>>
    BY <1>5 DEF Effect
  <2> QED BY <2>1, <2>2
<1> QED BY <1>3, <1>4, <1>5 DEF Long

(* What passes the checksum of its step, or needs none, is clean.            *)
LEMMA VerifiedIsClean ==
  ASSUME CleanInv, NEW r \in Reqs, pc[r] = "fetch",
         NEW data \in Served[url[r]], Verified(Step(r), data)
  PROVE  data \in Clean
<1>1. /\ script \in Scripts /\ pos[r] \in 1..Len(script)
      /\ Step(r).action = "download" /\ url[r] \in Sources(r)
      /\ call[r] \in Calls[r] /\ call[r].op = "materialize"
  BY DEF CleanInv, Shapes, Slot
<1>2. Step(r) \in ToSet(script) /\ Step(r).sha256 # Junk
  BY <1>1, ScriptSteps, CleanStep DEF Step
<1>3. /\ Served[url[r]] \subseteq Contents
      /\ Step(r).sha256 = NoCall => Junk \notin Served[url[r]]
  <2>1. CASE url[r] = Step(r).url
    BY <1>1, <1>2, <2>1, MirrorConstants
  <2>2. ASSUME NEW i \in DOMAIN call[r].overrides, url[r] = call[r].overrides[i]
        PROVE  /\ Served[url[r]] \subseteq Contents
               /\ Step(r).sha256 = NoCall => Junk \notin Served[url[r]]
    BY <1>1, <1>2, <2>2, MirrorConstants
  <2> QED BY <1>1, <2>1, <2>2 DEF Sources
<1> QED BY <1>2, <1>3 DEF Verified, Clean

--------------------------------------------------------------------------------
(* The steps that leave an invariant slot.                                   *)

\* A slot whose own variables do not change.
LEMMA SameSlot ==
  ASSUME NEW r \in Reqs, Slot(r), script' = script, pc'[r] = pc[r], call'[r] = call[r],
         pos'[r] = pos[r], url'[r] = url[r]
  PROVE  Slot(r)'
BY DEF Slot, Step, Sources

\* A slot that awaits nothing.
LEMMA IdleSlot == ASSUME NEW r \in Reqs, pc'[r] = "idle" PROVE Slot(r)'
BY DEF Slot

\* A handler that returns leaves the shapes and the other slots alone.
LEMMA Returns ==
  ASSUME CleanInv, NEW r \in Reqs, Return(r), script' = script
  PROVE  Shapes' /\ todo' \in [Reqs -> Seq(Writes)] /\ \A q \in Reqs : Slot(q)'
<1>1. Shapes'
  BY DEF CleanInv, Shapes, Return, Goto
<1>2. todo' \in [Reqs -> Seq(Writes)]
  BY DEF CleanInv, Return
<1>3. ASSUME NEW q \in Reqs PROVE Slot(q)'
  <2>1. CASE q = r
    BY <2>1, IdleSlot DEF CleanInv, Shapes, Return, Goto
  <2>2. CASE q # r
    BY <2>2, SameSlot DEF CleanInv, Shapes, Return, Goto
  <2> QED BY <2>1, <2>2
<1> QED BY <1>1, <1>2, <1>3

\* An attempt that goes on to the next step, likewise.
LEMMA Advances ==
  ASSUME CleanInv, NEW r \in Reqs, Advance(r), script' = script,
         pc[r] \in {"step", "fetch", "open", "task"}
  PROVE  Shapes' /\ todo' \in [Reqs -> Seq(Writes)] /\ \A q \in Reqs : Slot(q)'
<1>1. Shapes'
  BY DEF CleanInv, Shapes, Advance, Goto
<1>2. todo' \in [Reqs -> Seq(Writes)]
  BY DEF CleanInv, Advance
<1>3. ASSUME NEW q \in Reqs PROVE Slot(q)'
  <2>1. CASE q = r
    BY <2>1 DEF CleanInv, Shapes, Slot, Advance, Goto
  <2>2. CASE q # r
    BY <2>2, SameSlot DEF CleanInv, Shapes, Advance, Goto
  <2> QED BY <2>1, <2>2
<1> QED BY <1>1, <1>2, <1>3

\* A write that fails halfway.
LEMMA HalfIsClean ==
  ASSUME CleanInv, NEW p \in Paths, Half(p)
  PROVE  files' \in [Paths -> Clean]
BY CleanConstants, CleanWriteOf, CleanWrite DEF CleanInv, Half

LEMMA ConfigureStep == ASSUME CleanInv, NEW r \in Reqs, Configure(r) PROVE CleanInv'
<1>0. script' = script /\ files' = files /\ leftovers' = leftovers
  BY DEF Configure, CallConfig, Ensure, Create, ReadConfig, WriteConfig,
         WriteConfigFails, world
<1>1. CASE Return(r)
  BY <1>0, <1>1, Returns DEF CleanInv
<1>2. CASE /\ UNCHANGED <<pos, todo, url>>
           /\ \E label \in {"ensure", "create", "merge", "write", "step"} :
                /\ Goto(r, label)
                /\ DOMAIN call' = Reqs /\ \A q \in Reqs \ {r} : call'[q] = call[q]
                /\ call'[r] \in Calls[r]
                /\ label = "write" => call'[r].op \in {"put", "materialize"}
                /\ label \in {"merge", "step"} => call'[r].op = "materialize"
  <2>1. Shapes' /\ todo' = todo
    BY <1>0, <1>2 DEF CleanInv, Shapes, Goto
  <2>2. ASSUME NEW q \in Reqs PROVE Slot(q)'
    <3>1. CASE q = r
      BY <1>2, <3>1 DEF CleanInv, Shapes, Slot, Goto
    <3>2. CASE q # r
      BY <1>0, <1>2, <3>2, SameSlot DEF CleanInv, Shapes, Goto
    <3> QED BY <3>1, <3>2
  <2> QED BY <1>0, <2>1, <2>2 DEF CleanInv
<1>3. CASE CallConfig(r)
  <2>1. PICK c \in Calls[r] : call' = [call EXCEPT ![r] = c]
    BY <1>3 DEF CallConfig
  <2>2. /\ DOMAIN call' = Reqs /\ call'[r] = c
        /\ \A q \in Reqs \ {r} : call'[q] = call[q]
    BY <2>1 DEF CleanInv, Shapes
  <2> QED BY <1>2, <1>3, <2>2 DEF CallConfig, locals
<1>4. ASSUME Proceed(r), pc[r] \in {"ensure", "create"} PROVE CleanInv'
  <2>1. call[r] \in Calls[r] /\ DOMAIN call = Reqs
    BY <1>4 DEF CleanInv, Shapes, Slot
  <2> QED BY <1>1, <1>2, <1>4, <2>1 DEF Proceed, locals
<1>5. CASE Ensure(r) \/ Create(r)
  <2>1. CASE Proceed(r)
    BY <1>4, <1>5, <2>1 DEF Ensure, Create, At
  <2>2. CASE pc[r] = "ensure" /\ Goto(r, "create") /\ UNCHANGED <<call, locals>>
    <3>1. call[r] \in Calls[r] /\ DOMAIN call = Reqs
      BY <2>2 DEF CleanInv, Shapes, Slot
    <3> QED BY <1>2, <2>2, <3>1 DEF locals
  <2> QED BY <1>5, <2>1, <2>2 DEF Ensure, Create, At
<1>6. CASE ReadConfig(r) \/ WriteConfig(r) \/ WriteConfigFails(r)
  <2>1. /\ call[r] \in Calls[r] /\ DOMAIN call = Reqs
        /\ pc[r] = "merge" => call[r].op = "materialize"
        /\ pc[r] = "write" => call[r].op \in {"put", "materialize"}
    BY <1>6 DEF CleanInv, Shapes, Slot, ReadConfig, WriteConfig, WriteConfigFails, At
  <2>2. CASE ReadConfig(r)
    BY <1>2, <2>1, <2>2 DEF ReadConfig, At
  <2>3. CASE WriteConfig(r)
    BY <1>1, <1>2, <2>1, <2>3 DEF WriteConfig, At, locals
  <2>4. CASE WriteConfigFails(r)
    BY <1>1, <2>4 DEF WriteConfigFails, Fail
  <2> QED BY <1>6, <2>2, <2>3, <2>4
<1> QED BY <1>3, <1>5, <1>6 DEF Configure

\* An attempt between two steps, at a step or behind the last one.
LEMMA AtStep ==
  ASSUME CleanInv, NEW r \in Reqs, Reached(r)
  PROVE  pos[r] \in 1..Len(script) /\ script \in Scripts
<1>1. script \in Scripts /\ pos[r] \in Nat \ {0}
  BY DEF CleanInv, Shapes
<1>2. Len(script) \in Nat
  BY <1>1, ScriptLength
<1> QED BY <1>1, <1>2 DEF Reached

LEMMA AtWork ==
  ASSUME CleanInv, NEW r \in Reqs, pc[r] \in {"fetch", "open", "task"}
  PROVE  /\ pos[r] \in 1..Len(script) /\ script \in Scripts
         /\ Step(r).dest \in Paths
         /\ call[r] \in Calls[r] /\ call[r].op = "materialize"
<1>1. pos[r] \in 1..Len(script) /\ script \in Scripts
  BY DEF CleanInv, Shapes, Slot
<1>2. Step(r).dest \in Paths
  BY <1>1, CleanStep DEF Step
<1> QED BY <1>1, <1>2 DEF CleanInv, Slot

\* An attempt that fails, after a write or without one.
LEMMA Fails ==
  ASSUME CleanInv, NEW r \in Reqs, Fail(r), script' = script,
         files' \in [Paths -> Clean], leftovers' \subseteq Pending
  PROVE  CleanInv'
BY Returns DEF Fail, CleanInv

\* A task begins with clean writes.
LEMMA Begins ==
  ASSUME CleanInv, NEW r \in Reqs, NEW ws \in Seq(Writes), Begin(r, ws),
         pos[r] \in 1..Len(script), pc[r] # "idle", call[r].op = "materialize"
  PROVE  CleanInv'
<1>1. /\ UNCHANGED <<script, files, leftovers, call, pos, url>>
      /\ pc' = [pc EXCEPT ![r] = "task"] /\ todo' = [todo EXCEPT ![r] = ws]
  BY DEF Begin, Goto, world
<1>2. Shapes' /\ todo' \in [Reqs -> Seq(Writes)]
  BY <1>1 DEF CleanInv, Shapes
<1>3. ASSUME NEW q \in Reqs PROVE Slot(q)'
  <2>1. CASE q = r
    BY <1>1, <2>1 DEF CleanInv, Shapes, Slot
  <2>2. CASE q # r
    BY <1>1, <2>2, SameSlot DEF CleanInv, Shapes
  <2> QED BY <2>1, <2>2
<1> QED BY <1>1, <1>2, <1>3 DEF CleanInv

LEMMA DownloadStep ==
  ASSUME CleanInv, NEW r \in Reqs,
         Download(r) \/ Downloaded(r) \/ DownloadFails(r) \/ Unpack(r) \/ UnpackFails(r)
  PROVE  CleanInv'
<1>1. CASE Download(r)
  <2>1. /\ pos[r] \in 1..Len(script) /\ pc[r] = "step" /\ Step(r).action = "download"
        /\ call[r] \in Calls[r] /\ call[r].op = "materialize"
    BY <1>1, AtStep DEF Download, Executes, Reached, At, CleanInv, Slot
  <2>2. ResolvedUrl(r) \in Sources(r)
    BY DEF ResolvedUrl, Sources
  <2>3. /\ UNCHANGED <<script, files, leftovers, call, pos, todo>>
        /\ pc' = [pc EXCEPT ![r] = "fetch"] /\ url' = [url EXCEPT ![r] = ResolvedUrl(r)]
    BY <1>1 DEF Download, Goto, world
  <2>4. Shapes'
    BY <2>3 DEF CleanInv, Shapes
  <2>5. ASSUME NEW q \in Reqs PROVE Slot(q)'
    <3>1. CASE q = r
      <4>1. pc'[r] = "fetch" /\ url'[r] \in Sources(r)
        BY <2>2, <2>3 DEF CleanInv, Shapes
      <4>2. Sources(r)' = Sources(r) /\ Step(r)' = Step(r)
        BY <2>3 DEF Sources, Step
      <4> QED BY <2>1, <2>3, <3>1, <4>1, <4>2 DEF Slot
    <3>2. CASE q # r
      BY <2>3, <3>2, SameSlot DEF CleanInv, Shapes
    <3> QED BY <3>1, <3>2
  <2> QED BY <2>3, <2>4, <2>5 DEF CleanInv
<1>2. CASE Downloaded(r)
  <2>1. pc[r] = "fetch" /\ UNCHANGED <<script, leftovers>>
    BY <1>2 DEF Downloaded, At
  <2>2. Step(r).dest \in Paths /\ call[r] \in Calls[r] /\ call[r].op = "materialize"
    BY <2>1, AtWork
  <2>3. files' \in [Paths -> Clean]
    <3>1. PICK data \in Served[url[r]] :
            Verified(Step(r), data) /\ files' = Write(files, WriteOf(Step(r).dest, data))
      BY <1>2 DEF Downloaded
    <3>2. WriteOf(Step(r).dest, data) \in Writes
      BY <2>1, <2>2, <3>1, VerifiedIsClean, CleanWriteOf
    <3> QED BY <3>1, <3>2, CleanWrite DEF CleanInv
  <2>4. CASE Advance(r)
    BY <2>1, <2>3, <2>4, Advances DEF CleanInv
  <2>5. CASE Goto(r, "open") /\ UNCHANGED <<call, locals>>
    <3>1. Shapes' /\ todo' = todo
      BY <2>1, <2>5 DEF CleanInv, Shapes, Goto, locals
    <3>2. ASSUME NEW q \in Reqs PROVE Slot(q)'
      <4>1. CASE q = r
        BY <2>1, <2>5, <4>1 DEF CleanInv, Shapes, Slot, Goto, locals
      <4>2. CASE q # r
        BY <2>1, <2>5, <4>2, SameSlot DEF CleanInv, Shapes, Goto, locals
      <4> QED BY <4>1, <4>2
    <3> QED BY <2>1, <2>3, <3>1, <3>2 DEF CleanInv
  <2> QED BY <1>2, <2>4, <2>5 DEF Downloaded
<1>3. CASE DownloadFails(r)
  <2>1. pc[r] = "fetch" /\ Fail(r) /\ UNCHANGED <<script, leftovers>>
    BY <1>3 DEF DownloadFails, At
  <2>2. files' \in [Paths -> Clean]
    BY <1>3, <2>1, AtWork, HalfIsClean DEF DownloadFails, CleanInv
  <2> QED BY <2>1, <2>2, Fails DEF CleanInv
<1>4. CASE Unpack(r)
  <2>1. /\ pc[r] = "open" /\ Archive(files[Step(r).dest])
        /\ Begin(r, Entries[files[Step(r).dest]])
    BY <1>4 DEF Unpack, At
  <2>2. files[Step(r).dest] \in Clean
    BY <2>1, AtWork DEF CleanInv
  <2>3. Entries[files[Step(r).dest]] \in Seq(Writes)
    BY <2>1, <2>2, CleanEntries
  <2> QED BY <2>1, <2>3, AtWork, Begins
<1>5. CASE UnpackFails(r)
  BY <1>5, Fails DEF UnpackFails, CleanInv, world
<1> QED BY <1>1, <1>2, <1>3, <1>4, <1>5

LEMMA OtherStep ==
  ASSUME CleanInv, NEW r \in Reqs,
         CallSteps(r) \/ SkipStep(r) \/ BeginTask(r) \/ QuickStep(r) \/ StepFails(r)
  PROVE  CleanInv'
<1>1. CASE CallSteps(r)
  <2>1. PICK c \in Calls[r] : c.op = "materialize" /\ call' = [call EXCEPT ![r] = c]
    BY <1>1 DEF CallSteps, MayBegin
  <2>2. /\ pc' = [pc EXCEPT ![r] = "step"]
        /\ UNCHANGED <<script, files, leftovers, pos, url, todo>>
    BY <1>1 DEF CallSteps, Goto, world, locals
  <2>3. Shapes'
    BY <2>1, <2>2 DEF CleanInv, Shapes
  <2>4. ASSUME NEW q \in Reqs PROVE Slot(q)'
    <3>1. CASE q = r
      BY <2>1, <2>2, <3>1 DEF CleanInv, Shapes, Slot
    <3>2. CASE q # r
      BY <2>1, <2>2, <3>2, SameSlot DEF CleanInv, Shapes
    <3> QED BY <3>1, <3>2
  <2> QED BY <2>2, <2>3, <2>4 DEF CleanInv
<1>2. CASE SkipStep(r)
  BY <1>2, Advances DEF SkipStep, Reached, At, CleanInv, world
<1>3. ASSUME Reached(r)
      PROVE  /\ pc[r] = "step" /\ pos[r] \in 1..Len(script) /\ script \in Scripts
             /\ call[r].op = "materialize" /\ Step(r).dest \in Paths
  BY <1>3, AtStep, CleanStep DEF Reached, At, CleanInv, Slot, Step
<1>4. CASE BeginTask(r)
  <2>1. /\ Reached(r) /\ Step(r).action \in Long /\ Possible(files, Step(r))
        /\ Begin(r, Effect(files, Step(r)))
    BY <1>4 DEF BeginTask, Executes
  <2>2. Effect(files, Step(r)) \in Seq(Writes)
    BY <1>3, <2>1, LongEffect DEF CleanInv, Step
  <2> QED BY <1>3, <2>1, <2>2, Begins
<1>5. CASE QuickStep(r)
  <2>1. /\ Reached(r) /\ Step(r).action \in Quick /\ Advance(r)
        /\ files' = WriteAll(files, Effect(files, Step(r)))
        /\ UNCHANGED <<script, leftovers>>
    BY <1>5 DEF QuickStep, Executes
  <2>2. Effect(files, Step(r)) \in Seq(Writes) /\ Len(Effect(files, Step(r))) <= 2
    BY <1>3, <2>1, QuickEffect DEF CleanInv, Step
  <2>3. files' \in [Paths -> Clean]
    BY <2>1, <2>2, CleanWrites DEF CleanInv
  <2> QED BY <1>3, <2>1, <2>3, Advances DEF CleanInv
<1>6. CASE StepFails(r)
  <2>1. Reached(r) /\ Fail(r) /\ UNCHANGED <<script, leftovers>>
    BY <1>6 DEF StepFails, Executes
  <2>2. files' \in [Paths -> Clean]
    BY <1>3, <1>6, <2>1, HalfIsClean DEF StepFails, CleanInv
  <2> QED BY <2>1, <2>2, Fails DEF CleanInv
<1> QED BY <1>1, <1>2, <1>4, <1>5, <1>6

LEMMA TaskStep ==
  ASSUME CleanInv, NEW r \in Reqs,
         TaskWrites(r) \/ TaskEnds(r) \/ TaskFails(r) \/ Validate(r) \/ ValidateFails(r)
  PROVE  CleanInv'
<1>1. ASSUME todo[r] # <<>>
      PROVE  Head(todo[r]) \in Writes /\ Tail(todo[r]) \in Seq(Writes)
  BY <1>1 DEF CleanInv
<1>2. CASE TaskWrites(r)
  <2>1. /\ todo[r] # <<>> /\ files' = Write(files, Head(todo[r]))
        /\ todo' = [todo EXCEPT ![r] = Tail(@)]
        /\ UNCHANGED <<script, leftovers, pc, call, pos, url>>
    BY <1>2 DEF TaskWrites
  <2>2. files' \in [Paths -> Clean]
    BY <1>1, <2>1, CleanWrite DEF CleanInv
  <2>3. todo' \in [Reqs -> Seq(Writes)] /\ Shapes'
    BY <1>1, <2>1 DEF CleanInv, Shapes
  <2>4. ASSUME NEW q \in Reqs PROVE Slot(q)'
    BY <2>1, SameSlot DEF CleanInv
  <2> QED BY <2>1, <2>2, <2>3, <2>4 DEF CleanInv
<1>3. CASE TaskEnds(r)
  <2>1. pc[r] = "task" /\ Advance(r) /\ UNCHANGED <<script, leftovers>>
    BY <1>3 DEF TaskEnds, At
  <2>2. files' \in [Paths -> Clean]
    <3>1. WriteOf(Step(r).dest, Missing) \in Writes
      BY <2>1, AtWork, CleanConstants, CleanWriteOf
    <3> QED BY <1>3, <3>1, CleanWrite DEF TaskEnds, CleanInv
  <2> QED BY <2>1, <2>2, Advances DEF CleanInv
<1>4. CASE TaskFails(r)
  <2>1. Fail(r) /\ UNCHANGED <<script, leftovers>>
    BY <1>4 DEF TaskFails
  <2>2. files' \in [Paths -> Clean]
    BY <1>1, <1>4, HalfIsClean DEF TaskFails, CleanInv, Writes
  <2> QED BY <2>1, <2>2, Fails DEF CleanInv
<1>5. CASE Validate(r)
  BY <1>5, Returns DEF Validate, CleanInv, world
<1>6. CASE ValidateFails(r)
  BY <1>6, Fails DEF ValidateFails, CleanInv, world
<1> QED BY <1>2, <1>3, <1>4, <1>5, <1>6

LEMMA LeftoverStep ==
  ASSUME CleanInv, NEW w \in leftovers, Leftover(w)
  PROVE  CleanInv'
<1>1. w \in Seq(Writes) /\ w # <<>>
  BY DEF CleanInv, Pending
<1>2. Head(w) \in Writes /\ Tail(w) \in Seq(Writes)
  BY <1>1
<1>3. files' \in [Paths -> Clean]
  BY <1>2, CleanWrite DEF Leftover, CleanInv
<1>4. leftovers' \subseteq Pending
  BY <1>2 DEF Leftover, CleanInv, Pending
<1>5. Shapes' /\ todo' = todo
  BY DEF CleanInv, Shapes, Leftover, locals
<1>6. ASSUME NEW q \in Reqs PROVE Slot(q)'
  BY SameSlot DEF CleanInv, Leftover, locals
<1> QED BY <1>3, <1>4, <1>5, <1>6 DEF CleanInv

LEMMA RegistrationStep == ASSUME CleanInv, NEW r \in Reqs, Registration(r) PROVE CleanInv'
<1>1. CASE Reregister(r)
  <2>1. PICK c \in Calls[r] : call' = [call EXCEPT ![r] = c]
    BY <1>1 DEF Reregister, RegisterCall
  <2>2. /\ files' = [p \in Paths |-> Missing] /\ todo' = [todo EXCEPT ![r] = Unzip]
        /\ pc' = [pc EXCEPT ![r] = "extract"]
        /\ UNCHANGED <<script, leftovers, pos, url>>
    BY <1>1 DEF Reregister, Goto, Unmake
  <2>3. files' \in [Paths -> Clean] /\ todo' \in [Reqs -> Seq(Writes)] /\ Shapes'
    BY <2>1, <2>2, CleanConstants, SetupConstants DEF CleanInv, Shapes
  <2>4. ASSUME NEW q \in Reqs PROVE Slot(q)'
    <3>1. CASE q = r
      BY <2>1, <2>2, <3>1 DEF CleanInv, Shapes, Slot
    <3>2. CASE q # r
      BY <2>1, <2>2, <3>2, SameSlot DEF CleanInv, Shapes
    <3> QED BY <3>1, <3>2
  <2> QED BY <2>2, <2>3, <2>4 DEF CleanInv
<1>2. CASE RemovalFails(r)
  <2>1. UNCHANGED <<script, leftovers, pc, call, pos, url, todo>>
    BY <1>2 DEF RemovalFails, Unmake, locals
  <2>2. files' \in [Paths -> Clean]
    BY <1>2, CleanConstants DEF RemovalFails, CleanInv
  <2>3. \A q \in Reqs : Slot(q)'
    BY <2>1, SameSlot DEF CleanInv
  <2> QED BY <2>1, <2>2, <2>3 DEF CleanInv, Shapes
<1>3. ASSUME todo[r] # <<>>
      PROVE  Head(todo[r]) \in Writes /\ Tail(todo[r]) \in Seq(Writes)
  BY <1>3 DEF CleanInv
<1>4. CASE Extracts(r)
  <2>1. /\ todo[r] # <<>> /\ files' = Write(files, Head(todo[r]))
        /\ todo' = [todo EXCEPT ![r] = Tail(@)]
        /\ UNCHANGED <<script, leftovers, pc, call, pos, url>>
    BY <1>4 DEF Extracts
  <2>2. files' \in [Paths -> Clean]
    BY <1>3, <2>1, CleanWrite DEF CleanInv
  <2>3. todo' \in [Reqs -> Seq(Writes)] /\ Shapes'
    BY <1>3, <2>1 DEF CleanInv, Shapes
  <2>4. ASSUME NEW q \in Reqs PROVE Slot(q)'
    BY <2>1, SameSlot DEF CleanInv
  <2> QED BY <2>1, <2>2, <2>3, <2>4 DEF CleanInv
<1>5. CASE ExtractFails(r)
  <2>1. todo[r] # <<>> /\ Return(r) /\ script' = script
    BY <1>5 DEF ExtractFails
  <2>2. files' \in [Paths -> Clean]
    <3>1. CASE UNCHANGED files
      BY <3>1 DEF CleanInv
    <3>2. CASE Half(Head(todo[r]).path)
      BY <1>3, <2>1, <3>2, HalfIsClean DEF Writes
    <3> QED BY <1>5, <3>1, <3>2 DEF ExtractFails
  <2>3. leftovers' \subseteq Pending
    BY <1>5, <2>1 DEF ExtractFails, CleanInv, Pending
  <2> QED BY <2>1, <2>2, <2>3, Returns DEF CleanInv
<1>6. CASE Registered(r)
  BY <1>6, Returns DEF Registered, CleanInv, world
<1> QED BY <1>1, <1>2, <1>4, <1>5, <1>6 DEF Registration

LEMMA CleanStepHolds == ASSUME CleanInv, [MNext]_mvars PROVE CleanInv'
<1>1. ASSUME NEW r \in Reqs, Drop(r) PROVE CleanInv'
  <2>1. Fail(r) /\ UNCHANGED script
    BY <1>1 DEF Drop
  <2>2. leftovers' \subseteq Pending
    BY <1>1 DEF Drop, CleanInv, Pending
  <2>3. files' \in [Paths -> Clean]
    <3>1. CASE UNCHANGED files
      BY <3>1 DEF CleanInv
    <3>2. CASE Executes(r, {"remove"}) /\ files' = WriteAll(files, Effect(files, Step(r)))
      <4>1. Reached(r) /\ Step(r).action \in Quick
        BY <3>2 DEF Executes, Quick
      <4>2. Effect(files, Step(r)) \in Seq(Writes) /\ Len(Effect(files, Step(r))) <= 2
        BY <4>1, AtStep, QuickEffect DEF CleanInv, Step
      <4> QED BY <3>2, <4>2, CleanWrites DEF CleanInv
    <3> QED BY <1>1, <3>1, <3>2 DEF Drop
  <2> QED BY <2>1, <2>2, <2>3, Fails
<1>3. ASSUME NEW w \in leftovers, LeftoverDies(w) PROVE CleanInv'
  <2>1. /\ leftovers' \subseteq leftovers
        /\ UNCHANGED <<script, files, pc, call, pos, url, todo>>
    BY <1>3 DEF LeftoverDies, locals
  <2>2. \A q \in Reqs : Slot(q)'
    BY <2>1, SameSlot DEF CleanInv
  <2> QED BY <2>1, <2>2 DEF CleanInv, Shapes
<1>4. CASE UNCHANGED mvars
  <2>1. UNCHANGED <<script, files, leftovers, pc, call, pos, url, todo>>
    BY <1>4 DEF mvars, world, locals
  <2>2. \A q \in Reqs : Slot(q)'
    BY <2>1, SameSlot DEF CleanInv
  <2> QED BY <2>1, <2>2 DEF CleanInv, Shapes
<1>5. ASSUME NEW r \in Reqs, Setup(r) PROVE CleanInv'
  BY <1>5, DownloadStep, OtherStep, TaskStep DEF Setup
<1> QED BY <1>1, <1>3, <1>4, <1>5, ConfigureStep, LeftoverStep, RegistrationStep DEF MNext

LEMMA CleanInit == ASSUME MInit PROVE CleanInv
<1>1. Shapes
  BY DEF MInit, Shapes
<1>2. files \in [Paths -> Clean] /\ todo \in [Reqs -> Seq(Writes)] /\ leftovers \subseteq Pending
  BY SetupConstants DEF MInit
<1>3. \A r \in Reqs : Slot(r)
  BY DEF MInit, Slot
<1> QED BY <1>1, <1>2, <1>3 DEF CleanInv

(* What has a wrong checksum never gets into a package directory: for any     *)
(* scripts and overrides, any number of attempts that overlap, fail or are    *)
(* dropped, and whatever tasks they leave behind.                             *)
THEOREM NothingUnverifiedEver == MSpec => []NothingUnverified
<1>1. MInit => CleanInv
  BY CleanInit
<1>2. CleanInv => NothingUnverified
  BY DEF CleanInv, Clean, NothingUnverified
<1> QED BY <1>1, <1>2, CleanStepHolds, PTL DEF MSpec
--------------------------------------------------------------------------------
(* The other variables, and the count of downloads: no more than there are   *)
(* download steps up to where the attempt is.                                *)
DownloadSteps(n) == {i \in 1..n : script[i].action = "download"}

Counted(r) == IF pc[r] \in {"fetch", "open", "task"} THEN pos[r] ELSE pos[r] - 1

Executing == {"step", "fetch", "open", "task"}

SlotType(r) ==
  /\ pc[r] \in Labels
  /\ call[r] \in Calls[r] \cup {NoCall}
  /\ pc[r] = "idle" <=> call[r] = NoCall
  /\ pos[r] \in 1..Len(script) + 1
  /\ pc[r] \in {"fetch", "open", "task"} => pos[r] <= Len(script)
  /\ pc[r] \notin Executing => pos[r] = 1
  /\ dl[r] \in Nat /\ dl[r] <= Cardinality(DownloadSteps(Counted(r)))
  /\ pc[r] \notin {"task", "extract"} => todo[r] = <<>>
  /\ text[r] \in Config

Few(tasks) == IsFiniteSet(tasks) /\ Cardinality(tasks) <= MaxLeftovers

Rest ==
  /\ config \in Config
  /\ Few(leftovers)
  /\ last \in {"none", "ok", "failed"}
  /\ tainted \subseteq Reqs
  /\ harm \subseteq {"overlap", "half", "shift", "torn"}
  /\ asked \subseteq Keys

TypeInv ==
  /\ CleanInv
  /\ DOMAIN dl = Reqs /\ DOMAIN text = Reqs
  /\ \A r \in Reqs : SlotType(r)
  /\ Rest

LEMMA DownloadCount ==
  ASSUME NEW n \in Nat
  PROVE  /\ IsFiniteSet(DownloadSteps(n)) /\ Cardinality(DownloadSteps(n)) \in Nat
         /\ \A m \in 0..n : Cardinality(DownloadSteps(m)) <= Cardinality(DownloadSteps(n))
<1>1. \A m \in 0..n : IsFiniteSet(1..m)
  BY FS_Interval
<1>2. \A m \in 0..n : DownloadSteps(m) \subseteq DownloadSteps(n) /\ DownloadSteps(m) \subseteq 1..m
  BY DEF DownloadSteps
<1>3. \A m \in 0..n : IsFiniteSet(DownloadSteps(m))
  BY <1>1, <1>2, FS_Subset
<1>4. n \in 0..n
  OBVIOUS
<1> QED BY <1>2, <1>3, <1>4, FS_Subset, FS_CardinalityType

\* A step that is a download counts one more.
LEMMA OneMoreDownload ==
  ASSUME NEW n \in Nat \ {0}, script[n].action = "download"
  PROVE  Cardinality(DownloadSteps(n)) = Cardinality(DownloadSteps(n - 1)) + 1
<1>1. /\ DownloadSteps(n) = DownloadSteps(n - 1) \cup {n}
      /\ n \notin DownloadSteps(n - 1)
  BY DEF DownloadSteps
<1>2. IsFiniteSet(DownloadSteps(n - 1))
  BY DownloadCount
<1> QED BY <1>1, <1>2, FS_AddElement

LEMMA TypeLength == ASSUME TypeInv PROVE script \in Scripts /\ Len(script) \in Nat
  BY ScriptLength DEF TypeInv, CleanInv, Shapes

\* Another slot, or a step that leaves the slots alone.
LEMMA SameSlotType ==
  ASSUME NEW r \in Reqs, SlotType(r), script' = script,
         UNCHANGED <<pc[r], call[r], pos[r], dl[r], todo[r], text[r]>>
  PROVE  SlotType(r)'
<1>1. DownloadSteps(Counted(r))' = DownloadSteps(Counted(r))
  BY DEF Counted, DownloadSteps
<1> QED BY <1>1 DEF SlotType

\* A handler that returns.
LEMMA ReturnType ==
  ASSUME TypeInv, NEW r \in Reqs, Return(r), script' = script
  PROVE  /\ DOMAIN dl' = Reqs /\ DOMAIN text' = Reqs
         /\ \A q \in Reqs : SlotType(q)'
<1> USE DEF TypeInv
<1>1. \A q \in Reqs \ {r} : SlotType(q)'
  BY SameSlotType DEF Return, Goto, CleanInv, Shapes
<1>2. SlotType(r)'
  <2>1. /\ pc'[r] = "idle" /\ call'[r] = NoCall /\ pos'[r] = 1 /\ dl'[r] = 0
        /\ todo'[r] = <<>> /\ text'[r] = Text
    BY DEF Return, Goto, CleanInv, Shapes
  <2>2. Cardinality(DownloadSteps(0)') = 0
    <3>1. DownloadSteps(0)' = {}
      BY DEF DownloadSteps
    <3> QED BY <3>1, FS_EmptySet
  <2>3. Counted(r)' = 0 /\ Text \in Config /\ Len(script') \in Nat
    BY <2>1, TypeLength DEF Counted, Text, Config
  <2> QED BY <2>1, <2>2, <2>3 DEF SlotType, Labels, Executing
<1> QED BY <1>1, <1>2 DEF Return

\* An attempt that goes on to the next step.
LEMMA AdvanceType ==
  ASSUME TypeInv, NEW r \in Reqs, Advance(r), script' = script,
         pc[r] \in {"step", "fetch", "open", "task"}, pos[r] <= Len(script)
  PROVE  /\ DOMAIN dl' = Reqs /\ DOMAIN text' = Reqs
         /\ \A q \in Reqs : SlotType(q)'
<1> USE DEF TypeInv
<1>1. \A q \in Reqs \ {r} : SlotType(q)'
  BY SameSlotType DEF Advance, Goto, CleanInv, Shapes
<1>2. SlotType(r)'
  <2>1. /\ pc'[r] = "step" /\ pos'[r] = pos[r] + 1 /\ todo'[r] = <<>>
        /\ UNCHANGED <<call, dl, text>>
    BY DEF Advance, Goto, CleanInv, Shapes
  <2>2. pos[r] \in Nat \ {0} /\ Len(script) \in Nat
    BY TypeLength DEF CleanInv, Shapes
  <2>3. dl[r] <= Cardinality(DownloadSteps(pos[r]))
    <3>1. Counted(r) \in 0..pos[r]
      BY <2>2 DEF Counted
    <3>2. /\ Cardinality(DownloadSteps(Counted(r))) \in Nat
          /\ Cardinality(DownloadSteps(pos[r])) \in Nat
          /\ Cardinality(DownloadSteps(Counted(r))) <= Cardinality(DownloadSteps(pos[r]))
      BY <2>2, <3>1, DownloadCount
    <3> QED BY <3>2 DEF SlotType
  <2>4. Counted(r)' = pos[r]
    BY <2>1, <2>2 DEF Counted
  <2>5. DownloadSteps(Counted(r))' = DownloadSteps(pos[r])
    BY <2>4 DEF DownloadSteps
  <2> QED BY <2>1, <2>2, <2>3, <2>5 DEF SlotType, Labels, Executing
<1> QED BY <1>1, <1>2 DEF Advance

\* A handler that moves on and counts no download.
LEMMA MoveType ==
  ASSUME TypeInv, NEW r \in Reqs, script' = script, UNCHANGED <<pos, dl>>,
         \A q \in Reqs \ {r} : UNCHANGED <<pc[q], call[q], todo[q], text[q]>>,
         DOMAIN text' = Reqs, text'[r] \in Config,
         pc'[r] \in Labels \ {"idle"}, call'[r] \in Calls[r],
         pc[r] \in {"fetch", "open", "task"} => pc'[r] \in {"fetch", "open", "task"},
         pc'[r] \notin Executing => pc[r] \notin Executing,
         pc'[r] \in {"fetch", "open", "task"} => pos[r] <= Len(script),
         pc'[r] \notin {"task", "extract"} => todo'[r] = <<>>
  PROVE  /\ DOMAIN dl' = Reqs /\ DOMAIN text' = Reqs
         /\ \A q \in Reqs : SlotType(q)'
<1> USE DEF TypeInv
<1>1. \A q \in Reqs \ {r} : SlotType(q)'
  BY SameSlotType
<1>2. SlotType(r)'
  <2>1. pos[r] \in Nat \ {0} /\ Counted(r) \in 0..pos[r]
    BY DEF CleanInv, Shapes, Counted
  <2>2. Counted(r)' \in {Counted(r), pos[r]}
    BY <2>1 DEF Counted
  <2>3. dl[r] <= Cardinality(DownloadSteps(Counted(r)'))
    <3>1. /\ Cardinality(DownloadSteps(Counted(r))) \in Nat
          /\ Cardinality(DownloadSteps(pos[r])) \in Nat
          /\ Cardinality(DownloadSteps(Counted(r))) <= Cardinality(DownloadSteps(pos[r]))
      BY <2>1, DownloadCount
    <3> QED BY <2>2, <3>1 DEF SlotType
  <2>4. DownloadSteps(Counted(r))' = DownloadSteps(Counted(r)')
    BY DEF DownloadSteps
  <2>5. NoCall \notin Calls[r]
    BY CallConstants
  <2> QED BY <2>3, <2>4, <2>5 DEF SlotType
<1> QED BY <1>1, <1>2

LEMMA DownloadType ==
  ASSUME TypeInv, NEW r \in Reqs, Download(r)
  PROVE  /\ DOMAIN dl' = Reqs /\ DOMAIN text' = Reqs
         /\ \A q \in Reqs : SlotType(q)'
<1> USE DEF TypeInv
<1>1. /\ pc[r] = "step" /\ pos[r] <= Len(script) /\ script[pos[r]].action = "download"
      /\ pc' = [pc EXCEPT ![r] = "fetch"] /\ dl' = [dl EXCEPT ![r] = @ + 1]
      /\ UNCHANGED <<script, call, pos, todo, text>>
  BY DEF Download, Executes, Reached, At, Goto, Step, world
<1>2. \A q \in Reqs \ {r} : SlotType(q)'
  BY <1>1, SameSlotType DEF CleanInv, Shapes
<1>3. SlotType(r)'
  <2>1. pos[r] \in Nat \ {0} /\ Counted(r) = pos[r] - 1 /\ Counted(r)' = pos[r]
    BY <1>1 DEF CleanInv, Shapes, Counted
  <2>2. Cardinality(DownloadSteps(pos[r])) = Cardinality(DownloadSteps(pos[r] - 1)) + 1
    BY <1>1, <2>1, OneMoreDownload
  <2>3. Cardinality(DownloadSteps(pos[r] - 1)) \in Nat
    BY <2>1, DownloadCount
  <2>4. dl'[r] \in Nat /\ dl'[r] <= Cardinality(DownloadSteps(pos[r]))
    BY <1>1, <2>1, <2>2, <2>3 DEF SlotType
  <2>5. DownloadSteps(Counted(r))' = DownloadSteps(pos[r])
    BY <1>1, <2>1 DEF DownloadSteps
  <2>6. pc'[r] = "fetch" /\ pc[r] # "idle"
    BY <1>1 DEF CleanInv, Shapes
  <2> QED BY <1>1, <2>4, <2>5, <2>6 DEF SlotType, Labels, Executing
<1> QED BY <1>1, <1>2, <1>3

\* What is merged and what is put is a configuration.
LEMMA MergeType ==
  ASSUME NEW c \in Config, NEW want \in SUBSET Keys
  PROVE  Merge(c, want) \in Config
BY DEF Merge, Config

LEMMA ConfigureType ==
  ASSUME TypeInv, NEW r \in Reqs, Configure(r)
  PROVE  /\ DOMAIN dl' = Reqs /\ DOMAIN text' = Reqs
         /\ \A q \in Reqs : SlotType(q)'
         /\ config' \in Config /\ asked' \subseteq Keys
<1> USE DEF TypeInv
<1>0. /\ script' = script /\ DOMAIN text = Reqs /\ DOMAIN pc = Reqs /\ DOMAIN call = Reqs
      /\ pc[r] # "idle" => call[r] \in Calls[r]
      /\ pc[r] \notin {"task", "extract"} => todo[r] = <<>>
  BY DEF Configure, CallConfig, Ensure, Create, ReadConfig, WriteConfig, WriteConfigFails,
         world, CleanInv, Shapes, Slot, SlotType
<1>1. ASSUME NEW label \in {"ensure", "create", "merge", "write", "step"}, Goto(r, label),
             UNCHANGED <<pos, dl, todo>>, \A q \in Reqs \ {r} : UNCHANGED <<call[q], text[q]>>,
             DOMAIN text' = Reqs, text'[r] \in Config, call'[r] \in Calls[r],
             pc[r] \in {"idle", "ensure", "create", "merge", "write"}
      PROVE  /\ DOMAIN dl' = Reqs /\ DOMAIN text' = Reqs
             /\ \A q \in Reqs : SlotType(q)'
  <2>1. /\ pc'[r] = label /\ \A q \in Reqs \ {r} : pc'[q] = pc[q]
        /\ todo'[r] = <<>>
    BY <1>0, <1>1 DEF Goto
  <2> QED BY <1>0, <1>1, <2>1, MoveType DEF Labels, Executing
<1>2. ASSUME NEW q \in Reqs PROVE text[q] \in Config
  BY <1>2 DEF SlotType
<1>3. config \in Config /\ asked \subseteq Keys
  BY DEF Rest
<1>4. Text \in Config /\ Text.keys = {}
  BY DEF Text, Config
<1>5. ASSUME Proceed(r), pc[r] \in {"ensure", "create"}
      PROVE  /\ DOMAIN dl' = Reqs /\ DOMAIN text' = Reqs
             /\ \A q \in Reqs : SlotType(q)'
  <2>1. CASE Return(r)
    BY <1>0, <2>1, ReturnType
  <2>2. CASE /\ call[r].op = "put"
             /\ text' = [text EXCEPT ![r] = call[r].config]
             /\ Goto(r, "write")
             /\ UNCHANGED <<call, pos, dl, url, todo>>
    <3>1. call[r].config \in Config
      BY <1>0, <1>5, <2>2, CallConstants
    <3> QED BY <1>0, <1>1, <1>5, <2>2, <3>1
  <2>3. CASE Goto(r, "merge") /\ UNCHANGED <<call, locals>>
    BY <1>0, <1>1, <1>2, <1>5, <2>3 DEF locals
  <2> QED BY <1>5, <2>1, <2>2, <2>3 DEF Proceed
<1>6. CASE CallConfig(r)
  <2>1. PICK c \in Calls[r] : call' = [call EXCEPT ![r] = c]
    BY <1>6 DEF CallConfig
  <2>2. /\ Goto(r, "ensure") /\ UNCHANGED <<pos, dl, todo, text, config, asked>>
        /\ pc[r] = "idle"
    BY <1>6 DEF CallConfig, At, locals, world
  <2> QED BY <1>0, <1>1, <1>2, <1>3, <2>1, <2>2
<1>7. CASE Ensure(r)
  <2>1. pc[r] = "ensure" /\ UNCHANGED <<config, asked>>
    BY <1>7 DEF Ensure, At, world
  <2>2. CASE Goto(r, "create") /\ UNCHANGED <<call, locals>>
    BY <1>0, <1>1, <1>2, <1>3, <2>1, <2>2 DEF locals
  <2> QED BY <1>3, <1>5, <1>7, <2>1, <2>2 DEF Ensure
<1>8. CASE Create(r)
  BY <1>4, <1>5, <1>8 DEF Create, At
<1>9. CASE ReadConfig(r)
  <2>1. pc[r] = "merge" /\ call[r] \in Calls[r] /\ call[r].op = "materialize"
    BY <1>9 DEF ReadConfig, At, CleanInv, Slot
  <2>2. Merge(config, call[r].want) \in Config
    BY <1>3, <2>1, CallConstants, MergeType
  <2>3. /\ text' = [text EXCEPT ![r] = Merge(config, call[r].want)]
        /\ Goto(r, "write") /\ UNCHANGED <<call, pos, dl, todo, config, asked>>
    BY <1>9 DEF ReadConfig, world
  <2> QED BY <1>0, <1>1, <1>3, <2>1, <2>2, <2>3
<1>10. CASE WriteConfig(r)
  <2>1. /\ pc[r] = "write" /\ call[r] \in Calls[r] /\ config' = text[r]
        /\ call[r].op \in {"put", "materialize"}
    BY <1>10 DEF WriteConfig, At, CleanInv, Slot
  <2>2. text[r] \in Config /\ text[r].keys \subseteq Keys
    BY <1>2 DEF Config
  <2>3. CASE asked' = text[r].keys /\ Return(r)
    BY <1>0, <2>1, <2>2, <2>3, ReturnType
  <2>4. CASE /\ call[r].op # "put" /\ asked' = asked \cup call[r].want
             /\ Goto(r, "step") /\ UNCHANGED <<call, locals>>
    <3>1. asked' \subseteq Keys
      BY <1>3, <2>1, <2>4, CallConstants
    <3> QED BY <1>0, <1>1, <2>1, <2>2, <2>4, <3>1 DEF locals
  <2> QED BY <1>10, <2>3, <2>4 DEF WriteConfig
<1>11. CASE WriteConfigFails(r)
  <2>1. Return(r) /\ config' = Text /\ asked' = {}
    BY <1>11 DEF WriteConfigFails, Fail
  <2> QED BY <1>0, <1>4, <2>1, ReturnType
<1> QED BY <1>6, <1>7, <1>8, <1>9, <1>10, <1>11 DEF Configure

LEMMA SetupType ==
  ASSUME TypeInv, NEW r \in Reqs, Setup(r)
  PROVE  /\ DOMAIN dl' = Reqs /\ DOMAIN text' = Reqs
         /\ \A q \in Reqs : SlotType(q)'
<1> USE DEF TypeInv
<1>0. /\ script' = script /\ DOMAIN text = Reqs /\ DOMAIN pc = Reqs /\ DOMAIN call = Reqs
      /\ DOMAIN todo = Reqs
      /\ pc[r] # "idle" => call[r] \in Calls[r]
      /\ pc[r] \notin {"task", "extract"} => todo[r] = <<>>
      /\ pc[r] \in {"fetch", "open", "task"} => pos[r] <= Len(script)
      /\ text[r] \in Config
  BY DEF Setup, CallSteps, MayBegin, SkipStep, Download, Downloaded, DownloadFails, Unpack,
         UnpackFails, BeginTask, QuickStep, StepFails, Begin, TaskWrites, TaskEnds,
         TaskFails, Validate, ValidateFails, world, CleanInv, Shapes, Slot, SlotType
<1>1. CASE Return(r)
  BY <1>0, <1>1, ReturnType
<1>2. CASE Advance(r) /\ pc[r] \in {"step", "fetch", "open", "task"} /\ pos[r] <= Len(script)
  BY <1>0, <1>2, AdvanceType
<1>3. CASE CallSteps(r)
  <2>1. PICK c \in Calls[r] : call' = [call EXCEPT ![r] = c]
    BY <1>3 DEF CallSteps
  <2>2. /\ pc[r] = "idle" /\ Goto(r, "step") /\ UNCHANGED <<pos, dl, todo, text>>
    BY <1>3 DEF CallSteps, At, locals
  <2>3. pc'[r] = "step" /\ \A q \in Reqs \ {r} : pc'[q] = pc[q] /\ call'[q] = call[q]
    BY <1>0, <2>1, <2>2 DEF Goto
  <2> QED BY <1>0, <2>1, <2>2, <2>3, MoveType DEF Labels, Executing
<1>4. CASE Download(r)
  BY <1>4, DownloadType
<1>5. CASE Downloaded(r)
  <2>1. pc[r] = "fetch"
    BY <1>5 DEF Downloaded, At
  <2>2. CASE Goto(r, "open") /\ UNCHANGED <<call, locals>>
    <3>1. pc'[r] = "open" /\ \A q \in Reqs \ {r} : pc'[q] = pc[q]
      BY <1>0, <2>2 DEF Goto
    <3> QED BY <1>0, <2>1, <2>2, <3>1, MoveType DEF Labels, Executing, locals
  <2> QED BY <1>0, <1>2, <1>5, <2>1, <2>2 DEF Downloaded
<1>6. ASSUME NEW writes, Begin(r, writes), pc[r] \in {"step", "open"}, pos[r] <= Len(script)
      PROVE  /\ DOMAIN dl' = Reqs /\ DOMAIN text' = Reqs
             /\ \A q \in Reqs : SlotType(q)'
  <2>1. /\ pc'[r] = "task" /\ \A q \in Reqs \ {r} : pc'[q] = pc[q] /\ todo'[q] = todo[q]
        /\ UNCHANGED <<call, pos, dl, text>>
    BY <1>0, <1>6 DEF Begin, Goto
  <2> QED BY <1>0, <1>6, <2>1, MoveType DEF Labels, Executing
<1>7. CASE Unpack(r) \/ BeginTask(r)
  BY <1>0, <1>6, <1>7 DEF Unpack, BeginTask, Executes, Reached, At
<1>8. CASE SkipStep(r) \/ QuickStep(r) \/ TaskEnds(r)
  BY <1>0, <1>2, <1>8 DEF SkipStep, QuickStep, TaskEnds, Executes, Reached, At
<1>9. CASE TaskWrites(r)
  <2>1. /\ pc[r] = "task" /\ UNCHANGED <<pc, call, pos, dl, text>>
        /\ \A q \in Reqs \ {r} : todo'[q] = todo[q]
    BY <1>0, <1>9 DEF TaskWrites, At
  <2> QED BY <1>0, <2>1, MoveType DEF Labels, Executing
<1>10. CASE DownloadFails(r) \/ UnpackFails(r) \/ StepFails(r) \/ TaskFails(r)
            \/ Validate(r) \/ ValidateFails(r)
  BY <1>1, <1>10 DEF DownloadFails, UnpackFails, StepFails, TaskFails, Validate,
                     ValidateFails, Fail
<1> QED BY <1>3, <1>4, <1>5, <1>7, <1>8, <1>9, <1>10 DEF Setup

\* Tasks that outlive their attempts come one at a time and stay few.
LEMMA FewLeft ==
  ASSUME Few(leftovers), MaxLeftovers \in Nat
  PROVE  /\ \A w : Few(leftovers \ {w})
         /\ \A w \in leftovers : \A t : Few(((leftovers \ {w}) \cup {t}) \ {<<>>})
         /\ \A t : Cardinality(leftovers) < MaxLeftovers => Few(leftovers \cup {t})
<1>1. Cardinality(leftovers) \in Nat /\ IsFiniteSet(leftovers)
  BY FS_CardinalityType DEF Few
<1>2. ASSUME NEW S, NEW n \in Nat, IsFiniteSet(S), Cardinality(S) <= n, NEW T \in SUBSET S
      PROVE  IsFiniteSet(T) /\ Cardinality(T) <= n
  <2>1. IsFiniteSet(T) /\ Cardinality(T) <= Cardinality(S)
    BY <1>2, FS_Subset
  <2> QED BY <1>2, <2>1, FS_CardinalityType
<1>3. \A w : Few(leftovers \ {w})
  BY <1>1, <1>2 DEF Few
<1>4. ASSUME NEW S, IsFiniteSet(S), NEW t
      PROVE  IsFiniteSet(S \cup {t}) /\ Cardinality(S \cup {t}) <= Cardinality(S) + 1
  <2>1. Cardinality(S) \in Nat
    BY <1>4, FS_CardinalityType
  <2> QED BY <1>4, <2>1, FS_AddElement
<1>5. ASSUME NEW t, Cardinality(leftovers) < MaxLeftovers PROVE Few(leftovers \cup {t})
  <2>1. /\ IsFiniteSet(leftovers \cup {t})
        /\ Cardinality(leftovers \cup {t}) <= Cardinality(leftovers) + 1
    BY <1>1, <1>4
  <2>2. Cardinality(leftovers \cup {t}) \in Nat
    BY <2>1, FS_CardinalityType
  <2> QED BY <1>1, <1>5, <2>1, <2>2 DEF Few
<1>6. ASSUME NEW w \in leftovers, NEW t PROVE Few(((leftovers \ {w}) \cup {t}) \ {<<>>})
  <2> DEFINE S == leftovers \ {w}
  <2>1. IsFiniteSet(S) /\ Cardinality(S) = Cardinality(leftovers) - 1
    BY <1>1, FS_RemoveElement
  <2>2. IsFiniteSet(S \cup {t}) /\ Cardinality(S \cup {t}) <= Cardinality(S) + 1
    BY <2>1, <1>4
  <2>3. Cardinality(S \cup {t}) \in Nat
    BY <2>2, FS_CardinalityType
  <2>4. Cardinality(S \cup {t}) <= MaxLeftovers
    BY <1>1, <2>1, <2>2, <2>3 DEF Few
  <2> HIDE DEF S
  <2>5. (S \cup {t}) \ {<<>>} \in SUBSET (S \cup {t})
    OBVIOUS
  <2> QED BY <1>2, <2>2, <2>4, <2>5 DEF Few, S
<1> QED BY <1>3, <1>5, <1>6

\* A registration of the package.
LEMMA RegistrationType ==
  ASSUME TypeInv, NEW r \in Reqs, Registration(r)
  PROVE  /\ DOMAIN dl' = Reqs /\ DOMAIN text' = Reqs
         /\ \A q \in Reqs : SlotType(q)'
         /\ Rest'
<1> USE DEF TypeInv
<1>0. /\ DOMAIN pc = Reqs /\ DOMAIN call = Reqs /\ DOMAIN todo = Reqs /\ DOMAIN text = Reqs
      /\ DOMAIN dl = Reqs
      /\ SlotType(r) /\ Few(leftovers) /\ MaxLeftovers \in Nat
  BY SetupConstants DEF CleanInv, Shapes, Rest
<1>1. CASE Reregister(r)
  <2>1. PICK c \in Calls[r] : call' = [call EXCEPT ![r] = c]
    BY <1>1 DEF Reregister, RegisterCall
  <2>2. /\ pc[r] = "idle" /\ pc'[r] = "extract" /\ call'[r] = c
        /\ \A q \in Reqs \ {r} : UNCHANGED <<pc[q], call[q], todo[q], text[q]>>
        /\ UNCHANGED <<script, pos, dl, text>>
    BY <1>0, <1>1, <2>1 DEF Reregister, At, Goto, Unmake
  <2>3. Rest'
    BY <1>1 DEF Reregister, Unmake, Rest, Few
  <2> QED BY <1>0, <2>2, <2>3, MoveType DEF SlotType, Labels, Executing
<1>2. CASE RemovalFails(r)
  <2>1. UNCHANGED <<script, pc, call, pos, dl, todo, text>> /\ Rest'
    BY <1>2 DEF RemovalFails, Unmake, locals, Rest, Few
  <2> QED BY <1>0, <2>1, SameSlotType
<1>3. CASE Extracts(r)
  <2>1. /\ pc[r] = "extract" /\ UNCHANGED <<script, pc, call, pos, dl, text>>
        /\ \A q \in Reqs \ {r} : todo'[q] = todo[q]
    BY <1>0, <1>3 DEF Extracts, At
  <2>2. Rest' /\ call[r] \in Calls[r]
    BY <1>0, <1>3, <2>1 DEF Extracts, Rest, Few, SlotType
  <2> QED BY <1>0, <2>1, <2>2, MoveType DEF SlotType, Labels, Executing
<1>4. CASE ExtractFails(r)
  <2>1. Few(leftovers')
    BY <1>0, <1>4, FewLeft DEF ExtractFails
  <2>2. harm' \subseteq {"overlap", "half", "shift", "torn"}
    BY <1>4 DEF ExtractFails, Half, Rest
  <2> QED BY <1>4, <2>1, <2>2, ReturnType DEF ExtractFails, Rest, Few
<1>5. CASE Registered(r)
  BY <1>5, ReturnType DEF Registered, Rest, Few, world
<1> QED BY <1>1, <1>2, <1>3, <1>4, <1>5 DEF Registration

LEMMA TypeInvNext == ASSUME TypeInv, [MNext]_mvars PROVE TypeInv'
<1> USE DEF TypeInv
<1>1. CleanInv'
  BY CleanStepHolds
<1>2. Few(leftovers) /\ MaxLeftovers \in Nat
  BY SetupConstants DEF Rest
<1>3. ASSUME NEW r \in Reqs, Configure(r) PROVE TypeInv'
  <2>1. Rest'
    BY <1>3, ConfigureType
    DEF Rest, Few, Configure, CallConfig, Overlap, Ensure, Create, ReadConfig, WriteConfig,
        WriteConfigFails, Fail, Attempts, world
  <2> QED BY <1>1, <1>3, <2>1, ConfigureType
<1>4. ASSUME NEW r \in Reqs, Setup(r) PROVE TypeInv'
  <2>1. /\ last' \in {last, "none", "ok", "failed"} /\ tainted' \subseteq Reqs
        /\ harm' \subseteq {"overlap", "half", "shift", "torn"}
        /\ UNCHANGED <<config, asked, leftovers>>
    BY <1>4
    DEF Rest, Setup, CallSteps, Overlap, SkipStep, Download, Downloaded, DownloadFails,
        Half, Unpack, UnpackFails, BeginTask, QuickStep, StepFails, Begin, TaskWrites,
        TaskEnds, TaskFails, Validate, ValidateFails, Fail, Attempts, world
  <2> QED BY <1>1, <1>4, <2>1, SetupType DEF Rest, Few
<1>5. ASSUME NEW r \in Reqs, Drop(r) PROVE TypeInv'
  <2>1. Few(leftovers')
    BY <1>2, <1>5, FewLeft DEF Drop
  <2>2. Rest' /\ Return(r) /\ script' = script
    BY <1>5, <2>1 DEF Rest, Few, Drop, Fail, Attempts
  <2> QED BY <1>1, <2>2, ReturnType
<1>6. ASSUME NEW w \in leftovers, Leftover(w) \/ LeftoverDies(w) PROVE TypeInv'
  <2>1. Few(leftovers')
    BY <1>2, <1>6, FewLeft DEF Leftover, LeftoverDies
  <2>2. /\ UNCHANGED <<script, pc, call, pos, dl, todo, text>> /\ Rest'
    BY <1>6, <2>1 DEF Rest, Few, Leftover, LeftoverDies, locals
  <2> QED BY <1>1, <2>2, SameSlotType
<1>7. ASSUME NEW r \in Reqs, Registration(r) PROVE TypeInv'
  BY <1>1, <1>7, RegistrationType
<1>8. CASE UNCHANGED mvars
  <2>1. /\ UNCHANGED <<script, pc, call, pos, dl, todo, text>> /\ Rest'
    BY <1>8 DEF Rest, Few, mvars, world, locals
  <2> QED BY <1>1, <2>1, SameSlotType
<1> QED BY <1>3, <1>4, <1>5, <1>6, <1>7, <1>8 DEF MNext

LEMMA TypeInvInit == ASSUME MInit PROVE TypeInv
<1>1. CleanInv
  BY CleanInit
<1>2. Text \in Config /\ [kind |-> "missing", keys |-> {}] \in Config
  BY DEF Text, Config
<1>3. IsFiniteSet({}) /\ Cardinality({}) = 0
  BY FS_EmptySet
<1>4. Rest
  BY <1>2, <1>3, SetupConstants DEF MInit, Rest, Few
<1>5. ASSUME NEW r \in Reqs PROVE SlotType(r)
  <2>1. Cardinality(DownloadSteps(0)) = 0
    <3>1. DownloadSteps(0) = {}
      BY DEF DownloadSteps
    <3> QED BY <3>1, FS_EmptySet
  <2>2. Counted(r) = 0
    BY DEF MInit, Counted
  <2>3. script \in Scripts /\ Len(script) \in Nat
    BY ScriptLength DEF MInit
  <2> QED BY <1>2, <2>1, <2>2, <2>3 DEF MInit, SlotType, Labels
<1> QED BY <1>1, <1>4, <1>5 DEF MInit, TypeInv

LEMMA TypeInvHolds == MSpec => []TypeInv
  BY TypeInvInit, TypeInvNext, PTL DEF MSpec

(* Every state of a materialization has the declared shape, for any scripts,  *)
(* numbers of attempts and leftover tasks: what a handler is asked and where  *)
(* it is go together, and no more downloads are counted than there are.       *)
THEOREM MaterializationTypeCorrect == MSpec => []MTypeOK
<1>1. ASSUME TypeInv PROVE MTypeOK
  <2> USE DEF TypeInv
  <2>1. script \in Scripts /\ files \in Files
    BY <1>1 DEF CleanInv, Shapes, Clean, Files
  <2>2. ASSUME NEW r \in Reqs
        PROVE  dl[r] <= Cardinality({i \in 1..Len(script) : script[i].action = "download"})
    <3>1. Len(script) \in Nat
      BY <1>1, TypeLength
    <3>2. Counted(r) \in 0..Len(script)
      BY <1>1, <3>1 DEF SlotType, Counted, Labels
    <3>3. /\ Cardinality(DownloadSteps(Counted(r))) <= Cardinality(DownloadSteps(Len(script)))
          /\ Cardinality(DownloadSteps(Counted(r))) \in Nat
          /\ Cardinality(DownloadSteps(Len(script))) \in Nat
      BY <3>1, <3>2, DownloadCount
    <3>4. dl[r] <= Cardinality(DownloadSteps(Len(script)))
      BY <1>1, <3>3 DEF SlotType
    <3> QED BY <3>4 DEF DownloadSteps
  <2> QED BY <1>1, <2>1, <2>2 DEF MTypeOK, SlotType, Rest, Few
<1> QED BY <1>1, TypeInvHolds, PTL

--------------------------------------------------------------------------------
(* One slot at a time reads and writes the configuration.                     *)
Configures(c) == c.op \in {"get", "put"} \/ (c.op = "materialize" /\ c.want # {})

OneConfigures ==
  \A r, s \in Reqs : \A c \in Calls[r], d \in Calls[s] :
    Configures(c) /\ Configures(d) => r = s

Configuring == {"ensure", "create", "merge", "write"}

\* What was asked for is there, unless the file holds JSON that is no object.
Kept(keys) == config.kind # "value" => keys \subseteq config.keys

ConfigSlot(r) ==
  /\ pc[r] \in Configuring => Configures(call[r])
  /\ pc[r] = "write" /\ call[r].op = "materialize" => text[r] = Merge(config, call[r].want)
  /\ pc[r] \in Executing => Kept(call[r].want)

ConfigInv ==
  /\ TypeInv
  /\ Kept(asked)
  /\ \A r \in Reqs : ConfigSlot(r)

\* The configuration is touched by its one slot only; others ask for no key.
LEMMA OthersAskNothing ==
  ASSUME OneConfigures, ConfigInv, NEW r \in Reqs, pc[r] \in Configuring, NEW s \in Reqs \ {r}
  PROVE  pc[s] \notin Configuring /\ (pc[s] \in Executing => call[s].want = {})
<1>1. Configures(call[r]) /\ call[r] \in Calls[r]
  BY DEF ConfigInv, ConfigSlot, TypeInv, CleanInv, Slot, Configuring
<1>2. pc[s] # "idle" => call[s] \in Calls[s]
  BY DEF ConfigInv, TypeInv, CleanInv, Slot
<1>3. pc[s] # "idle" => ~Configures(call[s])
  BY <1>1, <1>2 DEF OneConfigures
<1>4. pc[s] \in Executing => call[s].op = "materialize"
  BY DEF ConfigInv, TypeInv, CleanInv, Slot, Executing
<1> QED BY <1>3, <1>4 DEF ConfigInv, ConfigSlot, Configures, Configuring, Executing

\* A slot whose own variables do not change, nor the configuration.
LEMMA SameConfigSlot ==
  ASSUME NEW r \in Reqs, ConfigSlot(r), config' = config,
         UNCHANGED <<pc[r], call[r], text[r]>>
  PROVE  ConfigSlot(r)'
BY DEF ConfigSlot, Kept

\* A step that leaves the configuration and the other slots alone.
LEMMA ConfigFrame ==
  ASSUME ConfigInv, TypeInv', NEW r \in Reqs, UNCHANGED <<config, asked>>, ConfigSlot(r)',
         \A q \in Reqs \ {r} : UNCHANGED <<pc[q], call[q], text[q]>>
  PROVE  ConfigInv'
<1>1. \A q \in Reqs : ConfigSlot(q)'
  BY SameConfigSlot DEF ConfigInv
<1> QED BY <1>1 DEF ConfigInv, Kept

\* The file is written anew while its slot configures.
LEMMA ConfigWritten ==
  ASSUME OneConfigures, ConfigInv, TypeInv', NEW r \in Reqs, pc[r] \in Configuring,
         Kept(asked)', ConfigSlot(r)',
         \A q \in Reqs \ {r} : UNCHANGED <<pc[q], call[q], text[q]>>
  PROVE  ConfigInv'
<1>1. ASSUME NEW q \in Reqs \ {r} PROVE ConfigSlot(q)'
  <2>1. pc[q] \notin Configuring /\ (pc[q] \in Executing => call[q].want = {})
    BY OthersAskNothing
  <2> QED BY <2>1 DEF ConfigSlot, Kept, Configuring, Executing
<1> QED BY <1>1 DEF ConfigInv

\* A handler that returns configures nothing any more.
LEMMA ReturnConfig ==
  ASSUME TypeInv, NEW r \in Reqs, Return(r)
  PROVE  /\ ConfigSlot(r)'
         /\ \A q \in Reqs \ {r} : UNCHANGED <<pc[q], call[q], text[q]>>
BY DEF TypeInv, CleanInv, Shapes, Return, Goto, ConfigSlot, Configuring, Executing

LEMMA ConfigureKeeps ==
  ASSUME OneConfigures, ConfigInv, TypeInv', NEW r \in Reqs, Configure(r)
  PROVE  ConfigInv'
<1> USE DEF ConfigInv
<1>0. /\ DOMAIN pc = Reqs /\ DOMAIN call = Reqs /\ DOMAIN text = Reqs
      /\ pc[r] \in Configuring => Configures(call[r])
  BY DEF TypeInv, CleanInv, Shapes, ConfigSlot
<1>1. CASE CallConfig(r)
  <2>1. PICK c \in Calls[r] : /\ Configures(c)
                             /\ call' = [call EXCEPT ![r] = c]
                             /\ pc' = [pc EXCEPT ![r] = "ensure"]
                             /\ UNCHANGED <<config, asked, text>>
    BY <1>1 DEF CallConfig, MayBegin, Configures, Goto, world, locals
  <2>2. ConfigSlot(r)'
    BY <1>0, <2>1 DEF ConfigSlot, Configuring, Executing
  <2> QED BY <2>1, <2>2, ConfigFrame
<1>2. ASSUME Proceed(r), pc[r] \in {"ensure", "create"}
      PROVE  /\ \A q \in Reqs \ {r} : UNCHANGED <<pc[q], call[q], text[q]>>
             /\ ConfigSlot(r)'
  <2>1. CASE Return(r)
    BY <2>1, ReturnConfig
  <2>2. CASE call[r].op # "get"
    BY <1>0, <1>2, <2>2
    DEF Proceed, Return, Goto, ConfigSlot, Configuring, Executing, locals
  <2> QED BY <1>2, <2>1, <2>2 DEF Proceed
<1>3. CASE Ensure(r)
  <2>1. UNCHANGED <<config, asked>> /\ pc[r] = "ensure"
    BY <1>3 DEF Ensure, At, world
  <2>2. CASE Goto(r, "create") /\ UNCHANGED <<call, locals>>
    <3>1. /\ ConfigSlot(r)' /\ \A q \in Reqs \ {r} : UNCHANGED <<pc[q], call[q], text[q]>>
      BY <1>0, <2>1, <2>2 DEF Goto, ConfigSlot, Configuring, Executing, locals
    <3> QED BY <2>1, <3>1, ConfigFrame
  <2> QED BY <1>2, <1>3, <2>1, <2>2, ConfigFrame DEF Ensure
<1>4. CASE Create(r)
  <2>1. pc[r] = "create" /\ Proceed(r) /\ asked' = {}
    BY <1>4 DEF Create, At
  <2> QED BY <1>2, <2>1, ConfigWritten DEF Kept, Configuring
<1>5. CASE ReadConfig(r)
  <2>1. /\ pc[r] = "merge" /\ text' = [text EXCEPT ![r] = Merge(config, call[r].want)]
        /\ pc' = [pc EXCEPT ![r] = "write"] /\ UNCHANGED <<config, asked, call>>
    BY <1>5 DEF ReadConfig, At, Goto, world
  <2>2. ConfigSlot(r)'
    BY <1>0, <2>1 DEF ConfigSlot, Configuring, Executing
  <2> QED BY <2>1, <2>2, ConfigFrame
<1>6. CASE WriteConfig(r)
  <2>1. pc[r] = "write" /\ config' = text[r] /\ pc[r] \in Configuring
    BY <1>6 DEF WriteConfig, At, Configuring
  <2>2. CASE asked' = text[r].keys /\ Return(r)
    BY <2>1, <2>2, ReturnConfig, ConfigWritten DEF Kept
  <2>3. CASE /\ call[r].op # "put" /\ asked' = asked \cup call[r].want
             /\ Goto(r, "step") /\ UNCHANGED <<call, locals>>
    <3>1. call[r].op = "materialize"
      BY <2>1, <2>3 DEF TypeInv, CleanInv, Slot
    <3>2. config' = Merge(config, call[r].want)
      BY <2>1, <3>1 DEF ConfigSlot
    <3>3. config'.kind # "value" =>
            config.kind # "value" /\ config'.keys = config.keys \cup call[r].want
      BY <3>2 DEF Merge
    <3>4. /\ pc'[r] = "step" /\ call'[r] = call[r]
          /\ \A q \in Reqs \ {r} : UNCHANGED <<pc[q], call[q], text[q]>>
      BY <1>0, <2>3 DEF Goto, locals
    <3>5. Kept(asked)' /\ Kept(call[r].want)'
      BY <2>3, <3>3, <3>4 DEF Kept
    <3>6. ConfigSlot(r)'
      BY <3>4, <3>5 DEF ConfigSlot, Configuring, Executing
    <3> QED BY <2>1, <3>4, <3>5, <3>6, ConfigWritten
  <2> QED BY <1>6, <2>2, <2>3 DEF WriteConfig
<1>7. CASE WriteConfigFails(r)
  <2>1. pc[r] = "write" /\ asked' = {} /\ Return(r) /\ pc[r] \in Configuring
    BY <1>7 DEF WriteConfigFails, At, Fail, Configuring
  <2> QED BY <2>1, ReturnConfig, ConfigWritten DEF Kept
<1> QED BY <1>1, <1>3, <1>4, <1>5, <1>6, <1>7 DEF Configure

LEMMA SetupKeeps ==
  ASSUME ConfigInv, TypeInv', NEW r \in Reqs, Setup(r)
  PROVE  ConfigInv'
<1> USE DEF ConfigInv
<1>0. /\ DOMAIN pc = Reqs /\ DOMAIN call = Reqs /\ DOMAIN text = Reqs
      /\ UNCHANGED <<config, asked>>
  BY DEF TypeInv, CleanInv, Shapes, Setup, CallSteps, MayBegin, SkipStep, Download, Downloaded,
         DownloadFails, Unpack, UnpackFails, BeginTask, QuickStep, StepFails, Begin,
         TaskWrites, TaskEnds, TaskFails, Validate, ValidateFails, world
<1>1. CASE Return(r)
  BY <1>0, <1>1, ReturnConfig, ConfigFrame
<1>2. CASE CallSteps(r)
  <2>1. PICK c \in Calls[r] : c.want = {} /\ call' = [call EXCEPT ![r] = c]
    BY <1>2 DEF CallSteps
  <2>2. pc' = [pc EXCEPT ![r] = "step"] /\ text' = text
    BY <1>2 DEF CallSteps, Goto, locals
  <2>3. ConfigSlot(r)'
    BY <1>0, <2>1, <2>2 DEF ConfigSlot, Kept, Configuring, Executing
  <2> QED BY <1>0, <2>1, <2>2, <2>3, ConfigFrame
<1>3. CASE ~CallSteps(r) /\ ~Return(r)
  <2>1. /\ pc[r] \in Executing /\ UNCHANGED <<call, text>>
        /\ pc' = pc \/ \E label \in Executing : pc' = [pc EXCEPT ![r] = label]
    BY <1>3
    DEF Setup, SkipStep, Download, Downloaded, DownloadFails, Unpack, UnpackFails,
        BeginTask, QuickStep, StepFails, Begin, TaskWrites, TaskEnds, TaskFails, Validate,
        ValidateFails, Fail, Advance, Goto, Executes, Reached, At, Executing, locals
  <2>2. ConfigSlot(r)'
    BY <1>0, <2>1 DEF ConfigSlot, Kept, Configuring, Executing
  <2> QED BY <1>0, <2>1, <2>2, ConfigFrame
<1> QED BY <1>1, <1>2, <1>3

LEMMA ConfigInvNext ==
  ASSUME OneConfigures, ConfigInv, [MNext]_mvars
  PROVE  ConfigInv'
<1>0. TypeInv'
  BY TypeInvNext DEF ConfigInv
<1>1. ASSUME NEW r \in Reqs, Drop(r) PROVE ConfigInv'
  <2>1. Return(r) /\ UNCHANGED <<config, asked>>
    BY <1>1 DEF Drop, Fail
  <2> QED BY <1>0, <2>1, ReturnConfig, ConfigFrame DEF ConfigInv
<1>2. CASE UNCHANGED <<config, asked, pc, call, text>>
  <2>1. ASSUME NEW r \in Reqs PROVE ConfigSlot(r)'
    BY <1>2, SameConfigSlot DEF ConfigInv
  <2> QED BY <1>0, <1>2, <2>1 DEF ConfigInv, Kept
<1>3. ASSUME NEW r \in Reqs, Registration(r) PROVE ConfigInv'
  <2>1. CASE Return(r) /\ UNCHANGED <<config, asked>>
    BY <1>0, <2>1, ReturnConfig, ConfigFrame DEF ConfigInv
  <2>2. CASE RemovalFails(r) \/ Extracts(r)
    BY <1>2, <2>2 DEF RemovalFails, Extracts, Unmake, locals
  <2>3. CASE Reregister(r)
    <3>1. /\ pc' = [pc EXCEPT ![r] = "extract"] /\ UNCHANGED <<config, asked, text>>
          /\ \E c \in Calls[r] : call' = [call EXCEPT ![r] = c]
      BY <2>3 DEF Reregister, RegisterCall, Unmake, Goto
    <3>2. ConfigSlot(r)'
      BY <3>1 DEF ConfigSlot, Configuring, Executing, ConfigInv, TypeInv, CleanInv, Shapes
    <3> QED BY <1>0, <3>1, <3>2, ConfigFrame DEF ConfigInv, TypeInv, CleanInv, Shapes
  <2> QED BY <1>3, <2>1, <2>2, <2>3 DEF Registration, ExtractFails, Registered, world
<1>4. ASSUME NEW w \in leftovers, Leftover(w) \/ LeftoverDies(w) PROVE ConfigInv'
  BY <1>2, <1>4 DEF Leftover, LeftoverDies, locals
<1>5. CASE UNCHANGED mvars
  BY <1>2, <1>5 DEF mvars, world, locals
<1> QED BY <1>0, <1>1, <1>3, <1>4, <1>5, ConfigureKeeps, SetupKeeps DEF MNext

(* A setup command finds in config.toml every value its request brought and   *)
(* every value written by earlier ones, for any scripts, keys and numbers of  *)
(* attempts, if one client at a time reads and writes the configuration.      *)
THEOREM CommandsFindTheirValues ==
  ASSUME OneConfigures
  PROVE  MSpec => CommandsSeeConfig
<1>1. MInit => ConfigInv
  <2> SUFFICES ASSUME MInit PROVE ConfigInv
    OBVIOUS
  <2>1. TypeInv
    BY TypeInvInit
  <2> QED BY <2>1 DEF MInit, ConfigInv, ConfigSlot, Kept, Configuring, Executing
<1>2. ConfigInv /\ [MNext]_mvars => ConfigInv'
  BY ConfigInvNext
<1>3. ConfigInv /\ [MNext]_mvars =>
        [\A r \in Reqs :
           RunBegins(r) /\ config.kind # "value" =>
             call[r].want \cup asked \subseteq config.keys]_mvars
  BY DEF ConfigInv, ConfigSlot, Kept, RunBegins, Executing
<1> QED BY <1>1, <1>2, <1>3, PTL DEF MSpec, CommandsSeeConfig

================================================================================
