------------------------------- MODULE WriteOnce -------------------------------
(***************************************************************************)
(* The setup scripts of which completeness is proved: whatever the steps   *)
(* that apply bring, each file has one content and overwrites nothing of   *)
(* the package; a condition asks for what no step brings, or guards its    *)
(* step by what a later one brings; and whatever a download delivers is    *)
(* what the url of its step stands for.                                    *)
(***************************************************************************)
EXTENDS Materialization

\* The files a step finds on a fresh package, and the steps that apply there.
Before(s, i) == Outcome(s, i - 1)
Active(s) == {i \in 1..Len(s) : Holds(Before(s, i), s[i].when)}

Unpacks(step) == step.action = "download" /\ step.archive

\* What a step leaves; an archive is removed once it is unpacked.
Brings(s, i) ==
  IF Unpacks(s[i]) THEN ToSet(Entries[Origin[s[i].url]])
                   ELSE ToSet(Effect(Before(s, i), s[i]))

Products(s) == UNION {Brings(s, i) : i \in Active(s)}

Archives(s) ==
  {WriteOf(s[i].dest, Origin[s[i].url]) : i \in {j \in Active(s) : Unpacks(s[j])}}

Output(s) == Products(s) \cup Archives(s)
PathsOf(writes) == {w.path : w \in writes}

Plain == {"download", "extract", "copy", "run", "touch", "write-file", "symlink",
          "chmod", "mkdir"}

StepsArePlain(s) ==
  \A i \in Active(s) :
    /\ s[i].action \in Plain
    /\ Possible(Before(s, i), s[i])
    /\ s[i].action = "download" => Origin[s[i].url] \in Clean
    /\ Unpacks(s[i]) => Archive(Origin[s[i].url])

OneContent(s) ==
  /\ \A v, w \in Output(s) : v.path = w.path => v = w
  /\ \A w \in Output(s) : Package[w.path] = Missing /\ w.data \notin {Missing, Partial}
  /\ PathsOf(Products(s)) \cap PathsOf(Archives(s)) = {}

\* A path, and where it leads if it is a link.
Through(p) == {p} \cup IF Package[p] \in DOMAIN Target THEN {Target[Package[p]]} ELSE {}

\* Steps that are skipped once their mark is there, which steps of the script make.
Mark(s, i) == s[i].when.path

Guarded(s) ==
  {i \in Active(s) : /\ s[i].when.test = "file_not_exists"
                     /\ Mark(s, i) \in PathsOf(Products(s))}

\* The others have conditions that no step changes.
ConditionsAreSteady(s) ==
  \A i \in (1..Len(s)) \ Guarded(s) :
    s[i].when.test \in {"file_not_exists", "file_exists"} =>
      Through(s[i].when.path) \cap PathsOf(Output(s)) = {}

\* The mark of a step is made behind it, and nobody else makes what it makes.
GuardsComeLast(s) ==
  \A i \in Guarded(s) :
    /\ \A j \in Active(s) : Mark(s, i) \in PathsOf(Brings(s, j)) => i < j
    /\ \A w \in Products(s) : w.path = Mark(s, i) => w.data \notin DOMAIN Target
    /\ \A j \in Active(s) \ {i} : PathsOf(Brings(s, i)) \cap PathsOf(Brings(s, j)) = {}

\* The downloads executed up to a step number the overrides; guarded ones may
\* have been skipped.
Fetches(s, n) == {i \in Active(s) : i <= n /\ s[i].action = "download"}
Counts(s, n) == Cardinality(Fetches(s, n) \ Guarded(s))..Cardinality(Fetches(s, n))

DownloadsAreRight(s) ==
  \A i \in Active(s) : s[i].action = "download" =>
    \A r \in Reqs : \A c \in Calls[r] :
      c.op = "materialize" =>
        \A k \in Counts(s, i - 1) :
          \A data \in Served[IF k \in DOMAIN c.overrides THEN c.overrides[k] ELSE s[i].url] :
            Verified(s[i], data) => data = Origin[s[i].url]

WriteOnce(s) ==
  /\ StepsArePlain(s)
  /\ OneContent(s)
  /\ ConditionsAreSteady(s)
  /\ GuardsComeLast(s)
  /\ DownloadsAreRight(s)
================================================================================
