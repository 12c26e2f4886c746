------------------------------ MODULE SetupProofs ------------------------------
(***************************************************************************)
(* An attempt that succeeds is complete, and a command runs what was       *)
(* prepared, for every write-once script. What the script is meant to do   *)
(* is a recursion over it; its induction is by the least counterexample.   *)
(***************************************************************************)
EXTENDS MaterializationProofs, WriteOnce, WellFoundedInduction

--------------------------------------------------------------------------------
(* Scripts as they are meant: what is there after n steps on a fresh package. *)

\* Induction in the form that the provers take: a set of numbers has a least one.
LEMMA LeastNumber ==
  ASSUME NEW T, T \subseteq Nat, T # {}
  PROVE  \E n \in T : \A m \in T : n <= m
<1>1. IsWellFoundedOn(OpToRel(<, Nat), Nat)
  BY NatLessThanWellFounded
<1>2. PICK n \in T : \A m \in T : ~(<<m, n>> \in OpToRel(<, Nat))
  BY <1>1, WFMin
<1>3. \A m \in T : ~(m < n)
  BY <1>2 DEF OpToRel
<1> QED BY <1>3

LEMMA GreatestIndex ==
  ASSUME NEW n \in Nat, NEW T, T \subseteq 1..n, T # {}
  PROVE  Max(T) \in T
<1> DEFINE U == {n - t : t \in T}
<1>1. U \subseteq Nat /\ U # {}
  <2>1. \A t \in T : n - t \in Nat
    OBVIOUS
  <2> QED BY <2>1
<1>2. PICK u \in U : \A v \in U : u <= v
  <2> HIDE DEF U
  <2> QED BY <1>1, LeastNumber
<1>3. PICK t \in T : u = n - t
  BY <1>2
<1>4. \A x \in T : t >= x
  BY <1>2, <1>3
<1> QED BY <1>4 DEF Max

\* A function that is defined by recursion over 0..n is there.
LEMMA OutcomeExists ==
  ASSUME NEW s, NEW n \in Nat
  PROVE  \E after : after = [k \in 0..n |-> IF k = 0 THEN Package ELSE Apply(after[k - 1], s[k])]
<1> DEFINE Is(k, f) == f = [i \in 0..k |-> IF i = 0 THEN Package ELSE Apply(f[i - 1], s[i])]
<1> DEFINE Bad == {k \in Nat : ~ \E f : Is(k, f)}
<1>1. SUFFICES ASSUME Bad # {} PROVE FALSE
  OBVIOUS
<1>2. PICK k \in Bad : \A m \in Bad : k <= m
  <2>1. Bad \subseteq Nat
    OBVIOUS
  <2> HIDE DEF Bad
  <2> QED BY <1>1, <2>1, LeastNumber
<1>3. CASE k = 0
  <2>1. Is(0, [i \in 0..0 |-> Package])
    OBVIOUS
  <2> QED BY <1>3, <2>1
<1>4. CASE k # 0
  <2>1. k - 1 \in Nat /\ k \in Nat
    BY <1>4
  <2>2. k - 1 \notin Bad
    <3> HIDE DEF Bad
    <3> QED BY <2>1, <1>2
  <2>3. PICK f : Is(k - 1, f)
    BY <2>1, <2>2
  <2> DEFINE g == [i \in 0..k |-> IF i = k THEN Apply(f[k - 1], s[k]) ELSE f[i]]
  <2>4. Is(k, g)
    BY <2>1, <2>3, <1>4
  <2> QED BY <2>4, <2>1
<1> QED BY <1>3, <1>4

LEMMA OutcomeSteps ==
  ASSUME NEW s \in Scripts
  PROVE  /\ Outcome(s, 0) = Package
         /\ \A n \in 1..Len(s) : Outcome(s, n) = Apply(Outcome(s, n - 1), s[n])
<1> DEFINE F(f) == [k \in 0..Len(s) |-> IF k = 0 THEN Package ELSE Apply(f[k - 1], s[k])]
<1> DEFINE after == CHOOSE f : f = F(f)
<1>0. Len(s) \in Nat
  BY ScriptLength
<1>1. \E f : f = F(f)
  BY <1>0, OutcomeExists
<1>2. after = F(after)
  BY <1>1
<1>3. \A n : Outcome(s, n) = after[n]
  BY DEF Outcome
<1>4. after[0] = Package
  <2>1. 0 \in 0..Len(s)
    BY <1>0
  <2> HIDE DEF after
  <2> QED BY <1>2, <2>1
<1>5. ASSUME NEW n \in 1..Len(s) PROVE after[n] = Apply(after[n - 1], s[n])
  <2>1. n \in 0..Len(s) /\ n # 0
    BY <1>0
  <2> HIDE DEF after
  <2> QED BY <1>2, <2>1
<1> HIDE DEF after
<1> QED BY <1>3, <1>4, <1>5

\* Of several writes to a path one counts; a path without writes is left alone.
LEMMA OneWriteCounts ==
  ASSUME NEW fs, NEW ws \in Seq(Writes), NEW p \in Paths
  PROVE  \/ /\ \A w \in ToSet(ws) : w.path # p
            /\ WriteAll(fs, ws)[p] = fs[p]
         \/ \E w \in ToSet(ws) : w.path = p /\ WriteAll(fs, ws)[p] = w.data
<1> DEFINE hits == {i \in DOMAIN ws : ws[i].path = p}
<1>1. WriteAll(fs, ws)[p] = IF hits = {} THEN fs[p] ELSE ws[Max(hits)].data
  BY DEF WriteAll
<1>2. ToSet(ws) = {ws[i] : i \in DOMAIN ws}
  BY DEF ToSet
<1>3. CASE hits = {}
  BY <1>1, <1>2, <1>3
<1>4. CASE hits # {}
  <2>1. Len(ws) \in Nat /\ hits \subseteq 1..Len(ws)
    OBVIOUS
  <2>2. Max(hits) \in hits
    <3> HIDE DEF hits
    <3> QED BY <1>4, <2>1, GreatestIndex
  <2> QED BY <1>1, <1>2, <1>4, <2>2
<1> QED BY <1>3, <1>4

LEMMA AppendSet ==
  ASSUME NEW ws \in Seq(Writes), NEW w \in Writes
  PROVE  ToSet(Append(ws, w)) = ToSet(ws) \cup {w}
<1>1. /\ DOMAIN ws = 1..Len(ws) /\ Len(ws) \in Nat
      /\ DOMAIN Append(ws, w) = 1..Len(ws) + 1
      /\ \A i \in 1..Len(ws) + 1 : Append(ws, w)[i] = IF i = Len(ws) + 1 THEN w ELSE ws[i]
  OBVIOUS
<1>2. \A i : i \in 1..Len(ws) + 1 <=> (i \in 1..Len(ws) \/ i = Len(ws) + 1)
  BY <1>1
<1>3. Len(ws) + 1 \notin 1..Len(ws)
  BY <1>1
<1> QED BY <1>1, <1>2, <1>3 DEF ToSet

--------------------------------------------------------------------------------
(* What the steps of a write-once script bring.                              *)
LEMMA BringsWrites ==
  ASSUME NEW s \in Scripts, StepsArePlain(s), NEW i \in Active(s),
         Before(s, i) \in [Paths -> Clean]
  PROVE  /\ i \in 1..Len(s) /\ s[i].dest \in Paths
         /\ Unpacks(s[i]) => Entries[Origin[s[i].url]] \in Seq(Writes)
         /\ ~Unpacks(s[i]) => Effect(Before(s, i), s[i]) \in Seq(Writes)
         /\ Brings(s, i) \subseteq Writes
<1>1. i \in 1..Len(s)
  BY DEF Active
<1>2. s[i].dest \in Paths /\ s[i].content \in Clean
  BY <1>1, CleanStep
<1>3. /\ s[i].action \in Plain /\ Possible(Before(s, i), s[i])
      /\ s[i].action = "download" => Origin[s[i].url] \in Clean
      /\ Unpacks(s[i]) => Archive(Origin[s[i].url])
  BY DEF StepsArePlain
<1>4. Unpacks(s[i]) => Entries[Origin[s[i].url]] \in Seq(Writes)
  BY <1>3, CleanEntries DEF Unpacks
<1>5. ASSUME ~Unpacks(s[i]) PROVE Effect(Before(s, i), s[i]) \in Seq(Writes)
  <2>1. CASE s[i].action = "download"
    <3>1. Effect(Before(s, i), s[i]) = <<WriteOf(s[i].dest, Origin[s[i].url])>>
      BY <1>5, <2>1 DEF Effect, Unpacks
    <3>2. WriteOf(s[i].dest, Origin[s[i].url]) \in Writes
      BY <1>2, <1>3, <2>1, CleanWriteOf
    <3> QED BY <3>1, <3>2
  <2>2. CASE s[i].action \in Quick
    BY <1>1, <2>2, QuickEffect
  <2>3. CASE s[i].action \in Long
    BY <1>1, <1>3, <2>3, LongEffect
  <2> QED BY <1>3, <2>1, <2>2, <2>3 DEF Plain, Quick, Long
<1>6. \A ws \in Seq(Writes) : ToSet(ws) \subseteq Writes
  BY DEF ToSet
<1> QED BY <1>1, <1>2, <1>4, <1>5, <1>6 DEF Brings

\* A path holds what a step has brought, or what it held in the package.
Settled(s, n) ==
  /\ Outcome(s, n) \in [Paths -> Clean]
  /\ \A p \in Paths :
       \/ /\ Outcome(s, n)[p] = Package[p]
          /\ \A i \in Active(s) : i <= n => \A w \in Brings(s, i) : w.path # p
       \/ \E i \in Active(s) : i <= n /\ WriteOf(p, Outcome(s, n)[p]) \in Brings(s, i)

\* A step that applies, on top of what is settled.
LEMMA StepSettles ==
  ASSUME NEW s \in Scripts, WriteOnce(s), NEW n \in Active(s), Settled(s, n - 1)
  PROVE  Settled(s, n)
<1> DEFINE old == Before(s, n)
           ws == IF Unpacks(s[n]) THEN Append(Entries[Origin[s[n].url]], WriteOf(s[n].dest, Missing))
                                  ELSE Effect(old, s[n])
<1>1. n \in 1..Len(s) /\ Len(s) \in Nat
  BY ScriptLength DEF Active
<1>2. old = Outcome(s, n - 1) /\ old \in [Paths -> Clean]
  BY DEF Settled, Before
<1>3. /\ s[n].dest \in Paths
      /\ Unpacks(s[n]) => Entries[Origin[s[n].url]] \in Seq(Writes)
      /\ ~Unpacks(s[n]) => Effect(old, s[n]) \in Seq(Writes)
      /\ Brings(s, n) \subseteq Writes
  BY <1>2, BringsWrites DEF WriteOnce
<1>4. Holds(old, s[n].when)
  BY DEF Active
<1>5. Outcome(s, n) = WriteAll(old, ws)
  <2>1. Outcome(s, n) = WriteAll(old, Effect(old, s[n]))
    BY <1>1, <1>2, <1>4, OutcomeSteps DEF Apply
  <2>2. Effect(old, s[n]) = ws
    <3>1. CASE Unpacks(s[n])
      BY <3>1 DEF Effect, Unpacks
    <3>2. CASE ~Unpacks(s[n])
      BY <3>2
    <3> QED BY <3>1, <3>2
  <2> QED BY <2>1, <2>2
<1>6. WriteOf(s[n].dest, Missing) \in Writes
  BY <1>3, CleanConstants, CleanWriteOf
<1>7. ws \in Seq(Writes)
  BY <1>3, <1>6
<1>8. ToSet(ws) = IF Unpacks(s[n]) THEN Brings(s, n) \cup {WriteOf(s[n].dest, Missing)}
                                   ELSE Brings(s, n)
  <2>1. CASE Unpacks(s[n])
    BY <1>3, <1>6, <2>1, AppendSet DEF Brings
  <2>2. CASE ~Unpacks(s[n])
    BY <2>2 DEF Brings
  <2> QED BY <2>1, <2>2
<1>9. ASSUME NEW w \in Brings(s, n), Unpacks(s[n]) PROVE w.path # s[n].dest
  <2>1. w.path \in PathsOf(Products(s))
    BY DEF PathsOf, Products
  <2>2. s[n].dest \in PathsOf(Archives(s))
    <3>1. WriteOf(s[n].dest, Origin[s[n].url]) \in Archives(s)
      BY <1>9 DEF Archives
    <3> QED BY <3>1 DEF PathsOf, WriteOf
  <2> QED BY <2>1, <2>2 DEF WriteOnce, OneContent
<1>10. ASSUME NEW p \in Paths, \A w \in Brings(s, n) : w.path # p
       PROVE  WriteAll(old, ws)[p] = old[p]
  <2>1. CASE Unpacks(s[n]) /\ p = s[n].dest
    <3>1. WriteOf(p, Origin[s[n].url]) \in Archives(s)
      BY <2>1 DEF Archives
    <3>2. Package[p] = Missing /\ p \notin PathsOf(Products(s))
      BY <3>1 DEF WriteOnce, OneContent, Output, PathsOf, WriteOf
    <3>3. \A i \in Active(s) : \A w \in Brings(s, i) : w.path # p
      BY <3>2 DEF PathsOf, Products
    <3>4. old[p] = Missing
      BY <1>2, <3>2, <3>3 DEF Settled, WriteOf
    <3>5. \A w \in ToSet(ws) : w.path = p => w.data = Missing
      BY <1>8, <1>10 DEF WriteOf
    <3>6. \/ WriteAll(old, ws)[p] = old[p]
          \/ \E w \in ToSet(ws) : w.path = p /\ WriteAll(old, ws)[p] = w.data
      <4> HIDE DEF ws, old
      <4> QED BY <1>7, OneWriteCounts
    <3> QED BY <3>4, <3>5, <3>6
  <2>2. CASE ~(Unpacks(s[n]) /\ p = s[n].dest)
    <3>1. \A w \in ToSet(ws) : w.path # p
      BY <1>8, <1>10, <2>2 DEF WriteOf
    <3> HIDE DEF ws, old
    <3> QED BY <1>7, <3>1, OneWriteCounts
  <2> QED BY <2>1, <2>2
<1>11. ASSUME NEW p \in Paths, NEW v \in Brings(s, n), v.path = p
       PROVE  WriteOf(p, WriteAll(old, ws)[p]) \in Brings(s, n)
  <2>1. \A w \in ToSet(ws) : w.path = p => w \in Brings(s, n)
    BY <1>8, <1>9, <1>11 DEF WriteOf
  <2>2. v \in ToSet(ws)
    BY <1>8
  <2>3. PICK w \in ToSet(ws) : w.path = p /\ WriteAll(old, ws)[p] = w.data
    <3> HIDE DEF ws, old
    <3> QED BY <1>7, <1>11, <2>2, OneWriteCounts
  <2>4. w \in Brings(s, n) /\ w \in Writes
    BY <1>3, <2>1, <2>3
  <2> QED BY <2>3, <2>4 DEF Writes, WriteOf
<1> HIDE DEF ws, old
<1>12. DOMAIN Outcome(s, n) = Paths /\ Outcome(s, n) = [p \in Paths |-> Outcome(s, n)[p]]
  BY <1>5 DEF WriteAll
<1>13. ASSUME NEW p \in Paths
       PROVE  /\ Outcome(s, n)[p] \in Clean
              /\ \/ /\ Outcome(s, n)[p] = Package[p]
                    /\ \A i \in Active(s) : i <= n => \A w \in Brings(s, i) : w.path # p
                 \/ \E i \in Active(s) : i <= n /\ WriteOf(p, Outcome(s, n)[p]) \in Brings(s, i)
  <2>1. CASE \E v \in Brings(s, n) : v.path = p
    <3>1. WriteOf(p, Outcome(s, n)[p]) \in Brings(s, n)
      BY <1>5, <1>11, <2>1
    <3>2. Outcome(s, n)[p] \in Clean
      BY <1>3, <3>1 DEF Writes, WriteOf
    <3> QED BY <1>1, <3>1, <3>2
  <2>2. CASE \A w \in Brings(s, n) : w.path # p
    <3>1. Outcome(s, n)[p] = old[p]
      BY <1>5, <1>10, <2>2
    <3>2. \A i \in Active(s) : i \in Nat
      BY <1>1 DEF Active
    <3>3. \A i \in Active(s) : i <= n <=> (i <= n - 1 \/ i = n)
      BY <1>1, <3>2
    <3>4. \/ /\ old[p] = Package[p]
             /\ \A i \in Active(s) : i <= n - 1 => \A w \in Brings(s, i) : w.path # p
          \/ \E i \in Active(s) : i <= n - 1 /\ WriteOf(p, old[p]) \in Brings(s, i)
      BY <1>2 DEF Settled
    <3> QED BY <1>2, <2>2, <3>1, <3>3, <3>4
  <2> QED BY <2>1, <2>2
<1> QED BY <1>12, <1>13 DEF Settled

LEMMA OutcomeSettled ==
  ASSUME NEW s \in Scripts, WriteOnce(s), NEW n \in 0..Len(s)
  PROVE  Settled(s, n)
<1> DEFINE Bad == {k \in 0..Len(s) : ~Settled(s, k)}
<1>0. Len(s) \in Nat
  BY ScriptLength
<1>1. SUFFICES ASSUME Bad # {} PROVE FALSE
  OBVIOUS
<1>2. PICK k \in Bad : \A m \in Bad : k <= m
  <2>1. Bad \subseteq Nat
    BY <1>0
  <2> HIDE DEF Bad
  <2> QED BY <1>1, <2>1, LeastNumber
<1>3. CASE k = 0
  <2>1. Outcome(s, 0) = Package
    BY OutcomeSteps
  <2>2. Package \in [Paths -> Clean]
    BY SetupConstants
  <2>3. \A i \in Active(s) : ~(i <= 0)
    BY <1>0 DEF Active
  <2>4. Settled(s, 0)
    BY <2>1, <2>2, <2>3 DEF Settled
  <2> QED BY <1>3, <2>4
<1>4. CASE k # 0
  <2>1. k \in 1..Len(s) /\ k - 1 \in 0..Len(s) /\ ~(k <= k - 1)
    BY <1>0, <1>4
  <2>2. k - 1 \notin Bad
    <3> HIDE DEF Bad
    <3> QED BY <1>2, <2>1
  <2>3. Settled(s, k - 1)
    BY <2>1, <2>2
  <2>4. CASE k \in Active(s)
    BY <2>3, <2>4, StepSettles
  <2>5. CASE k \notin Active(s)
    <3>1. Outcome(s, k) = Outcome(s, k - 1)
      BY <2>1, <2>5, OutcomeSteps DEF Active, Before, Apply
    <3>2. \A i \in Active(s) : i <= k <=> i <= k - 1
      BY <1>0, <2>1, <2>5 DEF Active
    <3>3. Settled(s, k)
      BY <2>3, <3>1, <3>2 DEF Settled
    <3> QED BY <3>3
  <2> QED BY <2>4, <2>5
<1> QED BY <1>3, <1>4

--------------------------------------------------------------------------------
(* What a step finds in files that only steps of the script have written.    *)
There(fs, writes) == \A w \in writes : fs[w.path] = w.data

Tidy(s, fs) ==
  \A p \in Paths :
    \/ fs[p] = Package[p]
    \/ fs[p] = Partial /\ p \in PathsOf(Output(s))
    \/ WriteOf(p, fs[p]) \in Output(s)

LEMMA OutputPaths ==
  ASSUME NEW s, NEW p, NEW c, WriteOf(p, c) \in Output(s)
  PROVE  p \in PathsOf(Output(s))
BY DEF PathsOf, WriteOf

LEMMA Untouched ==
  ASSUME NEW s, NEW fs, Tidy(s, fs), NEW p \in Paths, p \notin PathsOf(Output(s))
  PROVE  fs[p] = Package[p]
BY OutputPaths DEF Tidy

\* What is settled at a step is the package's, or a product of an earlier step.
LEMMA BeforeStep ==
  ASSUME NEW s \in Scripts, WriteOnce(s), NEW n \in 1..Len(s), NEW p \in Paths
  PROVE  /\ Before(s, n) \in [Paths -> Clean]
         /\ \/ Before(s, n)[p] = Package[p]
            \/ \E i \in Active(s) : i < n /\ WriteOf(p, Before(s, n)[p]) \in Brings(s, i)
<1>1. Len(s) \in Nat /\ n - 1 \in 0..Len(s)
  BY ScriptLength
<1>2. Settled(s, n - 1)
  BY <1>1, OutcomeSettled
<1>3. \A i \in Active(s) : i <= n - 1 => i < n
  BY <1>1 DEF Active
<1> QED BY <1>2, <1>3 DEF Settled, Before

LEMMA BroughtIsOutput ==
  ASSUME NEW s, NEW i \in Active(s)
  PROVE  Brings(s, i) \subseteq Products(s) /\ Products(s) \subseteq Output(s)
BY DEF Products, Output

LEMMA SteadyConditions ==
  ASSUME NEW s \in Scripts, WriteOnce(s), NEW fs, Tidy(s, fs), NEW n \in 1..Len(s),
         n \notin Guarded(s)
  PROVE  Holds(fs, s[n].when) <=> n \in Active(s)
<1> DEFINE when == s[n].when
           now == Before(s, n)
<1>1. /\ when.test \in {"always", "file_not_exists", "file_exists", "env_not_set"}
      /\ when.test \in {"file_not_exists", "file_exists"} => when.path \in Paths
  BY ScriptSteps, SetupConstants
<1>2. ASSUME NEW p \in Paths, p \notin PathsOf(Output(s)) PROVE fs[p] = Package[p] /\ now[p] = Package[p]
  <2>1. ASSUME NEW i \in Active(s) PROVE WriteOf(p, now[p]) \notin Brings(s, i)
    BY <1>2, BroughtIsOutput, OutputPaths
  <2> QED BY <1>2, <2>1, Untouched, BeforeStep
<1>3. ASSUME when.test \in {"file_not_exists", "file_exists"}
      PROVE  Exists(fs, when.path) <=> Exists(now, when.path)
  <2>1. Through(when.path) \cap PathsOf(Output(s)) = {}
    BY <1>3 DEF WriteOnce, ConditionsAreSteady
  <2>2. when.path \in Paths /\ when.path \notin PathsOf(Output(s))
    BY <1>1, <1>3, <2>1 DEF Through
  <2>3. fs[when.path] = Package[when.path] /\ now[when.path] = Package[when.path]
    BY <1>2, <2>2
  <2>4. CASE Package[when.path] \in DOMAIN Target
    <3> DEFINE q == Target[Package[when.path]]
    <3>1. q \in Paths /\ q \notin PathsOf(Output(s))
      BY <2>1, <2>4, SetupConstants DEF Through
    <3>2. fs[q] = Package[q] /\ now[q] = Package[q]
      BY <1>2, <3>1
    <3> QED BY <2>3, <2>4, <3>2 DEF Exists, Reads
  <2>5. CASE Package[when.path] \notin DOMAIN Target
    BY <2>3, <2>5 DEF Exists, Reads
  <2> QED BY <2>4, <2>5
<1>4. Holds(fs, when) <=> Holds(now, when)
  <2> HIDE DEF when, now
  <2>1. CASE when.test = "always"
    BY <2>1 DEF Holds
  <2>2. CASE when.test = "env_not_set"
    BY <2>2 DEF Holds
  <2>3. CASE when.test = "file_exists"
    BY <1>3, <2>3 DEF Holds
  <2>4. CASE when.test = "file_not_exists"
    BY <1>3, <2>4 DEF Holds
  <2> QED BY <1>1, <2>1, <2>2, <2>3, <2>4
<1> QED BY <1>4 DEF Active

\* The mark of a guarded step is missing until a later step makes it.
LEMMA MarkFacts ==
  ASSUME NEW s \in Scripts, WriteOnce(s), NEW i \in Guarded(s)
  PROVE  /\ i \in Active(s) /\ i \in 1..Len(s) /\ Mark(s, i) \in Paths
         /\ Package[Mark(s, i)] = Missing /\ Mark(s, i) \notin PathsOf(Archives(s))
         /\ \A w \in Products(s) : w.path = Mark(s, i) => w.data \notin DOMAIN Target
         /\ \A j \in Active(s) : Mark(s, i) \in PathsOf(Brings(s, j)) => i < j
         /\ \A j \in Active(s) \ {i} : PathsOf(Brings(s, i)) \cap PathsOf(Brings(s, j)) = {}
         /\ PathsOf(Brings(s, i)) \cap PathsOf(Archives(s)) = {}
<1>1. i \in Active(s) /\ i \in 1..Len(s) /\ s[i].when.test = "file_not_exists"
      /\ Mark(s, i) \in PathsOf(Products(s))
  BY DEF Guarded, Active
<1>2. Mark(s, i) \in Paths
  BY <1>1, ScriptSteps, SetupConstants DEF Mark
<1>3. Brings(s, i) \subseteq Products(s) /\ Products(s) \subseteq Output(s)
  BY <1>1, BroughtIsOutput
<1>4. Package[Mark(s, i)] = Missing /\ PathsOf(Products(s)) \cap PathsOf(Archives(s)) = {}
  BY <1>1, <1>3 DEF WriteOnce, OneContent, PathsOf
<1>5. PathsOf(Brings(s, i)) \cap PathsOf(Archives(s)) = {}
  BY <1>3, <1>4 DEF PathsOf
<1> QED BY <1>1, <1>2, <1>4, <1>5 DEF WriteOnce, GuardsComeLast

LEMMA MarksAreSeen ==
  ASSUME NEW s \in Scripts, WriteOnce(s), NEW fs, Tidy(s, fs), NEW i \in Guarded(s)
  PROVE  Holds(fs, s[i].when) <=> fs[Mark(s, i)] = Missing
<1> DEFINE p == Mark(s, i)
<1>0. Missing \notin DOMAIN Target /\ Partial \notin DOMAIN Target /\ Missing # Partial
  BY SetupConstants
<1>1. /\ p \in Paths /\ Package[p] = Missing /\ p \notin PathsOf(Archives(s))
      /\ \A w \in Products(s) : w.path = p => w.data \notin DOMAIN Target
  BY MarkFacts
<1>2. fs[p] \notin DOMAIN Target
  <2>1. CASE WriteOf(p, fs[p]) \in Output(s)
    <3>1. WriteOf(p, fs[p]) \in Products(s)
      BY <1>1, <2>1 DEF Output, PathsOf, WriteOf
    <3> QED BY <1>1, <3>1 DEF WriteOf
  <2> QED BY <1>0, <1>1, <2>1 DEF Tidy
<1>3. Holds(fs, s[i].when) <=> ~Exists(fs, p)
  BY DEF Holds, Guarded, Mark
<1> HIDE DEF p
<1>4. Exists(fs, p) <=> fs[p] # Missing
  BY <1>2 DEF Exists, Reads
<1> QED BY <1>3, <1>4 DEF p

\* A file that a step finds on a fresh package is as it should be, or it is not
\* there yet, or it was left half written.
LEMMA FindsFile ==
  ASSUME NEW s \in Scripts, WriteOnce(s), NEW fs, Tidy(s, fs), NEW n \in 1..Len(s),
         NEW p \in Paths, Before(s, n)[p] # Missing
  PROVE  /\ \/ fs[p] \in {Before(s, n)[p], Missing}
            \/ fs[p] = Partial /\ p \in PathsOf(Output(s))
         /\ (\A i \in Active(s) : i < n => There(fs, Brings(s, i))) => fs[p] = Before(s, n)[p]
<1>1. CASE p \notin PathsOf(Output(s))
  <2>1. ASSUME NEW i \in Active(s) PROVE WriteOf(p, Before(s, n)[p]) \notin Brings(s, i)
    BY <1>1, BroughtIsOutput, OutputPaths
  <2> QED BY <1>1, <2>1, Untouched, BeforeStep
<1>2. CASE p \in PathsOf(Output(s))
  <2>1. Package[p] = Missing
    BY <1>2 DEF PathsOf, WriteOnce, OneContent
  <2>2. PICK i \in Active(s) : i < n /\ WriteOf(p, Before(s, n)[p]) \in Brings(s, i)
    BY <2>1, BeforeStep
  <2>3. ASSUME WriteOf(p, fs[p]) \in Output(s) PROVE fs[p] = Before(s, n)[p]
    <3>1. WriteOf(p, Before(s, n)[p]) \in Output(s)
      BY <2>2, BroughtIsOutput
    <3>2. WriteOf(p, fs[p]) = WriteOf(p, Before(s, n)[p])
      BY <2>3, <3>1 DEF WriteOnce, OneContent, WriteOf
    <3> QED BY <3>2 DEF WriteOf
  <2>4. There(fs, Brings(s, i)) => fs[p] = Before(s, n)[p]
    BY <2>2 DEF There, WriteOf
  <2> QED BY <1>2, <2>1, <2>2, <2>3, <2>4 DEF Tidy
<1> QED BY <1>1, <1>2

\* The same through a link.
LEMMA ReadsFile ==
  ASSUME NEW s \in Scripts, WriteOnce(s), NEW fs, Tidy(s, fs), NEW n \in 1..Len(s),
         NEW p \in Paths, Reads(Before(s, n), p) # Missing
  PROVE  /\ \/ Reads(fs, p) \in {Reads(Before(s, n), p), Missing}
            \/ Reads(fs, p) = Partial /\ \E q \in PathsOf(Output(s)) : fs[q] = Partial
         /\ (\A i \in Active(s) : i < n => There(fs, Brings(s, i))) =>
              Reads(fs, p) = Reads(Before(s, n), p)
<1> DEFINE now == Before(s, n)
           done == \A i \in Active(s) : i < n => There(fs, Brings(s, i))
<1>0. Missing \notin DOMAIN Target /\ Partial \notin DOMAIN Target /\ Missing # Partial
  BY SetupConstants
<1>1. now[p] # Missing
  BY <1>0 DEF Reads
<1>2. /\ \/ fs[p] \in {now[p], Missing}
         \/ fs[p] = Partial /\ p \in PathsOf(Output(s))
      /\ done => fs[p] = now[p]
  BY <1>1, FindsFile
<1>3. CASE fs[p] = Missing \/ (fs[p] = Partial /\ fs[p] # now[p])
  BY <1>0, <1>1, <1>2, <1>3 DEF Reads
<1>4. CASE fs[p] = now[p]
  <2>1. CASE now[p] \notin DOMAIN Target
    BY <1>4, <2>1 DEF Reads
  <2>2. CASE now[p] \in DOMAIN Target
    <3> DEFINE q == Target[now[p]]
    <3>1. q \in Paths /\ Reads(now, p) = now[q] /\ Reads(fs, p) = fs[q]
      BY <1>4, <2>2, SetupConstants DEF Reads
    <3>2. now[q] # Missing
      BY <3>1
    <3>3. /\ \/ fs[q] \in {now[q], Missing}
             \/ fs[q] = Partial /\ q \in PathsOf(Output(s))
          /\ done => fs[q] = now[q]
      BY <3>1, <3>2, FindsFile
    <3> QED BY <3>1, <3>3
  <2> QED BY <2>1, <2>2
<1> QED BY <1>2, <1>3, <1>4

\* What a step does is what it should do, or it copies what is half written.
LEMMA StepDoes ==
  ASSUME NEW s \in Scripts, WriteOnce(s), NEW fs, Tidy(s, fs), NEW n \in Active(s),
         s[n].action # "download", Possible(fs, s[n])
  PROVE  \/ Effect(fs, s[n]) = Effect(Before(s, n), s[n])
         \/ /\ Effect(fs, s[n]) = <<WriteOf(s[n].dest, Partial)>>
            /\ s[n].action = "copy"
            /\ s[n].dest \in PathsOf(Brings(s, n))
            /\ \E q \in PathsOf(Output(s)) : fs[q] = Partial
            /\ ~ \A i \in Active(s) : i < n => There(fs, Brings(s, i))
<1> DEFINE now == Before(s, n)
           done == \A i \in Active(s) : i < n => There(fs, Brings(s, i))
<1>0. n \in 1..Len(s) /\ s[n].source \in Paths
  BY CleanStep DEF Active
<1>1. Possible(now, s[n]) /\ s[n].action \in Plain
  BY DEF WriteOnce, StepsArePlain
<1>2. Missing \notin DOMAIN Entries /\ Partial \notin DOMAIN Entries
  BY SetupConstants
<1>3. ASSUME Reads(now, s[n].source) # Missing
      PROVE  /\ \/ Reads(fs, s[n].source) \in {Reads(now, s[n].source), Missing}
                \/ /\ Reads(fs, s[n].source) = Partial
                   /\ \E q \in PathsOf(Output(s)) : fs[q] = Partial
             /\ done => Reads(fs, s[n].source) = Reads(now, s[n].source)
  BY <1>0, <1>3, ReadsFile
<1> HIDE DEF now, done
<1>4. CASE s[n].action = "extract"
  <2>1. Archive(Reads(now, s[n].source)) /\ Archive(Reads(fs, s[n].source))
    BY <1>1, <1>4 DEF Possible
  <2>2. Reads(fs, s[n].source) = Reads(now, s[n].source)
    BY <1>2, <1>3, <2>1 DEF Archive
  <2> QED BY <1>4, <2>2 DEF Effect, now
<1>5. CASE s[n].action = "copy"
  <2>1. Reads(now, s[n].source) # Missing /\ Reads(fs, s[n].source) # Missing
    BY <1>1, <1>5 DEF Possible, Exists
  <2>2. Effect(fs, s[n]) = <<WriteOf(s[n].dest, Reads(fs, s[n].source))>>
    BY <1>5 DEF Effect
  <2>3. Effect(now, s[n]) = <<WriteOf(s[n].dest, Reads(now, s[n].source))>>
    BY <1>5 DEF Effect
  <2>4. s[n].dest \in PathsOf(Brings(s, n))
    <3>1. Brings(s, n) = ToSet(Effect(now, s[n]))
      BY <1>5 DEF Brings, Unpacks, now
    <3>2. WriteOf(s[n].dest, Reads(now, s[n].source)) \in Brings(s, n)
      BY <2>3, <3>1 DEF ToSet
    <3> QED BY <3>2 DEF PathsOf, WriteOf
  <2>5. CASE Reads(fs, s[n].source) = Reads(now, s[n].source)
    BY <2>2, <2>3, <2>5 DEF now
  <2>6. CASE Reads(fs, s[n].source) # Reads(now, s[n].source)
    BY <1>3, <1>5, <2>1, <2>2, <2>4, <2>6 DEF done
  <2> QED BY <2>5, <2>6
<1>6. CASE s[n].action \in {"run", "touch", "write-file", "symlink", "chmod", "mkdir"}
  BY <1>6 DEF Effect
<1> QED BY <1>1, <1>4, <1>5, <1>6 DEF Plain

--------------------------------------------------------------------------------
(* The invariant.                                                            *)

\* What is left to do, by attempts and behind them.
Tasks == {todo[r] : r \in Reqs} \cup leftovers

\* A product, or a copy of something half written.
Due(w) ==
  \/ w \in Products(script)
  \/ w.data = Partial /\ w.path \in PathsOf(Products(script))

Owed == \A task \in Tasks : \A w \in ToSet(task) : Due(w)

\* While no write fails nothing is half written, and nothing will be.
Whole ==
  "half" \notin harm =>
    /\ \A p \in PathsOf(Output(script)) : files[p] # Partial
    /\ \A task \in Tasks : ToSet(task) \subseteq Products(script)

\* Attempts execute the steps that apply, and download what is right.
Working(r) ==
  /\ pc[r] \in {"fetch", "open", "task"} => pos[r] \in Active(script)
  /\ pc[r] = "open" => Unpacks(Step(r))
  /\ pc[r] = "task" => Unpacks(Step(r)) \/ Step(r).action \in Long
  /\ pc[r] \notin Executing => pos[r] = 1
  /\ dl[r] \in Counts(script, Counted(r))
  /\ pc[r] = "fetch" =>
       \A data \in Served[url[r]] : Verified(Step(r), data) => data = Origin[Step(r).url]

Alone ==
  "overlap" \notin harm =>
    /\ \A r, q \in Attempts : r = q
    /\ Attempts # {} => leftovers = {}

\* What the steps before have brought is there; what a task has not brought is
\* left to it.
DoneSoFar(r) ==
  /\ \A i \in Active(script) : i < pos[r] => There(files, Brings(script, i))
  /\ pc[r] = "task" =>
       /\ ToSet(todo[r]) \subseteq Brings(script, pos[r])
       /\ \A w \in Brings(script, pos[r]) : files[w.path] = w.data \/ w \in ToSet(todo[r])

Calm == "half" \notin harm \/ "overlap" \notin harm

\* Of a script with guards every attempt: they bring what nobody else undoes.
Sound(r) == r \notin tainted \/ Guarded(script) # {}

AttemptsDone == Calm => \A r \in Attempts : Sound(r) => DoneSoFar(r)

\* A mark that is there, or that a task is about to make, tells the truth.
Marked(i) ==
  \/ files[Mark(script, i)] # Missing
  \/ \E task \in Tasks : \E w \in ToSet(task) : w.path = Mark(script, i)

Marks == Calm => \A i \in Guarded(script) : Marked(i) => There(files, Brings(script, i))

\* What is left over of a script with guards makes products.
MarksWait ==
  Calm /\ Guarded(script) # {} => \A task \in leftovers : ToSet(task) \subseteq Products(script)

\* A guarded step is executed before its mark is made.
Unmarked ==
  "overlap" \notin harm =>
    \A r \in Attempts :
      pc[r] \in {"fetch", "open", "task"} /\ pos[r] \in Guarded(script) =>
        files[Mark(script, pos[r])] = Missing

Complete ==
  last = "ok" =>
    /\ "half" \notin harm => There(files, Products(script))
    /\ "overlap" \notin harm /\ Attempts = {} =>
         leftovers = {} /\ There(files, Products(script))

OrderInv ==
  /\ WriteOnce(script)
  /\ Tidy(script, files)
  /\ Owed
  /\ Whole
  /\ \A r \in Reqs : Working(r)
  /\ Alone
  /\ AttemptsDone
  /\ Marks
  /\ MarksWait
  /\ Unmarked
  /\ Complete

\* Of a package that is whole.
SetupInv ==
  /\ TypeInv
  /\ \A r \in Reqs : pc[r] # "extract"
  /\ OrderInv

\* Nothing is known of a package that was registered again and not left alone,
\* until a registration finds and leaves it whole.
WholeInv ==
  /\ TypeInv
  /\ WriteOnce(script)
  /\ \A r \in Reqs : pc[r] = "extract" => "torn" \in harm
  /\ "torn" \notin harm => OrderInv

LEMMA SetupShapes ==
  ASSUME SetupInv
  PROVE  /\ script \in Scripts /\ Len(script) \in Nat /\ WriteOnce(script)
         /\ files \in [Paths -> Clean] /\ Tidy(script, files)
         /\ DOMAIN pc = Reqs /\ DOMAIN call = Reqs /\ DOMAIN url = Reqs /\ DOMAIN dl = Reqs
         /\ pos \in [Reqs -> Nat \ {0}] /\ todo \in [Reqs -> Seq(Writes)]
         /\ leftovers \subseteq Seq(Writes) \ {<<>>}
         /\ \A r \in Reqs : /\ Working(r)
                            /\ pc[r] # "task" => todo[r] = <<>>
                            /\ pos[r] <= Len(script) + 1
                            /\ pc[r] \in Executing => r \in Attempts
                            /\ pc[r] # "idle" => call[r] \in Calls[r]
BY ScriptLength DEF SetupInv, OrderInv, TypeInv, CleanInv, Shapes, Pending, Slot, SlotType,
                    Attempts, Executing

\* Products have their own paths and contents; writing one, or removing an
\* archive, leaves the others where they are.
LEMMA OutputWrite ==
  ASSUME NEW s \in Scripts, WriteOnce(s), NEW fs \in [Paths -> Clean], NEW w \in Writes,
         \/ w \in Output(s)
         \/ w.path \in PathsOf(Archives(s)) /\ w.data = Missing,
         NEW v \in Products(s), fs[v.path] = v.data
  PROVE  Write(fs, w)[v.path] = v.data
<1>1. CASE v.path # w.path
  BY <1>1 DEF Write
<1>2. CASE v.path = w.path
  <2>1. Write(fs, w)[v.path] = w.data
    BY <1>2 DEF Write, Writes
  <2>2. v \in Output(s) /\ v.path \in PathsOf(Products(s))
    BY DEF Output, PathsOf
  <2>3. w \in Output(s)
    BY <1>2, <2>2 DEF WriteOnce, OneContent
  <2>4. v = w
    BY <1>2, <2>2, <2>3 DEF WriteOnce, OneContent
  <2> QED BY <2>1, <2>4
<1> QED BY <1>1, <1>2

LEMMA TidyWrite ==
  ASSUME NEW s \in Scripts, WriteOnce(s), NEW fs \in [Paths -> Clean], NEW w \in Writes,
         Tidy(s, fs),
         \/ w \in Output(s)
         \/ w.path \in PathsOf(Archives(s)) /\ w.data = Missing
         \/ w.path \in PathsOf(Output(s)) /\ w.data = Partial
  PROVE  Tidy(s, Write(fs, w))
<1> SUFFICES ASSUME NEW p \in Paths
             PROVE  \/ Write(fs, w)[p] = Package[p]
                    \/ Write(fs, w)[p] = Partial /\ p \in PathsOf(Output(s))
                    \/ WriteOf(p, Write(fs, w)[p]) \in Output(s)
  BY DEF Tidy
<1>1. CASE p # w.path
  <2>1. Write(fs, w)[p] = fs[p]
    BY <1>1 DEF Write
  <2> QED BY <2>1 DEF Tidy
<1>2. CASE p = w.path
  <2>1. Write(fs, w)[p] = w.data
    BY <1>2 DEF Write, Writes
  <2>2. WriteOf(p, w.data) = w
    BY <1>2 DEF WriteOf, Writes
  <2>3. w.path \in PathsOf(Archives(s)) => Package[w.path] = Missing
    BY DEF PathsOf, Output, WriteOnce, OneContent
  <2> QED BY <1>2, <2>1, <2>2, <2>3
<1> QED BY <1>1, <1>2

LEMMA TailSet ==
  ASSUME NEW ws \in Seq(Writes), ws # <<>>
  PROVE  ToSet(ws) = {Head(ws)} \cup ToSet(Tail(ws)) /\ Head(ws) \in Writes
<1>1. /\ DOMAIN ws = 1..Len(ws) /\ Len(ws) \in Nat \ {0} /\ Head(ws) = ws[1]
      /\ DOMAIN Tail(ws) = 1..Len(ws) - 1
      /\ \A i \in 1..Len(ws) - 1 : Tail(ws)[i] = ws[i + 1]
  OBVIOUS
<1>2. \A i \in 1..Len(ws) : i = 1 \/ (i - 1 \in 1..Len(ws) - 1 /\ (i - 1) + 1 = i)
  BY <1>1
<1>3. \A i \in 1..Len(ws) - 1 : i + 1 \in 1..Len(ws)
  BY <1>1
<1>4. 1 \in 1..Len(ws)
  BY <1>1
<1>5. ASSUME NEW i \in DOMAIN ws PROVE ws[i] \in {Head(ws)} \cup ToSet(Tail(ws))
  <2>1. CASE i = 1
    BY <1>1, <2>1
  <2>2. CASE i # 1
    <3>1. i - 1 \in DOMAIN Tail(ws) /\ Tail(ws)[i - 1] = ws[i]
      BY <1>1, <1>2, <2>2
    <3> QED BY <3>1 DEF ToSet
  <2> QED BY <2>1, <2>2
<1>6. \A i \in DOMAIN Tail(ws) : Tail(ws)[i] \in ToSet(ws)
  BY <1>1, <1>3 DEF ToSet
<1>7. Head(ws) \in ToSet(ws) /\ Head(ws) \in Writes
  BY <1>1, <1>4 DEF ToSet
<1> QED BY <1>5, <1>6, <1>7 DEF ToSet

LEMMA CountOne ==
  ASSUME NEW s \in Scripts, NEW n \in 1..Len(s), NEW G
  PROVE  /\ Cardinality(Fetches(s, n - 1) \ G) \in Nat /\ Cardinality(Fetches(s, n) \ G) \in Nat
         /\ Cardinality(Fetches(s, 0) \ G) = 0
         /\ n \notin Active(s) \ G \/ s[n].action # "download" =>
              Cardinality(Fetches(s, n) \ G) = Cardinality(Fetches(s, n - 1) \ G)
         /\ n \in Active(s) \ G /\ s[n].action = "download" =>
              Cardinality(Fetches(s, n) \ G) = Cardinality(Fetches(s, n - 1) \ G) + 1
<1> DEFINE A == Fetches(s, n - 1) \ G
           B == Fetches(s, n) \ G
<1>1. Len(s) \in Nat /\ Active(s) \subseteq 1..Len(s)
  BY ScriptLength DEF Active
<1>2. \A i \in 1..Len(s) : (i <= n <=> (i <= n - 1 \/ i = n)) /\ ~(i <= 0)
  BY <1>1
<1>3. Fetches(s, 0) \ G = {}
  BY <1>1, <1>2 DEF Fetches
<1>4. IsFiniteSet(A)
  <2>1. A \subseteq 1..Len(s)
    BY <1>1 DEF Fetches
  <2>2. IsFiniteSet(1..Len(s))
    BY <1>1, FS_Interval
  <2> QED BY <2>1, <2>2, FS_Subset
<1>5. n \notin A
  BY <1>1 DEF Fetches
<1>6. B = A \cup IF n \in Active(s) \ G /\ s[n].action = "download" THEN {n} ELSE {}
  BY <1>1, <1>2 DEF Fetches
<1> HIDE DEF A, B
<1>7. /\ Cardinality(A) \in Nat
      /\ n \notin Active(s) \ G \/ s[n].action # "download" => B = A
      /\ n \in Active(s) \ G /\ s[n].action = "download" =>
           Cardinality(B) = Cardinality(A) + 1
  BY <1>4, <1>5, <1>6, FS_AddElement, FS_CardinalityType
<1>8. Cardinality(B) \in Nat
  BY <1>7
<1> QED BY <1>3, <1>7, <1>8, FS_EmptySet DEF A, B

\* A step that is executed is counted; one that is skipped was guarded.
LEMMA FetchCount ==
  ASSUME NEW s \in Scripts, NEW n \in 1..Len(s), NEW k \in Counts(s, n - 1)
  PROVE  /\ k \in Nat
         /\ n \notin Active(s) \/ n \in Guarded(s) \/ s[n].action # "download" =>
              k \in Counts(s, n)
         /\ n \in Active(s) /\ s[n].action = "download" => k + 1 \in Counts(s, n)
<1> DEFINE G == Guarded(s)
<1>1. Fetches(s, n) \ {} = Fetches(s, n) /\ Fetches(s, n - 1) \ {} = Fetches(s, n - 1)
      /\ Active(s) \ {} = Active(s)
  OBVIOUS
<1>2. /\ Cardinality(Fetches(s, n - 1)) \in Nat /\ Cardinality(Fetches(s, n)) \in Nat
      /\ n \notin Active(s) \/ s[n].action # "download" =>
           Cardinality(Fetches(s, n)) = Cardinality(Fetches(s, n - 1))
      /\ n \in Active(s) /\ s[n].action = "download" =>
           Cardinality(Fetches(s, n)) = Cardinality(Fetches(s, n - 1)) + 1
  <2> DEFINE E == {}
  <2>1. /\ Cardinality(Fetches(s, n - 1) \ E) \in Nat /\ Cardinality(Fetches(s, n) \ E) \in Nat
        /\ n \notin Active(s) \ E \/ s[n].action # "download" =>
             Cardinality(Fetches(s, n) \ E) = Cardinality(Fetches(s, n - 1) \ E)
        /\ n \in Active(s) \ E /\ s[n].action = "download" =>
             Cardinality(Fetches(s, n) \ E) = Cardinality(Fetches(s, n - 1) \ E) + 1
    <3> HIDE DEF E
    <3> QED BY CountOne
  <2> QED BY <1>1, <2>1
<1>3. /\ Cardinality(Fetches(s, n - 1) \ G) \in Nat /\ Cardinality(Fetches(s, n) \ G) \in Nat
      /\ n \notin Active(s) \ G \/ s[n].action # "download" =>
           Cardinality(Fetches(s, n) \ G) = Cardinality(Fetches(s, n - 1) \ G)
      /\ n \in Active(s) \ G /\ s[n].action = "download" =>
           Cardinality(Fetches(s, n) \ G) = Cardinality(Fetches(s, n - 1) \ G) + 1
  BY CountOne
<1> HIDE DEF G
<1>4. k \in Cardinality(Fetches(s, n - 1) \ G)..Cardinality(Fetches(s, n - 1))
  BY DEF Counts, G
<1>5. Counts(s, n) = Cardinality(Fetches(s, n) \ G)..Cardinality(Fetches(s, n))
  BY DEF Counts, G
<1>6. n \notin Active(s) \/ n \in G \/ s[n].action # "download" => k \in Counts(s, n)
  BY <1>2, <1>3, <1>4, <1>5
<1>7. n \in Active(s) /\ s[n].action = "download" => k + 1 \in Counts(s, n)
  BY <1>2, <1>3, <1>4, <1>5
<1> QED BY <1>4, <1>6, <1>7, <1>2, <1>3 DEF G

\* Before the first step nothing is counted.
LEMMA NothingCounted ==
  ASSUME NEW s \in Scripts
  PROVE  Counts(s, 0) = {0}
<1>1. Fetches(s, 0) = {} /\ Fetches(s, 0) \ Guarded(s) = {}
  <2>1. \A i \in 1..Len(s) : ~(i <= 0)
    BY ScriptLength
  <2> QED BY <2>1 DEF Fetches, Active
<1>2. Cardinality({}) = 0
  BY FS_EmptySet
<1>3. Counts(s, 0) = 0..0
  BY <1>1, <1>2 DEF Counts
<1> QED BY <1>3

--------------------------------------------------------------------------------
(* Steps that leave most of it alone.                                        *)
LEMMA SameWorking ==
  ASSUME NEW r \in Reqs, Working(r), script' = script,
         UNCHANGED <<pc[r], pos[r], dl[r], url[r]>>
  PROVE  Working(r)'
<1>1. Counted(r)' = Counted(r) /\ Step(r)' = Step(r)
  BY DEF Counted, Step
<1> QED BY <1>1 DEF Working

Stay == \A v \in Products(script) : files[v.path] = v.data => files'[v.path] = v.data

LEMMA StayThere ==
  ASSUME Stay, NEW writes, writes \subseteq Products(script), There(files, writes)
  PROVE  There(files', writes)
BY DEF Stay, There

LEMMA SameDone ==
  ASSUME NEW r \in Reqs, DoneSoFar(r), script' = script, UNCHANGED <<pc[r], pos[r], todo[r]>>,
         Stay, pc[r] = "task" => pos[r] \in Active(script)
  PROVE  DoneSoFar(r)'
<1>1. \A i \in Active(script) : Brings(script, i) \subseteq Products(script)
  BY BroughtIsOutput
<1>2. \A i \in Active(script) : i < pos[r] => There(files', Brings(script, i))
  BY <1>1, StayThere DEF DoneSoFar
<1>3. ASSUME pc[r] = "task", NEW w \in Brings(script, pos[r])
      PROVE  files'[w.path] = w.data \/ w \in ToSet(todo[r])
  BY <1>1, <1>3 DEF DoneSoFar, Stay
<1> QED BY <1>2, <1>3 DEF DoneSoFar

\* The variables of a slot that returns, and of the others.
LEMMA ReturnKeeps ==
  ASSUME SetupInv, NEW r \in Reqs, Return(r), script' = script
  PROVE  /\ \A q \in Reqs : Working(q)'
         /\ \A q \in Reqs \ {r} : UNCHANGED <<pc[q], call[q], pos[q], dl[q], url[q], todo[q]>>
         /\ todo'[r] = <<>> /\ pos'[r] = 1 /\ pc'[r] = "idle"
         /\ Attempts' = Attempts \ {r}
<1>1. /\ \A q \in Reqs \ {r} : UNCHANGED <<pc[q], call[q], pos[q], dl[q], url[q], todo[q]>>
      /\ todo'[r] = <<>> /\ pos'[r] = 1 /\ dl'[r] = 0 /\ pc'[r] = "idle"
  BY SetupShapes DEF Return, Goto
<1>2. Working(r)'
  <2>1. Counted(r)' = 0
    BY <1>1 DEF Counted
  <2>2. dl'[r] \in Counts(script, 0)
    BY <1>1, SetupShapes, NothingCounted
  <2> QED BY <1>1, <2>1, <2>2 DEF Working
<1>3. \A q \in Reqs \ {r} : Working(q)'
  BY <1>1, SameWorking, SetupShapes
<1>4. Attempts' = Attempts \ {r}
  BY <1>1 DEF Attempts
<1> QED BY <1>1, <1>2, <1>3, <1>4

\* A step of an attempt that goes on: it leaves the files alone, writes what it
\* should, removes an archive, or does what is left of a task.
LEMMA WorkKeeps ==
  ASSUME SetupInv, NEW r \in Reqs, pc[r] \in Executing, pc'[r] \in Executing,
         script' = script, leftovers' = leftovers, last' = last, call' = call,
         \A q \in Reqs \ {r} : UNCHANGED <<pc[q], pos[q], dl[q], url[q], todo[q]>>,
         harm' \in {harm, harm \cup {"shift"}}, tainted' \in {tainted, tainted \cup {r}},
         \/ files' = files
         \/ \E w \in Writes :
              /\ files' = Write(files, w)
              /\ \/ pos[r] \in Active(script) /\ w \in Brings(script, pos[r])
                 \/ w \in Archives(script)
                 \/ w.path \in PathsOf(Archives(script)) /\ w.data = Missing
                 \/ pc[r] = "task" /\ w \in ToSet(todo[r]),
         \A w \in ToSet(todo'[r]) : Due(w) /\ ("half" \notin harm => w \in Products(script)),
         pc'[r] # "task" => todo'[r] = <<>>,
         pc'[r] \in {"fetch", "open", "task"} =>
           pos'[r] = pos[r] /\ (pc[r] = "step" => Holds(files, Step(r).when)),
         Working(r)',
         Calm /\ Sound(r) => DoneSoFar(r)'
  PROVE  OrderInv'
<1>0. /\ script \in Scripts /\ WriteOnce(script) /\ files \in [Paths -> Clean]
      /\ Tidy(script, files) /\ Owed /\ Whole /\ Alone /\ AttemptsDone /\ Complete
      /\ r \in Attempts /\ todo[r] \in Tasks
      /\ Marks /\ MarksWait /\ Unmarked /\ Working(r)
  BY SetupShapes DEF SetupInv, OrderInv, Tasks
<1>1. /\ "half" \in harm' <=> "half" \in harm
      /\ "overlap" \in harm' <=> "overlap" \in harm
      /\ Attempts' = Attempts /\ Tasks' \subseteq Tasks \cup {todo'[r]}
  BY DEF Attempts, Executing, Tasks
<1>2. ASSUME NEW w \in ToSet(todo[r])
      PROVE  /\ w \in Output(script) \/ (w.path \in PathsOf(Output(script)) /\ w.data = Partial)
             /\ "half" \notin harm => w \in Output(script)
  BY <1>0, <1>2 DEF Owed, Whole, Due, Output, PathsOf
<1>output. /\ pos[r] \in Active(script) => Brings(script, pos[r]) \subseteq Output(script)
       /\ Archives(script) \subseteq Output(script)
  BY BroughtIsOutput DEF Output
<1>3. Tidy(script, files')
  BY <1>0, <1>2, <1>output, TidyWrite
<1>4. "half" \notin harm => Stay
  BY <1>0, <1>2, <1>output, OutputWrite DEF Stay
<1>5. Owed'
  BY <1>0, <1>1 DEF Owed, Due
<1>6. Whole'
  <2> SUFFICES ASSUME "half" \notin harm
               PROVE  /\ \A p \in PathsOf(Output(script)) : files'[p] # Partial
                      /\ \A task \in Tasks' : ToSet(task) \subseteq Products(script)
    BY <1>1 DEF Whole
  <2>1. \A task \in Tasks' : ToSet(task) \subseteq Products(script)
    BY <1>0, <1>1 DEF Whole
  <2>2. ASSUME NEW p \in PathsOf(Output(script)), NEW w \in Writes, files' = Write(files, w),
               w \in Output(script) \/ w.data = Missing
        PROVE  files'[p] # Partial
    <3>1. w.data # Partial
      BY <1>0, <2>2, SetupConstants DEF WriteOnce, OneContent
    <3>2. files[p] # Partial
      BY <1>0 DEF Whole
    <3> QED BY <1>0, <2>2, <3>1, <3>2 DEF Write, Writes
  <2>3. \A p \in PathsOf(Output(script)) : files[p] # Partial
    BY <1>0 DEF Whole
  <2> QED BY <1>2, <1>output, <2>1, <2>2, <2>3
<1>7. \A q \in Reqs : Working(q)'
  BY SameWorking, SetupShapes
<1>8. Alone'
  BY <1>0, <1>1 DEF Alone
<1>9. AttemptsDone'
  <2> SUFFICES ASSUME Calm, NEW q \in Attempts, Sound(q) PROVE DoneSoFar(q)'
    BY <1>1 DEF AttemptsDone, Calm, Sound
  <2>1. q \in Reqs /\ DoneSoFar(q)
    BY <1>0 DEF Attempts, AttemptsDone
  <2>2. CASE q # r
    <3>1. "half" \notin harm
      BY <1>0, <2>2 DEF Calm, Alone
    <3>2. pc[q] = "task" => pos[q] \in Active(script)
      BY <2>1, SetupShapes DEF Working
    <3> QED BY <1>4, <2>1, <2>2, <3>1, <3>2, SameDone
  <2> QED BY <2>1, <2>2
<1>10. Complete'
  <2>1. "half" \notin harm => (There(files, Products(script)) => There(files', Products(script)))
    BY <1>4, StayThere
  <2> QED BY <1>0, <1>1, <2>1 DEF Complete
<1>11. ASSUME Calm, NEW i \in Guarded(script)
       PROVE  /\ DoneSoFar(r) /\ DoneSoFar(r)' /\ Stay
              /\ files'[Mark(script, i)] = files[Mark(script, i)]
                 \/ (i < pos[r] /\ There(files, Brings(script, i)))
  <2>1. DoneSoFar(r) /\ DoneSoFar(r)'
    BY <1>0, <1>11 DEF AttemptsDone, Sound
  <2>2. /\ i \in Active(script) /\ Mark(script, i) \notin PathsOf(Archives(script))
        /\ \A j \in Active(script) : Mark(script, i) \in PathsOf(Brings(script, j)) => i < j
    BY <1>0, MarkFacts
  <2>3. pc[r] = "task" => pos[r] \in Active(script) /\ ToSet(todo[r]) \subseteq Brings(script, pos[r])
    BY <1>0, <2>1 DEF DoneSoFar, Working
  <2>4. CASE files' = files
    BY <2>1, <2>4 DEF Stay
  <2>5. ASSUME NEW w \in Writes, files' = Write(files, w),
               \/ pos[r] \in Active(script) /\ w \in Brings(script, pos[r])
               \/ w \in Archives(script)
               \/ w.path \in PathsOf(Archives(script)) /\ w.data = Missing
        PROVE  /\ Stay
               /\ files'[Mark(script, i)] = files[Mark(script, i)]
                  \/ (i < pos[r] /\ There(files, Brings(script, i)))
    <3>1. \A v \in Products(script) : files[v.path] = v.data => Write(files, w)[v.path] = v.data
      BY <1>0, <1>output, <2>5, OutputWrite
    <3>2. Stay
      BY <2>5, <3>1 DEF Stay
    <3>3. CASE w.path # Mark(script, i)
      BY <2>5, <3>2, <3>3 DEF Write
    <3>4. CASE w.path = Mark(script, i)
      <4>1. w.path \notin PathsOf(Archives(script))
        BY <2>2, <3>4
      <4>2. pos[r] \in Active(script) /\ w \in Brings(script, pos[r])
        BY <2>5, <4>1 DEF PathsOf
      <4>3. i < pos[r]
        BY <2>2, <3>4, <4>2 DEF PathsOf
      <4> QED BY <2>1, <2>2, <3>2, <4>3 DEF DoneSoFar
    <3> QED BY <3>3, <3>4
  <2> QED BY <2>1, <2>3, <2>4, <2>5
<1>12. Marks'
  <2> SUFFICES ASSUME Calm, NEW i \in Guarded(script), Marked(i)'
               PROVE  There(files', Brings(script, i))
    BY <1>1 DEF Marks, Calm
  <2>1. /\ DoneSoFar(r)' /\ Stay
        /\ files'[Mark(script, i)] = files[Mark(script, i)]
           \/ (i < pos[r] /\ There(files, Brings(script, i)))
    BY <1>11
  <2>2. i \in Active(script) /\ Brings(script, i) \subseteq Products(script)
        /\ \A j \in Active(script) : Mark(script, i) \in PathsOf(Brings(script, j)) => i < j
    BY <1>0, MarkFacts, BroughtIsOutput
  <2>3. ASSUME NEW w \in ToSet(todo'[r]), w.path = Mark(script, i)
        PROVE  There(files', Brings(script, i))
    <3>1. pc'[r] = "task"
      BY <2>3 DEF ToSet
    <3>2. pos'[r] \in Active(script) /\ w \in Brings(script, pos'[r])
      BY <2>1, <2>3, <3>1 DEF DoneSoFar, Working
    <3>3. i < pos'[r]
      BY <2>2, <2>3, <3>2 DEF PathsOf
    <3> QED BY <2>1, <2>2, <3>3 DEF DoneSoFar
  <2>4. Marked(i) => There(files', Brings(script, i))
    BY <1>0, <2>1, <2>2, StayThere DEF Marks
  <2>5. \/ Marked(i)
        \/ There(files, Brings(script, i))
        \/ \E w \in ToSet(todo'[r]) : w.path = Mark(script, i)
    BY <1>1, <2>1 DEF Marked
  <2> QED BY <2>1, <2>2, <2>3, <2>4, <2>5, StayThere
<1>13. MarksWait'
  BY <1>0, <1>1 DEF MarksWait, Calm
<1>14. Unmarked'
  <2> SUFFICES ASSUME "overlap" \notin harm, pc'[r] \in {"fetch", "open", "task"},
                      pos[r] \in Guarded(script)
               PROVE  files'[Mark(script, pos[r])] = Missing
    BY <1>0, <1>1 DEF Unmarked, Alone
  <2>1. files[Mark(script, pos[r])] = Missing
    <3>1. CASE pc[r] = "step"
      BY <1>0, <3>1, MarksAreSeen DEF Step
    <3>2. CASE pc[r] # "step"
      BY <1>0, <3>2 DEF Unmarked, Executing
    <3> QED BY <3>1, <3>2
  <2>2. ~(pos[r] < pos[r])
    BY SetupShapes
  <2> QED BY <1>11, <2>1, <2>2 DEF Calm
<1> QED BY <1>0, <1>3, <1>5, <1>6, <1>7, <1>8, <1>9, <1>10, <1>12, <1>13, <1>14 DEF OrderInv

\* What an attempt may leave half written is an archive or made by its step.
Its(r, p) ==
  \/ p \in PathsOf(Archives(script))
  \/ /\ pos[r] \in Active(script) /\ p \in PathsOf(Brings(script, pos[r]))
     /\ pos[r] \in Guarded(script) => files[Mark(script, pos[r])] = Missing

\* An attempt ends with an error.
LEMMA FailureKeeps ==
  ASSUME SetupInv, NEW r \in Attempts, Fail(r), script' = script,
         \/ UNCHANGED <<files, harm>>
         \/ \E p \in Paths \cap PathsOf(Output(script)) :
              Half(p) /\ ("overlap" \notin harm /\ Guarded(script) # {} => Its(r, p)),
         leftovers' \in {leftovers, leftovers \cup {todo[r]}}
  PROVE  OrderInv'
<1>0. /\ script \in Scripts /\ WriteOnce(script) /\ files \in [Paths -> Clean]
      /\ Tidy(script, files) /\ Owed /\ Whole /\ Alone /\ AttemptsDone
      /\ r \in Reqs /\ todo[r] \in Tasks
      /\ Marks /\ MarksWait
      /\ \A q \in Reqs : (pc[q] = "task" => pos[q] \in Active(script))
                        /\ (pc[q] # "task" => todo[q] = <<>>)
      /\ \A q \in Reqs \ Attempts : todo[q] = <<>>
  BY SetupShapes DEF SetupInv, OrderInv, Tasks, Attempts, Working, Executing
<1>1. /\ \A q \in Reqs : Working(q)'
      /\ \A q \in Reqs \ {r} : UNCHANGED <<pc[q], call[q], pos[q], dl[q], url[q], todo[q]>>
      /\ todo'[r] = <<>> /\ Attempts' = Attempts \ {r}
      /\ last' = "failed" /\ tainted' = (tainted \cup Attempts) \ {r}
  BY <1>0, ReturnKeeps DEF Fail
<1>2. Tasks' \subseteq Tasks \cup {<<>>}
  BY <1>0, <1>1 DEF Tasks
<1>3. ToSet(<<>>) = {}
  BY DEF ToSet
<1>4. harm \subseteq harm' /\ ("overlap" \in harm' => "overlap" \in harm)
  BY DEF Half
<1>5. Tidy(script, files')
  <2>1. CASE \E p \in Paths \cap PathsOf(Output(script)) : Half(p)
    <3>1. PICK p \in Paths \cap PathsOf(Output(script)) : files' = Write(files, WriteOf(p, Partial))
      BY <2>1 DEF Half
    <3>2. /\ WriteOf(p, Partial) \in Writes
          /\ WriteOf(p, Partial).path = p /\ WriteOf(p, Partial).data = Partial
      BY CleanConstants, CleanWriteOf DEF WriteOf
    <3> QED BY <1>0, <3>1, <3>2, TidyWrite
  <2> QED BY <1>0, <2>1
<1>6. Owed'
  BY <1>0, <1>2, <1>3 DEF Owed, Due
<1>7. Whole'
  <2>1. "half" \notin harm' => UNCHANGED <<files, harm>>
    BY DEF Half
  <2> QED BY <1>0, <1>2, <1>3, <2>1 DEF Whole
<1>8. Alone'
  BY <1>0, <1>1, <1>4 DEF Alone
<1>9. Calm' => Calm
  BY <1>4 DEF Calm
<1>10. AttemptsDone'
  <2> SUFFICES ASSUME Calm', NEW q \in Attempts \ {r}, Guarded(script) # {} PROVE DoneSoFar(q)'
    BY <1>1 DEF AttemptsDone, Sound
  <2>1. q \in Reqs /\ DoneSoFar(q)
    BY <1>0, <1>9 DEF Attempts, AttemptsDone, Sound
  <2>2. files' = files
    BY <1>0, <1>4 DEF Alone, Calm, Half
  <2>3. Stay /\ UNCHANGED <<pc[q], pos[q], todo[q]>>
    BY <1>1, <2>1, <2>2 DEF Stay
  <2>4. pc[q] = "task" => pos[q] \in Active(script)
    BY <1>0, <2>1
  <2> QED BY <2>1, <2>3, <2>4, SameDone
<1>11. ASSUME Calm, Guarded(script) # {}
       PROVE  /\ ToSet(todo[r]) \subseteq Products(script)
              /\ todo[r] # <<>> =>
                   pos[r] \in Active(script) /\ ToSet(todo[r]) \subseteq Brings(script, pos[r])
  <2>1. DoneSoFar(r)
    BY <1>0, <1>11 DEF AttemptsDone, Sound
  <2>2. CASE todo[r] = <<>>
    BY <1>3, <2>2
  <2>3. CASE todo[r] # <<>>
    <3>1. pc[r] = "task" /\ pos[r] \in Active(script)
      BY <1>0, <2>3
    <3>2. ToSet(todo[r]) \subseteq Brings(script, pos[r])
      BY <2>1, <3>1 DEF DoneSoFar
    <3> QED BY <3>1, <3>2, BroughtIsOutput
  <2> QED BY <2>2, <2>3
<1>12. Marks'
  <2> SUFFICES ASSUME Calm', NEW i \in Guarded(script), Marked(i)'
               PROVE  There(files', Brings(script, i))
    BY DEF Marks
  <2>1. /\ i \in Active(script) /\ i \in 1..Len(script)
        /\ \A j \in Active(script) : Mark(script, i) \in PathsOf(Brings(script, j)) => i < j
        /\ \A j \in Active(script) \ {i} :
             PathsOf(Brings(script, i)) \cap PathsOf(Brings(script, j)) = {}
        /\ PathsOf(Brings(script, i)) \cap PathsOf(Archives(script)) = {}
        /\ Mark(script, i) \notin PathsOf(Archives(script))
    BY <1>0, MarkFacts
  <2>2. CASE UNCHANGED <<files, harm>>
    <3>1. Marked(i)
      BY <1>2, <1>3, <2>2 DEF Marked
    <3> QED BY <1>0, <1>9, <2>2, <3>1 DEF Marks
  <2>3. ASSUME NEW p \in Paths, Half(p), "overlap" \notin harm, Its(r, p)
        PROVE  There(files', Brings(script, i))
    <3>1. files' = Write(files, WriteOf(p, Partial)) /\ leftovers = {}
          /\ \A q \in Attempts : q = r
      BY <1>0, <2>3 DEF Half, Alone
    <3>2. CASE pos[r] = i /\ p \in PathsOf(Brings(script, i))
      <4>1. ~(i < i)
        BY <1>0, ScriptLength, <2>1
      <4>2. p # Mark(script, i) /\ p \notin PathsOf(Archives(script))
        BY <2>1, <3>2, <4>1
      <4>3. files[Mark(script, i)] = Missing
        BY <2>3, <3>2, <4>2 DEF Its
      <4>4. files'[Mark(script, i)] = Missing
        BY <3>1, <4>2, <4>3 DEF Write, WriteOf
      <4>5. PICK task \in Tasks : \E w \in ToSet(task) : w.path = Mark(script, i)
        BY <1>2, <1>3, <4>4 DEF Marked
      <4>6. task = todo[r] /\ todo[r] # <<>>
        BY <1>0, <1>3, <3>1, <4>5 DEF Tasks
      <4>7. Mark(script, i) \in PathsOf(Brings(script, i))
        BY <1>9, <1>11, <3>2, <4>5, <4>6 DEF PathsOf
      <4> QED BY <2>1, <4>1, <4>7
    <3>3. CASE p \notin PathsOf(Brings(script, i))
      <4>1. There(files, Brings(script, i)) => There(files', Brings(script, i))
        BY <3>1, <3>3 DEF There, Write, WriteOf, PathsOf
      <4>2. CASE Marked(i)
        BY <1>0, <1>9, <4>1, <4>2 DEF Marks
      <4>3. CASE ~Marked(i)
        <5>1. p = Mark(script, i)
          BY <1>2, <1>3, <3>1, <4>3 DEF Marked, Write, WriteOf
        <5>2. i < pos[r]
          BY <2>1, <2>3, <5>1 DEF Its
        <5>3. There(files, Brings(script, i))
          BY <1>0, <1>9, <2>1, <5>2 DEF AttemptsDone, Sound, DoneSoFar
        <5> QED BY <4>1, <5>3
      <4> QED BY <4>2, <4>3
    <3> QED BY <2>1, <2>3, <3>2, <3>3 DEF Its
  <2> QED BY <2>2, <2>3 DEF Half, Calm
<1>13. MarksWait'
  BY <1>0, <1>9, <1>11 DEF MarksWait
<1>14. Unmarked'
  <2>1. "overlap" \notin harm' => Attempts' = {}
    BY <1>0, <1>1, <1>4, <1>8 DEF Alone, Half
  <2> QED BY <2>1 DEF Unmarked
<1>15. Complete'
  BY <1>1 DEF Complete
<1> QED BY <1>0, <1>1, <1>5, <1>6, <1>7, <1>8, <1>10, <1>12, <1>13, <1>14, <1>15 DEF OrderInv

\* Before its first step, or without steps, a call disturbs nothing; it may
\* begin an attempt.
LEMMA PreparationKeeps ==
  ASSUME SetupInv, NEW r \in Reqs, pc[r] \notin Executing,
         pc'[r] \notin {"fetch", "open", "task"},
         UNCHANGED <<script, files, leftovers, last, tainted>>,
         \A q \in Reqs \ {r} : UNCHANGED <<pc[q], url[q]>>,
         \A q \in Reqs : UNCHANGED <<pos[q], dl[q], todo[q]>>,
         \/ Attempts' = Attempts /\ harm' = harm
         \/ /\ r \notin Attempts /\ Attempts' = Attempts \cup {r}
            /\ harm' = IF Attempts # {} \/ leftovers # {} THEN harm \cup {"overlap"} ELSE harm
  PROVE  OrderInv'
<1>0. /\ script \in Scripts /\ WriteOnce(script) /\ Tidy(script, files)
      /\ Owed /\ Whole /\ Alone /\ AttemptsDone /\ Complete /\ Working(r)
      /\ Marks /\ MarksWait /\ Unmarked
      /\ \A q \in Reqs : pc[q] = "task" => pos[q] \in Active(script)
  BY SetupShapes DEF SetupInv, OrderInv, Working
<1>1. Tasks' = Tasks /\ harm \subseteq harm' /\ ("half" \in harm' => "half" \in harm)
  BY DEF Tasks
<1>2. Working(r)'
  <2>1. pos[r] = 1 /\ Counted(r) = 0 /\ Counted(r)' = 0
    BY <1>0 DEF Working, Counted, Executing
  <2> QED BY <1>0, <2>1 DEF Working
<1>3. \A q \in Reqs : Working(q)'
  BY <1>2, SameWorking, SetupShapes
<1>4. DoneSoFar(r)'
  <2>1. pos'[r] = 1 /\ \A i \in Active(script) : ~(i < 1)
    BY <1>0, SetupShapes DEF Working, Active
  <2> QED BY <2>1 DEF DoneSoFar
<1>5. \A q \in Reqs \ {r} : DoneSoFar(q) => DoneSoFar(q)'
  BY <1>0, SameDone DEF Stay
<1>6. AttemptsDone'
  BY <1>0, <1>1, <1>4, <1>5 DEF AttemptsDone, Calm, Attempts, Sound
<1>7. Alone' /\ Complete' /\ Owed' /\ Whole'
  BY <1>0, <1>1 DEF Alone, Complete, Owed, Whole, Due
<1>8. Marks' /\ MarksWait'
  BY <1>0, <1>1 DEF Marks, MarksWait, Marked, Calm
<1>9. Unmarked'
  <2> SUFFICES ASSUME "overlap" \notin harm, NEW q \in Attempts',
                      pc'[q] \in {"fetch", "open", "task"}, pos[q] \in Guarded(script)
               PROVE  files[Mark(script, pos[q])] = Missing
    <3>1. \A q \in Attempts' : q \in Reqs /\ pos'[q] = pos[q]
      BY DEF Attempts
    <3> QED BY <1>1, <3>1 DEF Unmarked
  <2>1. q \in Reqs /\ q # r /\ q \in Attempts /\ pc'[q] = pc[q]
    BY DEF Attempts
  <2> QED BY <1>0, <2>1 DEF Unmarked
<1> QED BY <1>0, <1>3, <1>6, <1>7, <1>8, <1>9 DEF OrderInv

--------------------------------------------------------------------------------
(* The configuration before the steps.                                       *)
LEMMA ConfigureOrder ==
  ASSUME SetupInv, NEW r \in Reqs, Configure(r)
  PROVE  OrderInv'
<1>0. /\ DOMAIN pc = Reqs /\ DOMAIN call = Reqs /\ DOMAIN url = Reqs /\ DOMAIN dl = Reqs
      /\ DOMAIN pos = Reqs /\ DOMAIN todo = Reqs
      /\ pc[r] \notin Executing => pos[r] = 1 /\ dl[r] = 0 /\ todo[r] = <<>>
  <2>1. ASSUME pc[r] \notin Executing PROVE dl[r] = 0
    <3>1. dl[r] \in Counts(script, 0)
      BY <2>1, SetupShapes DEF Working, Counted, Executing
    <3> QED BY <3>1, SetupShapes, NothingCounted
  <2> QED BY <2>1, SetupShapes DEF Working, Executing
<1>1. UNCHANGED <<script, files, leftovers>> /\ pc[r] \notin Executing
  BY DEF Configure, CallConfig, Ensure, Create, ReadConfig, WriteConfig, WriteConfigFails,
         world, At, Executing
<1>2. ASSUME pc[r] # "idle", call[r].op # "materialize", Return(r), UNCHANGED <<last, tainted, harm>>
      PROVE  OrderInv'
  <2>1. Attempts' = Attempts
    BY <1>1, <1>2, ReturnKeeps DEF Attempts
  <2>2. /\ \A q \in Reqs \ {r} : UNCHANGED <<pc[q], url[q]>>
        /\ \A q \in Reqs : UNCHANGED <<pos[q], dl[q], todo[q]>>
        /\ pc'[r] = "idle"
    BY <1>0, <1>1, <1>2 DEF Return, Goto
  <2> QED BY <1>1, <1>2, <2>1, <2>2, PreparationKeeps
<1>3. ASSUME pc[r] # "idle", NEW label \in {"create", "merge", "write", "step"}, Goto(r, label),
             UNCHANGED <<call, pos, dl, url, todo, last, tainted, harm>>
      PROVE  OrderInv'
  <2>1. pc'[r] = label /\ \A q \in Reqs \ {r} : pc'[q] = pc[q]
    BY <1>0, <1>3 DEF Goto
  <2>2. Attempts' = Attempts
    BY <1>3, <2>1 DEF Attempts
  <2> QED BY <1>1, <1>3, <2>1, <2>2, PreparationKeeps
<1>4. CASE CallConfig(r)
  <2>1. PICK c \in Calls[r] : call' = [call EXCEPT ![r] = c]
    BY <1>4 DEF CallConfig
  <2>2. /\ pc[r] = "idle" /\ pc'[r] = "ensure" /\ call'[r] = c
        /\ \A q \in Reqs \ {r} : UNCHANGED <<pc[q], call[q]>>
        /\ UNCHANGED <<pos, dl, url, todo, last, tainted>> /\ Overlap(c)
    BY <1>0, <1>4, <2>1 DEF CallConfig, Goto, At, locals
  <2>3. Attempts' = Attempts \cup (IF c.op = "materialize" THEN {r} ELSE {}) /\ r \notin Attempts
    BY <2>2 DEF Attempts
  <2> QED BY <1>1, <2>2, <2>3, PreparationKeeps DEF Overlap
<1>5. CASE Ensure(r)
  BY <1>2, <1>3, <1>5 DEF Ensure, Proceed, At, locals
<1>6. CASE Create(r)
  BY <1>2, <1>3, <1>6 DEF Create, Proceed, At, locals
<1>7. CASE ReadConfig(r)
  BY <1>3, <1>7 DEF ReadConfig, At
<1>8. CASE WriteConfig(r)
  BY <1>2, <1>3, <1>8 DEF WriteConfig, At, locals
<1>9. CASE WriteConfigFails(r)
  <2>1. CASE call[r].op = "put"
    BY <1>2, <1>9, <2>1 DEF WriteConfigFails, At
  <2>2. CASE call[r].op # "put"
    <3>1. r \in Attempts
      BY <1>9, <2>2 DEF WriteConfigFails, At, SetupInv, TypeInv, CleanInv, Slot, Attempts
    <3> QED BY <1>1, <1>9, <2>2, <3>1, FailureKeeps DEF WriteConfigFails
  <2> QED BY <2>1, <2>2
<1> QED BY <1>4, <1>5, <1>6, <1>7, <1>8, <1>9 DEF Configure

--------------------------------------------------------------------------------
(* The steps.                                                                *)
LEMMA StepApplies ==
  ASSUME SetupInv, NEW r \in Reqs, Reached(r)
  PROVE  /\ pos[r] \in 1..Len(script)
         /\ Holds(files, Step(r).when) => pos[r] \in Active(script)
         /\ ~Holds(files, Step(r).when) /\ pos[r] \in Active(script) =>
              pos[r] \in Guarded(script) /\ files[Mark(script, pos[r])] # Missing
         /\ Holds(files, Step(r).when) /\ pos[r] \in Guarded(script) =>
              files[Mark(script, pos[r])] = Missing
<1>1. pos[r] \in 1..Len(script)
  BY SetupShapes DEF Reached
<1>2. CASE pos[r] \in Guarded(script)
  <2>1. Holds(files, Step(r).when) <=> files[Mark(script, pos[r])] = Missing
    BY <1>2, SetupShapes, MarksAreSeen DEF Step
  <2> QED BY <1>1, <1>2, <2>1 DEF Guarded
<1>3. CASE pos[r] \notin Guarded(script)
  BY <1>1, <1>3, SetupShapes, SteadyConditions DEF Step
<1> QED BY <1>2, <1>3

\* What an active step writes is clean, and is output.
LEMMA ActiveStep ==
  ASSUME SetupInv, NEW n \in Active(script)
  PROVE  /\ n \in 1..Len(script) /\ script[n].dest \in Paths
         /\ script[n].action \in Plain
         /\ Brings(script, n) \subseteq Writes \cap Products(script)
         /\ Products(script) \subseteq Output(script) /\ Archives(script) \subseteq Output(script)
         /\ script[n].action = "download" =>
              /\ WriteOf(script[n].dest, Origin[script[n].url]) \in Writes \cap Output(script)
              /\ Unpacks(script[n]) =>
                   /\ WriteOf(script[n].dest, Origin[script[n].url]) \in Archives(script)
                   /\ Entries[Origin[script[n].url]] \in Seq(Writes)
                   /\ ToSet(Entries[Origin[script[n].url]]) = Brings(script, n)
              /\ ~Unpacks(script[n]) =>
                   Brings(script, n) = {WriteOf(script[n].dest, Origin[script[n].url])}
<1> DEFINE w == WriteOf(script[n].dest, Origin[script[n].url])
<1>1. n \in 1..Len(script) /\ script \in Scripts /\ WriteOnce(script)
  BY SetupShapes DEF Active
<1>2. Before(script, n) \in [Paths -> Clean]
  <2>1. Len(script) \in Nat /\ n - 1 \in 0..Len(script)
    BY <1>1, SetupShapes
  <2> QED BY <1>1, <2>1, OutcomeSettled DEF Settled, Before
<1>3. /\ script[n].dest \in Paths /\ Brings(script, n) \subseteq Writes
      /\ Unpacks(script[n]) => Entries[Origin[script[n].url]] \in Seq(Writes)
  BY <1>1, <1>2, BringsWrites DEF WriteOnce
<1>4. /\ Brings(script, n) \subseteq Products(script) /\ Products(script) \subseteq Output(script)
      /\ Archives(script) \subseteq Output(script)
  BY BroughtIsOutput DEF Output
<1>5. script[n].action \in Plain /\ (script[n].action = "download" => Origin[script[n].url] \in Clean)
  BY <1>1 DEF WriteOnce, StepsArePlain
<1>6. script[n].action = "download" => w \in Writes
  BY <1>3, <1>5, CleanWriteOf
<1>7. Unpacks(script[n]) => w \in Archives(script)
  BY DEF Archives
<1>8. ASSUME script[n].action = "download", ~Unpacks(script[n]) PROVE Brings(script, n) = {w}
  <2>1. Effect(Before(script, n), script[n]) = <<w>>
    BY <1>8 DEF Effect, Unpacks
  <2>2. Brings(script, n) = ToSet(<<w>>)
    BY <1>8, <2>1 DEF Brings
  <2> QED BY <2>2 DEF ToSet
<1>9. Unpacks(script[n]) => ToSet(Entries[Origin[script[n].url]]) = Brings(script, n)
  BY DEF Brings
<1> HIDE DEF w
<1>10. script[n].action = "download" => w \in Output(script)
  BY <1>4, <1>7, <1>8
<1> QED BY <1>1, <1>3, <1>4, <1>5, <1>6, <1>7, <1>8, <1>9, <1>10 DEF w

LEMMA AdvanceKeeps ==
  ASSUME SetupInv, NEW r \in Reqs, pc[r] \in Executing, pos[r] \in 1..Len(script), Advance(r),
         dl[r] \in Counts(script, pos[r]),
         script' = script, leftovers' = leftovers, last' = last,
         harm' \in {harm, harm \cup {"shift"}}, tainted' \in {tainted, tainted \cup {r}},
         \/ files' = files
         \/ \E w \in Writes :
              /\ files' = Write(files, w)
              /\ \/ pos[r] \in Active(script) /\ w \in Brings(script, pos[r])
                 \/ w.path \in PathsOf(Archives(script)) /\ w.data = Missing,
         Calm /\ Sound(r) /\ pos[r] \in Active(script) =>
           There(files', Brings(script, pos[r]))
  PROVE  OrderInv'
<1>1. /\ pc'[r] = "step" /\ pos'[r] = pos[r] + 1 /\ todo'[r] = <<>>
      /\ UNCHANGED <<call, dl, url>>
      /\ \A q \in Reqs \ {r} : UNCHANGED <<pc[q], pos[q], todo[q]>>
  BY SetupShapes DEF Advance, Goto
<1>2. ToSet(todo'[r]) = {}
  BY <1>1 DEF ToSet
<1>3. Working(r)'
  <2>1. Counted(r)' = pos[r]
    BY <1>1, SetupShapes DEF Counted
  <2> QED BY <1>1, <2>1 DEF Working, Executing
<1>4. Stay
  <2>1. CASE files' = files
    BY <2>1 DEF Stay
  <2>2. CASE files' # files
    <3>1. PICK w \in Writes :
            /\ files' = Write(files, w)
            /\ w \in Output(script) \/ (w.path \in PathsOf(Archives(script)) /\ w.data = Missing)
      BY <2>2, BroughtIsOutput
    <3>2. script \in Scripts /\ WriteOnce(script) /\ files \in [Paths -> Clean]
      BY SetupShapes
    <3>3. \A v \in Products(script) : files[v.path] = v.data => Write(files, w)[v.path] = v.data
      BY <3>1, <3>2, OutputWrite
    <3> QED BY <3>1, <3>3 DEF Stay
  <2> QED BY <2>1, <2>2
<1>5. ASSUME Calm, Sound(r) PROVE DoneSoFar(r)'
  <2>1. DoneSoFar(r)
    BY <1>5, SetupShapes DEF SetupInv, OrderInv, AttemptsDone
  <2>2. ASSUME NEW i \in Active(script), i < pos[r] + 1 PROVE There(files', Brings(script, i))
    <3>1. i < pos[r] \/ i = pos[r]
      BY <2>2, SetupShapes DEF Active
    <3>2. i < pos[r] => There(files', Brings(script, i))
      BY <1>4, <2>1, StayThere, BroughtIsOutput DEF DoneSoFar
    <3> QED BY <1>5, <3>1, <3>2
  <2> QED BY <1>1, <2>2 DEF DoneSoFar
<1> QED BY <1>1, <1>2, <1>3, <1>5, WorkKeeps DEF Executing

LEMMA BeginKeeps ==
  ASSUME SetupInv, NEW r \in Reqs, pc[r] \in Executing, pos[r] \in Active(script),
         NEW ws, Begin(r, ws), Unpacks(Step(r)) \/ Step(r).action \in Long,
         pc[r] = "step" => Holds(files, Step(r).when),
         dl[r] \in Counts(script, pos[r]),
         \/ ToSet(ws) = Brings(script, pos[r])
         \/ /\ \A w \in ToSet(ws) : w.data = Partial /\ w.path \in PathsOf(Brings(script, pos[r]))
            /\ \E q \in PathsOf(Output(script)) : files[q] = Partial
            /\ ~ \A i \in Active(script) : i < pos[r] => There(files, Brings(script, i))
  PROVE  OrderInv'
<1>1. /\ pc'[r] = "task" /\ todo'[r] = ws
      /\ UNCHANGED <<script, files, leftovers, call, pos, dl, url, last, tainted, harm>>
      /\ \A q \in Reqs \ {r} : UNCHANGED <<pc[q], todo[q]>>
  BY SetupShapes DEF Begin, Goto, world
<1>2. Working(r)'
  <2>1. Counted(r)' = pos[r] /\ Step(r)' = Step(r)
    BY <1>1 DEF Counted, Step
  <2> QED BY <1>1, <2>1 DEF Working, Executing
<1>3. ASSUME NEW w \in ToSet(ws) PROVE Due(w) /\ ("half" \notin harm => w \in Products(script))
  <2>1. Brings(script, pos[r]) \subseteq Products(script)
    BY BroughtIsOutput
  <2>2. "half" \notin harm => \A p \in PathsOf(Output(script)) : files[p] # Partial
    BY DEF SetupInv, OrderInv, Whole
  <2> QED BY <1>3, <2>1, <2>2 DEF Due, PathsOf
<1>4. ASSUME Calm, Sound(r) PROVE DoneSoFar(r)'
  <2>1. DoneSoFar(r)
    BY <1>4, SetupShapes DEF SetupInv, OrderInv, AttemptsDone
  <2>2. ToSet(ws) = Brings(script, pos[r])
    BY <2>1 DEF DoneSoFar
  <2> QED BY <1>1, <2>1, <2>2 DEF DoneSoFar
<1> QED BY <1>1, <1>2, <1>3, <1>4, WorkKeeps DEF Executing

LEMMA SkipOrder ==
  ASSUME SetupInv, NEW r \in Reqs, SkipStep(r)
  PROVE  OrderInv'
<1>1. /\ pos[r] \in 1..Len(script)
      /\ pos[r] \in Active(script) =>
           pos[r] \in Guarded(script) /\ files[Mark(script, pos[r])] # Missing
  BY StepApplies DEF SkipStep
<1>2. Counted(r) = pos[r] - 1 /\ pc[r] \in Executing
  BY DEF SkipStep, Reached, At, Counted, Executing
<1>3. dl[r] \in Counts(script, pos[r])
  BY <1>1, <1>2, SetupShapes, FetchCount DEF Working
<1>4. Calm /\ pos[r] \in Active(script) => There(files, Brings(script, pos[r]))
  BY <1>1 DEF SetupInv, OrderInv, Marks, Marked
<1> QED BY <1>1, <1>2, <1>3, <1>4, AdvanceKeeps DEF SkipStep, world

LEMMA DownloadOrder ==
  ASSUME SetupInv, NEW r \in Reqs, Download(r)
  PROVE  OrderInv'
<1>1. /\ pos[r] \in Active(script) /\ pos[r] \in 1..Len(script)
      /\ Step(r).action = "download" /\ pc[r] = "step" /\ Holds(files, Step(r).when)
  BY StepApplies DEF Download, Executes, Reached, At
<1>2. /\ pc'[r] = "fetch" /\ dl'[r] = dl[r] + 1 /\ url'[r] = ResolvedUrl(r)
      /\ UNCHANGED <<script, files, leftovers, call, pos, todo, last, tainted, harm>>
      /\ \A q \in Reqs \ {r} : UNCHANGED <<pc[q], dl[q], url[q]>>
  BY SetupShapes DEF Download, Goto, world
<1>3. dl[r] \in Counts(script, pos[r] - 1)
  BY <1>1, SetupShapes DEF Working, Counted
<1>4. dl'[r] \in Counts(script, pos[r])
  BY <1>1, <1>2, <1>3, SetupShapes, FetchCount DEF Step
<1>5. url'[r] = IF dl[r] \in DOMAIN call[r].overrides THEN call[r].overrides[dl[r]]
                                                     ELSE script[pos[r]].url
  BY <1>2 DEF ResolvedUrl, Step
<1>6. call[r] \in Calls[r] /\ call[r].op = "materialize"
  BY <1>1, SetupShapes DEF Attempts, Executing
<1>7. \A data \in Served[url'[r]] : Verified(Step(r), data) => data = Origin[Step(r).url]
  BY <1>1, <1>3, <1>5, <1>6, SetupShapes DEF WriteOnce, DownloadsAreRight, Step
<1>8. Working(r)'
  <2>1. Counted(r)' = pos[r] /\ Step(r)' = Step(r)
    BY <1>2 DEF Counted, Step
  <2> QED BY <1>1, <1>2, <1>4, <1>7, <2>1 DEF Working, Executing
<1>9. ToSet(todo'[r]) = {}
  BY <1>1, <1>2, SetupShapes DEF ToSet
<1>10. Calm /\ Sound(r) => DoneSoFar(r)'
  <2>1. Calm /\ Sound(r) => DoneSoFar(r)
    BY <1>1, SetupShapes DEF SetupInv, OrderInv, AttemptsDone, Executing
  <2> QED BY <1>2, <2>1 DEF DoneSoFar
<1>11. todo'[r] = <<>>
  BY <1>1, <1>2, SetupShapes
<1> QED BY <1>1, <1>2, <1>8, <1>9, <1>10, <1>11, WorkKeeps DEF Executing

LEMMA DownloadedOrder ==
  ASSUME SetupInv, NEW r \in Reqs, Downloaded(r)
  PROVE  OrderInv'
<1> DEFINE w == WriteOf(Step(r).dest, Origin[Step(r).url])
<1>1. /\ pos[r] \in Active(script) /\ pos[r] \in 1..Len(script) /\ pc[r] = "fetch"
      /\ Step(r).action = "download"
  BY SetupShapes DEF Downloaded, At, Working, Active, SetupInv, TypeInv, CleanInv, Slot
<1>2. files' = Write(files, w)
  BY <1>1, SetupShapes DEF Downloaded, Working
<1>3. /\ w \in Writes \cap Output(script)
      /\ IF Unpacks(Step(r)) THEN w \in Archives(script) ELSE w \in Brings(script, pos[r])
  BY <1>1, ActiveStep DEF Step
<1>4. dl[r] \in Counts(script, pos[r])
  BY <1>1, SetupShapes DEF Working, Counted
<1>5. UNCHANGED <<script, leftovers, last, tainted, harm>>
  BY DEF Downloaded
<1>6. CASE Step(r).archive
  <2>1. /\ pc'[r] = "open" /\ UNCHANGED <<call, pos, dl, url, todo>>
        /\ \A q \in Reqs \ {r} : pc'[q] = pc[q]
    BY <1>6, SetupShapes DEF Downloaded, Goto, locals
  <2>2. Working(r)'
    <3>1. Counted(r)' = pos[r] /\ Step(r)' = Step(r)
      BY <1>5, <2>1 DEF Counted, Step
    <3> QED BY <1>1, <1>4, <1>5, <1>6, <2>1, <3>1 DEF Working, Executing, Unpacks
  <2>3. ToSet(todo'[r]) = {} /\ todo'[r] = <<>>
    BY <1>1, <2>1, SetupShapes DEF ToSet
  <2>4. Stay
    <3> HIDE DEF w
    <3>1. \A v \in Products(script) : files[v.path] = v.data => Write(files, w)[v.path] = v.data
      BY <1>3, SetupShapes, OutputWrite
    <3> QED BY <1>2, <3>1 DEF Stay
  <2>5. ASSUME Calm, Sound(r) PROVE DoneSoFar(r)'
    <3>1. DoneSoFar(r)
      BY <1>1, <2>5, SetupShapes DEF SetupInv, OrderInv, AttemptsDone, Executing
    <3>2. \A i \in Active(script) : i < pos[r] => There(files', Brings(script, i))
      BY <2>4, <3>1, StayThere, BroughtIsOutput DEF DoneSoFar
    <3> QED BY <1>5, <2>1, <3>2 DEF DoneSoFar
  <2>6. w \in Archives(script) /\ w \in Writes
    BY <1>1, <1>3, <1>6 DEF Unpacks
  <2> HIDE DEF w
  <2> QED BY <1>1, <1>2, <1>5, <2>1, <2>2, <2>3, <2>5, <2>6, WorkKeeps DEF Executing
<1>7. CASE ~Step(r).archive
  <2>1. Advance(r)
    BY <1>7 DEF Downloaded
  <2>2. Brings(script, pos[r]) = {w}
    BY <1>1, <1>7, ActiveStep DEF Step, Unpacks
  <2>3. There(files', Brings(script, pos[r]))
    <3> HIDE DEF w
    <3> QED BY <1>2, <1>3, <2>2, SetupShapes DEF There, Write, Writes
  <2>4. w \in Brings(script, pos[r]) /\ w \in Writes
    BY <1>3, <2>2
  <2> HIDE DEF w
  <2> QED BY <1>1, <1>2, <1>4, <1>5, <2>1, <2>3, <2>4, AdvanceKeeps DEF Executing
<1> QED BY <1>6, <1>7

LEMMA UnpackOrder ==
  ASSUME SetupInv, NEW r \in Reqs, Unpack(r)
  PROVE  OrderInv'
<1> DEFINE w == WriteOf(Step(r).dest, Origin[Step(r).url])
<1>1. /\ pos[r] \in Active(script) /\ pc[r] = "open" /\ Unpacks(Step(r))
      /\ Step(r).action = "download"
  BY SetupShapes DEF Unpack, At, Working, Unpacks
<1>2. /\ w \in Archives(script) /\ w \in Output(script) /\ Step(r).dest \in Paths
      /\ ToSet(Entries[Origin[Step(r).url]]) = Brings(script, pos[r])
  BY <1>1, ActiveStep DEF Step
<1>3. files[Step(r).dest] \in DOMAIN Entries
  BY DEF Unpack, Archive
<1>4. Package[Step(r).dest] = Missing
  BY <1>2, SetupShapes DEF WriteOnce, OneContent, WriteOf
<1>5. WriteOf(Step(r).dest, files[Step(r).dest]) \in Output(script)
  BY <1>2, <1>3, <1>4, SetupShapes, SetupConstants DEF Tidy
<1>6. files[Step(r).dest] = Origin[Step(r).url]
  <2>1. w = WriteOf(Step(r).dest, files[Step(r).dest])
    BY <1>2, <1>5, SetupShapes DEF WriteOnce, OneContent, WriteOf
  <2> QED BY <2>1 DEF WriteOf
<1>7. Begin(r, Entries[Origin[Step(r).url]])
  BY <1>6 DEF Unpack
<1>8. dl[r] \in Counts(script, pos[r])
  BY <1>1, SetupShapes DEF Working, Counted
<1> QED BY <1>1, <1>2, <1>7, <1>8, BeginKeeps DEF Executing

LEMMA BeginTaskOrder ==
  ASSUME SetupInv, NEW r \in Reqs, BeginTask(r)
  PROVE  OrderInv'
<1> DEFINE now == Effect(Before(script, pos[r]), Step(r))
<1>1. /\ pos[r] \in Active(script) /\ pos[r] \in 1..Len(script) /\ pc[r] = "step"
      /\ Step(r).action \in Long /\ Step(r).action # "download" /\ Holds(files, Step(r).when)
  BY StepApplies DEF BeginTask, Executes, Reached, At, Long
<1>2. dl[r] \in Counts(script, pos[r])
  BY <1>1, SetupShapes, FetchCount DEF Working, Counted, Step
<1>3. Brings(script, pos[r]) = ToSet(now)
  BY <1>1 DEF Brings, Unpacks, Step
<1>4. \/ Effect(files, Step(r)) = now
      \/ /\ Effect(files, Step(r)) = <<WriteOf(Step(r).dest, Partial)>>
         /\ Step(r).dest \in PathsOf(Brings(script, pos[r]))
         /\ \E q \in PathsOf(Output(script)) : files[q] = Partial
         /\ ~ \A i \in Active(script) : i < pos[r] => There(files, Brings(script, i))
  <2>1. /\ Possible(files, script[pos[r]]) /\ script[pos[r]].action # "download"
        /\ script \in Scripts /\ WriteOnce(script) /\ Tidy(script, files)
    BY <1>1, SetupShapes DEF BeginTask, Step
  <2>2. Step(r) = script[pos[r]]
    BY DEF Step
  <2> HIDE DEF now
  <2>3. now = Effect(Before(script, pos[r]), script[pos[r]])
    BY <2>2 DEF now
  <2> QED BY <1>1, <2>1, <2>2, <2>3, StepDoes
<1>5. ToSet(<<WriteOf(Step(r).dest, Partial)>>) = {WriteOf(Step(r).dest, Partial)}
  BY DEF ToSet
<1>6. \/ ToSet(Effect(files, Step(r))) = Brings(script, pos[r])
      \/ /\ \A w \in ToSet(Effect(files, Step(r))) :
              w.data = Partial /\ w.path \in PathsOf(Brings(script, pos[r]))
         /\ \E q \in PathsOf(Output(script)) : files[q] = Partial
         /\ ~ \A i \in Active(script) : i < pos[r] => There(files, Brings(script, i))
  BY <1>3, <1>4, <1>5 DEF WriteOf
<1>7. Begin(r, Effect(files, Step(r)))
  BY DEF BeginTask
<1> QED BY <1>1, <1>2, <1>6, <1>7, BeginKeeps DEF Executing

LEMMA NoWrite ==
  ASSUME NEW fs \in [Paths -> Clean]
  PROVE  /\ WriteAll(fs, <<>>) = fs
         /\ \A w \in Writes : WriteAll(fs, <<w>>) = Write(fs, w)
<1>1. WriteAll(fs, <<>>) = fs
  BY DEF WriteAll
<1>2. ASSUME NEW w \in Writes PROVE WriteAll(fs, <<w>>) = Write(fs, w)
  <2>1. \A p : {i \in DOMAIN <<w>> : <<w>>[i].path = p} = IF w.path = p THEN {1} ELSE {}
    OBVIOUS
  <2>2. Max({1}) = 1
    BY DEF Max
  <2>3. ASSUME NEW p \in Paths PROVE WriteAll(fs, <<w>>)[p] = Write(fs, w)[p]
    BY <2>1, <2>2 DEF WriteAll, Write
  <2>4. WriteAll(fs, <<w>>) = [p \in Paths |-> WriteAll(fs, <<w>>)[p]]
    BY DEF WriteAll
  <2>5. Write(fs, w) = [p \in Paths |-> Write(fs, w)[p]]
    BY DEF Write
  <2> QED BY <2>3, <2>4, <2>5
<1> QED BY <1>1, <1>2

LEMMA QuickOrder ==
  ASSUME SetupInv, NEW r \in Reqs, QuickStep(r)
  PROVE  OrderInv'
<1> DEFINE does == Effect(files, Step(r))
<1>1. /\ pos[r] \in Active(script) /\ pos[r] \in 1..Len(script) /\ pc[r] = "step"
      /\ Step(r).action \in Quick /\ Step(r).action # "download" /\ Step(r).action # "copy"
  BY StepApplies DEF QuickStep, Executes, Reached, At, Quick
<1>2. dl[r] \in Counts(script, pos[r])
  BY <1>1, SetupShapes, FetchCount DEF Working, Counted, Step
<1>3. does = Effect(Before(script, pos[r]), Step(r))
  BY <1>1, SetupShapes, StepDoes DEF QuickStep, Step
<1>4. Brings(script, pos[r]) = ToSet(does)
  BY <1>1, <1>3 DEF Brings, Unpacks, Step
<1>5. does = <<>> \/ \E w : does = <<w>>
  <2>1. Step(r).action \in Plain
    BY <1>1, ActiveStep DEF Step
  <2>2. Step(r).action \in {"touch", "write-file", "symlink", "chmod", "mkdir"}
    BY <1>1, <2>1 DEF Plain, Quick
  <2> QED BY <2>2 DEF Effect
<1>6. /\ Brings(script, pos[r]) \subseteq Writes /\ Brings(script, pos[r]) \subseteq Output(script)
      /\ files \in [Paths -> Clean]
  BY <1>1, ActiveStep, SetupShapes
<1>7. files' = WriteAll(files, does) /\ Advance(r)
      /\ UNCHANGED <<script, leftovers, last, tainted, harm>>
  BY DEF QuickStep
<1> HIDE DEF does
<1>8. CASE does = <<>>
  <2>1. files' = files
    BY <1>6, <1>7, <1>8, NoWrite
  <2>2. There(files', Brings(script, pos[r]))
    BY <1>4, <1>8 DEF There, ToSet
  <2> QED BY <1>1, <1>2, <1>7, <2>1, <2>2, AdvanceKeeps DEF Executing
<1>9. ASSUME NEW w, does = <<w>> PROVE OrderInv'
  <2>1. Brings(script, pos[r]) = {w}
    BY <1>4, <1>9 DEF ToSet
  <2>2. w \in Writes /\ w \in Brings(script, pos[r])
    BY <1>6, <2>1
  <2>3. files' = Write(files, w)
    BY <1>6, <1>7, <1>9, <2>2, NoWrite
  <2>4. There(files', Brings(script, pos[r]))
    BY <1>6, <2>1, <2>2, <2>3 DEF There, Write, Writes
  <2> QED BY <1>1, <1>2, <1>7, <2>2, <2>3, <2>4, AdvanceKeeps DEF Executing
<1> QED BY <1>5, <1>8, <1>9

LEMMA TaskOrder ==
  ASSUME SetupInv, NEW r \in Reqs, TaskWrites(r) \/ TaskEnds(r)
  PROVE  OrderInv'
<1>1. /\ pos[r] \in Active(script) /\ pos[r] \in 1..Len(script) /\ pc[r] = "task"
      /\ Unpacks(Step(r)) \/ Step(r).action \in Long
      /\ dl[r] \in Counts(script, pos[r]) /\ todo[r] \in Seq(Writes)
      /\ DOMAIN todo = Reqs
  BY SetupShapes DEF TaskWrites, TaskEnds, At, Working, Active, Counted
<1>2. Calm /\ Sound(r) => DoneSoFar(r)
  BY <1>1, SetupShapes DEF SetupInv, OrderInv, AttemptsDone, Executing
<1>3. CASE TaskWrites(r)
  <2> DEFINE w == Head(todo[r])
  <2>1. todo[r] # <<>> /\ ToSet(todo[r]) = {w} \cup ToSet(Tail(todo[r])) /\ w \in Writes
    BY <1>1, <1>3, TailSet DEF TaskWrites
  <2>2. /\ files' = Write(files, w) /\ todo'[r] = Tail(todo[r])
        /\ UNCHANGED <<script, leftovers, pc, call, pos, dl, url, last, tainted, harm>>
        /\ \A q \in Reqs \ {r} : todo'[q] = todo[q]
    BY <1>1, <1>3 DEF TaskWrites
  <2>3. Working(r)'
    BY <2>2, SameWorking, SetupShapes
  <2> HIDE DEF w
  <2>4. \A v \in ToSet(todo[r]) : Due(v) /\ ("half" \notin harm => v \in Products(script))
    BY DEF SetupInv, OrderInv, Owed, Whole, Tasks
  <2>5. ASSUME Calm, Sound(r) PROVE DoneSoFar(r)'
    <3>1. /\ ToSet(todo[r]) \subseteq Brings(script, pos[r])
          /\ \A v \in Brings(script, pos[r]) : files[v.path] = v.data \/ v \in ToSet(todo[r])
          /\ \A i \in Active(script) : i < pos[r] => There(files, Brings(script, i))
      BY <1>1, <1>2, <2>5 DEF DoneSoFar
    <3>2. /\ Brings(script, pos[r]) \subseteq Products(script)
          /\ Products(script) \subseteq Output(script)
      BY <1>1, BroughtIsOutput
    <3>3. w \in Output(script)
      BY <2>1, <3>1, <3>2
    <3>4. \A v \in Products(script) : files[v.path] = v.data => Write(files, w)[v.path] = v.data
      BY <2>1, <3>3, SetupShapes, OutputWrite
    <3>5. Stay
      BY <2>2, <3>4 DEF Stay
    <3>6. \A i \in Active(script) : i < pos[r] => There(files', Brings(script, i))
      BY <3>1, <3>5, StayThere, BroughtIsOutput
    <3>7. files'[w.path] = w.data
      BY <2>1, <2>2, SetupShapes DEF Write, Writes
    <3>8. \A v \in Brings(script, pos[r]) : files'[v.path] = v.data \/ v \in ToSet(todo'[r])
      BY <2>1, <2>2, <3>1, <3>2, <3>5, <3>7 DEF Stay
    <3>9. ToSet(todo'[r]) \subseteq Brings(script, pos[r])
      BY <2>1, <2>2, <3>1
    <3> QED BY <2>2, <3>6, <3>8, <3>9 DEF DoneSoFar
  <2> QED BY <1>1, <2>1, <2>2, <2>3, <2>4, <2>5, WorkKeeps DEF Executing, Due
<1>4. CASE TaskEnds(r)
  <2> DEFINE w == WriteOf(Step(r).dest, Missing)
  <2>1. /\ Advance(r) /\ todo[r] = <<>> /\ UNCHANGED <<script, leftovers, last, tainted, harm>>
        /\ files' = IF Step(r).action = "download" THEN Write(files, w) ELSE files
    BY <1>4 DEF TaskEnds
  <2>2. ASSUME Step(r).action = "download"
        PROVE  w.path \in PathsOf(Archives(script)) /\ w.data = Missing /\ w \in Writes
    <3>1. Unpacks(Step(r))
      BY <1>1, <2>2 DEF Long
    <3>2. WriteOf(Step(r).dest, Origin[Step(r).url]) \in Archives(script) /\ Step(r).dest \in Paths
      BY <1>1, <2>2, <3>1, ActiveStep DEF Step
    <3>3. w \in Writes
      BY <3>2, CleanConstants, CleanWriteOf
    <3> QED BY <3>2, <3>3 DEF PathsOf, WriteOf
  <2> HIDE DEF w
  <2>3. Stay
    <3>1. CASE Step(r).action = "download"
      <4>1. \A v \in Products(script) : files[v.path] = v.data => Write(files, w)[v.path] = v.data
        BY <2>2, <3>1, SetupShapes, OutputWrite
      <4> QED BY <2>1, <3>1, <4>1 DEF Stay
    <3>2. CASE Step(r).action # "download"
      BY <2>1, <3>2 DEF Stay
    <3> QED BY <3>1, <3>2
  <2>4. ASSUME Calm, Sound(r) PROVE There(files', Brings(script, pos[r]))
    <3>1. There(files, Brings(script, pos[r]))
      BY <1>1, <1>2, <2>1, <2>4 DEF DoneSoFar, There, ToSet
    <3> QED BY <1>1, <2>3, <3>1, StayThere, BroughtIsOutput
  <2> QED BY <1>1, <2>1, <2>2, <2>4, AdvanceKeeps DEF Executing
<1> QED BY <1>3, <1>4

\* Every way to fail leaves at most an output half written.
LEMMA FailOrder ==
  ASSUME SetupInv, NEW r \in Reqs,
         \/ DownloadFails(r) \/ UnpackFails(r) \/ StepFails(r) \/ TaskFails(r)
         \/ ValidateFails(r)
  PROVE  OrderInv'
<1>1. /\ r \in Attempts /\ Fail(r) /\ UNCHANGED <<script, leftovers>>
      /\ pc[r] \in Executing
  BY SetupShapes DEF DownloadFails, UnpackFails, StepFails, TaskFails, ValidateFails, Executes,
       Reached, At, Executing, world
<1>2. CASE UNCHANGED <<files, harm>>
  BY <1>1, <1>2, FailureKeeps
<1>3. ASSUME NEW p \in Paths \cap PathsOf(Output(script)), Half(p),
             "overlap" \notin harm /\ Guarded(script) # {} => Its(r, p)
      PROVE  OrderInv'
  BY <1>1, <1>3, FailureKeeps
<1>u. "overlap" \notin harm /\ pc[r] \in {"fetch", "open", "task"} /\ pos[r] \in Guarded(script) =>
        files[Mark(script, pos[r])] = Missing
  BY <1>1 DEF SetupInv, OrderInv, Unmarked
<1>4. CASE DownloadFails(r)
  <2>1. pos[r] \in Active(script) /\ Step(r).action = "download" /\ pc[r] = "fetch"
    BY <1>4, SetupShapes DEF DownloadFails, At, Working, SetupInv, TypeInv, CleanInv, Slot
  <2>2. Step(r).dest \in Paths \cap PathsOf(Output(script))
    BY <2>1, ActiveStep, OutputPaths DEF Step
  <2>3. \/ Step(r).dest \in PathsOf(Archives(script))
        \/ Step(r).dest \in PathsOf(Brings(script, pos[r]))
    <3> DEFINE w == WriteOf(Step(r).dest, Origin[Step(r).url])
    <3>1. w \in Archives(script) \/ Brings(script, pos[r]) = {w}
      BY <2>1, ActiveStep DEF Step
    <3>2. w.path = Step(r).dest
      BY DEF WriteOf
    <3> HIDE DEF w
    <3> QED BY <3>1, <3>2 DEF PathsOf
  <2>4. "overlap" \notin harm => Its(r, Step(r).dest)
    BY <1>u, <2>1, <2>3 DEF Its
  <2> QED BY <1>2, <1>3, <1>4, <2>2, <2>4 DEF DownloadFails
<1>5. CASE StepFails(r)
  <2>1. /\ pos[r] \in Active(script) /\ Step(r).action \in Long \cup Quick
        /\ Step(r).action # "download"
        /\ pos[r] \in Guarded(script) => files[Mark(script, pos[r])] = Missing
    BY <1>5, StepApplies DEF StepFails, Executes, Long, Quick
  <2>2. ASSUME Step(r).action \in {"touch", "write-file"}
        PROVE  Step(r).dest \in Paths \cap PathsOf(Output(script)) /\ Its(r, Step(r).dest)
    <3>1. \E c : Effect(Before(script, pos[r]), Step(r)) = <<WriteOf(Step(r).dest, c)>>
      BY <2>2 DEF Effect
    <3>2. PICK c : Effect(Before(script, pos[r]), Step(r)) = <<WriteOf(Step(r).dest, c)>>
      BY <3>1
    <3>3. Brings(script, pos[r]) = ToSet(<<WriteOf(Step(r).dest, c)>>)
      BY <2>1, <3>2 DEF Brings, Unpacks, Step
    <3>4. WriteOf(Step(r).dest, c) \in Brings(script, pos[r])
      BY <3>3 DEF ToSet
    <3>5. Step(r).dest \in Paths \cap PathsOf(Output(script))
      BY <2>1, <3>4, ActiveStep, OutputPaths DEF Step
    <3>6. Its(r, Step(r).dest)
      BY <2>1, <3>4 DEF Its, PathsOf, WriteOf
    <3> QED BY <3>5, <3>6
  <2> QED BY <1>2, <1>3, <1>5, <2>2 DEF StepFails
<1>6. CASE TaskFails(r)
  <2>1. ASSUME todo[r] # <<>> PROVE Head(todo[r]).path \in Paths \cap PathsOf(Output(script))
    <3>1. Head(todo[r]) \in ToSet(todo[r]) /\ Head(todo[r]) \in Writes
      BY <2>1, SetupShapes, TailSet
    <3>2. Due(Head(todo[r]))
      BY <3>1 DEF SetupInv, OrderInv, Owed, Tasks
    <3> QED BY <3>1, <3>2 DEF Due, PathsOf, Output, Writes
  <2>2. ASSUME todo[r] # <<>>, "overlap" \notin harm, Guarded(script) # {}
        PROVE  Its(r, Head(todo[r]).path)
    <3>1. Head(todo[r]) \in ToSet(todo[r]) /\ pc[r] = "task" /\ pos[r] \in Active(script)
      BY <1>6, <2>2, SetupShapes, TailSet DEF TaskFails, At, Working
    <3>2. DoneSoFar(r)
      BY <1>1, <2>2 DEF SetupInv, OrderInv, AttemptsDone, Calm, Sound
    <3> QED BY <1>u, <2>2, <3>1, <3>2 DEF DoneSoFar, Its, PathsOf
  <2> QED BY <1>2, <1>3, <1>6, <2>1, <2>2 DEF TaskFails
<1> QED BY <1>2, <1>4, <1>5, <1>6 DEF UnpackFails, ValidateFails, world

LEMMA ValidateOrder ==
  ASSUME SetupInv, NEW r \in Reqs, Validate(r)
  PROVE  OrderInv'
<1>0. /\ script \in Scripts /\ WriteOnce(script) /\ Tidy(script, files) /\ Len(script) \in Nat
      /\ Owed /\ Whole /\ Alone /\ AttemptsDone /\ Complete /\ r \in Attempts
      /\ Marks /\ MarksWait /\ Unmarked
      /\ \A q \in Reqs : pc[q] = "task" => pos[q] \in Active(script)
  BY SetupShapes DEF SetupInv, OrderInv, Working, Validate, At, Executing
<1>1. /\ Return(r) /\ UNCHANGED <<script, files, leftovers, harm>>
      /\ pos[r] = Len(script) + 1
      /\ last' = IF r \in tainted THEN "none" ELSE "ok"
      /\ tainted' = tainted \ {r}
  BY DEF Validate, world
<1>2. /\ \A q \in Reqs : Working(q)'
      /\ \A q \in Reqs \ {r} : UNCHANGED <<pc[q], call[q], pos[q], dl[q], url[q], todo[q]>>
      /\ todo'[r] = <<>> /\ Attempts' = Attempts \ {r}
  BY <1>1, ReturnKeeps
<1>3. Tasks' \subseteq Tasks \cup {<<>>} /\ ToSet(<<>>) = {}
  BY <1>1, <1>2 DEF Tasks, ToSet
<1>4. Owed' /\ Whole'
  BY <1>0, <1>1, <1>3 DEF Owed, Whole, Due
<1>5. Alone'
  BY <1>0, <1>1, <1>2 DEF Alone
<1>6. AttemptsDone'
  <2> SUFFICES ASSUME Calm, NEW q \in Attempts \ {r}, Sound(q) PROVE DoneSoFar(q)'
    BY <1>1, <1>2 DEF AttemptsDone, Calm, Sound
  <2>1. q \in Reqs /\ DoneSoFar(q)
    BY <1>0 DEF Attempts, AttemptsDone
  <2>2. Stay
    BY <1>1 DEF Stay
  <2> QED BY <1>0, <1>1, <1>2, <2>1, <2>2, SameDone
<1>7. Complete'
  <2> SUFFICES ASSUME r \notin tainted, Calm
               PROVE  /\ There(files, Products(script))
                      /\ "overlap" \notin harm => leftovers = {}
    BY <1>1 DEF Complete, Calm
  <2>1. \A i \in Active(script) : i < pos[r]
    BY <1>0, <1>1 DEF Active
  <2>2. \A i \in Active(script) : There(files, Brings(script, i))
    BY <1>0, <2>1 DEF AttemptsDone, DoneSoFar, Sound
  <2> QED BY <1>0, <2>2 DEF There, Products, Alone
<1>8. Marks'
  <2>1. ASSUME NEW i \in Guarded(script), Marked(i)' PROVE Marked(i)
    BY <1>1, <1>3, <2>1 DEF Marked
  <2> QED BY <1>0, <1>1, <2>1 DEF Marks, Calm
<1>9. MarksWait' /\ Unmarked'
  BY <1>0, <1>1, <1>2 DEF MarksWait, Unmarked, Calm, Attempts
<1> QED BY <1>0, <1>1, <1>2, <1>4, <1>5, <1>6, <1>7, <1>8, <1>9 DEF OrderInv

LEMMA CallStepsOrder ==
  ASSUME SetupInv, NEW r \in Reqs, CallSteps(r)
  PROVE  OrderInv'
<1>1. PICK c \in Calls[r] : c.op = "materialize" /\ call' = [call EXCEPT ![r] = c]
  BY DEF CallSteps, MayBegin
<1>2. /\ pc[r] = "idle" /\ pc'[r] = "step" /\ call'[r] = c
      /\ \A q \in Reqs \ {r} : UNCHANGED <<pc[q], call[q]>>
      /\ UNCHANGED <<script, files, leftovers, pos, dl, url, todo, last, tainted>> /\ Overlap(c)
  BY <1>1, SetupShapes DEF CallSteps, Goto, At, locals, world
<1>3. Attempts' = Attempts \cup {r} /\ r \notin Attempts
  BY <1>1, <1>2 DEF Attempts
<1> QED BY <1>1, <1>2, <1>3, PreparationKeeps DEF Overlap, Executing

LEMMA DropOrder ==
  ASSUME SetupInv, NEW r \in Reqs, Drop(r)
  PROVE  OrderInv'
<1>1. ~Executes(r, {"remove"})
  <2>1. ASSUME Executes(r, {"remove"}) PROVE FALSE
    <3>1. pos[r] \in Active(script) /\ Step(r).action = "remove"
      BY <2>1, StepApplies DEF Executes
    <3>2. Step(r).action \in Plain
      BY <3>1, ActiveStep DEF Step
    <3> QED BY <3>1, <3>2 DEF Plain
  <2> QED BY <2>1
<1>2. /\ pc[r] \in Executing /\ Fail(r) /\ UNCHANGED <<script, files, harm>>
      /\ leftovers' \in {leftovers, leftovers \cup {todo[r]}}
  BY <1>1 DEF Drop, Executing
<1>3. r \in Attempts
  BY <1>2, SetupShapes
<1> QED BY <1>2, <1>3, FailureKeeps

--------------------------------------------------------------------------------
(* What happens behind the attempts.                                         *)
LEMMA LeftoverOrder ==
  ASSUME SetupInv, NEW writes \in leftovers, Leftover(writes) \/ LeftoverDies(writes)
  PROVE  OrderInv'
<1>0. /\ script \in Scripts /\ WriteOnce(script) /\ Tidy(script, files)
      /\ files \in [Paths -> Clean]
      /\ Owed /\ Whole /\ Alone /\ AttemptsDone /\ Complete
      /\ Marks /\ MarksWait
      /\ \A q \in Reqs : Working(q) /\ (pc[q] = "task" => pos[q] \in Active(script))
      /\ writes \in Tasks /\ writes \in Seq(Writes) /\ writes # <<>>
  BY SetupShapes DEF SetupInv, OrderInv, Working, Tasks
<1>1. UNCHANGED <<script, pc, call, pos, dl, url, todo, last, tainted, harm>>
  BY DEF Leftover, LeftoverDies, locals
<1>2. ToSet(writes) = {Head(writes)} \cup ToSet(Tail(writes)) /\ Head(writes) \in Writes
  BY <1>0, TailSet
<1>3. /\ Attempts' = Attempts /\ Tasks' \subseteq Tasks \cup {Tail(writes)}
      /\ \A q \in Reqs : Working(q)'
  <2>1. leftovers' \subseteq leftovers \cup {Tail(writes)}
    BY DEF Leftover, LeftoverDies
  <2>2. \A q \in Reqs : Working(q)'
    BY <1>0, <1>1, SameWorking
  <2> QED BY <1>1, <2>1, <2>2 DEF Attempts, Tasks
<1>4. /\ Due(Head(writes)) /\ ("half" \notin harm => Head(writes) \in Products(script))
      /\ \A w \in ToSet(Tail(writes)) :
           Due(w) /\ ("half" \notin harm => w \in Products(script))
  BY <1>0, <1>2 DEF Owed, Whole
<1>5. files' = files \/ files' = Write(files, Head(writes))
  BY DEF Leftover, LeftoverDies
<1>6. Tidy(script, files')
  <2>1. \/ Head(writes) \in Output(script)
        \/ Head(writes).path \in PathsOf(Output(script)) /\ Head(writes).data = Partial
    BY <1>4 DEF Due, Output, PathsOf
  <2> QED BY <1>0, <1>2, <1>5, <2>1, TidyWrite
<1>7. ASSUME "half" \notin harm PROVE Stay
  <2>1. Head(writes) \in Output(script)
    BY <1>4, <1>7 DEF Output
  <2>2. \A v \in Products(script) : files[v.path] = v.data => Write(files, Head(writes))[v.path] = v.data
    BY <1>0, <1>2, <2>1, OutputWrite
  <2> QED BY <1>5, <2>2 DEF Stay
<1>8. Owed'
  BY <1>0, <1>1, <1>3, <1>4 DEF Owed, Due
<1>9. Whole'
  <2> SUFFICES ASSUME "half" \notin harm
               PROVE  /\ \A p \in PathsOf(Output(script)) : files'[p] # Partial
                      /\ \A task \in Tasks' : ToSet(task) \subseteq Products(script)
    BY <1>1 DEF Whole
  <2>1. \A task \in Tasks' : ToSet(task) \subseteq Products(script)
    BY <1>0, <1>3, <1>4 DEF Whole
  <2>2. Head(writes).data # Partial
    BY <1>0, <1>4 DEF WriteOnce, OneContent, Output
  <2>3. \A p \in PathsOf(Output(script)) : files[p] # Partial
    BY <1>0 DEF Whole
  <2>4. \A p \in PathsOf(Output(script)) : Write(files, Head(writes))[p] # Partial
    BY <1>0, <1>2, <2>2, <2>3 DEF Write, Writes
  <2> QED BY <1>5, <2>1, <2>3, <2>4
<1>10. Alone'
  <2>1. Attempts # {} => "overlap" \in harm
    BY <1>0 DEF Alone
  <2> QED BY <1>1, <1>3, <2>1 DEF Alone
<1>11. AttemptsDone'
  <2> SUFFICES ASSUME Calm, NEW q \in Attempts, Sound(q) PROVE DoneSoFar(q)'
    BY <1>1, <1>3 DEF AttemptsDone, Calm, Sound
  <2>1. q \in Reqs /\ DoneSoFar(q)
    BY <1>0 DEF Attempts, AttemptsDone
  <2>2. "half" \notin harm
    BY <1>0 DEF Calm, Alone
  <2> QED BY <1>0, <1>1, <1>7, <2>1, <2>2, SameDone
<1>12. Complete'
  BY <1>0, <1>1, <1>3, <1>7, StayThere DEF Complete
<1>13. ASSUME Calm, NEW i \in Guarded(script), Marked(i)'
       PROVE  There(files', Brings(script, i))
  <2>1. ToSet(writes) \subseteq Products(script)
    BY <1>0, <1>13 DEF MarksWait
  <2>2. Stay
    <3>1. Head(writes) \in Output(script)
      BY <1>2, <2>1 DEF Output
    <3>2. \A v \in Products(script) : files[v.path] = v.data => Write(files, Head(writes))[v.path] = v.data
      BY <1>0, <1>2, <3>1, OutputWrite
    <3> QED BY <1>5, <3>2 DEF Stay
  <2>3. Marked(i)
    <3>1. ASSUME NEW task \in Tasks', NEW w \in ToSet(task), w.path = Mark(script, i)
          PROVE  Marked(i)
      BY <1>0, <1>2, <1>3, <3>1 DEF Marked
    <3>2. files'[Mark(script, i)] = files[Mark(script, i)] \/ Head(writes).path = Mark(script, i)
      BY <1>0, <1>5, MarkFacts DEF Write
    <3> QED BY <1>0, <1>1, <1>2, <1>13, <3>1, <3>2 DEF Marked
  <2>4. i \in Active(script) /\ Brings(script, i) \subseteq Products(script)
    BY <1>0, MarkFacts, BroughtIsOutput
  <2> QED BY <1>0, <1>13, <2>2, <2>3, <2>4, StayThere DEF Marks
<1>14. Marks'
  BY <1>1, <1>13 DEF Marks, Calm
<1>15. MarksWait'
  <2> SUFFICES ASSUME Calm, Guarded(script) # {}, NEW task \in leftovers'
               PROVE  ToSet(task) \subseteq Products(script)
    BY <1>1 DEF MarksWait, Calm
  <2>1. task \in leftovers \/ task = Tail(writes)
    BY DEF Leftover, LeftoverDies
  <2> QED BY <1>0, <1>2, <2>1 DEF MarksWait
<1>16. Unmarked'
  <2>1. Attempts # {} => "overlap" \in harm
    BY <1>0 DEF Alone
  <2> QED BY <1>1, <1>3, <2>1 DEF Unmarked
<1> QED BY <1>0, <1>1, <1>3, <1>6, <1>8, <1>9, <1>10, <1>11, <1>12, <1>14, <1>15, <1>16
        DEF OrderInv

\* A registration begins anew.
LEMMA RegisteredOrder ==
  ASSUME TypeInv, WriteOnce(script), NEW r \in Reqs, Registered(r), Fresh(r)
  PROVE  OrderInv'
<1>1. /\ UNCHANGED <<script, files, leftovers>> /\ files = Package /\ leftovers = {}
      /\ Return(r) /\ last' = "none" /\ harm' = {} /\ Attempts = {} /\ script \in Scripts
      /\ \A q \in Reqs \ {r} : pc[q] # "extract"
  BY DEF Registered, Fresh, world, At, TypeInv, CleanInv, Shapes
<1>2. /\ \A q \in Reqs \ {r} : UNCHANGED <<pc[q], call[q], pos[q], dl[q], url[q], todo[q]>>
      /\ pc'[r] = "idle" /\ pos'[r] = 1 /\ dl'[r] = 0 /\ todo'[r] = <<>>
  BY <1>1 DEF TypeInv, CleanInv, Shapes, Return, Goto
<1>3. ASSUME NEW q \in Reqs
      PROVE  pc'[q] \notin Executing /\ pos'[q] = 1 /\ dl'[q] = 0 /\ todo'[q] = <<>>
  <2>1. CASE q = r
    BY <1>2, <2>1 DEF Executing
  <2>2. CASE q # r
    <3>1. pc[q] \notin Executing
      BY <1>1 DEF TypeInv, CleanInv, Slot, Attempts, Executing
    <3>2. pos[q] = 1 /\ todo[q] = <<>>
      BY <1>1, <2>2, <3>1 DEF TypeInv, SlotType, Executing
    <3>3. DownloadSteps(Counted(q)) = {}
      BY <3>1, <3>2 DEF DownloadSteps, Counted, Executing
    <3>4. dl[q] \in Nat /\ dl[q] <= Cardinality(DownloadSteps(Counted(q)))
      BY DEF TypeInv, SlotType
    <3>5. dl[q] = 0
      BY <3>3, <3>4, FS_EmptySet
    <3> QED BY <1>2, <2>2, <3>1, <3>2, <3>5
  <2> QED BY <2>1, <2>2
<1>4. Attempts' = {} /\ \A task \in Tasks' : ToSet(task) = {}
  <2>1. Attempts' = {}
    BY <1>1, <1>2 DEF Attempts
  <2> QED BY <1>1, <1>3, <2>1 DEF Tasks, ToSet
<1>5. ASSUME NEW q \in Reqs PROVE Working(q)'
  <2>1. Counted(q)' = 0 /\ Counts(script, 0) = {0}
    BY <1>1, <1>3, NothingCounted DEF Counted, Executing
  <2>2. dl'[q] \in Counts(script, Counted(q)')
    BY <1>3, <2>1
  <2> QED BY <1>1, <1>3, <2>2 DEF Working, Executing
<1>6. Tidy(script, files')
  BY <1>1 DEF Tidy
<1>7. Whole'
  <2>1. \A p \in PathsOf(Output(script)) : files'[p] # Partial
    BY <1>1, SetupConstants DEF WriteOnce, OneContent, PathsOf
  <2> QED BY <1>1, <1>4, <2>1 DEF Whole
<1>8. Marks'
  <2>1. ASSUME NEW i \in Guarded(script) PROVE ~Marked(i)'
    <3>1. Package[Mark(script, i)] = Missing
      BY <1>1, MarkFacts
    <3> QED BY <1>1, <1>4, <3>1 DEF Marked
  <2> QED BY <1>1, <2>1 DEF Marks
<1>9. Owed' /\ Alone' /\ AttemptsDone' /\ Complete' /\ MarksWait' /\ Unmarked'
  BY <1>1, <1>4 DEF Owed, Alone, AttemptsDone, Complete, MarksWait, Unmarked
<1> QED BY <1>1, <1>5, <1>6, <1>7, <1>8, <1>9 DEF OrderInv

LEMMA StutterOrder ==
  ASSUME SetupInv, UNCHANGED mvars
  PROVE  OrderInv'
<1>1. UNCHANGED <<script, files, leftovers, pc, call, pos, dl, url, todo, last, tainted, harm>>
  BY DEF mvars, world, locals
<1>2. Attempts' = Attempts /\ Tasks' = Tasks /\ Stay
  BY <1>1 DEF Attempts, Tasks, Stay
<1>3. \A q \in Reqs : Working(q)'
  BY <1>1, SameWorking, SetupShapes
<1>4. AttemptsDone'
  <2> SUFFICES ASSUME Calm, NEW q \in Attempts, Sound(q) PROVE DoneSoFar(q)'
    BY <1>1, <1>2 DEF AttemptsDone, Calm, Sound
  <2>1. /\ q \in Reqs /\ DoneSoFar(q) /\ (pc[q] = "task" => pos[q] \in Active(script))
    BY SetupShapes DEF SetupInv, OrderInv, AttemptsDone, Attempts, Working
  <2> QED BY <1>1, <1>2, <2>1, SameDone
<1>5. Marks' /\ MarksWait' /\ Unmarked'
  BY <1>1, <1>2 DEF SetupInv, OrderInv, Marks, MarksWait, Unmarked, Marked, Calm
<1> QED BY <1>1, <1>2, <1>3, <1>4, <1>5
        DEF SetupInv, OrderInv, Owed, Due, Whole, Alone, Complete

\* While nobody registers.
LEMMA SetupInvNext ==
  ASSUME SetupInv, [MNext]_mvars, \A r \in Reqs : ~Registration(r)
  PROVE  OrderInv'
<1>1. ASSUME NEW r \in Reqs, Setup(r) PROVE OrderInv'
  BY <1>1, SkipOrder, DownloadOrder, DownloadedOrder, UnpackOrder, BeginTaskOrder, QuickOrder,
     TaskOrder, FailOrder, ValidateOrder, CallStepsOrder DEF Setup
<1> QED BY <1>1, ConfigureOrder, DropOrder, LeftoverOrder, StutterOrder DEF MNext

\* Only a registration removes a package, and only it makes it whole.
LEMMA TornStays ==
  ASSUME TypeInv, [MNext]_mvars, \A r \in Reqs : ~Registration(r)
  PROVE  /\ script' = script /\ ("torn" \in harm' <=> "torn" \in harm)
         /\ \A r \in Reqs : pc'[r] = "extract" => pc[r] = "extract"
<1>0. DOMAIN pc = Reqs
  BY DEF TypeInv, CleanInv, Shapes
<1>1. ASSUME NEW q \in Reqs, NEW label \in Labels \ {"extract"}, Goto(q, label)
      PROVE  \A r \in Reqs : pc'[r] = "extract" => pc[r] = "extract"
  BY <1>0, <1>1 DEF Goto
<1>2. ASSUME NEW q \in Reqs, Return(q) \/ Fail(q) \/ Advance(q)
      PROVE  \A r \in Reqs : pc'[r] = "extract" => pc[r] = "extract"
  BY <1>1, <1>2 DEF Return, Fail, Advance, Labels
<1>3. ASSUME NEW q \in Reqs, Configure(q)
      PROVE  /\ script' = script /\ ("torn" \in harm' <=> "torn" \in harm)
             /\ \A r \in Reqs : pc'[r] = "extract" => pc[r] = "extract"
  <2>1. script' = script /\ ("torn" \in harm' <=> "torn" \in harm)
    BY <1>3 DEF Configure, CallConfig, Overlap, Ensure, Create, ReadConfig, WriteConfig,
                WriteConfigFails, world
  <2> QED BY <1>1, <1>2, <1>3, <2>1
      DEF Configure, CallConfig, Ensure, Create, Proceed, ReadConfig, WriteConfig,
          WriteConfigFails, Labels
<1>4. ASSUME NEW q \in Reqs, Setup(q)
      PROVE  /\ script' = script /\ ("torn" \in harm' <=> "torn" \in harm)
             /\ \A r \in Reqs : pc'[r] = "extract" => pc[r] = "extract"
  <2>1. script' = script /\ ("torn" \in harm' <=> "torn" \in harm)
    BY <1>4
    DEF Setup, CallSteps, Overlap, SkipStep, Download, Downloaded, DownloadFails, Half, Unpack,
        UnpackFails, BeginTask, QuickStep, StepFails, Begin, TaskWrites, TaskEnds, TaskFails,
        Validate, ValidateFails, world
  <2> QED BY <1>1, <1>2, <1>4, <2>1
      DEF Setup, CallSteps, SkipStep, Download, Downloaded, DownloadFails, Unpack,
          UnpackFails, BeginTask, QuickStep, StepFails, Begin, TaskWrites, TaskEnds, TaskFails,
          Validate, ValidateFails, Labels
<1>5. ASSUME NEW q \in Reqs, Drop(q)
      PROVE  /\ script' = script /\ ("torn" \in harm' <=> "torn" \in harm)
             /\ \A r \in Reqs : pc'[r] = "extract" => pc[r] = "extract"
  BY <1>2, <1>5 DEF Drop
<1>6. CASE UNCHANGED <<script, pc, harm>>
  BY <1>6
<1>7. ASSUME NEW w \in leftovers, Leftover(w) \/ LeftoverDies(w)
      PROVE  UNCHANGED <<script, pc, harm>>
  BY <1>7 DEF Leftover, LeftoverDies
<1> QED BY <1>3, <1>4, <1>5, <1>6, <1>7 DEF MNext, mvars, world

LEMMA WholeInvNext == ASSUME WholeInv, [MNext]_mvars PROVE WholeInv'
<1>1. TypeInv'
  BY TypeInvNext DEF WholeInv
<1>2. CASE \A r \in Reqs : ~Registration(r)
  <2>1. /\ script' = script /\ ("torn" \in harm' <=> "torn" \in harm)
        /\ \A r \in Reqs : pc'[r] = "extract" => pc[r] = "extract"
    BY <1>2, TornStays DEF WholeInv
  <2>2. "torn" \notin harm => SetupInv
    BY DEF WholeInv, SetupInv
  <2>3. "torn" \notin harm => OrderInv'
    BY <1>2, <2>2, SetupInvNext
  <2> QED BY <1>1, <2>1, <2>3 DEF WholeInv
<1>3. ASSUME NEW r \in Reqs, Reregister(r) \/ RemovalFails(r) PROVE WholeInv'
  <2>1. script' = script /\ "torn" \in harm'
    BY <1>3 DEF Reregister, RemovalFails, Unmake
  <2> QED BY <1>1, <2>1 DEF WholeInv
<1>4. ASSUME NEW r \in Reqs, Extracts(r) \/ ExtractFails(r) PROVE WholeInv'
  <2>1. script' = script /\ "torn" \in harm'
    BY <1>4 DEF Extracts, ExtractFails, Half, At, WholeInv
  <2> QED BY <1>1, <2>1 DEF WholeInv
<1>5. ASSUME NEW r \in Reqs, Registered(r) PROVE WholeInv'
  <2>1. script' = script /\ Return(r) /\ "torn" \in harm /\ DOMAIN pc = Reqs
    BY <1>5 DEF Registered, world, At, WholeInv, TypeInv, CleanInv, Shapes
  <2>2. pc'[r] = "idle" /\ \A q \in Reqs \ {r} : pc'[q] = pc[q]
    BY <2>1 DEF Return, Goto
  <2>3. CASE Fresh(r)
    <3>1. OrderInv'
      BY <1>5, <2>3, RegisteredOrder DEF WholeInv
    <3>2. \A q \in Reqs : pc'[q] # "extract"
      BY <2>2, <2>3 DEF Fresh, At
    <3> QED BY <1>1, <2>1, <3>1, <3>2 DEF WholeInv
  <2>4. CASE ~Fresh(r)
    BY <1>1, <1>5, <2>1, <2>2, <2>4 DEF Registered, WholeInv
  <2> QED BY <2>3, <2>4
<1> QED BY <1>2, <1>3, <1>4, <1>5 DEF Registration

LEMMA SetupInvInit ==
  ASSUME MInit, WriteOnce(script)
  PROVE  WholeInv
<1>1. TypeInv
  BY TypeInvInit
<1>2. Attempts = {} /\ \A task \in Tasks : ToSet(task) = {}
  BY DEF MInit, Attempts, Tasks, ToSet
<1>3. ASSUME NEW r \in Reqs PROVE Working(r)
  <2>1. Counted(r) = 0
    BY DEF MInit, Counted
  <2>2. Counts(script, 0) = {0}
    BY NothingCounted DEF MInit
  <2> QED BY <2>1, <2>2 DEF MInit, Working
<1>4. Tidy(script, files)
  BY DEF MInit, Tidy
<1>5. Whole
  <2>1. \A p \in PathsOf(Output(script)) : files[p] # Partial
    BY SetupConstants DEF MInit, WriteOnce, OneContent, PathsOf
  <2> QED BY <1>2, <2>1 DEF Whole
<1>6. Owed /\ Alone /\ AttemptsDone /\ Complete
  BY <1>2 DEF MInit, Owed, Alone, AttemptsDone, Complete
<1>7. Marks
  <2>1. ASSUME NEW i \in Guarded(script) PROVE ~Marked(i)
    <3>1. Package[Mark(script, i)] = Missing
      BY MarkFacts DEF MInit
    <3> QED BY <1>2, <3>1 DEF MInit, Marked
  <2> QED BY <2>1 DEF Marks
<1>8. MarksWait /\ Unmarked
  BY <1>2 DEF MInit, MarksWait, Unmarked
<1> QED BY <1>1, <1>3, <1>4, <1>5, <1>6, <1>7, <1>8 DEF MInit, WholeInv, OrderInv

LEMMA WholeInvHolds == MSpec /\ WriteOnce(script) => []WholeInv
<1>1. MInit /\ WriteOnce(script) => WholeInv
  BY SetupInvInit
<1>2. WholeInv /\ [MNext]_mvars => WholeInv'
  BY WholeInvNext
<1> QED BY <1>1, <1>2, PTL DEF MSpec

--------------------------------------------------------------------------------
(* An attempt that is called a success has placed every file that the script *)
(* produces, for any write-once script, whatever overlapping, failing and    *)
(* dropped attempts, registrations that leave the package whole and the      *)
(* tasks left behind do in between.                                          *)
THEOREM SuccessComplete == MSpec /\ WriteOnce(script) => []SuccessIsComplete
<1>1. ASSUME WholeInv PROVE SuccessIsComplete
  <2> DEFINE done == Outcome(script, Len(script))
  <2> SUFFICES ASSUME last = "ok", Promised, leftovers = {}, Attempts = {},
                      NEW p \in Paths, done[p] # Missing
               PROVE  files[p] = done[p]
    BY DEF SuccessIsComplete
  <2>0. SetupInv
    BY <1>1 DEF WholeInv, SetupInv, Promised
  <2>1. There(files, Products(script))
    BY <2>0 DEF SetupInv, OrderInv, Complete, Promised
  <2>2. /\ script \in Scripts /\ Len(script) \in Nat /\ WriteOnce(script) /\ Tidy(script, files)
    BY <2>0, SetupShapes
  <2>3. Settled(script, Len(script))
    BY <2>2, OutcomeSettled
  <2>4. CASE done[p] = Package[p]
    <3>1. p \notin PathsOf(Output(script))
      BY <2>2, <2>4 DEF WriteOnce, OneContent, PathsOf
    <3> QED BY <2>2, <2>4, <3>1, Untouched
  <2>5. CASE done[p] # Package[p]
    <3>1. WriteOf(p, done[p]) \in Products(script)
      BY <2>3, <2>5, BroughtIsOutput DEF Settled
    <3> QED BY <2>1, <3>1 DEF There, WriteOf
  <2> QED BY <2>4, <2>5
<1> QED BY <1>1, WholeInvHolds, PTL

\* From a step to a task there is one way.
LEMMA TasksBegin ==
  ASSUME SetupInv, MNext, NEW r \in Reqs, pc[r] = "step", pc'[r] = "task"
  PROVE  BeginTask(r)
<1>0. DOMAIN pc = Reqs
  BY SetupShapes
<1>1. ASSUME NEW q \in Reqs, NEW label, Goto(q, label), q # r \/ label # "task" PROVE FALSE
  BY <1>0, <1>1 DEF Goto
<1>2. ASSUME NEW q \in Reqs, Return(q) \/ Fail(q) \/ Advance(q) PROVE FALSE
  <2>1. Goto(q, "idle") \/ Goto(q, "step")
    BY <1>2 DEF Return, Fail, Advance
  <2> QED BY <1>1, <2>1
<1>3. pc' # pc
  BY <1>0
<1>4. ASSUME NEW q \in Reqs, Configure(q) PROVE FALSE
  BY <1>1, <1>2, <1>4 DEF Configure, CallConfig, Ensure, Create, Proceed, ReadConfig,
                          WriteConfig, WriteConfigFails
<1>5. ASSUME NEW q \in Reqs, Drop(q) \/ Registration(q) PROVE FALSE
  BY <1>1, <1>2, <1>3, <1>5 DEF Drop, Registration, Reregister, RemovalFails, Extracts,
                                ExtractFails, Registered
<1>6. ASSUME NEW w \in leftovers, Leftover(w) \/ LeftoverDies(w) PROVE FALSE
  BY <1>3, <1>6 DEF Leftover, LeftoverDies
<1>7. ASSUME NEW q \in Reqs, Setup(q) PROVE q = r /\ BeginTask(r)
  <2>1. CASE CallSteps(q) \/ Download(q) \/ Downloaded(q)
    BY <1>1, <1>2, <2>1 DEF CallSteps, Download, Downloaded
  <2>2. CASE \/ SkipStep(q) \/ DownloadFails(q) \/ UnpackFails(q) \/ QuickStep(q)
             \/ StepFails(q) \/ TaskEnds(q) \/ TaskFails(q) \/ Validate(q) \/ ValidateFails(q)
    BY <1>2, <2>2 DEF SkipStep, DownloadFails, UnpackFails, QuickStep, StepFails, TaskEnds,
                      TaskFails, Validate, ValidateFails
  <2>3. CASE TaskWrites(q)
    BY <1>3, <2>3 DEF TaskWrites
  <2>4. CASE Unpack(q)
    <3>1. Goto(q, "task") /\ pc[q] = "open"
      BY <2>4 DEF Unpack, Begin, At
    <3> QED BY <1>1, <3>1
  <2>5. CASE BeginTask(q)
    <3>1. Goto(q, "task")
      BY <2>5 DEF BeginTask, Begin
    <3>2. q = r
      BY <1>1, <3>1
    <3> QED BY <2>5, <3>2
  <2> QED BY <1>7, <2>1, <2>2, <2>3, <2>4, <2>5 DEF Setup
<1> QED BY <1>4, <1>5, <1>6, <1>7 DEF MNext

(* A setup command runs the very program that the steps before it provide,    *)
(* for any write-once script, unless attempts overlap and writes fail, or the *)
(* package was not left alone while it was registered again.                  *)
THEOREM CommandsRunWhatWasPrepared ==
  MSpec /\ WriteOnce(script) => RunsWhatWasPrepared
<1>1. WholeInv /\ [MNext]_mvars =>
        [\A r \in Reqs \ tainted :
           RunBegins(r) /\ Promised =>
             LET p == Step(r).source IN files[p] = Outcome(script, pos[r] - 1)[p]]_mvars
  <2> SUFFICES ASSUME WholeInv, MNext, NEW r \in Reqs \ tainted, RunBegins(r), Promised
               PROVE  files[Step(r).source] = Before(script, pos[r])[Step(r).source]
    BY DEF Before
  <2>0. SetupInv
    BY DEF WholeInv, SetupInv, Promised
  <2>1. /\ pc[r] = "step" /\ pc'[r] = "task" /\ Step(r).action = "run" /\ r \in Reqs
        /\ r \in Attempts
    BY <2>0, SetupShapes DEF RunBegins, Executing
  <2>2. Executes(r, Long)
    BY <2>0, <2>1, TasksBegin DEF BeginTask
  <2>3. pos[r] \in Active(script) /\ pos[r] \in 1..Len(script)
    BY <2>0, <2>1, <2>2, StepApplies DEF Executes
  <2>4. DoneSoFar(r)
    BY <2>0, <2>1 DEF SetupInv, OrderInv, AttemptsDone, Calm, Promised, Sound
  <2>5. Step(r).source \in Paths
    BY <2>0, <2>3, SetupShapes, CleanStep DEF Step
  <2>6. Before(script, pos[r])[Step(r).source] # Missing
    <3>1. Possible(Before(script, pos[r]), Step(r))
      BY <2>0, <2>3, SetupShapes DEF WriteOnce, StepsArePlain, Step
    <3> QED BY <2>1, <3>1, SetupConstants DEF Possible, Exists, Reads
  <2> QED BY <2>0, <2>3, <2>4, <2>5, <2>6, SetupShapes, FindsFile DEF DoneSoFar
<1> QED BY <1>1, WholeInvHolds, PTL DEF MSpec, RunsWhatWasPrepared

================================================================================
