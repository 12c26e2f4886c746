---------------------------- MODULE WsBridgeProofs -----------------------------
(***************************************************************************)
(* The bridge delivers in order, a peer that closes is heard out, and the  *)
(* bridge implements the two pipes that are cut together, for any          *)
(* payloads, windows and numbers of messages.                              *)
(***************************************************************************)
EXTENDS WsBridge, SequenceTheorems, TLAPS

(* Prefixes of sequences.                                                   *)
LEMMA PrefixOfConcat ==
  ASSUME NEW S, NEW s \in Seq(S), NEW t \in Seq(S)
  PROVE  IsPrefix(s, s \o t)
  BY DEF IsPrefix

LEMMA PrefixOfAppend ==
  ASSUME NEW S, NEW s \in Seq(S), NEW m \in S
  PROVE  IsPrefix(s, Append(s, m))
  BY DEF IsPrefix

LEMMA SelfPrefix ==
  ASSUME NEW S, NEW s \in Seq(S)
  PROVE  IsPrefix(s, s)
  BY DEF IsPrefix

LEMMA PrefixIsLocal ==
  ASSUME NEW S, NEW s \in Seq(S), NEW t \in Seq(S)
  PROVE  IsPrefix(s, t) <=> Len(s) <= Len(t) /\ \A i \in 1..Len(s) : s[i] = t[i]
  BY DEF IsPrefix

LEMMA PrefixTransitive ==
  ASSUME NEW S, NEW s \in Seq(S), NEW t \in Seq(S), NEW u \in Seq(S),
         IsPrefix(s, t), IsPrefix(t, u)
  PROVE  IsPrefix(s, u)
  BY PrefixIsLocal

LEMMA PrefixBehind ==
  ASSUME NEW S, NEW s \in Seq(S), NEW t \in Seq(S), NEW u \in Seq(S), IsPrefix(t, u)
  PROVE  IsPrefix(s \o t, s \o u)
<1>1. /\ s \o t \in Seq(S) /\ s \o u \in Seq(S)
      /\ Len(s \o t) = Len(s) + Len(t) /\ Len(s \o u) = Len(s) + Len(u)
      /\ Len(s) \in Nat /\ Len(t) \in Nat /\ Len(u) \in Nat
  OBVIOUS
<1>2. Len(t) <= Len(u) /\ \A i \in 1..Len(t) : t[i] = u[i]
  BY PrefixIsLocal
<1>3. ASSUME NEW i \in 1..Len(s) + Len(t) PROVE (s \o t)[i] = (s \o u)[i]
  <2>1. /\ (s \o t)[i] = IF i <= Len(s) THEN s[i] ELSE t[i - Len(s)]
        /\ (s \o u)[i] = IF i <= Len(s) THEN s[i] ELSE u[i - Len(s)]
    BY <1>1, <1>2, ConcatProperties
  <2>2. i > Len(s) => i - Len(s) \in 1..Len(t)
    BY <1>1
  <2> QED BY <1>2, <2>1, <2>2
<1>4. Len(s) + Len(t) <= Len(s) + Len(u)
  BY <1>1, <1>2
<1> HIDE DEF IsPrefix
<1> QED BY <1>1, <1>3, <1>4, PrefixIsLocal

LEMMA PrefixesArePrefixes ==
  ASSUME NEW S, NEW s \in Seq(S), NEW p \in Prefixes(s)
  PROVE  p \in Seq(S) /\ IsPrefix(p, s)
<1>1. PICK l \in 0..Len(s) : p = SubSeq(s, 1, l)
  BY DEF Prefixes
<1>2. p \in Seq(S) /\ Len(p) = l /\ \A i \in 1..l : p[i] = s[i]
  BY <1>1
<1> QED BY <1>2, PrefixIsLocal

\* The first element of a sequence moves to the end of the one before it.
LEMMA HeadMoves ==
  ASSUME NEW S, NEW s \in Seq(S), NEW t \in Seq(S), t # <<>>
  PROVE  /\ Append(s, Head(t)) \o Tail(t) = s \o t
         /\ <<Head(t)>> \o Tail(t) = t
  OBVIOUS

\* Sequences in a row.
LEMMA RowIsSeq ==
  ASSUME NEW s \in Seq(Messages), NEW t \in Seq(Messages),
         NEW u \in Seq(Messages), NEW v \in Seq(Messages)
  PROVE  /\ s \o t \in Seq(Messages) /\ s \o t \o u \in Seq(Messages)
         /\ s \o (t \o u) \in Seq(Messages) /\ s \o t \o u \o v \in Seq(Messages)
<1>1. s \o t \in Seq(Messages) /\ t \o u \in Seq(Messages)
  OBVIOUS
<1>2. s \o t \o u \in Seq(Messages) /\ s \o (t \o u) \in Seq(Messages)
  BY <1>1
<1> QED BY <1>1, <1>2

LEMMA ThreeInARow ==
  ASSUME NEW s \in Seq(Messages), NEW t \in Seq(Messages), NEW u \in Seq(Messages)
  PROVE  s \o t \o u = s \o (t \o u)
  BY ConcatAssociative

LEMMA AppendToRow ==
  ASSUME NEW s \in Seq(Messages), NEW t \in Seq(Messages), NEW m \in Messages
  PROVE  s \o Append(t, m) = Append(s \o t, m)
  OBVIOUS

--------------------------------------------------------------------------------
(* What a direction holds, from the socket of its destination back to the    *)
(* socket of its source.                                                     *)
Flow(d) == heard[d] \o wire[d] \o hand[d] \o inbox[d]

(* As long as the bridge is there, what a direction holds is the beginning   *)
(* of what was said, and all of it until the source has gone.                *)
Sound(d) ==
  /\ IsPrefix(heard[d] \o wire[d], said[d])
  /\ bridge # "over" => IsPrefix(Flow(d), said[d])
  /\ bridge # "over" /\ Source(d) \in present => Flow(d) = said[d]

Ending == \E d \in Dirs : ReadEnds(d) \/ SendClose(d) \/ SendFails(d)

(* A step that ends the bridge leaves each wire with no more than what        *)
(* was on it, followed by the message in hand.                                *)
LEMMA EndLeaves ==
  ASSUME TypeOK, Ending
  PROVE  /\ bridge # "over" /\ bridge' = "over"
         /\ wire' \in [Dirs -> Seq(Messages)]
         /\ \A d \in Dirs : IsPrefix(wire'[d], wire[d] \o hand[d])
         /\ hand' = [d \in Dirs |-> <<>>]
         /\ UNCHANGED <<active, pump, inbox, present, reading, said, heard>>
<1>1. /\ bridge # "over"
      /\ \E extra \in [Dirs -> Seq(Messages)] :
           End(extra) /\ \A d \in Dirs : extra[d] \in {<<>>, hand[d]}
  <2>1. \A d \in Dirs : \A other \in Halfway(d) :
          /\ other \in [Dirs -> Seq(Messages)]
          /\ \A e \in Dirs : other[e] \in {<<>>, hand[e]}
    <3>1. ASSUME NEW d \in Dirs, NEW other \in Halfway(d)
          PROVE  \A e \in Dirs : other[e] \in {<<>>, hand[e]}
      BY <3>1 DEF Halfway, Nothing
    <3>2. ASSUME NEW d \in Dirs, NEW other \in Halfway(d)
          PROVE  other \in [Dirs -> Seq(Messages)]
      <4>1. \A e \in Dirs : hand[e] \in Seq(Messages) /\ <<>> \in Seq(Messages)
        BY DEF TypeOK
      <4> QED BY <3>2, <4>1 DEF Halfway, Nothing
    <3> QED BY <3>1, <3>2
  <2>3. ASSUME NEW d \in Dirs, ReadEnds(d) \/ SendFails(d)
        PROVE  bridge # "over" /\ \E other \in Halfway(d) : End(other)
    BY <2>3 DEF ReadEnds, SendFails
  <2>4. ASSUME NEW d \in Dirs, SendClose(d)
        PROVE  /\ bridge # "over"
               /\ \E extra \in [Dirs -> Seq(Messages)] :
                    End(extra) /\ \A e \in Dirs : extra[e] \in {<<>>, hand[e]}
    <3>1. PICK other \in Halfway(d) : End([other EXCEPT ![d] = hand[d]])
      BY <2>4 DEF SendClose
    <3> DEFINE extra == [other EXCEPT ![d] = hand[d]]
    <3>2. /\ extra \in [Dirs -> Seq(Messages)]
          /\ \A e \in Dirs : extra[e] \in {<<>>, hand[e]}
      BY <2>1 DEF TypeOK
    <3>3. bridge # "over"
      BY <2>4 DEF SendClose, CanSend
    <3> HIDE DEF extra
    <3> QED BY <3>1, <3>2, <3>3 DEF extra
  <2> QED BY <2>1, <2>3, <2>4 DEF Ending
<1>2. PICK extra \in [Dirs -> Seq(Messages)] :
        End(extra) /\ \A d \in Dirs : extra[d] \in {<<>>, hand[d]}
  BY <1>1
<1>3. wire' = [d \in Dirs |-> wire[d] \o extra[d]]
  BY <1>2 DEF End
<1>4. ASSUME NEW d \in Dirs
      PROVE  wire'[d] \in Seq(Messages) /\ IsPrefix(wire'[d], wire[d] \o hand[d])
  <2>1. /\ wire[d] \in Seq(Messages) /\ hand[d] \in Seq(Messages)
        /\ extra[d] \in Seq(Messages) /\ wire[d] \o extra[d] \in Seq(Messages)
    BY DEF TypeOK
  <2>2. IsPrefix(<<>>, hand[d]) /\ IsPrefix(hand[d], hand[d])
    BY <2>1 DEF IsPrefix
  <2>3. IsPrefix(wire[d] \o extra[d], wire[d] \o hand[d])
    BY <1>2, <2>1, <2>2, PrefixBehind
  <2> QED BY <1>3, <2>1, <2>3
<1>5. wire' \in [Dirs -> Seq(Messages)]
  BY <1>3, <1>4
<1> QED BY <1>1, <1>2, <1>4, <1>5 DEF End

\* Until the bridge is open both pumps are at their beginning.
TypeInv == TypeOK /\ (bridge \in {"none", "connecting"} => \A d \in Dirs : pump[d] = "read")

LEMMA TypeStep == ASSUME TypeInv, [Next]_wvars PROVE TypeInv'
<1> USE DEF TypeInv, TypeOK
<1>1. CASE Upgrade \/ Connect \/ RuntimeStopped \/ ConnectFails
  BY <1>1 DEF Upgrade, Connect, RuntimeStopped, ConnectFails
<1>2. CASE Ending
  <2>1. TypeOK /\ bridge' = "over" /\ wire' \in [Dirs -> Seq(Messages)]
        /\ hand' = [d \in Dirs |-> <<>>]
        /\ UNCHANGED <<active, pump, inbox, present, reading, said, heard>>
    BY <1>2, EndLeaves
  <2>2. hand' \in [Dirs -> Seq(Messages)] /\ \A d \in Dirs : Len(hand'[d]) = 0
    BY <2>1
  <2> QED BY <2>1, <2>2
<1>3. ASSUME NEW d \in Dirs, NEW m \in Messages, Say(d, m) PROVE TypeInv'
  BY <1>3 DEF Say
<1>4. ASSUME NEW d \in Dirs, Hear(d) PROVE TypeInv'
  <2>1. Append(heard[d], Head(wire[d])) \in Seq(Messages) /\ Tail(wire[d]) \in Seq(Messages)
    BY <1>4 DEF Hear
  <2> QED BY <1>4, <2>1 DEF Hear
<1>5. ASSUME NEW d \in Dirs, Read(d) PROVE TypeInv'
  <2>1. /\ Head(inbox[d]) \in Messages /\ Tail(inbox[d]) \in Seq(Messages)
        /\ <<Head(inbox[d])>> \in Seq(Messages) /\ Len(<<Head(inbox[d])>>) = 1
    BY <1>5 DEF Read
  <2> QED BY <1>5, <2>1 DEF Read
<1>6. ASSUME NEW d \in Dirs, Send(d) PROVE TypeInv'
  <2>1. wire[d] \o hand[d] \in Seq(Messages) /\ <<>> \in Seq(Messages) /\ Len(<<>>) = 0
    OBVIOUS
  <2>2. /\ wire' \in [Dirs -> Seq(Messages)] /\ hand' \in [Dirs -> Seq(Messages)]
        /\ pump' \in [Dirs -> {"read", "send"}]
        /\ UNCHANGED <<active, bridge, inbox, present, reading, said, heard>>
        /\ bridge = "open"
    BY <1>6, <2>1 DEF Send, CanSend
  <2>3. ASSUME NEW e \in Dirs
        PROVE  Len(hand'[e]) = IF bridge = "open" /\ pump'[e] = "send" THEN 1 ELSE 0
    <3>1. CASE e = d
      BY <1>6, <2>1, <3>1 DEF Send
    <3>2. CASE e # d
      BY <1>6, <3>2 DEF Send
    <3> QED BY <3>1, <3>2
  <2> QED BY <2>2, <2>3
<1>7. ASSUME NEW p \in Peers, Vanish(p) PROVE TypeInv'
  <2>1. PICK d \in Dirs : \E left \in Prefixes(inbox[d]) :
          inbox' = [inbox EXCEPT ![d] = left]
    BY <1>7 DEF Vanish
  <2>2. \A left \in Prefixes(inbox[d]) : left \in Seq(Messages)
    BY PrefixesArePrefixes
  <2> QED BY <1>7, <2>1, <2>2 DEF Vanish
<1>8. ASSUME NEW p \in Peers, StopReading(p) PROVE TypeInv'
  BY <1>8 DEF StopReading
<1>9. ASSUME NEW d \in Dirs, Reset(d) PROVE TypeInv'
  <2>1. \A left \in Prefixes(wire[d]) : left \in Seq(Messages)
    BY PrefixesArePrefixes
  <2> QED BY <1>9, <2>1 DEF Reset
<1>10. CASE UNCHANGED wvars
  BY <1>10 DEF wvars
<1> QED BY <1>1, <1>2, <1>3, <1>4, <1>5, <1>6, <1>7, <1>8, <1>9, <1>10
     DEF Next, Pump, Ending

(* Every state of the bridge has the declared shape: a pump has a message in  *)
(* hand exactly while it sends.                                               *)
THEOREM BridgeTypeCorrect == Spec => []TypeOK
<1>1. Init => TypeInv
  BY DEF Init, TypeInv, TypeOK, Peers
<1>2. TypeInv => TypeOK
  BY DEF TypeInv
<1> QED BY <1>1, <1>2, TypeStep, PTL DEF Spec

--------------------------------------------------------------------------------
BridgeInv == TypeInv /\ \A d \in Dirs : Sound(d)

\* What is held is a sequence, however it is put together.
LEMMA Holds ==
  ASSUME TypeOK, NEW d \in Dirs
  PROVE  /\ heard[d] \in Seq(Messages) /\ wire[d] \in Seq(Messages)
         /\ hand[d] \in Seq(Messages) /\ inbox[d] \in Seq(Messages)
         /\ said[d] \in Seq(Messages)
         /\ heard[d] \o wire[d] \in Seq(Messages)
         /\ wire[d] \o hand[d] \in Seq(Messages)
         /\ hand[d] \o inbox[d] \in Seq(Messages)
         /\ heard[d] \o (wire[d] \o hand[d]) \in Seq(Messages)
         /\ heard[d] \o wire[d] \o hand[d] = heard[d] \o (wire[d] \o hand[d])
         /\ Flow(d) = (heard[d] \o wire[d]) \o (hand[d] \o inbox[d])
         /\ Flow(d) \in Seq(Messages)
<1>1. /\ heard[d] \in Seq(Messages) /\ wire[d] \in Seq(Messages)
      /\ hand[d] \in Seq(Messages) /\ inbox[d] \in Seq(Messages)
      /\ said[d] \in Seq(Messages)
  BY DEF TypeOK
<1>2. /\ heard[d] \o wire[d] \in Seq(Messages)
      /\ wire[d] \o hand[d] \in Seq(Messages)
      /\ hand[d] \o inbox[d] \in Seq(Messages)
      /\ heard[d] \o (wire[d] \o hand[d]) \in Seq(Messages)
      /\ heard[d] \o wire[d] \o hand[d] \o inbox[d] \in Seq(Messages)
  BY <1>1, RowIsSeq
<1>3. heard[d] \o wire[d] \o hand[d] = heard[d] \o (wire[d] \o hand[d])
  BY <1>1, ThreeInARow
<1>4. heard[d] \o wire[d] \o hand[d] \o inbox[d]
        = (heard[d] \o wire[d]) \o (hand[d] \o inbox[d])
  <2>1. /\ heard[d] \o wire[d] \in Seq(Messages)
        /\ hand[d] \in Seq(Messages) /\ inbox[d] \in Seq(Messages)
    BY <1>1, <1>2
  <2>2. ASSUME NEW s \in Seq(Messages)
        PROVE  s \o hand[d] \o inbox[d] = s \o (hand[d] \o inbox[d])
    BY <2>1, ThreeInARow
  <2> QED BY <2>1, <2>2
<1> QED BY <1>1, <1>2, <1>3, <1>4 DEF Flow

LEMMA HoldsNext ==
  ASSUME TypeOK', NEW d \in Dirs
  PROVE  /\ heard'[d] \in Seq(Messages) /\ wire'[d] \in Seq(Messages)
         /\ hand'[d] \in Seq(Messages) /\ inbox'[d] \in Seq(Messages)
         /\ said'[d] \in Seq(Messages)
         /\ heard'[d] \o wire'[d] \in Seq(Messages)
         /\ wire'[d] \o hand'[d] \in Seq(Messages)
         /\ hand'[d] \o inbox'[d] \in Seq(Messages)
         /\ heard'[d] \o (wire'[d] \o hand'[d]) \in Seq(Messages)
         /\ heard'[d] \o wire'[d] \o hand'[d] = heard'[d] \o (wire'[d] \o hand'[d])
         /\ Flow(d)' = (heard'[d] \o wire'[d]) \o (hand'[d] \o inbox'[d])
         /\ Flow(d)' \in Seq(Messages)
<1>1. /\ heard'[d] \in Seq(Messages) /\ wire'[d] \in Seq(Messages)
      /\ hand'[d] \in Seq(Messages) /\ inbox'[d] \in Seq(Messages)
      /\ said'[d] \in Seq(Messages)
  BY DEF TypeOK
<1>2. /\ heard'[d] \o wire'[d] \in Seq(Messages)
      /\ wire'[d] \o hand'[d] \in Seq(Messages)
      /\ hand'[d] \o inbox'[d] \in Seq(Messages)
      /\ heard'[d] \o (wire'[d] \o hand'[d]) \in Seq(Messages)
      /\ heard'[d] \o wire'[d] \o hand'[d] \o inbox'[d] \in Seq(Messages)
  BY <1>1, RowIsSeq
<1>3. heard'[d] \o wire'[d] \o hand'[d] = heard'[d] \o (wire'[d] \o hand'[d])
  BY <1>1, ThreeInARow
<1>4. heard'[d] \o wire'[d] \o hand'[d] \o inbox'[d]
        = (heard'[d] \o wire'[d]) \o (hand'[d] \o inbox'[d])
  <2>1. /\ heard'[d] \o wire'[d] \in Seq(Messages)
        /\ hand'[d] \in Seq(Messages) /\ inbox'[d] \in Seq(Messages)
    BY <1>1, <1>2
  <2>2. ASSUME NEW s \in Seq(Messages)
        PROVE  s \o hand'[d] \o inbox'[d] = s \o (hand'[d] \o inbox'[d])
    BY <2>1, ThreeInARow
  <2> QED BY <2>1, <2>2
<1> QED BY <1>1, <1>2, <1>3, <1>4 DEF Flow

LEMMA DeliveredLeads ==
  ASSUME TypeOK', NEW d \in Dirs, IsPrefix(Flow(d)', said'[d])
  PROVE  IsPrefix(heard'[d] \o wire'[d], said'[d])
<1>1. /\ heard'[d] \o wire'[d] \in Seq(Messages) /\ hand'[d] \o inbox'[d] \in Seq(Messages)
      /\ Flow(d)' = (heard'[d] \o wire'[d]) \o (hand'[d] \o inbox'[d])
  BY HoldsNext
<1>2. IsPrefix(heard'[d] \o wire'[d], Flow(d)')
  BY <1>1, PrefixOfConcat
<1> QED BY <1>1, <1>2, HoldsNext, PrefixTransitive

\* A step that moves messages along and takes none away.
LEMMA FlowKept ==
  ASSUME TypeOK, TypeOK', NEW d \in Dirs, Sound(d), bridge # "over",
         said'[d] = said[d], Flow(d)' = Flow(d), present' \subseteq present
  PROVE  Sound(d)'
<1>1. IsPrefix(Flow(d)', said'[d]) /\ (Source(d) \in present' => Flow(d)' = said'[d])
  BY DEF Sound
<1>2. IsPrefix(heard'[d] \o wire'[d], said'[d])
  BY <1>1, DeliveredLeads
<1> QED BY <1>1, <1>2 DEF Sound

LEMMA SameFlow ==
  ASSUME NEW d \in Dirs, Sound(d), heard'[d] = heard[d], wire'[d] = wire[d],
         hand'[d] = hand[d], inbox'[d] = inbox[d], said'[d] = said[d],
         present' \subseteq present, bridge' # "over" => bridge # "over"
  PROVE  Sound(d)'
  BY DEF Sound, Flow

LEMMA SoundStep == ASSUME BridgeInv, [Next]_wvars PROVE \A e \in Dirs : Sound(e)'
<1> USE DEF BridgeInv
<1>0. TypeInv /\ TypeOK /\ TypeOK'
  BY TypeStep DEF TypeInv
<1>1. CASE \/ Upgrade \/ Connect \/ RuntimeStopped \/ ConnectFails \/ UNCHANGED wvars
           \/ \E p \in Peers : StopReading(p)
  BY <1>1, SameFlow DEF Upgrade, Connect, RuntimeStopped, ConnectFails, StopReading, wvars
<1>2. CASE Ending
  <2> SUFFICES ASSUME NEW e \in Dirs PROVE Sound(e)'
    OBVIOUS
  <2>1. /\ bridge # "over" /\ bridge' = "over" /\ wire'[e] \in Seq(Messages)
        /\ IsPrefix(wire'[e], wire[e] \o hand[e]) /\ heard'[e] = heard[e]
        /\ said'[e] = said[e]
    BY <1>0, <1>2, EndLeaves
  <2>2. /\ heard[e] \in Seq(Messages) /\ wire[e] \in Seq(Messages)
        /\ hand[e] \in Seq(Messages) /\ inbox[e] \in Seq(Messages)
        /\ said[e] \in Seq(Messages) /\ wire[e] \o hand[e] \in Seq(Messages)
        /\ heard[e] \o (wire[e] \o hand[e]) \in Seq(Messages)
        /\ heard[e] \o wire'[e] \in Seq(Messages) /\ Flow(e) \in Seq(Messages)
    BY <1>0, <2>1, Holds, RowIsSeq
  <2>3. IsPrefix(heard[e] \o wire'[e], heard[e] \o (wire[e] \o hand[e]))
    BY <2>1, <2>2, PrefixBehind
  <2>4. Flow(e) = (heard[e] \o (wire[e] \o hand[e])) \o inbox[e]
    BY <1>0, Holds DEF Flow
  <2>5. IsPrefix(heard[e] \o (wire[e] \o hand[e]), Flow(e))
    BY <2>2, <2>4, PrefixOfConcat
  <2>6. IsPrefix(Flow(e), said[e])
    BY <2>1 DEF Sound
  <2>7. IsPrefix(heard[e] \o wire'[e], said[e])
    BY <2>2, <2>3, <2>5, <2>6, PrefixTransitive
  <2> QED BY <2>1, <2>7 DEF Sound
<1>3. ASSUME NEW d \in Dirs, NEW m \in Messages, Say(d, m)
      PROVE  \A e \in Dirs : Sound(e)'
  <2>1. /\ said'[d] = Append(said[d], m) /\ inbox'[d] = Append(inbox[d], m)
        /\ heard'[d] = heard[d] /\ wire'[d] = wire[d] /\ hand'[d] = hand[d]
        /\ bridge' = bridge /\ Source(d) \in present
    BY <1>0, <1>3 DEF Say, Speaks, TypeOK
  <2>2. ASSUME bridge # "over"
        PROVE  Flow(d)' = Append(Flow(d), m) /\ Flow(d) = said[d]
    <3>1. Flow(d) = said[d]
      BY <2>1, <2>2 DEF Sound
    <3>2. /\ heard[d] \in Seq(Messages) /\ wire[d] \in Seq(Messages)
          /\ hand[d] \in Seq(Messages) /\ inbox[d] \in Seq(Messages)
          /\ heard[d] \o wire[d] \o hand[d] \in Seq(Messages)
      BY <1>0, Holds, RowIsSeq
    <3>3. heard[d] \o wire[d] \o hand[d] \o Append(inbox[d], m)
            = Append(heard[d] \o wire[d] \o hand[d] \o inbox[d], m)
      BY <3>2, AppendToRow
    <3>4. Flow(d)' = heard[d] \o wire[d] \o hand[d] \o Append(inbox[d], m)
      BY <2>1 DEF Flow
    <3> QED BY <3>1, <3>3, <3>4 DEF Flow
  <2>3. bridge # "over" => Flow(d)' = said'[d] /\ IsPrefix(Flow(d)', said'[d])
    BY <1>0, <2>1, <2>2, HoldsNext, SelfPrefix
  <2>4. IsPrefix(heard'[d] \o wire'[d], said'[d])
    <3>1. /\ heard[d] \o wire[d] \in Seq(Messages) /\ said[d] \in Seq(Messages)
          /\ said'[d] \in Seq(Messages)
      BY <1>0, Holds, HoldsNext
    <3>2. IsPrefix(said[d], said'[d])
      BY <2>1, <3>1, PrefixOfAppend
    <3>3. IsPrefix(heard[d] \o wire[d], said[d])
      BY DEF Sound
    <3> QED BY <2>1, <3>1, <3>2, <3>3, PrefixTransitive
  <2>5. Sound(d)'
    BY <2>1, <2>3, <2>4 DEF Sound
  <2>6. ASSUME NEW e \in Dirs \ {d} PROVE Sound(e)'
    BY <1>0, <1>3, SameFlow DEF Say, TypeOK
  <2> QED BY <2>5, <2>6
<1>4. ASSUME NEW d \in Dirs, Hear(d) PROVE \A e \in Dirs : Sound(e)'
  <2>1. heard'[d] \o wire'[d] = heard[d] \o wire[d]
    <3>1. heard'[d] = Append(heard[d], Head(wire[d])) /\ wire'[d] = Tail(wire[d])
      BY <1>0, <1>4 DEF Hear, TypeOK
    <3>2. heard[d] \in Seq(Messages) /\ wire[d] \in Seq(Messages) /\ wire[d] # <<>>
      BY <1>0, <1>4, Holds DEF Hear
    <3>3. Append(heard[d], Head(wire[d])) \o Tail(wire[d]) = heard[d] \o wire[d]
      BY <3>2, HeadMoves
    <3> QED BY <3>1, <3>3
  <2>2. Sound(d)'
    BY <1>4, <2>1 DEF Hear, Sound, Flow
  <2>3. ASSUME NEW e \in Dirs \ {d} PROVE Sound(e)'
    BY <1>0, <1>4, SameFlow DEF Hear, TypeOK
  <2> QED BY <2>2, <2>3
<1>5. ASSUME NEW d \in Dirs, Read(d) PROVE \A e \in Dirs : Sound(e)'
  <2>1. hand[d] = <<>> /\ bridge = "open"
    <3>1. Len(hand[d]) = 0 /\ hand[d] \in Seq(Messages)
      BY <1>0, <1>5 DEF Read, TypeOK
    <3> QED BY <1>5, <3>1 DEF Read
  <2>2. hand'[d] = <<Head(inbox[d])>> /\ inbox'[d] = Tail(inbox[d]) /\ inbox[d] # <<>>
    BY <1>0, <1>5 DEF Read, TypeOK
  <2>3. Flow(d)' = Flow(d)
    <3>1. /\ heard[d] \o wire[d] \in Seq(Messages) /\ hand'[d] \in Seq(Messages)
          /\ inbox'[d] \in Seq(Messages) /\ inbox[d] \in Seq(Messages)
      BY <1>0, Holds, HoldsNext, RowIsSeq
    <3>2. hand'[d] \o inbox'[d] = inbox[d]
      BY <2>2, <3>1, HeadMoves
    <3>3. Flow(d)' = (heard[d] \o wire[d]) \o (hand'[d] \o inbox'[d])
      <4>1. heard'[d] = heard[d] /\ wire'[d] = wire[d]
        BY <1>5 DEF Read
      <4> QED BY <1>0, <4>1, HoldsNext
    <3>4. Flow(d) = (heard[d] \o wire[d]) \o inbox[d]
      BY <1>0, <2>1, Holds, RowIsSeq DEF Flow
    <3> QED BY <3>2, <3>3, <3>4
  <2>4. Sound(d)'
    BY <1>0, <1>5, <2>1, <2>3, FlowKept DEF Read
  <2>5. ASSUME NEW e \in Dirs \ {d} PROVE Sound(e)'
    BY <1>0, <1>5, SameFlow DEF Read, TypeOK
  <2> QED BY <2>4, <2>5
<1>6. ASSUME NEW d \in Dirs, Send(d) PROVE \A e \in Dirs : Sound(e)'
  <2>1. /\ wire'[d] = wire[d] \o hand[d] /\ hand'[d] = <<>> /\ bridge = "open"
        /\ heard'[d] = heard[d] /\ inbox'[d] = inbox[d]
    BY <1>0, <1>6 DEF Send, CanSend, TypeOK
  <2>2. Flow(d)' = Flow(d)
    <3>1. /\ heard[d] \o (wire[d] \o hand[d]) \in Seq(Messages)
          /\ heard[d] \o (wire[d] \o hand[d]) = heard[d] \o wire[d] \o hand[d]
      BY <1>0, Holds
    <3>2. (heard[d] \o (wire[d] \o hand[d])) \o <<>> = heard[d] \o wire[d] \o hand[d]
      BY <3>1, ConcatEmptySeq
    <3> QED BY <2>1, <3>2 DEF Flow
  <2>3. Sound(d)'
    BY <1>0, <1>6, <2>1, <2>2, FlowKept DEF Send
  <2>4. ASSUME NEW e \in Dirs \ {d} PROVE Sound(e)'
    BY <1>0, <1>6, SameFlow DEF Send, TypeOK
  <2> QED BY <2>3, <2>4
<1>7. ASSUME NEW p \in Peers, Vanish(p) PROVE \A e \in Dirs : Sound(e)'
  <2>1. PICK d \in Dirs : /\ Source(d) = p
                          /\ \E left \in Prefixes(inbox[d]) :
                               inbox' = [inbox EXCEPT ![d] = left]
    BY <1>7 DEF Vanish
  <2>2. inbox'[d] \in Prefixes(inbox[d])
    BY <1>0, <2>1 DEF TypeOK
  <2>3. CASE bridge = "over"
    BY <1>7, <2>3 DEF Vanish, Sound
  <2>4. CASE bridge # "over"
    <3>1. /\ heard[d] \o wire[d] \o hand[d] \in Seq(Messages)
          /\ inbox[d] \in Seq(Messages) /\ inbox'[d] \in Seq(Messages)
          /\ IsPrefix(inbox'[d], inbox[d])
      BY <1>0, <2>2, Holds, RowIsSeq, PrefixesArePrefixes
    <3>2. IsPrefix(Flow(d)', Flow(d))
      BY <1>7, <3>1, PrefixBehind DEF Vanish, Flow
    <3>3. IsPrefix(Flow(d)', said'[d])
      BY <1>0, <1>7, <2>4, <3>2, Holds, HoldsNext, PrefixTransitive DEF Sound, Vanish
    <3>4. Sound(d)'
      BY <1>0, <1>7, <2>1, <3>3, DeliveredLeads DEF Vanish, Sound
    <3>5. ASSUME NEW e \in Dirs \ {d} PROVE Sound(e)'
      <4>1. inbox'[e] = inbox[e]
        BY <1>0, <2>1 DEF TypeOK
      <4> QED BY <1>7, <4>1, SameFlow DEF Vanish
    <3> QED BY <3>4, <3>5
  <2> QED BY <2>3, <2>4
<1>8. ASSUME NEW d \in Dirs, Reset(d) PROVE \A e \in Dirs : Sound(e)'
  <2>1. wire'[d] \in Prefixes(wire[d]) /\ bridge = "over"
    BY <1>0, <1>8 DEF Reset, TypeOK
  <2>2. wire'[d] \in Seq(Messages) /\ IsPrefix(wire'[d], wire[d])
    BY <1>0, <2>1, Holds, PrefixesArePrefixes
  <2>3. IsPrefix(heard[d] \o wire'[d], heard[d] \o wire[d])
    BY <1>0, <2>2, Holds, PrefixBehind
  <2>4. heard[d] \o wire'[d] \in Seq(Messages)
    BY <1>0, <2>2, Holds, RowIsSeq
  <2>5. IsPrefix(heard[d] \o wire'[d], said[d])
    BY <1>0, <2>3, <2>4, Holds, PrefixTransitive DEF Sound
  <2>6. Sound(d)'
    BY <1>8, <2>1, <2>5 DEF Reset, Sound
  <2>7. ASSUME NEW e \in Dirs \ {d} PROVE Sound(e)'
    BY <1>0, <1>8, SameFlow DEF Reset, TypeOK
  <2> QED BY <2>6, <2>7
<1> QED BY <1>1, <1>2, <1>3, <1>4, <1>5, <1>6, <1>7, <1>8 DEF Next, Pump, Ending

LEMMA BridgeInvHolds == Spec => []BridgeInv
<1>1. Init => BridgeInv
  <2> SUFFICES ASSUME Init PROVE BridgeInv
    OBVIOUS
  <2>1. TypeInv
    BY DEF Init, TypeInv, TypeOK, Peers
  <2>2. ASSUME NEW d \in Dirs PROVE Sound(d)
    BY DEF Init, Sound, Flow, IsPrefix
  <2> QED BY <2>1, <2>2 DEF BridgeInv
<1>2. BridgeInv /\ [Next]_wvars => BridgeInv'
  BY TypeStep, SoundStep DEF BridgeInv
<1> QED BY <1>1, <1>2, PTL DEF Spec

(* In each direction the peer hears the beginning of what was said, for any   *)
(* messages, windows and lengths, wherever the bridge ends.                   *)
THEOREM BridgeDeliversInOrder == Spec => []InOrder
<1>1. BridgeInv => InOrder
  BY DEF BridgeInv, Sound, InOrder
<1> QED BY <1>1, BridgeInvHolds, PTL

--------------------------------------------------------------------------------
\* Nothing is said behind a close frame.
CloseIsLast ==
  \A d \in Dirs : \A i \in DOMAIN said[d] : said[d][i] = Close => i = Len(said[d])

LEMMA CloseStaysLast ==
  ASSUME TypeOK, CloseIsLast, [Next]_wvars PROVE CloseIsLast'
<1>1. CASE said' = said
  BY <1>1 DEF CloseIsLast
<1>2. ASSUME NEW d \in Dirs, NEW m \in Messages, Say(d, m) PROVE CloseIsLast'
  <2> SUFFICES ASSUME NEW e \in Dirs, NEW i \in DOMAIN said'[e], said'[e][i] = Close
               PROVE  i = Len(said'[e])
    BY DEF CloseIsLast
  <2>1. said[d] \in Seq(Messages) /\ said[e] \in Seq(Messages)
    BY DEF TypeOK
  <2>2. CASE e = d
    <3>1. said'[e] = Append(said[e], m) /\ ~Closed(e)
      BY <1>2, <2>2 DEF Say, Speaks, TypeOK
    <3>2. i \in 1..Len(said[e]) + 1 /\ Len(said'[e]) = Len(said[e]) + 1
      BY <2>1, <3>1
    <3>3. i \in 1..Len(said[e]) => said'[e][i] = said[e][i] /\ i \in DOMAIN said[e]
      BY <2>1, <3>1
    <3>4. i \notin 1..Len(said[e])
      BY <3>1, <3>3 DEF Closed
    <3>5. Len(said[e]) \in Nat
      BY <2>1
    <3> QED BY <3>2, <3>4, <3>5
  <2>3. CASE e # d
    BY <1>2, <2>3 DEF Say, TypeOK, CloseIsLast
  <2> QED BY <2>2, <2>3
<1>3. CASE Ending
  BY <1>1, <1>3, EndLeaves
<1> QED BY <1>1, <1>2, <1>3
     DEF Next, Pump, Ending, Upgrade, Connect, ConnectFails, RuntimeStopped, Hear, Read,
         Send, Vanish, StopReading, Reset, wvars

\* A beginning that reaches the close frame is all that was said.
LEMMA UpToClose ==
  ASSUME TypeOK, CloseIsLast, NEW d \in Dirs, NEW s \in Seq(Messages),
         IsPrefix(s \o <<Close>>, said[d])
  PROVE  s \o <<Close>> = said[d]
<1> DEFINE t == s \o <<Close>>
<1>1. /\ t \in Seq(Messages) /\ said[d] \in Seq(Messages)
      /\ Len(t) = Len(s) + 1 /\ Len(s) \in Nat /\ t[Len(s) + 1] = Close
  BY DEF TypeOK, Messages
<1>2. Len(t) <= Len(said[d]) /\ \A i \in 1..Len(t) : t[i] = said[d][i]
  BY <1>1, PrefixIsLocal
<1>3. Len(t) \in DOMAIN said[d] /\ said[d][Len(t)] = Close
  BY <1>1, <1>2
<1>4. Len(said[d]) = Len(t)
  BY <1>3 DEF CloseIsLast
<1> HIDE DEF t
<1>5. t = said[d]
  BY <1>1, <1>2, <1>4
<1> QED BY <1>5 DEF t

\* The close frame goes out behind all that is on the wire.
LEMMA CloseGoesOut ==
  ASSUME TypeOK, NEW d \in Dirs, SendClose(d)
  PROVE  wire'[d] = wire[d] \o <<Close>> /\ heard' = heard
<1>1. PICK other \in Halfway(d) : End([other EXCEPT ![d] = hand[d]])
  BY DEF SendClose
<1>2. DOMAIN other = Dirs
  BY DEF Halfway, Nothing
<1> DEFINE extra == [other EXCEPT ![d] = hand[d]]
<1>3. extra[d] = <<Close>>
  BY <1>2 DEF SendClose
<1> HIDE DEF extra
<1>4. End(extra)
  BY <1>1 DEF extra
<1> QED BY <1>3, <1>4 DEF End

(* A peer that closes is heard out, for any messages, windows and lengths:    *)
(* when its close frame ends the bridge, everything it said is with its peer  *)
(* or on the wire.                                                            *)
THEOREM ClosedIsHeardOut == Spec => ClosedIsHeard
<1>1. Init => CloseIsLast
  BY DEF Init, CloseIsLast
<1>2. TypeOK /\ CloseIsLast /\ [Next]_wvars => CloseIsLast'
  BY CloseStaysLast
<1>3. BridgeInv => TypeOK
  BY DEF BridgeInv, TypeInv
<1>4. ASSUME BridgeInv, CloseIsLast, NEW d \in Dirs, SendClose(d)
      PROVE  heard'[d] \o wire'[d] = said[d]
  <2>1. /\ heard[d] \in Seq(Messages) /\ wire[d] \in Seq(Messages) /\ inbox[d] \in Seq(Messages)
        /\ hand[d] = <<Close>> /\ <<Close>> \in Seq(Messages) /\ said[d] \in Seq(Messages)
    BY <1>3, <1>4 DEF SendClose, TypeOK, Messages
  <2>2. /\ heard[d] \o wire[d] \in Seq(Messages)
        /\ heard[d] \o wire[d] \o <<Close>> \in Seq(Messages) /\ Flow(d) \in Seq(Messages)
        /\ heard[d] \o (wire[d] \o <<Close>>) = heard[d] \o wire[d] \o <<Close>>
    <3> DEFINE frame == <<Close>>
    <3>1. frame \in Seq(Messages) /\ hand[d] = frame
      BY <2>1
    <3> HIDE DEF frame
    <3>2. /\ heard[d] \o wire[d] \in Seq(Messages)
          /\ heard[d] \o wire[d] \o frame \in Seq(Messages) /\ Flow(d) \in Seq(Messages)
      BY <2>1, <3>1, RowIsSeq DEF Flow
    <3>3. heard[d] \o (wire[d] \o frame) = heard[d] \o wire[d] \o frame
      <4>1. heard[d] \in Seq(Messages) /\ wire[d] \in Seq(Messages)
        BY <2>1
      <4> QED BY <3>1, <4>1, ThreeInARow
    <3> QED BY <3>2, <3>3 DEF frame
  <2>3. IsPrefix(heard[d] \o wire[d] \o <<Close>>, Flow(d))
    BY <2>1, <2>2, PrefixOfConcat DEF Flow
  <2>4. IsPrefix(Flow(d), said[d])
    BY <1>4 DEF BridgeInv, Sound, SendClose, CanSend
  <2>5. IsPrefix(heard[d] \o wire[d] \o <<Close>>, said[d])
    BY <2>1, <2>2, <2>3, <2>4, PrefixTransitive
  <2>6. heard[d] \o wire[d] \o <<Close>> = said[d]
    BY <1>3, <1>4, <2>2, <2>5, UpToClose
  <2> QED BY <1>3, <1>4, <2>2, <2>6, CloseGoesOut
<1>5. BridgeInv /\ CloseIsLast /\ [Next]_wvars =>
        [\A d \in Dirs : SendClose(d) => heard'[d] \o wire'[d] = said[d]]_wvars
  BY <1>4
<1> QED BY <1>1, <1>2, <1>3, <1>5, BridgeInvHolds, PTL DEF Spec, ClosedIsHeard

--------------------------------------------------------------------------------
\* How much of each direction still arrives, once the bridge is over.
Limit == [d \in Dirs |-> IF bridge = "over" THEN Len(heard[d]) + Len(wire[d]) ELSE 0]

LEMMA Between == ASSUME NEW a \in Nat, NEW b \in Nat, NEW c \in Nat, a + b <= c
                 PROVE  a + b \in a..c /\ (b > 0 => a < a + b /\ a < c)
  OBVIOUS

LEMMA NotBeyond == ASSUME NEW a \in Nat, NEW b \in Nat, NEW c \in Nat, b <= c
                   PROVE  a + b \in a..(a + c)
  OBVIOUS

LEMMA OneOver == ASSUME NEW a \in Nat, NEW b \in Nat PROVE (a + 1) + (b - 1) = a + b
  OBVIOUS

LEMMA NextOfPrefix ==
  ASSUME NEW S, NEW s \in Seq(S), NEW t \in Seq(S), NEW u \in Seq(S), IsPrefix(s \o t, u)
  PROVE  /\ Len(s) + Len(t) <= Len(u)
         /\ t # <<>> => Len(t) > 0 /\ Head(t) = u[Len(s) + 1]
<1>1. s \o t \in Seq(S) /\ Len(s \o t) = Len(s) + Len(t) /\ Len(s) \in Nat /\ Len(t) \in Nat
  OBVIOUS
<1>2. Len(s \o t) <= Len(u)
  BY <1>1, PrefixIsLocal
<1>3. ASSUME t # <<>> PROVE Len(t) > 0 /\ Head(t) = u[Len(s) + 1]
  <2>1. Len(t) > 0 /\ Head(t) = t[1] /\ Len(s) + 1 \in 1..Len(s \o t)
    BY <1>1, <1>3
  <2>2. (s \o t)[Len(s) + 1] = u[Len(s) + 1]
    BY <1>1, <2>1, PrefixIsLocal
  <2>3. (s \o t)[Len(s) + 1] = t[1]
    BY <1>1, <2>1, ConcatProperties
  <2> QED BY <2>1, <2>2, <2>3
<1> QED BY <1>1, <1>2, <1>3

\* What is next on a wire is the message said after those that were heard.
LEMMA NextHeard ==
  ASSUME BridgeInv, NEW d \in Dirs
  PROVE  /\ Len(heard[d]) \in Nat /\ Len(wire[d]) \in Nat /\ Len(said[d]) \in Nat
         /\ Len(heard[d]) + Len(wire[d]) <= Len(said[d])
         /\ wire[d] # <<>> =>
              Len(wire[d]) > 0 /\ Head(wire[d]) = said[d][Len(heard[d]) + 1]
<1>1. /\ heard[d] \in Seq(Messages) /\ wire[d] \in Seq(Messages) /\ said[d] \in Seq(Messages)
      /\ IsPrefix(heard[d] \o wire[d], said[d])
  BY DEF BridgeInv, TypeInv, TypeOK, Sound
<1>2. Len(heard[d]) \in Nat /\ Len(wire[d]) \in Nat /\ Len(said[d]) \in Nat
  BY <1>1
<1>3. Len(heard[d]) + Len(wire[d]) <= Len(said[d])
  BY <1>1, NextOfPrefix
<1>4. wire[d] # <<>> => Len(wire[d]) > 0 /\ Head(wire[d]) = said[d][Len(heard[d]) + 1]
  BY <1>1, NextOfPrefix
<1> QED BY <1>2, <1>3, <1>4

LEMMA NextHeardLater ==
  ASSUME BridgeInv', NEW d \in Dirs
  PROVE  /\ Len(heard'[d]) \in Nat /\ Len(wire'[d]) \in Nat /\ Len(said'[d]) \in Nat
         /\ Len(heard'[d]) + Len(wire'[d]) <= Len(said'[d])
<1>1. /\ heard'[d] \in Seq(Messages) /\ wire'[d] \in Seq(Messages)
      /\ said'[d] \in Seq(Messages) /\ IsPrefix(heard'[d] \o wire'[d], said'[d])
  BY DEF BridgeInv, TypeInv, TypeOK, Sound
<1>2. Len(heard'[d]) \in Nat /\ Len(wire'[d]) \in Nat /\ Len(said'[d]) \in Nat
  BY <1>1
<1>3. Len(heard'[d]) + Len(wire'[d]) <= Len(said'[d])
  BY <1>1, NextOfPrefix
<1> QED BY <1>2, <1>3

LEMMA PipesStep ==
  ASSUME BridgeInv, BridgeInv', [Next]_wvars
  PROVE  Pipes!Next \/ UNCHANGED <<said, heard, bridge = "over", Limit>>
<1>0. TypeOK /\ TypeOK'
  BY DEF BridgeInv, TypeInv
<1> SUFFICES ASSUME ~UNCHANGED <<said, heard, bridge = "over", Limit>>
             PROVE  Pipes!Next
  OBVIOUS
<1>1. CASE \/ Upgrade \/ Connect \/ RuntimeStopped \/ UNCHANGED wvars
           \/ \E p \in Peers : StopReading(p)
  BY <1>1 DEF Upgrade, Connect, RuntimeStopped, StopReading, wvars, Limit
<1>2. CASE Ending \/ ConnectFails
  <2>1. bridge # "over" /\ bridge' = "over" /\ said' = said /\ heard' = heard
    BY <1>0, <1>2, EndLeaves DEF ConnectFails
  <2>2. ASSUME NEW d \in Dirs PROVE Limit'[d] \in Len(heard[d])..Len(said[d])
    <3>1. Limit'[d] = Len(heard[d]) + Len(wire'[d])
      BY <2>1 DEF Limit
    <3>2. /\ Len(heard[d]) \in Nat /\ Len(wire'[d]) \in Nat /\ Len(said[d]) \in Nat
          /\ Len(heard[d]) + Len(wire'[d]) <= Len(said[d])
      BY <2>1, NextHeardLater
    <3> QED BY <3>1, <3>2, Between
  <2> QED BY <2>1, <2>2 DEF Pipes!Next, Pipes!Cut, Limit
<1>3. ASSUME NEW d \in Dirs, NEW m \in Messages, Say(d, m) PROVE Pipes!Next
  <2>1. UNCHANGED <<heard, wire, bridge>> /\ said' = [said EXCEPT ![d] = Append(@, m)]
    BY <1>3 DEF Say
  <2> QED BY <2>1 DEF Pipes!Next, Pipes!Say, Limit
<1>4. ASSUME NEW d \in Dirs, Hear(d) PROVE Pipes!Next
  <2>1. /\ heard' = [heard EXCEPT ![d] = Append(@, said[d][Len(@) + 1])]
        /\ UNCHANGED <<said, bridge>>
    BY <1>0, <1>4, NextHeard DEF Hear, TypeOK
  <2>2. Len(heard[d]) < IF bridge = "over" THEN Limit[d] ELSE Len(said[d])
    <3>1. /\ Len(heard[d]) \in Nat /\ Len(wire[d]) \in Nat /\ Len(said[d]) \in Nat
          /\ Len(heard[d]) + Len(wire[d]) <= Len(said[d]) /\ Len(wire[d]) > 0
      BY <1>4, NextHeard DEF Hear
    <3>2. Len(heard[d]) < Len(heard[d]) + Len(wire[d]) /\ Len(heard[d]) < Len(said[d])
      BY <3>1, Between
    <3> QED BY <3>2 DEF Limit
  <2>3. Limit' = Limit
    <3>1. ASSUME NEW e \in Dirs
          PROVE  Len(heard'[e]) + Len(wire'[e]) = Len(heard[e]) + Len(wire[e])
      <4>1. CASE e = d
        <5>1. /\ heard[d] \in Seq(Messages) /\ wire[d] \in Seq(Messages) /\ wire[d] # <<>>
              /\ Head(wire[d]) \in Messages
              /\ heard'[d] = Append(heard[d], Head(wire[d])) /\ wire'[d] = Tail(wire[d])
          BY <1>0, <1>4 DEF Hear, TypeOK
        <5>2. /\ Len(heard'[d]) = Len(heard[d]) + 1
              /\ Len(wire'[d]) = Len(wire[d]) - 1
          BY <5>1
        <5>3. Len(heard[d]) \in Nat /\ Len(wire[d]) \in Nat
          BY <5>1
        <5> QED BY <4>1, <5>2, <5>3, OneOver
      <4>2. CASE e # d
        BY <1>4, <4>2, <1>0 DEF Hear, TypeOK
      <4> QED BY <4>1, <4>2
    <3> QED BY <2>1, <3>1 DEF Limit
  <2> QED BY <2>1, <2>2, <2>3 DEF Pipes!Next, Pipes!Hear, Limit
<1>5. ASSUME NEW d \in Dirs, Read(d) \/ Send(d) PROVE FALSE
  BY <1>5 DEF Read, Send, CanSend, Limit
<1>6. ASSUME NEW p \in Peers, Vanish(p) PROVE FALSE
  BY <1>6 DEF Vanish, Limit
<1>7. ASSUME NEW d \in Dirs, Reset(d) PROVE Pipes!Next
  <2>1. /\ bridge = "over" /\ UNCHANGED <<said, heard, bridge>>
        /\ wire'[d] \in Prefixes(wire[d])
        /\ \A e \in Dirs \ {d} : wire'[e] = wire[e]
    BY <1>0, <1>7 DEF Reset, TypeOK
  <2>2. /\ Len(heard[d]) \in Nat /\ Len(wire[d]) \in Nat /\ Len(wire'[d]) \in Nat
        /\ Len(wire'[d]) <= Len(wire[d])
    <3>1. wire[d] \in Seq(Messages) /\ heard[d] \in Seq(Messages)
      BY <1>0, Holds
    <3>2. wire'[d] \in Seq(Messages) /\ IsPrefix(wire'[d], wire[d])
      BY <2>1, <3>1, PrefixesArePrefixes
    <3> QED BY <3>1, <3>2, PrefixIsLocal
  <2> DEFINE n == Len(heard[d]) + Len(wire'[d])
  <2>3. Limit[d] = Len(heard[d]) + Len(wire[d])
    BY <2>1 DEF Limit
  <2>4. n \in Len(heard[d])..Limit[d]
    BY <2>2, <2>3, NotBeyond
  <2>5. Limit' = [Limit EXCEPT ![d] = n]
    BY <2>1 DEF Limit
  <2> HIDE DEF n
  <2> QED BY <2>1, <2>4, <2>5 DEF Pipes!Next, Pipes!Lose, Limit
<1> QED BY <1>1, <1>2, <1>3, <1>4, <1>5, <1>6, <1>7 DEF Next, Pump, Ending

(* The bridge implements two FIFO pipes that are cut at one instant: what is  *)
(* said arrives in order, once and unchanged, and when the bridge ends it is  *)
(* settled how much of either direction still arrives at most.                *)
THEOREM BridgeImplementsPipes == Spec => PipesSpec
<1>1. Init => Pipes!Init
  BY DEF Init, Pipes!Init
<1>2. BridgeInv /\ BridgeInv' /\ [Next]_wvars => [Pipes!Next]_Pipes!pvars
  BY PipesStep DEF Pipes!pvars, Limit
<1> QED BY <1>1, <1>2, BridgeInvHolds, PTL DEF Spec, PipesSpec, Pipes!Spec
================================================================================
