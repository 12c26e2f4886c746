--------------------------- MODULE RuntimeOwnership ----------------------------
(***************************************************************************)
(* What the map of runtime handles promises, without handlers, databases   *)
(* or processes: a handle is a token.  It is created in the hands of one   *)
(* request, may be deposited in the slot, withdrawn from it by one request *)
(* and deposited again, or lost; it is never copied.  A deposit replaces   *)
(* what the slot held, and a crash of the host loses every token.          *)
(***************************************************************************)
CONSTANTS
  Holders,  \* who may have a token in hand
  Tokens,   \* tokens
  Nothing   \* no token

VARIABLES slot, hand
vars == <<slot, hand>>

Init == slot = Nothing /\ hand = [h \in Holders |-> Nothing]

InUse == {slot} \cup {hand[h] : h \in Holders}

Create(h) ==
  /\ \E t \in Tokens \ InUse : hand' = [hand EXCEPT ![h] = t]
  /\ UNCHANGED slot

Deposit(h) ==
  /\ hand[h] # Nothing
  /\ slot' = hand[h]
  /\ hand' = [hand EXCEPT ![h] = Nothing]

Withdraw(h) ==
  /\ slot # Nothing
  /\ hand[h] = Nothing
  /\ slot' = Nothing
  /\ hand' = [hand EXCEPT ![h] = slot]

Drop(h) ==
  /\ hand' = [hand EXCEPT ![h] = Nothing]
  /\ UNCHANGED slot

Crash ==
  /\ slot' = Nothing
  /\ hand' = [h \in Holders |-> Nothing]

Next ==
  \/ \E h \in Holders : Create(h) \/ Deposit(h) \/ Withdraw(h) \/ Drop(h)
  \/ Crash

Spec == Init /\ [][Next]_vars

TypeOK ==
  /\ slot \in Tokens \cup {Nothing}
  /\ hand \in [Holders -> Tokens \cup {Nothing}]

(* No token is in two places.                                               *)
Linear ==
  /\ \A h \in Holders : hand[h] # Nothing => hand[h] # slot
  /\ \A g, h \in Holders : g # h /\ hand[g] # Nothing => hand[g] # hand[h]
================================================================================
