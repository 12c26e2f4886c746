------------------------ MODULE RuntimeOwnershipProofs -------------------------
(* Tokens are never duplicated, for any holders and any tokens.             *)
EXTENDS RuntimeOwnership, TLAPS

Inv == TypeOK /\ Linear

\* One step of the token game keeps every token in one place.
LEMMA OwnershipStep ==
  ASSUME Inv, [Next]_vars
  PROVE  Inv'
<1> USE DEF Inv, TypeOK, Linear
<1>1. ASSUME NEW h \in Holders, Create(h)
      PROVE  Inv'
  BY <1>1 DEF Create, InUse
<1>2. ASSUME NEW h \in Holders, Deposit(h)
      PROVE  Inv'
  BY <1>2 DEF Deposit
<1>3. ASSUME NEW h \in Holders, Withdraw(h)
      PROVE  Inv'
  BY <1>3 DEF Withdraw
<1>4. ASSUME NEW h \in Holders, Drop(h)
      PROVE  Inv'
  BY <1>4 DEF Drop
<1>5. CASE Crash
  BY <1>5 DEF Crash
<1>6. CASE UNCHANGED vars
  BY <1>6 DEF vars
<1>. QED
  BY <1>1, <1>2, <1>3, <1>4, <1>5, <1>6 DEF Next

\* Every behaviour of the token game keeps every token in one place: this is
\* what remove_runtime_handle is relied on for by stop and uninstall.
THEOREM OwnershipLinear == Spec => []Linear
<1>1. Init => Inv
  BY DEF Init, Inv, TypeOK, Linear
<1>2. Inv /\ [Next]_vars => Inv'
  BY OwnershipStep
<1>3. Inv => Linear
  BY DEF Inv
<1>. QED
  BY <1>1, <1>2, <1>3, PTL DEF Spec
================================================================================
