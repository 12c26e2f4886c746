CONSTANTS
  m1 = m1
  m2 = m2
  Payloads = {m1, m2}
  Close = Close
  MaxSaid = 2
  Window = 1
SPECIFICATION FairSpec
INVARIANTS
  TypeOK
  InOrder
PROPERTIES
  ClosedIsHeard
  PipesSpec
  BridgeEnds
CHECK_DEADLOCK FALSE
