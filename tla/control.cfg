CONSTANTS
  r1 = r1
  r2 = r2
  r3 = r3
  r4 = r4
  Reqs = {r1, r2, r3, r4}
  Instances = {i1, i2, i3}
  Versions = {v1}
  NoHandle = NoHandle
  NoVersion = NoVersion
  Kind = "process"
  Calls <- OneStarter
  Faults = {"exit", "pidreuse"}
  MaxVersionRows = 1
SPECIFICATION FairSpec
INVARIANTS
  StateConsistency
  NoOrphan
PROPERTIES
  StopSettles
CHECK_DEADLOCK FALSE
