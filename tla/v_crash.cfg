CONSTANTS
  r1 = r1
  r2 = r2
  r3 = r3
  r4 = r4
  Reqs = {r1}
  Instances = {i1, i2, i3}
  Versions = {v1}
  NoHandle = NoHandle
  NoVersion = NoVersion
  Kind = "process"
  Calls <- StartStop
  Faults = {"exit"}
  MaxVersionRows = 1
SPECIFICATION InsistentSpec
PROPERTIES
  Stoppable
CHECK_DEADLOCK FALSE
