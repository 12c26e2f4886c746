CONSTANTS
  r1 = r1
  r2 = r2
  r3 = r3
  r4 = r4
  Reqs = {r1, r2}
  Instances = {i1, i2, i3}
  Versions = {v1, v2}
  NoHandle = NoHandle
  NoVersion = NoVersion
  Kind = "wasm"
  Calls <- AnyCall
  Faults = {}
  MaxVersionRows = 2
SYMMETRY Symmetric
SPECIFICATION Spec
ACTION_CONSTRAINT TakingTurns
INVARIANTS
  InstalledIsPrepared
  NothingOutlivesUninstall
  RunningHasOwner
CHECK_DEADLOCK FALSE
