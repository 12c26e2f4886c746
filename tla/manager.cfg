CONSTANTS
  r1 = r1
  r2 = r2
  r3 = r3
  r4 = r4
  Reqs = {r1, r2}
  Instances = {i1, i2, i3}
  Versions = {v1}
  NoHandle = NoHandle
  NoVersion = NoVersion
  Kind = "process"
  Calls <- AnyCall
  Faults = {"exit", "restart", "disconnect", "dberror", "pidreuse", "badzip", "badstep",
            "badremove"}
  MaxVersionRows = 1
SYMMETRY Symmetric
SPECIFICATION Spec
INVARIANTS
  TypeOK
  LocalsOK
  EnabledMatchesStatus
  HandleLinear
PROPERTIES
  OwnershipSpec
CHECK_DEADLOCK FALSE
