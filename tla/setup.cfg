CONSTANTS
  r1 = r1
  r2 = r2
  a = a
  Reqs = {r1, r2}
  Keys = {a, b}
  Junk = "JUNK"
  Missing = "-"
  Partial = "half"
  Empty = ""
  NoCall = NoCall
  EnvSet = {"HOME"}
  MaxLeftovers = 1
  Faults = {"io", "drop"}
  Paths <- ThePaths
  Contents <- TheContents
  Package <- ThePackage
  Unzip <- TheUnzip
  Gone <- TheGone
  OnTorn <- TheOnTorn
  Origin <- TheOrigin
  Entries <- TheEntries
  Target <- TheTarget
  Scripts <- TheScripts
  Served <- TheServed
  Artifact = "app"
  Calls <- TheCalls
SPECIFICATION MSpec
INVARIANTS
  MTypeOK
  NothingUnverified
  SuccessIsComplete
PROPERTIES
  RunsWhatWasPrepared
  CommandsSeeConfig
CHECK_DEADLOCK FALSE
