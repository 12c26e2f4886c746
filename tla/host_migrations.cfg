CONSTANTS
  r1 = r1
  r2 = r2
  r3 = r3
  k1 = k1
  k2 = k2
  x1 = x1
  x2 = x2
  v1 = v1
  p1 = p1
  p2 = p2
  s1 = s1
  s2 = s2
  s3 = s3
  Reqs = {r1, r2, r3}
  Keys = {k1}
  Values = {x1}
  Versions = {v1}
  Packages = {p1, p2}
  Shipped <- OneVersion
  Numbers = {1, 2, 3, 4, 5}
  Statements = {s1, s2, s3}
  Repeatable = {s2}
  Script <- Scripts
  Manifest <- SqliteManifest
  Calls <- Migrators
  Faults = {"abort"}
  NoRow = NoRow
  NoCall = NoCall
  NoVersion = NoVersion
  NoPackage = NoPackage
SPECIFICATION HostSpec
INVARIANTS
  AppliedMeansRan
  OnlyDuplicatesOverrule
CHECK_DEADLOCK FALSE
