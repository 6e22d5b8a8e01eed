SPECIFICATION Spec
CONSTANTS
  parent = parent
  child = child
  Sites = {s1}
  Contents = {c1, c2}
  Workers = {w1}
  Janitor = janitor
  Below <- FlatPaths
  Versioning = TRUE
  Keep = 2
  Ops <- AllOps
  Serial = TRUE
  Faults = FALSE
  MaxStamp = 5
  NoDir = NoDir
  NoIcon = NoIcon
  NoSite = NoSite
INVARIANTS SerialConsistency NeverServedTorn
PROPERTIES NothingOverwritten Implements
