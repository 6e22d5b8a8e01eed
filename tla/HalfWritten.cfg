SPECIFICATION Spec
CONSTANTS
  parent = parent
  child = child
  Sites = {s1}
  Contents = {c1, c2}
  Workers = {w1}
  Janitor = janitor
  Below <- FlatPaths
  Versioning = FALSE
  Keep = 2
  Ops <- AllOps
  Serial = TRUE
  Faults = FALSE
  MaxStamp = 4
  NoDir = NoDir
  NoIcon = NoIcon
  NoSite = NoSite
INVARIANTS NeverServedTorn
