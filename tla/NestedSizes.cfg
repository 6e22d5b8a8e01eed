SPECIFICATION Spec
CONSTANTS
  parent = parent
  child = child
  Sites = {parent, child}
  Contents = {c1}
  Workers = {w1}
  Janitor = janitor
  Below <- NestedPaths
  Versioning = TRUE
  Keep = 2
  Ops <- AllOps
  Serial = TRUE
  Faults = FALSE
  MaxStamp = 4
  NoDir = NoDir
  NoIcon = NoIcon
  NoSite = NoSite
INVARIANTS SizeIsOwn
