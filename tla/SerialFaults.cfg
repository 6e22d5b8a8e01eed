SPECIFICATION Spec
CONSTANTS
  parent = parent
  child = child
  Sites = {s1}
  Contents = {c1, c2}
  Workers = {w1}
  Janitor = janitor
  Below <- FlatPaths
  Versioning = TRUE
  Keep = 2
  Ops <- AllOps
  Serial = TRUE
  Faults = TRUE
  MaxStamp = 4
  NoDir = NoDir
  NoIcon = NoIcon
  NoSite = NoSite
INVARIANTS TypeOK
PROPERTIES PruneKeepsNewest LiveRowNeverDropped PublishSettles
