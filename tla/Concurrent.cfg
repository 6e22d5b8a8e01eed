SPECIFICATION FairSpec
CONSTANTS
  parent = parent
  child = child
  Sites = {s1}
  Contents = {c1}
  Workers = {w1, w2}
  Janitor = janitor
  Below <- FlatPaths
  Versioning = TRUE
  Keep = 1
  Ops <- LifeOps
  Serial = FALSE
  Faults = FALSE
  MaxStamp = 3
  NoDir = NoDir
  NoIcon = NoIcon
  NoSite = NoSite
PROPERTIES TrashIsPurged RequestsFinish
