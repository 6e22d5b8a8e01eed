SPECIFICATION Spec
CONSTANTS
  parent = parent
  child = child
  Sites = {s1}
  Contents = {c1, c2}
  Workers = {w1, w2, w3}
  Janitor = janitor
  Below <- FlatPaths
  Versioning = TRUE
  Keep = 1
  Ops <- SwapOps
  Serial = FALSE
  Faults = FALSE
  MaxStamp = 3
  NoDir = NoDir
  NoIcon = NoIcon
  NoSite = NoSite
SYMMETRY Symmetric
INVARIANTS SwapKeepsSiteOnline VersionsBounded FilesSurvive
PROPERTIES NothingOverwritten PruneKeepsNewest
