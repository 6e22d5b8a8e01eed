SPECIFICATION Spec
CONSTANTS
  a = a
  b = b
  A = A
  junk = junk
  x = x
  e = e
  Labels = {a, b}
  Spellings <- MCSpellings
  Empty = e
  Domains <- MCDomains
  Tokens = {t1, t2}
  Shapes <- MCShapes
  Requests <- MCRequests
  Workers = {w1}
  Contents = {c1}
  Nothing = none
  Versioning = TRUE
  Keep = 1
  MCPGroup <- MCGroup
INVARIANTS TypeOK EffectsAreGranted RevocationFailsClosed PurgeAnswersItsQuestion SitesReachable TreeShowsEachSiteOnce
