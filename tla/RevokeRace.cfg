SPECIFICATION Spec
CONSTANTS
  Clients = {c1, c2}
  Grants = {g1, g2}
  Workers = {w1, w2}
  Faults = FALSE
  MaxConsents = 1
  MaxIds = 6
SYMMETRY Symmetric
INVARIANTS RevocationHolds
