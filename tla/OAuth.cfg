SPECIFICATION Spec
CONSTANTS
  Clients = {c1, c2}
  Grants = {g1, g2}
  Workers = {w1, w2}
  Faults = TRUE
  MaxConsents = 2
  MaxIds = 8
SYMMETRY Symmetric
INVARIANTS TypeOK WithinConsent OneConnectionPerConsent OneRefreshToken QuietRevocationHolds
