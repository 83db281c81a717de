CONSTANTS
  Sid = {s1, s2}
  Jti = {j1, j2, j3, j4, j5}
  NoJti = NoJti
  Claims = {alice, guest}
  AccountClaims = {alice}
  AccessLife = 1
  Multiplier = 2
  ExpiredOffset = 1
  MaxClock = 2
SPECIFICATION Spec
SYMMETRY IdSymmetry
PROPERTY RevokedStaysRevoked
