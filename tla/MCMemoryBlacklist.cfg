\* Two access tokens, a refresh token and the key of the probe, a store of three
\* entries, two requests.
SPECIFICATION Spec
CONSTANTS
  Access = {a1, a2}
  Refresh = {b1}
  TestKey = TestKey
  NoToken = NoToken
  Schemes = {"Bearer", "bearer"}
  Slots = {r1, r2}
  MaxEntries = 3
SYMMETRY Symmetry
INVARIANTS
  TypeOK
  RevokedUntilCrowdedOut
