\* The same instance: whom does a refreshed access token name?
SPECIFICATION Spec
CONSTANTS
  Slots = {r1, r2}
  Emails = {a, b}
  Keep = Keep
  Gone = Gone
  MaxUsers = 2
SYMMETRY Symmetry
INVARIANT RefreshKeepsIdentity
