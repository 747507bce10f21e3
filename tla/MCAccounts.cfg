\* Two accounts, two e-mails, two requests in flight.
SPECIFICATION Spec
CONSTANTS
  Slots = {r1, r2}
  Emails = {a, b}
  Keep = Keep
  Gone = Gone
  MaxUsers = 2
SYMMETRY Symmetry
INVARIANTS
  TypeOK
  RefreshFollowsEmail
PROPERTIES
  ConflictOnlyAfterRace
  PatchKeepsEmail
