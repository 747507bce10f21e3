\* Two accounts, two posts, two requests in flight.
SPECIFICATION Spec
CONSTANTS
  Users = {u1, u2}
  Slots = {r1, r2}
  Values = {v1, v2}
  Keep = Keep
  Gone = Gone
  Limits = {1, 2}
  MaxPosts = 2
SYMMETRY Symmetry
INVARIANTS
  TypeOK
  PostsHaveAccounts
PROPERTIES
  OnlyOwnerWrites
  UnracedPatchIsExact
  InsertOnlyAfterRace
  WalkMissesNothing
  UnracedPageFits
