\* Every branch of the guard and of the logout, with a store that may fail:
\* liveness, so without symmetry.
SPECIFICATION FairSpec
CONSTANTS
  Users = {u1}
  Slots = {r1, r2}
  Second = 2
  AccessTTL = 1
  RefreshTTL = 1
  Schemes = {"Bearer", "bearer"}
  StoreMayFail = TRUE
  MaxNow = 2
  LastSign = 0
  NoToken = NoToken
PROPERTIES
  EveryRequestAnswered
