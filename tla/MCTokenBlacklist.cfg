\* Every branch of the guard and of the logout, with a store that may fail.
SPECIFICATION Spec
CONSTANTS
  Users = {u1}
  Slots = {r1, r2}
  Second = 2
  AccessTTL = 1
  RefreshTTL = 2
  Schemes = {"Bearer", "bearer"}
  StoreMayFail = TRUE
  MaxNow = 5
  LastSign = 0
  NoToken = NoToken
SYMMETRY SlotSymmetry
INVARIANTS
  TypeOK
  EntryOutlivesToken
  LateRequestStopped
PROPERTIES
  
  KeepsPromise
