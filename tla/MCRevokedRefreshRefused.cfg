\* A refresh token sent along with a logout, used again afterwards.
SPECIFICATION Spec
CONSTANTS
  Users = {u1}
  Slots = {r1, r2}
  Second = 2
  AccessTTL = 1
  RefreshTTL = 2
  Schemes = {"Bearer"}
  StoreMayFail = FALSE
  MaxNow = 5
  LastSign = 0
  NoToken = NoToken
INVARIANT RevokedRefreshRefused
