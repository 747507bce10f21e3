\* The same instance: what is a request over the limit answered?
SPECIFICATION Spec
CONSTANTS
  Clients = {c1}
  Slots = {r1}
  LoginLimit = 1
  RegisterLimit = 2
  RefreshLimit = 1
  DefaultLimit = 2
  Minute = 1
  Hour = 2
INVARIANT TooManyRequestsIs429
