\* One client, one request in flight, five routes, limits of one and two.
SPECIFICATION FairSpec
CONSTANTS
  Clients = {c1}
  Slots = {r1}
  LoginLimit = 1
  RegisterLimit = 2
  RefreshLimit = 1
  DefaultLimit = 2
  Minute = 1
  Hour = 2
INVARIANTS
  TypeOK
  OwnStatus
PROPERTIES
  RefusesIffPressed
  BlockEnds
