CONSTANTS
  u1 = u1
  l1 = l1
  k1 = k1
  k2 = k2
  c1 = c1
  c2 = c2
  None = None
  Users = {u1}
  Licenses = {l1}
  Keys = {k1}
  IssuedKeys = {k1}
  LapsedWrites = {"kept"}
  Faults = {"crash", "connect"}
  Changes = {}
  Clients = {c1}
  KeyOf <- SameKey
  Sessions = {s1, s2}
  Reapers = {r1}
  TempIds = {i1, i2}
  FreshIds = TRUE
  Timely = FALSE
  LicenseOf <- OneLicense
  UserOf <- OneUser
  UserIdOf <- SameUser
SPECIFICATION FairSpec
INVARIANT NoHangingKey
PROPERTY SessionsEnd
PROPERTY HangingKeyReleased
