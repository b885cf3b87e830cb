CONSTANTS
  u1 = u1
  l1 = l1
  k1 = k1
  k2 = k2
  c1 = c1
  c2 = c2
  None = None
  Users = {u1}
  Licenses = {l1}
  Keys = {k1, k2}
  IssuedKeys = {k1, k2}
  LapsedWrites = {"cleared", "kept"}
  Faults = {}
  Changes = {}
  Clients = {c1, c2}
  KeyOf <- OwnKeys
  Sessions = {s1, s2}
  Reapers = {r1}
  TempIds = {i1, i2, i3}
  FreshIds = TRUE
  Timely = FALSE
  LicenseOf <- OneLicense
  UserOf <- OneUser
  UserIdOf <- SameUser
SPECIFICATION Spec
SYMMETRY Interchangeable
VIEW RunningStatus
 
INVARIANT DialogueInv
