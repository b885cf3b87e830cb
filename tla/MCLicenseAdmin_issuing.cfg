CONSTANTS
  None = None
  Users = {u1, u2}
  Orders = {o1, o2, o3}
  Licenses = {l1, l2, l3}
  UsersNumbers = {0, 1}
  MaxCount = 2
  MaxMissed = 1
  AdminFaults = {"insert"}
  ForeignOrders = FALSE
  EventInOneGo = TRUE
SPECIFICATION AdminSpec
SYMMETRY Interchangeable
INVARIANT AdminTypeOK
INVARIANT CountCoversRows
PROPERTY LiveLicenseKept
