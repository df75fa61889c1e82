SPECIFICATION Spec
CONSTANTS
  Clients = {c1, c2}
  Users = {a, b}
  Tenants = {t1, t2}
  Invites = {i1, i2}
  InviteRoles = {"owner", "operator"}
  Tokens = {v1, v2}
  Null = Null
  MaxRequests = 5
  MaxResends = 1
SYMMETRY MembershipSymmetry
PROPERTIES
  LastOwnerKept
  InviteEndsOnce
  BootstrapsOnlyEmpty
CHECK_DEADLOCK FALSE
