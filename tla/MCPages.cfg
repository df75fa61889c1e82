SPECIFICATION Spec
CONSTANTS
  Clients = {c1, c2}
  Replicas = {r1, r2}
  Pages = {p1, p2}
  Services = {s1, s2}
  Groups = {g1}
  Domains = {d1, d2}
  Null = Null
  Workloads <- AllWorkloads
  MaxRequests = 3
  MaxIssues = 2
  MaxCrashes = 1
SYMMETRY PagesSymmetry
INVARIANTS
  PlacementsSound
  PublishedHasCertificate
PROPERTIES
  DeletesDetached
  AttachedOnce
  KeysKept
CHECK_DEADLOCK FALSE
