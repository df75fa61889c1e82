SPECIFICATION Spec
CONSTANTS
  Duties = {"digest", "domain_health"}
  Users = {u1}
  Kinds = {"weekly_digest", "domain_expiring"}
  Providers = {m1}
  Null = Null
  Modes = {"self_hosted", "saas"}
  MaxOps = 1
  Replicas = {r1, r2}
  Zones = {2, 4}
  Week = 14
  CatchUp = 2
  MinInterval = 12
  Horizon = 48
  MaxMoves = 1
  MaxFaults = 1
  MaxLosses = 1
  Checkers = {k1, k2}
  Day = 2
  Thresholds = {1, 3}
  Dates = {9, 12}
  NSets = {n1, n2}
  LastUnit = 9
  MaxChanges = 1
  MaxMishaps = 1
SYMMETRY SchedulersSymmetry
INVARIANTS
  DigestNotSkipped
  AlertedOnce
  CrossingAlerted
PROPERTY DigestsApart
CHECK_DEADLOCK FALSE
