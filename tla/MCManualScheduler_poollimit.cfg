SPECIFICATION Spec
CONSTANTS
  Services = {s1, s2, s3, s4}
  Tenants = {t1}
  Null = Null
  Owner <- OneOwner
  MaxConns = 4
  Threshold = 2
  MaxRuns = 1
  MaxFaults = 0
SYMMETRY Symmetry
INVARIANT NoPoolDeadlock
CHECK_DEADLOCK FALSE
