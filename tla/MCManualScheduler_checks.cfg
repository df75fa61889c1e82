SPECIFICATION ChecksSpec
CONSTANTS
  Services = {s1, s2}
  Tenants = {t1}
  Null = Null
  Owner <- OneOwner
  MaxConns = 3
  Threshold = 2
  MaxRuns = 2
  MaxFaults = 2
PROPERTIES
  OutageNeedsStreak
  SpawnsOnce
  CheckFinishes
  DeletedStops
  LiveIsRecorded
CHECK_DEADLOCK FALSE
