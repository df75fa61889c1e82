SPECIFICATION RoutesSpec
CONSTANTS
  Clients = {c1, c2}
  Sessions = {s1, s2}
  Challenges = {h1, h2}
  Codes = {k1}
  Tokens = {t1}
  Null = Null
  MaxTime = 1
  MaxChanges = 1
  Servers = {v1}
  Calls = {q1, q2}
  Nothing = Nothing
  Burst = 2
  Rate = 1
  LockTimeout = 1
  Cooldown = 2
  IdleTTL = 3
  SweepThreshold = 1
  MaxAge = 1
  MaxFaults = 1
SYMMETRY AccountSymmetry
INVARIANTS
  SecondFactorOnce
  EndedStayOut
  WithinLimit
  ProbeAlone
  ProbeHeld
CHECK_DEADLOCK FALSE
