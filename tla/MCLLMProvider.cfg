SPECIFICATION Spec
CONSTANTS
  Admins = {a1}
  Analyses = {n1}
  Keys = {k1}
  Null = Null
  Models = {m1, m2}
  DefaultModel = m1
PROPERTY RevokedKeyShows
CHECK_DEADLOCK FALSE
