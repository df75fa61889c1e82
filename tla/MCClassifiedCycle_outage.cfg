SPECIFICATION ClassifiedSpec
CONSTANTS
 Null = Null
 Services = {s1}
 Incidents = {i1, i2}
 Pollers = {p1, p2}
 Texts = {t1}
 Observable <- UpOrOutage
 Overlap = TRUE
 MaxConcurrent = 1
 MaxOps = 1
 MaxFaults = 1
 NoTime = NoTime
 SampleWindows <- Windows
 SampleTargets <- Targets
SYMMETRY Symmetry
INVARIANTS OutageHasIncident BurnMonotone SilenceHeld
PROPERTY ImplementsBoard
CHECK_DEADLOCK FALSE
