SPECIFICATION FairSpec
CONSTANTS
 Null = Null
 Services = {s1, s2}
 Incidents = {i1}
 Pollers = {p1}
 Texts = {t1, t2}
 Observable <- DegradedOrOutage
 Overlap = FALSE
 MaxConcurrent = 1
 MaxOps = 1
 MaxFaults = 1
PROPERTIES PublishedIsRecorded PublishedCatchesUp ResolvedKeepsItsText ReviewedClose
CHECK_DEADLOCK FALSE
