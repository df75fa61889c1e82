SPECIFICATION Spec
CONSTANTS
  Writers = {w1, w2}
  Ids = {i1, i2, i3}
  Statuses = {"degraded", "outage"}
  Null = Null
  MaxTime = 2
  Retention = 1
  Window = 1
  Ranges <- TwoRanges
  SampleTimes <- AroundMidnight
  SampleNows = {2, 3}
SYMMETRY IdWriterSymmetry
INVARIANTS
  AtMostOneOpen
  HistoryCovered
  NoLockCycle
  HistoryExact
PROPERTY ImplementsTimeline
CHECK_DEADLOCK FALSE
