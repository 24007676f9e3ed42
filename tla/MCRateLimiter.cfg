SPECIFICATION LimiterSpec
CONSTANTS
  Cost = 3
  Capacity = 10
  MaxTime = 16
CONSTRAINT Bounded
INVARIANTS LimiterTypeOK BurstBound
PROPERTIES RefusalJustified
