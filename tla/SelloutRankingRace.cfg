SPECIFICATION FairSpec
CONSTANTS
  s1 = s1
  s2 = s2
  s3 = s3
  Sales = {s1, s2, s3}
  StartAt = 1
  MaxTime = 1
  MaxStarts = 2
  Faults = TRUE
INVARIANTS
  TypeOK
  CountMatchesSales
  RankedOnlyWhenSoldOut
PROPERTIES
  SoldOutIsRanked
CHECK_DEADLOCK FALSE
