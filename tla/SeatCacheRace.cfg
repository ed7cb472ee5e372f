SPECIFICATION FairSpec
CONSTANTS
  k1 = k1
  k2 = k2
  s1 = s1
  s2 = s2
  r1 = r1
  r2 = r2
  Schedules = {k1, k2}
  Seats = {s1, s2}
  Layouts <- AllLayouts
  SameId <- Coincide
  Readers = {r1, r2}
  Faults <- AllFaults
INVARIANTS
  TypeOK
  NeverAhead
  HashIsPerishable
  HitIsComplete
  ThrowsOnlyWhenOvertaken
PROPERTIES
  StalenessEnds
CHECK_DEADLOCK FALSE
