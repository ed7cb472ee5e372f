SPECIFICATION FairSpec
CONSTANTS
  r1 = r1
  r2 = r2
  s1 = s1
  p1 = p1
  p2 = p2
  Requests = {r1, r2}
  Seats = {s1}
  SeatOf <- OneSeat
  FieldCached <- NoSeat
  Copies = {p1, p2}
  Faults <- AllFaults
  WorkerRuns = TRUE
INVARIANTS
  TypeOK
  SeatAgreesWithReservation
  OpenTransactions
  SuccessAnnouncedOnce
  NoOrphanedHold
  JobDecides
  FailureOnlyForLosers
PROPERTIES
  FinalIsFinal
  ImplementsBooking
  ImplementsSeatLock
  SomebodyWins
CHECK_DEADLOCK FALSE
