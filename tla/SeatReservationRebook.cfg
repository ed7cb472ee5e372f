SPECIFICATION Spec
CONSTANTS
  r1 = r1
  r2 = r2
  s1 = s1
  p1 = p1
  p2 = p2
  Requests = {r1, r2}
  Seats = {s1}
  SeatOf <- OneSeat
  FieldCached <- NoSeat
  Copies = {p1}
  Faults <- NoFaults
  WorkerRuns = TRUE
INVARIANTS
  ExpiredSeatCanBeReserved
CHECK_DEADLOCK FALSE
