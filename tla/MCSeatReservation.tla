------------------------- MODULE MCSeatReservation -------------------------
(* Instances of SeatReservation for TLC.                                   *)
EXTENDS SeatReservation, TLC

CONSTANTS r1, r2, s1, p1, p2

\* Every call asks for the same seat.
OneSeat == [r \in {r1, r2} |-> s1]

\* What is cached for which the write-back fails.
NoSeat    == {}
EverySeat == Seats

AllFaults == {"redis", "db", "crash"}
NoFaults  == {}
=============================================================================
