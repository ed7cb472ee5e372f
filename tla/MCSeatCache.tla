---------------------------- MODULE MCSeatCache ----------------------------
(* Instances of SeatCache for TLC.                                         *)
EXTENDS SeatCache, TLC

CONSTANTS k1, k2, s1, s2, r1, r2

\* Seat 1 has the id of schedule 1 and seat 2 that of schedule 2.
Coincide == (s1 :> {k1} @@ s2 :> {k2})

Layout(x1, x2, a1, a2) ==
  [seats |-> (s1 :> x1 @@ s2 :> x2), asks |-> (r1 :> a1 @@ r2 :> a2)]

\* Each seat in the schedule of the other's number, or both in schedule 1, so that
\* schedule 2 has none; two clients for schedule 1, or one of them for the empty one.
AllLayouts == {Layout(k2, k1, k1, k1),
               Layout(k1, k1, k1, k1), Layout(k1, k1, k1, k2)}

AllFaults == {"redis", "crash"}
=============================================================================
