---------------------------- MODULE SeatBooking ----------------------------
(***************************************************************************)
(* What the ticketing module promises about seats, with no transaction,    *)
(* lock, job or message in sight.  A reservation is made once; a seat      *)
(* belongs to at most one reservation that is held or sold; a held         *)
(* reservation is either sold or lapses, and both are final.               *)
(* SeatReservation is shown to implement this specification.               *)
(***************************************************************************)
CONSTANTS Seats,       \* rows of the table "seats"
          Requests,    \* reservation attempts; each creates at most one row
          SeatOf       \* the seat every attempt asks for

VARIABLES held,        \* reservations waiting for their payment
          sold,        \* reservations that were paid for
          lapsed       \* reservations whose hold ended unpaid

vars == <<held, sold, lapsed>>

\* Some seats may be held already; none is held twice.
Init ==
  /\ held \subseteq Requests
  /\ \A q, r \in held : SeatOf[q] = SeatOf[r] => q = r
  /\ sold = {} /\ lapsed = {}

\* A fresh reservation takes a seat nobody holds or owns.
Hold(r) ==
  /\ r \notin held \cup sold \cup lapsed
  /\ \A q \in held \cup sold : SeatOf[q] # SeatOf[r]
  /\ held' = held \cup {r}
  /\ UNCHANGED <<sold, lapsed>>

\* The payment arrives while the seat is held.
Sell(r) ==
  /\ r \in held
  /\ held' = held \ {r}
  /\ sold' = sold \cup {r}
  /\ UNCHANGED lapsed

\* The hold ends and the seat is free again.
Lapse(r) ==
  /\ r \in held
  /\ held' = held \ {r}
  /\ lapsed' = lapsed \cup {r}
  /\ UNCHANGED sold

Next == \E r \in Requests : Hold(r) \/ Sell(r) \/ Lapse(r)

Spec == Init /\ [][Next]_vars
=============================================================================
