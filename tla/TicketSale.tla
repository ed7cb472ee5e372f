----------------------------- MODULE TicketSale -----------------------------
(***************************************************************************)
(* The whole sale as a client sees it: SeatBooking (what becomes of seats) *)
(* and SeatPurchase (what becomes of money), composed.  They share one     *)
(* step: a seat is sold at the moment a payment buys it.  A payment is     *)
(* given back only when its reservation can no longer be sold to it.       *)
(* PaymentSaga is shown to implement this while only messages get lost.    *)
(***************************************************************************)
CONSTANTS Seats, Requests, SeatOf,     \* as in SeatBooking
          Txs, ResvOf                  \* as in SeatPurchase

VARIABLES held, sold, lapsed,          \* of SeatBooking
          paid, bought, returned       \* of SeatPurchase

Booking  == INSTANCE SeatBooking
Purchase == INSTANCE SeatPurchase WITH Reservations <- Requests

\* What the constants must be for OneBuyer.
EveryPaymentHasAReservation == ResvOf \in [Txs -> Requests]

vars == <<held, sold, lapsed, paid, bought, returned>>

Init == Booking!Init /\ Purchase!Init

\* A seat is taken, or its hold ends: no money moves.
Hold(r)  == Booking!Hold(r) /\ UNCHANGED <<paid, bought, returned>>
Lapse(r) == Booking!Lapse(r) /\ UNCHANGED <<paid, bought, returned>>

\* Money is taken; the seat may lapse, or go to another payment, meanwhile.
Pay(t) == Purchase!Pay(t) /\ UNCHANGED <<held, sold, lapsed>>

\* The seat and the money change hands together.
Sell(t) == Booking!Sell(ResvOf[t]) /\ Purchase!Buy(t)

\* The reservation lapsed or was sold to another payment.
Return(t) ==
  /\ ResvOf[t] \notin held
  /\ Purchase!Return(t)
  /\ UNCHANGED <<held, sold, lapsed>>

Next ==
  \/ \E r \in Requests : Hold(r) \/ Lapse(r)
  \/ \E t \in Txs : Pay(t) \/ Sell(t) \/ Return(t)

Spec == Init /\ [][Next]_vars

-----------------------------------------------------------------------------
\* Every seat that is sold was bought, and by one payment: two clients never
\* pay for one seat and keep it, whichever reservations and retries led there.
OneBuyer ==
  /\ sold = {ResvOf[t] : t \in bought}
  /\ \A t, u \in bought : SeatOf[ResvOf[t]] = SeatOf[ResvOf[u]] => t = u
=============================================================================
