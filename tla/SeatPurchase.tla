---------------------------- MODULE SeatPurchase ----------------------------
(***************************************************************************)
(* What a client is promised when it pays for a reservation, with no       *)
(* message, retry or lock in sight: the money is taken at most once, and   *)
(* whoever's money was taken ends up with the seat or with the money.      *)
(* TicketSale composes it with SeatBooking; PaymentSaga implements both as *)
(* long as nothing is redelivered, lost or interrupted.                    *)
(***************************************************************************)
CONSTANTS Txs,           \* payments, named by their paymentTxId
          Reservations,
          ResvOf         \* the reservation every payment is for

VARIABLES paid,          \* money taken, seat not decided
          bought,        \* money taken, seat assigned
          returned       \* money taken and given back

vars == <<paid, bought, returned>>

Init == paid = {} /\ bought = {} /\ returned = {}

Pay(t) ==
  /\ t \notin paid \cup bought \cup returned
  /\ paid' = paid \cup {t}
  /\ UNCHANGED <<bought, returned>>

\* A reservation is assigned to one payment.
Buy(t) ==
  /\ t \in paid
  /\ \A u \in bought : ResvOf[u] # ResvOf[t]
  /\ paid' = paid \ {t}
  /\ bought' = bought \cup {t}
  /\ UNCHANGED returned

Return(t) ==
  /\ t \in paid
  /\ paid' = paid \ {t}
  /\ returned' = returned \cup {t}
  /\ UNCHANGED bought

Next == \E t \in Txs : Pay(t) \/ Buy(t) \/ Return(t)

Spec == Init /\ [][Next]_vars
=============================================================================
