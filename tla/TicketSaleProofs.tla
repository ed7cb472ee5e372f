-------------------------- MODULE TicketSaleProofs --------------------------
(***************************************************************************)
(* The composed sale keeps the promises of both its parts, and sells every *)
(* seat to one payment.                                                    *)
(***************************************************************************)
EXTENDS TicketSale, TLAPS

\* A seat has at most one reservation that is held or sold, and a reservation
\* at most one payment that bought it.
Inv ==
  /\ held \subseteq Requests /\ bought \subseteq Txs
  /\ \A q, r \in held \cup sold : SeatOf[q] = SeatOf[r] => q = r
  /\ \A t, u \in bought : ResvOf[t] = ResvOf[u] => t = u
  /\ sold = {ResvOf[t] : t \in bought}

LEMMA InitInv == Init => Inv
BY DEF Init, Booking!Init, Purchase!Init, Inv

LEMMA NextInv ==
  ASSUME EveryPaymentHasAReservation, Inv, [Next]_vars
  PROVE  Inv'
<1> USE DEF EveryPaymentHasAReservation, Inv
<1>1. ASSUME NEW r \in Requests, Hold(r) PROVE Inv'
  BY <1>1 DEF Hold, Booking!Hold
<1>2. ASSUME NEW r \in Requests, Lapse(r) PROVE Inv'
  BY <1>2 DEF Lapse, Booking!Lapse
<1>3. ASSUME NEW t \in Txs, Sell(t) PROVE Inv'
  <2>1. /\ sold' = sold \cup {ResvOf[t]} /\ bought' = bought \cup {t}
        /\ held' = held \ {ResvOf[t]} /\ ResvOf[t] \in held
    BY <1>3 DEF Sell, Booking!Sell, Purchase!Buy
  <2>2. \A u \in bought : ResvOf[u] # ResvOf[t]
    BY <1>3 DEF Sell, Purchase!Buy
  <2>3. held' \cup sold' = held \cup sold
    BY <2>1
  <2>4. sold' = {ResvOf[u] : u \in bought'}
    BY <2>1
  <2>5. \A u, v \in bought' : ResvOf[u] = ResvOf[v] => u = v
    BY <2>1, <2>2
  <2> QED
    BY <2>1, <2>3, <2>4, <2>5
<1>4. ASSUME NEW t \in Txs, Pay(t) \/ Return(t) PROVE Inv'
  BY <1>4 DEF Pay, Return, Purchase!Pay, Purchase!Return
<1>5. CASE UNCHANGED vars
  BY <1>5 DEF vars
<1> QED
  BY <1>1, <1>2, <1>3, <1>4, <1>5 DEF Next

\* Nobody shares a seat with somebody else who paid for it.
THEOREM SoldOnce ==
  ASSUME EveryPaymentHasAReservation
  PROVE  Spec => []OneBuyer
<1>1. Inv => OneBuyer
  BY DEF EveryPaymentHasAReservation, Inv, OneBuyer
<1>2. Inv /\ [Next]_vars => Inv'
  BY NextInv
<1> QED
  BY <1>1, <1>2, InitInv, PTL DEF Spec

\* The composition is faithful to both specifications it is made of: whatever
\* implements it implements SeatBooking and SeatPurchase.
THEOREM PartsImplemented ==
  ASSUME EveryPaymentHasAReservation
  PROVE  Spec => Booking!Spec /\ Purchase!Spec
<1>1. Init => Booking!Init /\ Purchase!Init
  BY DEF Init
<1>2. ASSUME [Next]_vars
      PROVE  [Booking!Next]_(Booking!vars) /\ [Purchase!Next]_(Purchase!vars)
  <2>1. ASSUME NEW r \in Requests, Hold(r) \/ Lapse(r)
        PROVE  Booking!Next /\ UNCHANGED Purchase!vars
    BY <2>1 DEF Hold, Lapse, Booking!Next, Purchase!vars
  <2>2. ASSUME NEW t \in Txs, Pay(t) \/ Return(t)
        PROVE  Purchase!Next /\ UNCHANGED Booking!vars
    BY <2>2 DEF Pay, Return, Purchase!Next, Booking!vars
  <2>3. ASSUME NEW t \in Txs, Sell(t) PROVE Booking!Next /\ Purchase!Next
    <3>1. ResvOf[t] \in Requests
      BY DEF EveryPaymentHasAReservation
    <3> QED
      BY <2>3, <3>1 DEF Sell, Booking!Next, Purchase!Next
  <2>4. CASE UNCHANGED vars
    BY <2>4 DEF vars, Booking!vars, Purchase!vars
  <2> QED
    BY <1>2, <2>1, <2>2, <2>3, <2>4 DEF Next
<1> QED
  BY <1>1, <1>2, PTL DEF Spec, Booking!Spec, Purchase!Spec
=============================================================================
