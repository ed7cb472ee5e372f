------------------------- MODULE PaymentSagaProofs -------------------------
(***************************************************************************)
(* What PaymentSaga guarantees for every number of clients, payments and   *)
(* consumers, grade by grade: under every fault; as long as messages only  *)
(* get lost and transactions only fail; as long as messages only get lost, *)
(* when it still implements the abstract TicketSale; and without faults.   *)
(***************************************************************************)
EXTENDS PaymentSaga, TLAPS

\* The handlers' steps that neither move money nor seats nor publish.
LEMMA InitTypeOK == Init => TypeOK
BY SagaAssumption DEF Init, TypeOK, RowStatus, PC, MaxRetry, Message

LEMMA FaultType ==
  ASSUME TypeOK, NEW kind \in FaultKinds, Fault(kind)
  PROVE  faults' \in [FaultKinds -> Nat]
BY DEF Fault, TypeOK

LEMMA PublishType ==
  ASSUME TypeOK, NEW m, Publish(m)
  PROVE  topic' \in [Message -> Nat] /\ faults' \in [FaultKinds -> Nat]
BY FaultType DEF Publish, TypeOK, NoFault, FaultKinds

LEMMA PayTypeOK ==
  ASSUME TypeOK, NEW c \in Consumers, Pay(c)
  PROVE  TypeOK'
<1> USE SagaAssumption DEF TypeOK, clientVars, rowVars, moneyVars, seatVars, Goto,
                           PC, Tx, User, Resv
<1>0. msg[c] \in Message
  BY DEF Pay, FindTransaction, CreateTransaction, AcquireLock, UsePoint,
         ReleaseLock, DeleteToken, PublishPaymentSuccess, CatchPayment,
         PublishPaymentRetry
<1>00. Tx(c) \in Txs /\ User(c) \in Users /\ Resv(c) \in Reservations
       /\ msg[c].n \in 0 .. MaxRetry
  BY <1>0 DEF Message
<1>1. CASE FindTransaction(c)        BY <1>00, <1>1 DEF FindTransaction
<1>2. CASE CreateTransaction(c)
  BY <1>00, <1>2 DEF CreateTransaction, RowStatus
<1>3. CASE AcquireLock(c)
  <2>1. lock' \in [Users -> BOOLEAN]
    BY <1>00, <1>3 DEF AcquireLock
  <2>2. pc' \in [Consumers -> PC] /\ UNCHANGED msg
    BY <1>3 DEF AcquireLock
  <2> QED
    BY <1>0, <1>3, <2>1, <2>2 DEF AcquireLock
<1>4. CASE UsePoint(c)               BY <1>00, <1>4 DEF UsePoint
<1>5. CASE ReleaseLock(c)            BY <1>00, <1>5 DEF ReleaseLock
<1>6. CASE DeleteToken(c)            BY <1>00, <1>6 DEF DeleteToken
<1>7. CASE PublishPaymentSuccess(c)
  BY <1>00, <1>7, PublishType DEF PublishPaymentSuccess
<1>8. CASE CatchPayment(c)
  BY <1>00, <1>8 DEF CatchPayment, RowStatus, MaxRetry
<1>9. CASE PublishPaymentRetry(c)
  BY <1>00, <1>9, PublishType DEF PublishPaymentRetry
<1> QED
  BY <1>1, <1>2, <1>3, <1>4, <1>5, <1>6, <1>7, <1>8, <1>9 DEF Pay

LEMMA DecideTypeOK ==
  ASSUME TypeOK, NEW c \in Consumers, Decide(c)
  PROVE  TypeOK'
<1> USE SagaAssumption DEF TypeOK, clientVars, rowVars, moneyVars, seatVars, Goto,
                           PC, Tx, User, Resv
<1>0. msg[c] \in Message
  BY DEF Decide, ConfirmReservation, UpdateRanking, PublishReservationFailure,
         SetCancel, PublishPaymentCancel, Refund
<1>00. Tx(c) \in Txs /\ User(c) \in Users /\ Resv(c) \in Reservations
  BY <1>0 DEF Message
<1>1. CASE ConfirmReservation(c)     BY <1>00, <1>1 DEF ConfirmReservation
<1>2. CASE UpdateRanking(c)          BY <1>00, <1>2 DEF UpdateRanking
<1>3. CASE PublishReservationFailure(c)
  BY <1>00, <1>3, PublishType DEF PublishReservationFailure
<1>4. CASE SetCancel(c)              BY <1>00, <1>4 DEF SetCancel, RowStatus
<1>5. CASE PublishPaymentCancel(c)
  BY <1>00, <1>5, PublishType DEF PublishPaymentCancel
<1>6. CASE Refund(c)                 BY <1>00, <1>6 DEF Refund
<1> QED
  BY <1>1, <1>2, <1>3, <1>4, <1>5, <1>6 DEF Decide

LEMMA BreakTypeOK ==
  ASSUME TypeOK, NEW c \in Consumers, Break(c)
  PROVE  TypeOK'
<1>0. \A kind \in {"crash", "rebalance", "redis", "db"} :
        Fault(kind) => faults' \in [FaultKinds -> Nat]
  BY FaultType DEF FaultKinds
<1> USE SagaAssumption DEF TypeOK, clientVars, rowVars, moneyVars, seatVars, Goto,
                           PC
<1>1. CASE Crash(c)                  BY <1>0, <1>1 DEF Crash
<1>2. CASE Rebalance(c)              BY <1>0, <1>2 DEF Rebalance
<1>3. CASE PaymentRedisFails(c)     BY <1>0, <1>3 DEF PaymentRedisFails
<1>8. CASE LockReplyLost(c)
  <2>1. User(c) \in Users
    BY <1>8 DEF LockReplyLost, User, Tx, Message
  <2> QED
    BY <1>0, <1>8, <2>1 DEF LockReplyLost
<1>4. CASE PaymentDbFails(c)         BY <1>0, <1>4 DEF PaymentDbFails
<1>5. CASE RankingFails(c)           BY <1>0, <1>5 DEF RankingFails
<1>6. CASE ConfirmDbFails(c)         BY <1>0, <1>6 DEF ConfirmDbFails
<1>7. CASE CompensationDbFails(c)    BY <1>0, <1>7 DEF CompensationDbFails
<1> QED
  BY <1>1, <1>2, <1>3, <1>4, <1>5, <1>6, <1>7, <1>8 DEF Break

LEMMA NextTypeOK == TypeOK /\ [Next]_vars => TypeOK'
<1> SUFFICES ASSUME TypeOK, [Next]_vars PROVE TypeOK'
  OBVIOUS
<1> USE SagaAssumption DEF clientVars, rowVars, moneyVars, seatVars
<1>1. CASE \E t \in Txs : RequestPayment(t)
  BY <1>1, PublishType DEF RequestPayment, TypeOK, NoFault
<1>2. CASE \E r \in Reservations : TokenExpires(r)
  BY <1>2 DEF TokenExpires, TypeOK
<1>8. CASE \E r \in Reservations : ReservationExpires(r)
  BY <1>8 DEF ReservationExpires, TypeOK
<1>3. CASE \E u \in Users : LockExpires(u)
  BY <1>3 DEF LockExpires, TypeOK
<1>4. CASE \E c \in Consumers : Pay(c) \/ Decide(c) \/ Break(c)
  BY <1>4, PayTypeOK, DecideTypeOK, BreakTypeOK
<1>5. CASE \E c \in Consumers : Ack(c)
  BY <1>5 DEF Ack, TypeOK, Goto, PC
<1>6. CASE \E c \in Consumers, m \in Message : Take(c, m)
  <2> PICK c \in Consumers, m \in Message : Take(c, m)
    BY <1>6
  <2>1. FirstStep(m.type) \in PC
    BY DEF FirstStep, Message, Types, PC
  <2> QED
    BY <2>1, NoMsgAssumption DEF Take, TypeOK, Goto
<1>7. CASE UNCHANGED vars
  BY <1>7 DEF vars, TypeOK
<1> QED
  BY <1>1, <1>2, <1>3, <1>4, <1>5, <1>6, <1>7, <1>8 DEF Next

\* Every variable keeps its type under every interleaving and fault; balances
\* in particular never go below zero (NOT_ENOUGH_POINT).
THEOREM TypeCorrect == Spec => []TypeOK
BY InitTypeOK, NextTypeOK, PTL DEF Spec

-----------------------------------------------------------------------------
(* No seat without money                                                   *)

Inv == TypeOK /\ SuccessIsBacked /\ NoFreeSeat

LEMMA InitInv == Init => Inv
<1> SUFFICES ASSUME Init PROVE SuccessIsBacked /\ NoFreeSeat
  BY InitTypeOK DEF Inv
<1> QED
  BY DEF Init, SuccessIsBacked, NoFreeSeat

\* Charges are only ever added, and only UsePoint adds one.
LEMMA UsedGrows ==
  ASSUME TypeOK, [Next]_vars, NEW t \in Txs
  PROVE  used'[t] \in Nat /\ used'[t] >= used[t]
<1>1. CASE \E c \in Consumers : UsePoint(c)
  BY <1>1 DEF UsePoint, TypeOK
<1>2. CASE ~\E c \in Consumers : UsePoint(c)
  <2>1. used' = used
    BY <1>2
    DEF Next, vars, moneyVars, RequestPayment, TokenExpires, ReservationExpires,
        LockExpires, Take, Ack, Pay, FindTransaction, CreateTransaction,
        AcquireLock, ReleaseLock, DeleteToken, PublishPaymentSuccess,
        CatchPayment, PublishPaymentRetry, Decide, ConfirmReservation,
        UpdateRanking, PublishReservationFailure, SetCancel,
        PublishPaymentCancel, Refund, Break, Crash, Rebalance,
        PaymentRedisFails, LockReplyLost, PaymentDbFails, RankingFails, ConfirmDbFails,
        CompensationDbFails
  <2> QED
    BY <2>1 DEF TypeOK
<1> QED
  BY <1>1, <1>2

\* A reservation is assigned by a confirming consumer only.
LEMMA NextNoFreeSeat == Inv /\ [Next]_vars => NoFreeSeat'
<1> SUFFICES ASSUME Inv, [Next]_vars, NEW r \in Reservations,
                    resv'[r] = "CONFIRMED"
             PROVE  owner'[r] \in Txs /\ ResvOf[owner'[r]] = r
                    /\ used'[owner'[r]] >= 1
  BY DEF NoFreeSeat
<1>1. CASE \E c \in Consumers : ConfirmReservation(c) /\ resv[Resv(c)] = "PENDING"
  <2> PICK c \in Consumers : ConfirmReservation(c) /\ resv[Resv(c)] = "PENDING"
    BY <1>1
  <2>1. Tx(c) \in Txs /\ Resv(c) = ResvOf[Tx(c)] /\ used[Tx(c)] >= 1
    BY DEF ConfirmReservation, Inv, TypeOK, SuccessIsBacked, Tx, Resv, Message
  <2>2. CASE r = Resv(c)
    <3>1. owner'[r] = Tx(c)
      BY <2>2 DEF ConfirmReservation, Inv, TypeOK
    <3>2. used' = used
      BY DEF ConfirmReservation, moneyVars
    <3> QED
      BY <2>1, <2>2, <3>1, <3>2
  <2>3. CASE r # Resv(c)
    <3>1. resv'[r] = resv[r] /\ owner'[r] = owner[r] /\ used' = used
      BY <2>3 DEF ConfirmReservation, Inv, TypeOK, moneyVars
    <3> QED
      BY <3>1 DEF Inv, NoFreeSeat
  <2> QED
    BY <2>2, <2>3
<1>2. CASE ~\E c \in Consumers :
              ConfirmReservation(c) /\ resv[Resv(c)] = "PENDING"
  <2>1. owner' = owner /\ resv[r] = "CONFIRMED"
    BY <1>2
    DEF Inv, TypeOK, Next, vars, seatVars, RequestPayment, TokenExpires,
        ReservationExpires, LockExpires, Take, Ack, Pay, FindTransaction,
        CreateTransaction, AcquireLock, UsePoint, ReleaseLock, DeleteToken,
        PublishPaymentSuccess, CatchPayment, PublishPaymentRetry, Decide,
        ConfirmReservation, UpdateRanking, PublishReservationFailure,
        SetCancel, PublishPaymentCancel, Refund, Break, Crash, Rebalance,
        PaymentRedisFails, LockReplyLost, PaymentDbFails, RankingFails, ConfirmDbFails,
        CompensationDbFails
  <2>2. owner[r] \in Txs /\ ResvOf[owner[r]] = r /\ used[owner[r]] >= 1
    BY <2>1 DEF Inv, NoFreeSeat
  <2>3. used'[owner[r]] >= used[owner[r]] /\ used'[owner[r]] \in Nat
    BY <2>2, UsedGrows DEF Inv
  <2> QED
    BY <2>1, <2>2, <2>3 DEF Inv, TypeOK
<1> QED
  BY <1>1, <1>2

\* payment.success is published by a consumer that has charged, and otherwise
\* only travels: taken, put back by a crash or a rebalance, acknowledged.
LEMMA SuccessTravels ==
  ASSUME Inv, [Next]_vars, NEW m \in Message, m.type = "payment.success",
         topic'[m] > 0, topic[m] = 0
  PROVE  \E c \in Consumers :
           \/ pc[c] = "publish_success" /\ m.tx = Tx(c)
           \/ pc[c] # "idle" /\ msg[c] = m
<1> USE DEF Inv, TypeOK
<1>1. CASE \E t \in Txs : RequestPayment(t)
  BY <1>1 DEF RequestPayment, Publish, Msg
<1>2. CASE \E c \in Consumers : PublishPaymentSuccess(c)
  BY <1>2 DEF PublishPaymentSuccess, Publish, Msg
<1>3. CASE \E c \in Consumers :
             \/ PublishPaymentRetry(c) \/ PublishReservationFailure(c)
             \/ PublishPaymentCancel(c)
  BY <1>3
  DEF PublishPaymentRetry, PublishReservationFailure, PublishPaymentCancel,
      Publish, Msg
<1>4. CASE \E c \in Consumers : Crash(c) \/ Rebalance(c)
  BY <1>4 DEF Crash, Rebalance
<1>5. CASE \E c \in Consumers, k \in Message : Take(c, k)
  BY <1>5 DEF Take
<1>6. CASE topic' = topic
  BY <1>6
<1> QED
  BY <1>1, <1>2, <1>3, <1>4, <1>5, <1>6
  DEF Next, vars, TokenExpires, ReservationExpires, LockExpires, Ack, Pay,
      FindTransaction, CreateTransaction, AcquireLock, UsePoint, ReleaseLock,
      DeleteToken, CatchPayment, Decide, ConfirmReservation, UpdateRanking,
      SetCancel, Refund, Break, PaymentRedisFails, LockReplyLost, PaymentDbFails,
      RankingFails, ConfirmDbFails, CompensationDbFails

\* A consumer's message is the one it took, and the control states in which a
\* charge is behind it are entered by charging.
LEMMA ConsumerBacked ==
  ASSUME Inv, [Next]_vars, NEW c \in Consumers
  PROVE  /\ pc'[c] # "idle" /\ msg'[c].type = "payment.success"
              => used'[msg'[c].tx] >= 1
         /\ pc'[c] = "confirm" => msg'[c].type = "payment.success"
         /\ pc'[c] \in {"unlock", "delete_token", "publish_success"}
              => used'[msg'[c].tx] >= 1
<1> USE DEF Inv, TypeOK
<1>1. CASE \E m \in Message : Take(c, m)
  <2> PICK m \in Message : Take(c, m)
    BY <1>1
  <2>1. msg'[c] = m /\ pc'[c] = FirstStep(m.type) /\ topic[m] > 0 /\ used' = used
    BY DEF Take, Goto, moneyVars
  <2>2. /\ pc'[c] = "confirm" => m.type = "payment.success"
        /\ pc'[c] \notin {"unlock", "delete_token", "publish_success"}
    BY <2>1 DEF FirstStep, Message, Types
  <2> QED
    BY <2>1, <2>2 DEF SuccessIsBacked
<1>2. CASE UsePoint(c)
  <2>1. msg' = msg /\ msg[c] \in Message
    BY <1>2 DEF UsePoint
  <2>2. msg[c].tx \in Txs
    BY <2>1 DEF Message
  <2>3. \/ pc'[c] = "unlock" /\ used'[msg[c].tx] = used[msg[c].tx] + 1
        \/ pc'[c] = "unlock_failed" /\ used' = used
    BY <1>2, <2>2 DEF UsePoint, Goto, Tx
  <2> QED
    BY <1>2, <2>1, <2>2, <2>3 DEF SuccessIsBacked, UsePoint, Tx
<1>3. CASE /\ ~UsePoint(c)
           /\ pc'[c] # "idle"
           /\ ~\E m \in Message : Take(c, m)
  <2>1. /\ msg'[c] = msg[c] /\ pc[c] # "idle"
        /\ pc'[c] = "confirm" => pc[c] = "confirm"
        /\ pc'[c] \in {"unlock", "delete_token", "publish_success"}
             => pc[c] \in {"unlock", "delete_token", "publish_success"}
    BY <1>3
    DEF Next, vars, RequestPayment, TokenExpires, ReservationExpires,
        LockExpires, Take, Ack, Pay, FindTransaction, CreateTransaction,
        AcquireLock, UsePoint, ReleaseLock, DeleteToken, PublishPaymentSuccess,
        CatchPayment, PublishPaymentRetry, Decide, ConfirmReservation,
        UpdateRanking, PublishReservationFailure, SetCancel,
        PublishPaymentCancel, Refund, Break, Crash, Rebalance,
        PaymentRedisFails, LockReplyLost, PaymentDbFails, RankingFails, ConfirmDbFails,
        CompensationDbFails, Goto
  <2>2. msg[c].tx \in Txs
    BY <2>1 DEF Message
  <2> QED
    BY <2>1, <2>2, UsedGrows DEF SuccessIsBacked, Tx
<1> QED
  BY <1>1, <1>2, <1>3

LEMMA NextSuccessIsBacked == Inv /\ [Next]_vars => SuccessIsBacked'
<1> SUFFICES ASSUME Inv, [Next]_vars PROVE SuccessIsBacked'
  OBVIOUS
<1>1. ASSUME NEW m \in Message, m.type = "payment.success", topic'[m] > 0
      PROVE  used'[m.tx] >= 1
  <2>1. m.tx \in Txs
    BY DEF Message
  <2>2. used[m.tx] >= 1
    <3>1. CASE topic[m] > 0
      BY <1>1, <3>1 DEF Inv, SuccessIsBacked
    <3>2. CASE topic[m] = 0
      BY <1>1, <3>2, SuccessTravels DEF Inv, SuccessIsBacked, Tx
    <3> QED
      BY <3>1, <3>2 DEF Inv, TypeOK
  <2> QED
    BY <2>1, <2>2, UsedGrows DEF Inv, TypeOK
<1> QED
  BY <1>1, ConsumerBacked DEF SuccessIsBacked, Tx

LEMMA Invariance == Spec => []Inv
<1>1. Inv /\ [Next]_vars => Inv'
  BY NextTypeOK, NextNoFreeSeat, NextSuccessIsBacked DEF Inv
<1> QED
  BY InitInv, <1>1, PTL DEF Spec

\* Under crashes, redelivery, loss and failing stores alike, a seat is assigned
\* only to a payment that has been charged.
THEOREM NoSeatForFree == Spec => []NoFreeSeat
<1>1. Inv => NoFreeSeat
  BY DEF Inv
<1> QED
  BY Invariance, <1>1, PTL

\* A payment.success, wherever it is, stands for money taken.
THEOREM SuccessBacked == Spec => []SuccessIsBacked
<1>1. Inv => SuccessIsBacked
  BY DEF Inv
<1> QED
  BY Invariance, <1>1, PTL

-----------------------------------------------------------------------------
(* One carrier                                                             *)

\* Nothing has failed; nothing but lost messages (Benign: and failed transactions).
Faultless == \A k \in FaultKinds : faults[k] = 0
LossOnly  == \A k \in FaultKinds \ {"loss"} : faults[k] = 0

\* What carries a payment on: its message in a topic, or the consumer that handles
\* it (and has not published the next one, after which it only acknowledges).
InTopic(t) == {m \in Message : m.tx = t /\ topic[m] > 0}
InHands(t) == {c \in Consumers : pc[c] \notin {"idle", "ack"} /\ Tx(c) = t}

\* A payment has one carrier at most.
Solo(t) ==
  /\ \A m, k \in InTopic(t) : m = k /\ topic[m] = 1
  /\ \A c, d \in InHands(t) : c = d
  /\ InTopic(t) = {} \/ InHands(t) = {}

Unpaid == {"find", "create", "lock", "use", "unlock_failed", "catch", "publish_retry"}
Paying == {"unlock", "delete_token", "publish_success", "confirm"}
Undoing == {"publish_failure", "set_cancel", "publish_cancel", "refund"}
Open(t) == status[t] \in {"PENDING", "RETRYING"}

\* What is true of a payment whose carrier is in a control state, or about to be
\* taken into it: of the money ...
Money(t, state) ==
  /\ refunded[t] = 0
  /\ used[t] = IF state \in Unpaid THEN 0 ELSE 1

\* ... and of the rest.  Only a failed transaction lets a payment without a row
\* be caught, or starts the compensation of a reservation that is still PENDING.
Flow(t, state, n) ==
  /\ state \in {"find", "create"} => status[t] = "NONE" /\ n = 0 /\ retryCount[t] = 0
  /\ state \in {"lock", "use", "unlock_failed"} => Open(t) /\ retryCount[t] = n
  /\ state = "catch" => /\ Open(t) \/ (status[t] = "NONE" /\ ~LossOnly)
                        /\ retryCount[t] = n
  /\ state = "publish_retry" => Open(t) /\ retryCount[t] = n + 1 /\ n < MaxRetry
  /\ state \in Unpaid \cup Paying \cup Undoing => ~Owns(t)
  /\ state \in Paying => Open(t)
  /\ state = "rank" => Open(t) /\ Owns(t)
  /\ state \in Undoing /\ LossOnly => resv[ResvOf[t]] # "PENDING"
  /\ state \in {"publish_failure", "set_cancel"} => Open(t)
  /\ state \in {"publish_cancel", "refund"} => status[t] = "CANCEL"

Fits(t, state, n) == Money(t, state) /\ Flow(t, state, n)

\* How a payment ends that nothing stopped.
Outcome(t) ==
  \/ Owns(t) /\ Open(t) /\ used[t] = 1 /\ refunded[t] = 0
  \/ ~Owns(t) /\ status[t] = "FAILURE" /\ used[t] = 0 /\ refunded[t] = 0
  \/ ~Owns(t) /\ status[t] = "CANCEL" /\ used[t] = 1 /\ refunded[t] = 1

Carried(t) ==
  /\ Solo(t)
  /\ \A m \in InTopic(t) : Fits(t, FirstStep(m.type), m.n)
  /\ \A c \in InHands(t) : Fits(t, pc[c], msg[c].n)
  /\ used[t] \in {0, 1} /\ refunded[t] <= used[t]
  /\ request[t] # "accepted" =>
       /\ InTopic(t) = {} /\ InHands(t) = {} /\ used[t] = 0 /\ ~Owns(t)
       /\ status[t] = "NONE" /\ retryCount[t] = 0
  /\ request[t] = "accepted" /\ InTopic(t) = {} /\ InHands(t) = {} =>
       Honest(t) /\ (Faultless => Outcome(t))

OwnersConfirmed == \A r \in Reservations : owner[r] # NoTx => resv[r] = "CONFIRMED"

SagaInv == OwnersConfirmed /\ (Benign => \A t \in Txs : Carried(t))


\* Typing facts of a consumer at work.
LEMMA AtWork ==
  ASSUME TypeOK, NEW c \in Consumers, pc[c] # "idle"
  PROVE  /\ msg[c] \in Message /\ msg[c] # NoMsg
         /\ Tx(c) \in Txs /\ Tx(c) = msg[c].tx
         /\ User(c) = UserOf[Tx(c)] /\ User(c) \in Users
         /\ Resv(c) = ResvOf[Tx(c)] /\ Resv(c) \in Reservations
         /\ msg[c].n \in 0 .. MaxRetry
BY SagaAssumption, NoMsgAssumption DEF TypeOK, Message, Tx, User, Resv

\* Faults are only ever added.
LEMMA FaultCounts ==
  ASSUME TypeOK, NEW kind \in FaultKinds, Fault(kind)
  PROVE  /\ ~Faultless' /\ (LossOnly' => LossOnly) /\ (Benign' => Benign)
         /\ kind # "loss" => ~LossOnly'
         /\ kind \notin {"loss", "db"} => ~Benign'
<1>1. /\ \A k \in FaultKinds : faults'[k] = IF k = kind THEN faults[k] + 1 ELSE faults[k]
      /\ \A k \in FaultKinds : faults[k] \in Nat
  BY DEF Fault, TypeOK
<1>2. faults'[kind] # 0
  BY <1>1
<1>3. \A k \in FaultKinds : faults'[k] = 0 => faults[k] = 0
  BY <1>1
<1> QED
  BY <1>2, <1>3 DEF Faultless, LossOnly, Benign

LEMMA NoFaultCounts ==
  ASSUME NoFault
  PROVE  (Faultless' <=> Faultless) /\ (LossOnly' <=> LossOnly) /\ (Benign' <=> Benign)
BY DEF NoFault, Faultless, LossOnly, Benign

\* Faults do not go away.
FaultsStay == (Faultless' => Faultless) /\ (LossOnly' => LossOnly)

\* A step that leaves the rows, the money and the seat of a payment as they are.
Kept(t) ==
  /\ request'[t] = request[t] /\ status'[t] = status[t] /\ retryCount'[t] = retryCount[t]
  /\ used'[t] = used[t] /\ refunded'[t] = refunded[t]
  /\ Owns(t)' <=> Owns(t)
  /\ resv[ResvOf[t]] # "PENDING" => resv'[ResvOf[t]] # "PENDING"
  /\ FaultsStay

LEMMA KeptFacts ==
  ASSUME NEW t, Kept(t)
  PROVE  /\ \A state, n : Fits(t, state, n) => Fits(t, state, n)'
         /\ Honest(t) => Honest(t)'
         /\ Outcome(t) => Outcome(t)'
<1>1. ASSUME NEW state, NEW n, Fits(t, state, n) PROVE Fits(t, state, n)'
  BY <1>1 DEF Kept, FaultsStay, Fits, Money, Flow, Open
<1>2. Honest(t) => Honest(t)'
  BY DEF Kept, Honest
<1>3. Outcome(t) => Outcome(t)'
  BY DEF Kept, Outcome, Open
<1> QED
  BY <1>1, <1>2, <1>3

\* A payment may lose its carrier anywhere: what is recorded of it stays honest.
LEMMA FitsHonest ==
  ASSUME NEW t, NEW state \in Unpaid \cup Paying \cup {"rank"} \cup Undoing, NEW n,
         Fits(t, state, n)
  PROVE  Honest(t)
BY DEF Fits, Money, Flow, Honest, Open, Unpaid, Paying, Undoing

\* ... and its carrier where it is.
LEMMA Elsewhere ==
  ASSUME NEW t, Kept(t), Carried(t),
         InTopic(t)' = InTopic(t), \A m \in InTopic(t) : topic'[m] = topic[m],
         InHands(t)' = InHands(t), \A c \in InHands(t) : pc'[c] = pc[c] /\ msg'[c] = msg[c]
  PROVE  Carried(t)'
<1>1. Solo(t)'
  BY DEF Carried, Solo
<1>2. ASSUME NEW m \in InTopic(t) PROVE Fits(t, FirstStep(m.type), m.n)'
  BY KeptFacts DEF Carried
<1>3. ASSUME NEW c \in InHands(t) PROVE Fits(t, pc[c], msg[c].n)'
  <2> DEFINE state == pc[c]
             n == msg[c].n
  <2>1. PICK s, k : s = state /\ k = n
    OBVIOUS
  <2>2. Fits(t, s, k)'
    BY <2>1, KeptFacts DEF Carried
  <2>3. state' = s /\ n' = k
    BY <2>1
  <2> QED
    BY <2>2, <2>3 DEF Fits, Money, Flow
<1>4. /\ used'[t] \in {0, 1} /\ refunded'[t] <= used'[t]
      /\ request'[t] # "accepted" =>
           /\ InTopic(t)' = {} /\ InHands(t)' = {} /\ used'[t] = 0 /\ ~Owns(t)'
           /\ status'[t] = "NONE" /\ retryCount'[t] = 0
      /\ request'[t] = "accepted" /\ InTopic(t)' = {} /\ InHands(t)' = {}
           => Honest(t)' /\ (Faultless' => Outcome(t)')
  BY KeptFacts DEF Carried, Kept, FaultsStay
<1> QED
  BY <1>1, <1>2, <1>3, <1>4 DEF Carried

\* A handler goes on, or ends without a message.
LEMMA Goes ==
  ASSUME TypeOK, \A t \in Txs : Carried(t),
         NEW c \in Consumers, pc[c] \notin {"idle", "ack"},
         NEW state \in PC \ {"idle"}, Goto(c, state),
         UNCHANGED <<topic, msg, request>>,
         \A t \in Txs \ {Tx(c)} : Kept(t),
         used'[Tx(c)] \in {0, 1}, refunded'[Tx(c)] <= used'[Tx(c)],
         NEW n, n = msg[c].n,
         NEW x, x = Tx(c),
         state # "ack" => Fits(x, state, n)',
         state = "ack" => Honest(x)' /\ (Faultless' => Outcome(x)')
  PROVE  \A t \in Txs : Carried(t)'
<1>1. x \in Txs /\ c \in InHands(x) /\ InHands(x) = {c} /\ InTopic(x) = {}
      /\ request[x] = "accepted"
  <2>1. x \in Txs /\ c \in InHands(x)
    BY AtWork DEF InHands
  <2> QED
    BY <2>1 DEF Carried, Solo
<1>2. ASSUME NEW t \in Txs \ {x} PROVE Carried(t)'
  <2>1. InTopic(t)' = InTopic(t) /\ InHands(t)' = InHands(t)
    BY DEF InTopic, InHands, Tx, TypeOK, Goto
  <2>2. \A d \in InHands(t) : d # c /\ d \in Consumers
    BY DEF InHands
  <2>3. \A d \in InHands(t) : pc'[d] = pc[d] /\ msg'[d] = msg[d]
    BY <2>2 DEF TypeOK, Goto
  <2> QED
    BY <2>1, <2>3, Elsewhere
<1>3. Carried(x)'
  <2>1. /\ InTopic(x)' = {}
        /\ InHands(x)' = IF state = "ack" THEN {} ELSE {c}
    <3>1. \A d \in Consumers : d # c => pc'[d] = pc[d]
      BY DEF TypeOK, Goto
    <3>2. pc'[c] = state
      BY DEF TypeOK, Goto
    <3> QED
      BY <1>1, <3>1, <3>2 DEF InTopic, InHands, Tx
  <2>2. Solo(x)'
    BY <2>1 DEF Solo
  <2>3. ASSUME NEW d \in InHands(x)' PROVE Fits(x, pc[d], msg[d].n)'
    <3>1. d = c /\ state # "ack" /\ pc'[c] = state /\ msg'[c].n = n
      BY <2>1, <2>3 DEF TypeOK, Goto
    <3> QED
      BY <3>1 DEF Fits, Money, Flow
  <2>4. state # "ack" => ~(InTopic(x)' = {} /\ InHands(x)' = {})
    BY <2>1
  <2> QED
    BY <1>1, <2>1, <2>2, <2>3, <2>4 DEF Carried
<1> QED
  BY <1>2, <1>3


\* A handler hands the payment on to a message, if the message is not lost.
LEMMA HandsOn ==
  ASSUME TypeOK, \A t \in Txs : Carried(t), Benign',
         NEW c \in Consumers, pc[c] \notin {"idle", "ack"},
         NEW x, x = Tx(c),
         NEW k \in Message, k.tx = x, Publish(k),
         Goto(c, "ack"),
         UNCHANGED <<msg, clientVars, rowVars, seatVars, moneyVars>>,
         Fits(x, FirstStep(k.type), k.n)
  PROVE  \A t \in Txs : Carried(t)'
<1>1. x \in Txs /\ c \in InHands(x) /\ InHands(x) = {c} /\ InTopic(x) = {}
      /\ request[x] = "accepted"
  <2>1. x \in Txs /\ c \in InHands(x)
    BY AtWork DEF InHands
  <2> QED
    BY <2>1 DEF Carried, Solo
<1>2. \A t \in Txs : Kept(t)
  <2>1. FaultsStay
    BY FaultCounts, NoFaultCounts DEF Publish, FaultKinds, FaultsStay
  <2> QED
    BY <2>1 DEF Kept, Owns, clientVars, rowVars, seatVars, moneyVars
<1>3. /\ \A m \in Message \ {k} : topic'[m] = topic[m]
      /\ \A m \in Message : topic[m] \in Nat
      /\ \/ topic'[k] = topic[k] + 1
         \/ topic' = topic /\ ~Faultless'
  BY FaultCounts DEF Publish, TypeOK, FaultKinds
<1>4. /\ pc'[c] = "ack"
      /\ \A d \in Consumers \ {c} : pc'[d] = pc[d]
      /\ msg' = msg
  BY DEF TypeOK, Goto
<1>5. ASSUME NEW t \in Txs \ {x} PROVE Carried(t)'
  <2>1. InTopic(t)' = InTopic(t) /\ \A m \in InTopic(t) : topic'[m] = topic[m]
    BY <1>3 DEF InTopic
  <2>2. InHands(t)' = InHands(t) /\ c \notin InHands(t)
    BY <1>4 DEF InHands, Tx
  <2>3. \A d \in InHands(t) : pc'[d] = pc[d] /\ msg'[d] = msg[d]
    BY <1>4, <2>2 DEF InHands
  <2> QED
    BY <1>2, <2>1, <2>2, <2>3, Elsewhere
<1>6. Carried(x)'
  <2>1. InHands(x)' = {}
    BY <1>1, <1>4 DEF InHands, Tx
  <2>2. \A m \in Message : m.tx = x => topic[m] = 0
    BY <1>1, <1>3 DEF InTopic
  <2>3. \/ InTopic(x)' = {k} /\ topic'[k] = 1
        \/ InTopic(x)' = {} /\ ~Faultless'
    BY <1>3, <2>2 DEF InTopic
  <2>4. Solo(x)'
    BY <2>1, <2>3 DEF Solo
  <2>5. Fits(x, FirstStep(k.type), k.n)' /\ Honest(x)'
    <3>1. PICK s : s = FirstStep(k.type)
      OBVIOUS
    <3>2. s \in {"find", "lock", "confirm", "refund", "set_cancel"}
      BY <3>1 DEF FirstStep, Message, Types
    <3>3. Honest(x)
      BY <3>1, <3>2, FitsHonest DEF Unpaid, Paying, Undoing
    <3> QED
      BY <1>1, <1>2, <3>3, KeptFacts
  <2>6. ASSUME NEW m \in InTopic(x)' PROVE Fits(x, FirstStep(m.type), m.n)'
    BY <2>3, <2>5, <2>6
  <2>7. used'[x] \in {0, 1} /\ refunded'[x] <= used'[x] /\ request'[x] = "accepted"
    BY <1>1, <1>2 DEF Carried, Kept
  <2> QED
    BY <2>1, <2>3, <2>4, <2>5, <2>6, <2>7 DEF Carried
<1> QED
  BY <1>5, <1>6

\* A consumer takes a message: the carrier changes, the payment does not.
LEMMA Takes ==
  ASSUME TypeOK, \A t \in Txs : Carried(t),
         NEW c \in Consumers, NEW k \in Message, Take(c, k)
  PROVE  \A t \in Txs : Carried(t)'
<1>1. /\ pc[c] = "idle" /\ topic[k] > 0 /\ topic[k] \in Nat /\ topic'[k] = topic[k] - 1
      /\ \A m \in Message \ {k} : topic'[m] = topic[m]
      /\ msg'[c] = k /\ pc'[c] = FirstStep(k.type)
      /\ \A d \in Consumers \ {c} : pc'[d] = pc[d] /\ msg'[d] = msg[d]
  BY DEF Take, Goto, TypeOK
<1>2. FirstStep(k.type) \notin {"idle", "ack"} /\ k.tx \in Txs
  BY DEF FirstStep, Message, Types
<1>3. \A t \in Txs : Kept(t)
  BY DEF Take, Kept, Owns, clientVars, rowVars, seatVars, moneyVars, FaultsStay, Faultless,
         LossOnly
<1>4. ASSUME NEW t \in Txs \ {k.tx} PROVE Carried(t)'
  <2>1. InTopic(t)' = InTopic(t) /\ \A m \in InTopic(t) : topic'[m] = topic[m]
    BY <1>1 DEF InTopic
  <2>2. InHands(t)' = InHands(t) /\ c \notin InHands(t)
    BY <1>1 DEF InHands, Tx
  <2>3. \A d \in InHands(t) : pc'[d] = pc[d] /\ msg'[d] = msg[d]
    BY <1>1, <2>2 DEF InHands
  <2> QED
    BY <1>3, <2>1, <2>2, <2>3, Elsewhere
<1>5. Carried(k.tx)'
  <2> DEFINE x == k.tx
  <2>1. k \in InTopic(x) /\ InTopic(x) = {k} /\ topic[k] = 1 /\ InHands(x) = {}
    <3>1. k \in InTopic(x)
      BY <1>1 DEF InTopic
    <3> QED
      BY <1>2, <3>1 DEF Carried, Solo
  <2>2. InTopic(x)' = {}
    BY <1>1, <2>1 DEF InTopic
  <2>3. InHands(x)' = {c}
    BY <1>1, <1>2, <2>1 DEF InHands, Tx
  <2>4. Solo(x)'
    BY <2>2, <2>3 DEF Solo
  <2>5. Fits(x, FirstStep(k.type), k.n)'
    BY <1>2, <1>3, <2>1, KeptFacts DEF Carried
  <2>6. ASSUME NEW d \in InHands(x)' PROVE Fits(x, pc[d], msg[d].n)'
    <3>1. d = c /\ pc'[d] = FirstStep(k.type) /\ msg'[d].n = k.n
      BY <1>1, <2>3, <2>6
    <3> QED
      BY <2>5, <3>1 DEF Fits, Money, Flow
  <2>7. used'[x] \in {0, 1} /\ refunded'[x] <= used'[x] /\ request'[x] = "accepted"
    BY <1>2, <1>3, <2>1 DEF Carried, Kept
  <2> QED
    BY <2>2, <2>3, <2>4, <2>6, <2>7 DEF Carried
<1> QED
  BY <1>4, <1>5

\* A payment begins with its payment.try, or is refused.
LEMMA Requests ==
  ASSUME TypeOK, \A t \in Txs : Carried(t), Benign', NEW x \in Txs, RequestPayment(x)
  PROVE  \A t \in Txs : Carried(t)'
<1> DEFINE k == Msg("payment.try", x, 0)
<1>1. k \in Message /\ k.tx = x /\ k.n = 0 /\ k.type = "payment.try"
  BY DEF Msg, Message, Types, MaxRetry
<1>2. /\ InTopic(x) = {} /\ InHands(x) = {} /\ used[x] = 0
      /\ refunded[x] = 0 /\ ~Owns(x)
      /\ status[x] = "NONE" /\ retryCount[x] = 0
  <2>1. request[x] = "new"
    BY DEF RequestPayment
  <2> QED
    BY <2>1 DEF Carried, TypeOK
<1> HIDE DEF k
<1>3. /\ UNCHANGED <<rowVars, seatVars, moneyVars, pc, msg>>
      /\ request'[x] \in {"accepted", "refused"}
      /\ \A t \in Txs \ {x} : request'[t] = request[t]
  BY DEF RequestPayment, TypeOK
<1>4. \/ request'[x] = "accepted" /\ topic' = [topic EXCEPT ![k] = @ + 1] /\ NoFault
      \/ request'[x] = "accepted" /\ topic' = topic /\ Fault("loss")
      \/ request'[x] = "refused" /\ topic' = topic /\ NoFault
  BY DEF RequestPayment, TypeOK, Publish, k
<1>5. FaultsStay /\ (Owns(x)' <=> Owns(x))
  BY <1>3, <1>4, FaultCounts, NoFaultCounts DEF FaultKinds, FaultsStay, Owns, seatVars
<1>6. /\ \A m \in Message \ {k} : topic'[m] = topic[m]
      /\ \A m \in Message : topic[m] \in Nat
      /\ \/ topic'[k] = topic[k] + 1 /\ request'[x] = "accepted"
         \/ topic' = topic /\ ~Faultless' /\ request'[x] = "accepted"
         \/ topic' = topic /\ request'[x] = "refused"
  BY <1>1, <1>4, FaultCounts DEF TypeOK, FaultKinds
<1>7. ASSUME NEW t \in Txs \ {x} PROVE Carried(t)'
  <2>1. InTopic(t)' = InTopic(t) /\ \A m \in InTopic(t) : topic'[m] = topic[m]
    BY <1>1, <1>6 DEF InTopic
  <2>2. InHands(t)' = InHands(t)
    BY <1>3 DEF InHands, Tx
  <2>3. Kept(t)
    BY <1>3, <1>5 DEF Kept, Owns, rowVars, seatVars, moneyVars
  <2> QED
    BY <1>3, <2>1, <2>2, <2>3, Elsewhere
<1>8. Carried(x)'
  <2>1. InHands(x)' = {}
    BY <1>2, <1>3 DEF InHands, Tx
  <2>2. \A m \in Message : m.tx = x => topic[m] = 0
    BY <1>2, <1>6 DEF InTopic
  <2>3. \/ InTopic(x)' = {k} /\ topic'[k] = 1 /\ request'[x] = "accepted"
        \/ InTopic(x)' = {} /\ ~Faultless' /\ request'[x] = "accepted"
        \/ InTopic(x)' = {} /\ request'[x] = "refused"
    BY <1>1, <1>6, <2>2 DEF InTopic
  <2>4. Solo(x)'
    BY <2>1, <2>3 DEF Solo
  <2>5. FirstStep(k.type) = "find"
    BY <1>1 DEF FirstStep
  <2>6. Fits(x, "find", 0)'
    BY <1>2, <1>3, <1>5 DEF Fits, Money, Flow, Unpaid, Paying, Undoing, rowVars, moneyVars
  <2>7. ASSUME NEW m \in InTopic(x)' PROVE Fits(x, FirstStep(m.type), m.n)'
    BY <1>1, <2>3, <2>5, <2>6, <2>7
  <2>8. /\ used'[x] = 0 /\ refunded'[x] = 0 /\ status'[x] = "NONE" /\ retryCount'[x] = 0
        /\ ~Owns(x)' /\ Honest(x)'
    BY <1>2, <1>3, <1>5 DEF rowVars, moneyVars, Honest
  <2> QED
    BY <2>1, <2>3, <2>4, <2>7, <2>8 DEF Carried
<1> QED
  BY <1>7, <1>8


\* Who has not been charged has no seat.
LEMMA OwnerPaid ==
  ASSUME Inv, OwnersConfirmed, NEW t \in Txs, used[t] = 0
  PROVE  ~Owns(t)
BY SagaAssumption DEF Inv, OwnersConfirmed, NoFreeSeat, Owns

\* executePayment and its catch branches.
LEMMA PayStep ==
  ASSUME Inv, OwnersConfirmed, Benign', \A t \in Txs : Carried(t),
         NEW c \in Consumers, Pay(c)
  PROVE  \A t \in Txs : Carried(t)'
<1>1. pc[c] \notin {"idle", "ack"} /\ TypeOK
  BY DEF Inv, Pay, FindTransaction, CreateTransaction, AcquireLock, UsePoint, ReleaseLock,
         DeleteToken, PublishPaymentSuccess, CatchPayment, PublishPaymentRetry
<1>2. PICK x, n : x = Tx(c) /\ n = msg[c].n
  OBVIOUS
<1>3. x \in Txs /\ n \in 0 .. MaxRetry /\ msg[c] \in Message
  BY <1>1, <1>2, AtWork
<1>4. Fits(x, pc[c], n) /\ refunded[x] = 0
  BY <1>1, <1>2, <1>3 DEF Carried, InHands, Fits, Money
<1>5. Money(x, pc[c]) /\ Flow(x, pc[c], n)
  BY <1>4 DEF Fits
<1>6. ASSUME UNCHANGED <<request, rowVars, seatVars, moneyVars>>, FaultsStay
      PROVE  /\ \A t \in Txs : Kept(t)
             /\ used'[x] \in {0, 1} /\ refunded'[x] <= used'[x]
  BY <1>3, <1>6 DEF Kept, Owns, rowVars, seatVars, moneyVars, Carried
<1>7. UNCHANGED faults => FaultsStay
  BY DEF FaultsStay, Faultless, LossOnly
<1> USE DEF PC
<1>8. CASE FindTransaction(c)
  <2>1. /\ pc[c] = "find" /\ UNCHANGED <<topic, msg, request, rowVars, seatVars, moneyVars, faults>>
        /\ Goto(c, "create")
    BY <1>2, <1>5, <1>8 DEF FindTransaction, clientVars, Flow
  <2>2. Fits(x, "create", n)'
    BY <1>5, <2>1
    DEF Fits, Money, Flow, Unpaid, Paying, Undoing, Owns, rowVars, moneyVars, seatVars
  <2> QED
    BY <1>1, <1>2, <1>6, <1>7, <2>1, <2>2, Goes
<1>9. CASE CreateTransaction(c)
  <2>1. /\ pc[c] = "create"
        /\ UNCHANGED <<topic, msg, request, retryCount, seatVars, moneyVars, faults>>
        /\ \A t \in Txs \ {x} : status'[t] = status[t]
    BY <1>1, <1>2, <1>9 DEF CreateTransaction, clientVars, TypeOK
  <2>2. \A t \in Txs \ {x} : Kept(t)
    BY <1>7, <2>1 DEF Kept, Owns, seatVars, moneyVars
  <2>3. used'[x] \in {0, 1} /\ refunded'[x] <= used'[x]
    BY <1>3, <2>1 DEF moneyVars, Carried
  <2>4. Goto(c, "lock") /\ status'[x] = "PENDING"
    BY <1>1, <1>2, <1>3, <1>5, <1>9, <2>1 DEF CreateTransaction, TypeOK, Flow
  <2>5. Fits(x, "lock", n)'
    BY <1>5, <1>7, <2>1, <2>4
    DEF Fits, Money, Flow, Unpaid, Paying, Undoing, Open, Owns, moneyVars, seatVars
  <2> QED
    BY <1>1, <1>2, <2>1, <2>2, <2>3, <2>4, <2>5, Goes
<1>10. CASE AcquireLock(c)
  <2>1. PICK s \in {"catch", "use"} : Goto(c, s)
    BY <1>10 DEF AcquireLock
  <2>2. /\ pc[c] = "lock"
        /\ UNCHANGED <<topic, msg, request, rowVars, seatVars, moneyVars, faults>>
    BY <1>10 DEF AcquireLock, clientVars
  <2>3. Fits(x, s, n)'
    BY <1>5, <2>1, <2>2
    DEF Fits, Money, Flow, Unpaid, Paying, Undoing, Open, Owns, rowVars, moneyVars, seatVars
  <2> QED
    BY <1>1, <1>2, <1>6, <1>7, <2>1, <2>2, <2>3, Goes
<1>11. CASE UsePoint(c)
  <2>1. /\ pc[c] = "use"
        /\ UNCHANGED <<topic, msg, request, rowVars, seatVars, refunded, faults>>
        /\ \A t \in Txs \ {x} : used'[t] = used[t]
    BY <1>1, <1>2, <1>11 DEF UsePoint, clientVars, TypeOK
  <2>2. \A t \in Txs \ {x} : Kept(t)
    BY <1>7, <2>1 DEF Kept, Owns, seatVars, rowVars
  <2>3. used[x] = 0 /\ ~Owns(x)
    BY <1>3, <1>5, <2>1, OwnerPaid DEF Money, Unpaid
  <2>4. \/ Goto(c, "unlock") /\ used'[x] = 1
        \/ Goto(c, "unlock_failed") /\ used'[x] = 0
    BY <1>1, <1>2, <1>3, <1>11, <2>3 DEF UsePoint, TypeOK
  <2>5. PICK s \in {"unlock", "unlock_failed"} :
          Goto(c, s) /\ used'[x] = IF s = "unlock" THEN 1 ELSE 0
    BY <2>4
  <2>6. Fits(x, s, n)'
    BY <1>4, <1>5, <1>7, <2>1, <2>3, <2>5
    DEF Fits, Money, Flow, Unpaid, Paying, Undoing, Open, Owns, rowVars, seatVars
  <2> QED
    BY <1>1, <1>2, <1>4, <2>1, <2>2, <2>5, <2>6, Goes
<1>12. CASE ReleaseLock(c)
  <2>1. PICK s : s = IF pc[c] = "unlock" THEN "delete_token" ELSE "catch"
    OBVIOUS
  <2>2. /\ pc[c] \in {"unlock", "unlock_failed"} /\ Goto(c, s)
        /\ UNCHANGED <<topic, msg, request, rowVars, seatVars, moneyVars, faults>>
    BY <1>12, <2>1 DEF ReleaseLock, clientVars
  <2>3. Fits(x, s, n)'
    BY <1>5, <1>7, <2>1, <2>2
    DEF Fits, Money, Flow, Unpaid, Paying, Undoing, Open, Owns, rowVars, moneyVars, seatVars
  <2> QED
    BY <1>1, <1>2, <1>6, <1>7, <2>1, <2>2, <2>3, Goes
<1>13. CASE DeleteToken(c)
  <2>1. /\ pc[c] = "delete_token" /\ Goto(c, "publish_success")
        /\ UNCHANGED <<topic, msg, request, rowVars, seatVars, moneyVars, faults>>
    BY <1>13 DEF DeleteToken
  <2>2. Fits(x, "publish_success", n)'
    BY <1>5, <1>7, <2>1
    DEF Fits, Money, Flow, Unpaid, Paying, Undoing, Open, Owns, rowVars, moneyVars, seatVars
  <2> QED
    BY <1>1, <1>2, <1>6, <1>7, <2>1, <2>2, Goes
<1>14. CASE PublishPaymentSuccess(c)
  <2> DEFINE k == Msg("payment.success", x, 0)
  <2>1. k \in Message /\ k.tx = x /\ FirstStep(k.type) = "confirm"
    BY <1>3 DEF Msg, Message, Types, MaxRetry, FirstStep
  <2>2. Fits(x, FirstStep(k.type), k.n)
    BY <1>5, <1>14, <2>1 DEF PublishPaymentSuccess, Fits, Money, Flow, Unpaid, Paying, Undoing
  <2>3. /\ Publish(k) /\ Goto(c, "ack")
        /\ UNCHANGED <<msg, clientVars, rowVars, seatVars, moneyVars>>
    BY <1>2, <1>14 DEF PublishPaymentSuccess
  <2> QED
    BY <1>1, <1>2, <2>1, <2>2, <2>3, HandsOn
<1>15. CASE CatchPayment(c)
  <2>1. /\ pc[c] = "catch"
        /\ UNCHANGED <<topic, msg, request, seatVars, moneyVars, faults>>
        /\ \A t \in Txs \ {x} : status'[t] = status[t] /\ retryCount'[t] = retryCount[t]
    BY <1>1, <1>2, <1>15 DEF CatchPayment, clientVars, rowVars, TypeOK
  <2>2. \A t \in Txs \ {x} : Kept(t)
    BY <1>7, <2>1 DEF Kept, Owns, seatVars, moneyVars
  <2>3. used'[x] \in {0, 1} /\ refunded'[x] <= used'[x] /\ used[x] = 0 /\ ~Owns(x)
    BY <1>3, <1>5, <2>1, OwnerPaid DEF moneyVars, Carried, Money, Unpaid
  <2>4. CASE status[x] = "NONE"
    <3>1. Goto(c, "ack") /\ status'[x] = "NONE" /\ used'[x] = 0 /\ ~Owns(x)'
      BY <1>1, <1>2, <1>3, <1>15, <2>1, <2>3, <2>4
      DEF CatchPayment, rowVars, moneyVars, seatVars, Owns
    <3>2. Honest(x)' /\ ~Faultless'
      BY <1>5, <1>7, <2>1, <2>4, <3>1
      DEF Honest, Flow, Open, FaultsStay, Faultless, LossOnly, FaultKinds
    <3> QED
      BY <1>1, <1>2, <2>1, <2>2, <2>3, <3>1, <3>2, Goes
  <2>5. CASE status[x] # "NONE" /\ n < MaxRetry
    <3>1. /\ Goto(c, "publish_retry")
          /\ status'[x] = "RETRYING" /\ retryCount'[x] = n + 1
      BY <1>1, <1>2, <1>3, <1>15, <2>5 DEF CatchPayment, TypeOK, MaxRetry
    <3>2. Fits(x, "publish_retry", n)'
      BY <1>4, <1>5, <2>1, <2>3, <2>5, <3>1
      DEF Fits, Money, Flow, Unpaid, Paying, Undoing, Open, Owns, moneyVars, seatVars
    <3> QED
      BY <1>1, <1>2, <2>1, <2>2, <2>3, <3>1, <3>2, Goes
  <2>6. CASE status[x] # "NONE" /\ n = MaxRetry
    <3>1. Goto(c, "ack") /\ status'[x] = "FAILURE"
      BY <1>1, <1>2, <1>3, <1>15, <2>6 DEF CatchPayment, TypeOK, MaxRetry
    <3>2. Outcome(x)' /\ Honest(x)'
      BY <1>4, <2>1, <2>3, <3>1 DEF Outcome, Honest, Owns, moneyVars, seatVars
    <3> QED
      BY <1>1, <1>2, <2>1, <2>2, <2>3, <3>1, <3>2, Goes
  <2> QED
    BY <1>3, <2>4, <2>5, <2>6 DEF MaxRetry
<1>16. CASE PublishPaymentRetry(c)
  <2> DEFINE k == Msg("payment.retry", x, n + 1)
  <2>1. n < MaxRetry /\ pc[c] = "publish_retry"
    BY <1>5, <1>16 DEF PublishPaymentRetry, Flow
  <2>2. k \in Message /\ k.tx = x /\ k.n = n + 1 /\ FirstStep(k.type) = "lock"
    BY <1>3, <2>1 DEF Msg, Message, Types, MaxRetry, FirstStep
  <2>3. Fits(x, FirstStep(k.type), k.n)
    BY <1>5, <2>1, <2>2 DEF Fits, Money, Flow, Unpaid, Paying, Undoing
  <2>4. /\ Publish(k) /\ Goto(c, "ack")
        /\ UNCHANGED <<msg, clientVars, rowVars, seatVars, moneyVars>>
    BY <1>2, <1>16 DEF PublishPaymentRetry
  <2> QED
    BY <1>1, <1>2, <2>2, <2>3, <2>4, HandsOn
<1> QED
  BY <1>8, <1>9, <1>10, <1>11, <1>12, <1>13, <1>14, <1>15, <1>16 DEF Pay


\* The decision and its compensation.
LEMMA DecideStep ==
  ASSUME Inv, OwnersConfirmed, Benign', \A t \in Txs : Carried(t),
         NEW c \in Consumers, Decide(c)
  PROVE  \A t \in Txs : Carried(t)'
<1>1. pc[c] \notin {"idle", "ack"} /\ TypeOK
  BY DEF Inv, Decide, ConfirmReservation, UpdateRanking, PublishReservationFailure,
         SetCancel, PublishPaymentCancel, Refund
<1>2. PICK x, n : x = Tx(c) /\ n = msg[c].n
  OBVIOUS
<1>3. x \in Txs /\ n \in 0 .. MaxRetry /\ msg[c] \in Message
      /\ Resv(c) = ResvOf[x] /\ ResvOf[x] \in Reservations
  BY <1>1, <1>2, AtWork
<1>4. Money(x, pc[c]) /\ Flow(x, pc[c], n)
  BY <1>1, <1>2, <1>3 DEF Carried, InHands, Fits
<1>5. UNCHANGED faults => FaultsStay
  BY DEF FaultsStay, Faultless, LossOnly
<1> USE DEF PC
<1>6. CASE ConfirmReservation(c)
  <2>1. /\ pc[c] = "confirm"
        /\ UNCHANGED <<topic, msg, request, rowVars, moneyVars, faults>>
    BY <1>6 DEF ConfirmReservation, clientVars
  <2>2. used'[x] \in {0, 1} /\ refunded'[x] <= used'[x]
    BY <1>3, <2>1 DEF moneyVars, Carried
  <2>3. CASE resv[ResvOf[x]] = "PENDING"
    <3>1. /\ Goto(c, "rank")
          /\ resv' = [resv EXCEPT ![ResvOf[x]] = "CONFIRMED"]
          /\ owner' = [owner EXCEPT ![ResvOf[x]] = x]
      BY <1>2, <1>3, <1>6, <2>3 DEF ConfirmReservation
    <3>2. owner[ResvOf[x]] = NoTx
      BY <1>3, <2>3 DEF OwnersConfirmed
    <3>3. /\ \A r \in Reservations : owner'[r] = IF r = ResvOf[x] THEN x ELSE owner[r]
          /\ \A r \in Reservations : resv'[r] = IF r = ResvOf[x] THEN "CONFIRMED" ELSE resv[r]
      BY <1>1, <3>1 DEF TypeOK
    <3>4. ASSUME NEW t \in Txs \ {x} PROVE Kept(t)
      <4>1. ResvOf[t] \in Reservations /\ t # NoTx
        BY SagaAssumption
      <4> QED
        BY <1>5, <2>1, <3>2, <3>3, <4>1 DEF Kept, Owns, rowVars, moneyVars
    <3>5. Fits(x, "rank", n)'
      BY <1>3, <1>4, <1>5, <2>1, <3>3
      DEF Fits, Money, Flow, Unpaid, Paying, Undoing, Open, Owns, rowVars, moneyVars
    <3> QED
      BY <1>1, <1>2, <2>1, <2>2, <3>1, <3>4, <3>5, Goes
  <2>4. CASE resv[ResvOf[x]] # "PENDING"
    <3>1. Goto(c, "publish_failure") /\ UNCHANGED seatVars
      BY <1>3, <1>6, <2>4 DEF ConfirmReservation
    <3>2. \A t \in Txs : Kept(t)
      BY <1>5, <2>1, <3>1 DEF Kept, Owns, rowVars, moneyVars, seatVars
    <3>3. Fits(x, "publish_failure", n)'
      BY <1>4, <1>5, <2>1, <2>4, <3>1
      DEF Fits, Money, Flow, Unpaid, Paying, Undoing, Open, Owns, rowVars, moneyVars, seatVars
    <3> QED
      BY <1>1, <1>2, <2>1, <2>2, <3>1, <3>2, <3>3, Goes
  <2> QED
    BY <2>3, <2>4
<1>7. CASE UpdateRanking(c)
  <2>1. /\ pc[c] = "rank" /\ Goto(c, "ack")
        /\ UNCHANGED <<topic, msg, request, rowVars, seatVars, moneyVars, faults>>
    BY <1>7 DEF UpdateRanking, clientVars
  <2>2. /\ \A t \in Txs : Kept(t)
        /\ used'[x] \in {0, 1} /\ refunded'[x] <= used'[x]
    BY <1>3, <1>5, <2>1 DEF Kept, Owns, rowVars, moneyVars, seatVars, Carried
  <2>3. Outcome(x)' /\ Honest(x)'
    BY <1>4, <1>5, <2>1
    DEF Outcome, Honest, Money, Flow, Unpaid, Open, Owns, rowVars, moneyVars, seatVars
  <2> QED
    BY <1>1, <1>2, <2>1, <2>2, <2>3, Goes
<1>8. CASE PublishReservationFailure(c)
  <2> DEFINE k == Msg("reservation.failure", x, 0)
  <2>1. k \in Message /\ k.tx = x /\ FirstStep(k.type) = "set_cancel"
    BY <1>3 DEF Msg, Message, Types, MaxRetry, FirstStep
  <2>2. Fits(x, FirstStep(k.type), k.n)
    BY <1>4, <1>8, <2>1 DEF PublishReservationFailure, Fits, Money, Flow, Unpaid, Paying, Undoing
  <2>3. /\ Publish(k) /\ Goto(c, "ack")
        /\ UNCHANGED <<msg, clientVars, rowVars, seatVars, moneyVars>>
    BY <1>2, <1>8 DEF PublishReservationFailure
  <2> QED
    BY <1>1, <1>2, <2>1, <2>2, <2>3, HandsOn
<1>9. CASE SetCancel(c)
  <2>1. /\ pc[c] = "set_cancel"
        /\ UNCHANGED <<topic, msg, request, retryCount, seatVars, moneyVars, faults>>
        /\ \A t \in Txs \ {x} : status'[t] = status[t]
    BY <1>1, <1>2, <1>9 DEF SetCancel, clientVars, TypeOK
  <2>2. \A t \in Txs \ {x} : Kept(t)
    BY <1>5, <2>1 DEF Kept, Owns, seatVars, moneyVars
  <2>3. used'[x] \in {0, 1} /\ refunded'[x] <= used'[x]
    BY <1>3, <2>1 DEF moneyVars, Carried
  <2>4. Goto(c, "publish_cancel") /\ status'[x] = "CANCEL"
    BY <1>1, <1>2, <1>3, <1>4, <1>9, <2>1 DEF SetCancel, TypeOK, Flow, Open
  <2>5. Fits(x, "publish_cancel", n)'
    BY <1>4, <1>5, <2>1, <2>4
    DEF Fits, Money, Flow, Unpaid, Paying, Undoing, Owns, moneyVars, seatVars, FaultsStay
  <2> QED
    BY <1>1, <1>2, <2>1, <2>2, <2>3, <2>4, <2>5, Goes
<1>10. CASE PublishPaymentCancel(c)
  <2> DEFINE k == Msg("payment.cancel", x, 0)
  <2>1. k \in Message /\ k.tx = x /\ FirstStep(k.type) = "refund"
    BY <1>3 DEF Msg, Message, Types, MaxRetry, FirstStep
  <2>2. Fits(x, FirstStep(k.type), k.n)
    BY <1>4, <1>10, <2>1 DEF PublishPaymentCancel, Fits, Money, Flow, Unpaid, Paying, Undoing
  <2>3. /\ Publish(k) /\ Goto(c, "ack")
        /\ UNCHANGED <<msg, clientVars, rowVars, seatVars, moneyVars>>
    BY <1>2, <1>10 DEF PublishPaymentCancel
  <2> QED
    BY <1>1, <1>2, <2>1, <2>2, <2>3, HandsOn
<1>11. CASE Refund(c)
  <2>1. /\ pc[c] = "refund" /\ Goto(c, "ack")
        /\ UNCHANGED <<topic, msg, request, rowVars, seatVars, used, faults>>
        /\ \A t \in Txs : refunded'[t] = IF t = x THEN refunded[x] + 1 ELSE refunded[t]
    BY <1>1, <1>2, <1>11 DEF Refund, clientVars, TypeOK
  <2>2. \A t \in Txs \ {x} : Kept(t)
    BY <1>5, <2>1 DEF Kept, Owns, seatVars, rowVars
  <2>3. used'[x] = 1 /\ refunded'[x] = 1
    BY <1>3, <1>4, <2>1 DEF Money, Unpaid
  <2>4. Outcome(x)' /\ Honest(x)'
    BY <1>4, <1>5, <2>1, <2>3 DEF Outcome, Honest, Flow, Undoing, Owns, rowVars, seatVars
  <2>5. used'[x] \in {0, 1} /\ refunded'[x] <= used'[x]
    BY <2>3
  <2> QED
    BY <1>1, <1>2, <2>1, <2>2, <2>4, <2>5, Goes
<1> QED
  BY <1>6, <1>7, <1>8, <1>9, <1>10, <1>11 DEF Decide

\* A transaction that fails rolls back: the handler goes on as if it had thrown.
LEMMA BreakStep ==
  ASSUME Inv, Benign', \A t \in Txs : Carried(t), NEW c \in Consumers, Break(c)
  PROVE  \A t \in Txs : Carried(t)'
<1>1. TypeOK
  BY DEF Inv
<1>2. /\ ~Fault("crash") /\ ~Fault("rebalance") /\ ~Fault("redis")
      /\ Fault("db") => ~Faultless' /\ ~LossOnly' /\ FaultsStay
  BY <1>1, FaultCounts DEF FaultKinds, FaultsStay
<1>3. /\ Fault("db")
      /\ UNCHANGED <<topic, msg, request, rowVars, seatVars, moneyVars>>
      /\ \/ pc[c] \in {"find", "create"} /\ Goto(c, "catch")
         \/ pc[c] = "use" /\ Goto(c, "unlock_failed")
         \/ pc[c] = "confirm" /\ Goto(c, "publish_failure")
         \/ pc[c] \in {"catch", "set_cancel", "refund"} /\ Goto(c, "ack")
  BY <1>2 DEF Break, Crash, Rebalance, PaymentRedisFails, LockReplyLost,
              PaymentDbFails, RankingFails,
              ConfirmDbFails, CompensationDbFails, clientVars
<1>4. PICK x, n : x = Tx(c) /\ n = msg[c].n
  OBVIOUS
<1>5. pc[c] \notin {"idle", "ack"}
  BY <1>3
<1>6. x \in Txs
  BY <1>1, <1>4, <1>5, AtWork
<1>7. Money(x, pc[c]) /\ Flow(x, pc[c], n) /\ Honest(x)
  <2>1. Fits(x, pc[c], n) /\ pc[c] \in Unpaid \cup Paying \cup Undoing
    BY <1>3, <1>4, <1>5, <1>6 DEF Carried, InHands, Unpaid, Paying, Undoing
  <2> QED
    BY <2>1, FitsHonest DEF Fits
<1>8. /\ \A t \in Txs : Kept(t)
      /\ used'[x] \in {0, 1} /\ refunded'[x] <= used'[x] /\ ~Faultless' /\ ~LossOnly'
  BY <1>2, <1>3, <1>6 DEF Kept, Owns, rowVars, moneyVars, seatVars, Carried
<1>9. PICK s \in {"catch", "unlock_failed", "publish_failure", "ack"} :
        /\ Goto(c, s)
        /\ \/ s = "ack"
           \/ s = "catch" /\ pc[c] \in {"find", "create"}
           \/ s = "unlock_failed" /\ pc[c] = "use"
           \/ s = "publish_failure" /\ pc[c] = "confirm"
  BY <1>3
<1>10. s # "ack" => Fits(x, s, n)'
  BY <1>3, <1>6, <1>7, <1>8, <1>9
  DEF Kept, Fits, Money, Flow, Open, Unpaid, Paying, Undoing
<1>11. Honest(x)'
  BY <1>6, <1>7, <1>8, KeptFacts
<1> QED
  BY <1>1, <1>3, <1>4, <1>5, <1>8, <1>9, <1>10, <1>11, Goes DEF PC

\* Clocks and acknowledgements carry nothing.
LEMMA QuietStep ==
  ASSUME TypeOK, \A t \in Txs : Carried(t),
         UNCHANGED <<request, rowVars, moneyVars, owner, topic, faults>>,
         \A r \in Reservations : resv[r] # "PENDING" => resv'[r] # "PENDING",
         \A d \in Consumers : \/ pc'[d] = pc[d] /\ msg'[d] = msg[d]
                              \/ pc[d] = "ack" /\ pc'[d] = "idle"
  PROVE  \A t \in Txs : Carried(t)'
<1> SUFFICES ASSUME NEW t \in Txs PROVE Carried(t)'
  OBVIOUS
<1>1. Kept(t)
  BY SagaAssumption DEF Kept, Owns, rowVars, moneyVars, FaultsStay, Faultless, LossOnly
<1>2. InTopic(t)' = InTopic(t) /\ \A m \in InTopic(t) : topic'[m] = topic[m]
  BY DEF InTopic
<1>3. \A d \in Consumers : d \in InHands(t)' <=> d \in InHands(t)
  BY DEF InHands, Tx
<1>4. InHands(t)' = InHands(t) /\ \A d \in InHands(t) : pc'[d] = pc[d] /\ msg'[d] = msg[d]
  BY <1>3 DEF InHands
<1> QED
  BY <1>1, <1>2, <1>4, Elsewhere

\* Who may touch a seat row.
LEMMA SeatWriters ==
  ASSUME TypeOK, [Next]_vars
  PROVE  \/ UNCHANGED seatVars
         \/ \E c \in Consumers : ConfirmReservation(c)
         \/ \E r \in Reservations : ReservationExpires(r)
<1>1. ASSUME NEW c \in Consumers, Pay(c) PROVE UNCHANGED seatVars
  BY <1>1 DEF Pay, FindTransaction, CreateTransaction, AcquireLock, UsePoint, ReleaseLock,
     DeleteToken, PublishPaymentSuccess, CatchPayment, PublishPaymentRetry
<1>2. ASSUME NEW c \in Consumers, Decide(c), ~ConfirmReservation(c) PROVE UNCHANGED seatVars
  BY <1>2 DEF Decide, UpdateRanking, PublishReservationFailure, SetCancel,
     PublishPaymentCancel, Refund
<1>3. ASSUME NEW c \in Consumers, Break(c) PROVE UNCHANGED seatVars
  BY <1>3 DEF Break, Crash, Rebalance, PaymentRedisFails, LockReplyLost,
              PaymentDbFails, RankingFails,
     ConfirmDbFails, CompensationDbFails
<1>4. ASSUME \/ \E t \in Txs : RequestPayment(t)
             \/ \E r \in Reservations : TokenExpires(r)
             \/ \E u \in Users : LockExpires(u)
             \/ \E c \in Consumers : Ack(c)
             \/ \E c \in Consumers, m \in Message : Take(c, m)
             \/ UNCHANGED vars
      PROVE  UNCHANGED seatVars
  BY <1>4 DEF RequestPayment, TokenExpires, LockExpires, Ack, Take, vars, seatVars
<1> QED
  BY <1>1, <1>2, <1>3, <1>4 DEF Next

\* Either a step is free of faults or it counts one.
LEMMA FaultsCounted ==
  ASSUME [Next]_vars
  PROVE  UNCHANGED faults \/ \E kind \in FaultKinds : Fault(kind)
<1>1. \A m : Publish(m) => UNCHANGED faults \/ \E kind \in FaultKinds : Fault(kind)
  BY DEF Publish, NoFault, FaultKinds
<1>2. ASSUME NEW c \in Consumers, Pay(c) \/ Decide(c)
      PROVE  UNCHANGED faults \/ \E kind \in FaultKinds : Fault(kind)
  BY <1>1, <1>2 DEF Pay, Decide, FindTransaction, CreateTransaction, AcquireLock, UsePoint,
     ReleaseLock, DeleteToken, PublishPaymentSuccess, CatchPayment, PublishPaymentRetry,
     ConfirmReservation, UpdateRanking, PublishReservationFailure, SetCancel,
     PublishPaymentCancel, Refund
<1>3. ASSUME NEW c \in Consumers, Break(c) PROVE \E kind \in FaultKinds : Fault(kind)
  BY <1>3 DEF Break, Crash, Rebalance, PaymentRedisFails, LockReplyLost,
              PaymentDbFails, RankingFails,
     ConfirmDbFails, CompensationDbFails, FaultKinds
<1>4. ASSUME NEW t \in Txs, RequestPayment(t)
      PROVE  UNCHANGED faults \/ \E kind \in FaultKinds : Fault(kind)
  BY <1>1, <1>4 DEF RequestPayment, NoFault
<1>5. ASSUME \/ \E r \in Reservations : TokenExpires(r) \/ ReservationExpires(r)
             \/ \E u \in Users : LockExpires(u)
             \/ \E c \in Consumers : Ack(c)
             \/ \E c \in Consumers, m \in Message : Take(c, m)
             \/ UNCHANGED vars
      PROVE  UNCHANGED faults
  BY <1>5 DEF TokenExpires, ReservationExpires, LockExpires, Ack, Take, vars
<1> QED
  BY <1>2, <1>3, <1>4, <1>5 DEF Next

LEMMA OwnersStep ==
  ASSUME TypeOK, OwnersConfirmed, [Next]_vars
  PROVE  OwnersConfirmed'
<1>1. CASE UNCHANGED seatVars
  BY <1>1 DEF seatVars, OwnersConfirmed
<1>2. ASSUME NEW c \in Consumers, ConfirmReservation(c) PROVE OwnersConfirmed'
  <2>1. \A r \in Reservations :
          \/ owner'[r] = owner[r] /\ resv'[r] = resv[r]
          \/ resv'[r] = "CONFIRMED"
    BY <1>2 DEF ConfirmReservation, TypeOK, seatVars
  <2> QED
    BY <2>1 DEF OwnersConfirmed
<1>3. ASSUME NEW r \in Reservations, ReservationExpires(r) PROVE OwnersConfirmed'
  BY <1>3 DEF ReservationExpires, TypeOK, OwnersConfirmed
<1> QED
  BY <1>1, <1>2, <1>3, SeatWriters

LEMMA InitSagaInv == Init => SagaInv
<1> SUFFICES ASSUME Init PROVE OwnersConfirmed /\ \A t \in Txs : Carried(t)
  BY DEF SagaInv
<1>1. OwnersConfirmed
  BY DEF Init, OwnersConfirmed
<1>2. ASSUME NEW t \in Txs PROVE Carried(t)
  <2>1. InTopic(t) = {} /\ InHands(t) = {}
    BY DEF Init, InTopic, InHands
  <2>2. used[t] = 0 /\ refunded[t] = 0 /\ request[t] = "new" /\ status[t] = "NONE"
        /\ retryCount[t] = 0 /\ ~Owns(t)
    BY SagaAssumption DEF Init, Owns
  <2> QED
    BY <2>1, <2>2 DEF Carried, Solo
<1> QED
  BY <1>1, <1>2

LEMMA BenignBefore == TypeOK /\ [Next]_vars /\ Benign' => Benign
BY FaultsCounted, FaultCounts DEF Benign

LEMMA NextSagaInv ==
  ASSUME Inv, SagaInv, [Next]_vars
  PROVE  SagaInv'
<1>1. TypeOK /\ OwnersConfirmed /\ OwnersConfirmed'
  BY OwnersStep DEF Inv, SagaInv
<1> SUFFICES ASSUME Benign' PROVE \A t \in Txs : Carried(t)'
  BY <1>1 DEF SagaInv
<1>2. Benign /\ \A t \in Txs : Carried(t)
  BY <1>1, BenignBefore DEF SagaInv
<1>3. CASE \E t \in Txs : RequestPayment(t)
  BY <1>1, <1>2, <1>3, Requests
<1>4. CASE \E r \in Reservations : TokenExpires(r)
  BY <1>1, <1>2, <1>4, QuietStep DEF TokenExpires, seatVars
<1>5. CASE \E r \in Reservations : ReservationExpires(r)
  <2>1. \A r \in Reservations : resv[r] # "PENDING" => resv'[r] # "PENDING"
    BY <1>1, <1>5 DEF ReservationExpires, TypeOK
  <2> QED
    BY <1>1, <1>2, <1>5, <2>1, QuietStep DEF ReservationExpires, clientVars
<1>6. CASE \E u \in Users : LockExpires(u)
  BY <1>1, <1>2, <1>6, QuietStep DEF LockExpires, clientVars, seatVars
<1>7. CASE \E c \in Consumers : Pay(c)
  BY <1>1, <1>2, <1>7, PayStep
<1>8. CASE \E c \in Consumers : Decide(c)
  BY <1>1, <1>2, <1>8, DecideStep
<1>9. CASE \E c \in Consumers : Ack(c)
  <2>1. \A d \in Consumers : \/ pc'[d] = pc[d] /\ msg'[d] = msg[d]
                             \/ pc[d] = "ack" /\ pc'[d] = "idle"
    BY <1>1, <1>9 DEF Ack, Goto, TypeOK
  <2> QED
    BY <1>1, <1>2, <1>9, <2>1, QuietStep DEF Ack, clientVars, seatVars
<1>10. CASE \E c \in Consumers : Break(c)
  BY <1>1, <1>2, <1>10, BreakStep
<1>11. CASE \E c \in Consumers, m \in Message : Take(c, m)
  BY <1>1, <1>2, <1>11, Takes
<1>12. CASE UNCHANGED vars
  BY <1>1, <1>2, <1>12, QuietStep DEF vars, rowVars, moneyVars
<1> QED
  BY <1>3, <1>4, <1>5, <1>6, <1>7, <1>8, <1>9, <1>10, <1>11, <1>12 DEF Next

LEMMA SagaInvariance == Spec => [](Inv /\ SagaInv)
BY Invariance, InitSagaInv, NextSagaInv, PTL DEF Spec

-----------------------------------------------------------------------------
(* Messages get lost, transactions fail                                    *)

\* As long as only messages get lost and transactions fail, a payment has one
\* carrier, which charges it and gives back once (executePayment, cancelPayment).
THEOREM ChargedOnce == Spec => []LossNeverChargesTwice
<1>1. Inv /\ SagaInv => LossNeverChargesTwice
  <2> SUFFICES ASSUME Inv, SagaInv, Benign, NEW t \in Txs
               PROVE  used[t] <= 1 /\ refunded[t] <= used[t]
    BY DEF LossNeverChargesTwice, ChargedAtMostOnce
  <2> QED
    BY DEF SagaInv, Carried
<1> QED
  BY SagaInvariance, <1>1, PTL

\* What a handler knows of the payment in its hands.
LEMMA InHand ==
  ASSUME TypeOK, \A t \in Txs : Carried(t),
         NEW c \in Consumers, pc[c] \notin {"idle", "ack"}
  PROVE  /\ Tx(c) \in Txs
         /\ Money(Tx(c), pc[c])
         /\ Flow(Tx(c), pc[c], msg[c].n)
         /\ pc[c] \in Unpaid \cup Paying \cup {"rank"} \cup Undoing
<1>1. pc[c] \in Unpaid \cup Paying \cup {"rank"} \cup Undoing
  BY DEF TypeOK, PC, Unpaid, Paying, Undoing
<1> QED
  BY <1>1, AtWork DEF Carried, InHands, Fits

\* The carrier of a payment that has one.
LEMMA CarrierFits ==
  ASSUME TypeOK, NEW t \in Txs, Carried(t), InTopic(t) # {} \/ InHands(t) # {}
  PROVE  \E state \in Unpaid \cup Paying \cup {"rank"} \cup Undoing, n \in 0 .. MaxRetry :
           Fits(t, state, n)
<1>1. CASE InTopic(t) # {}
  <2> PICK m \in InTopic(t) : TRUE
    BY <1>1
  <2>1. FirstStep(m.type) \in {"find", "lock", "confirm", "refund", "set_cancel"}
        /\ m.n \in 0 .. MaxRetry
    BY DEF InTopic, Message, Types, FirstStep
  <2> QED
    BY <2>1 DEF Carried, Unpaid, Paying, Undoing
<1>2. CASE InHands(t) # {}
  <2> PICK c \in InHands(t) : TRUE
    BY <1>2
  <2>1. pc[c] \in Unpaid \cup Paying \cup {"rank"} \cup Undoing
    BY DEF InHands, TypeOK, PC, Unpaid, Paying, Undoing
  <2>2. msg[c].n \in 0 .. MaxRetry
    BY AtWork DEF InHands
  <2> QED
    BY <2>1, <2>2 DEF Carried
<1> QED
  BY <1>1, <1>2

LEMMA AlwaysHonest ==
  ASSUME TypeOK, NEW t \in Txs, Carried(t)
  PROVE  Honest(t)
<1>1. CASE request[t] # "accepted"
  BY <1>1 DEF Carried, Honest
<1>2. CASE InTopic(t) # {} \/ InHands(t) # {}
  BY <1>2, CarrierFits, FitsHonest
<1>3. CASE request[t] = "accepted" /\ InTopic(t) = {} /\ InHands(t) = {}
  BY <1>3 DEF Carried
<1> QED
  BY <1>1, <1>2, <1>3

\* Wherever a message gets lost or a transaction fails, in the middle of a charge,
\* an assignment or a compensation: the seat goes with the money, and neither
\* FAILURE nor CANCEL hides a charge or a seat.
THEOREM LossHonest == Spec => []LossNeverMisleads
<1>1. Inv /\ SagaInv => LossNeverMisleads
  BY AlwaysHonest DEF Inv, SagaInv, LossNeverMisleads
<1> QED
  BY SagaInvariance, <1>1, PTL

\* The clients' view of it: every seat that is sold was paid for by the one payment
\* that owns it, which is not paid back.
THEOREM SoldSeatsArePaid == Spec => [](Benign => Sale!OneBuyer)
<1>1. ASSUME Inv, SagaInv, Benign PROVE Sale!OneBuyer
  <2>1. \A t \in Txs : ResvOf[t] \in Reservations /\ t # NoTx
    BY SagaAssumption
  <2>2. \A t \in Txs : Owns(t) => Taken(t) /\ resv[ResvOf[t]] = "CONFIRMED"
    BY <1>1, <2>1, AlwaysHonest DEF Inv, SagaInv, OwnersConfirmed, Honest, Taken, Owns
  <2>3. \A r \in Reservations : resv[r] = "CONFIRMED" =>
          owner[r] \in Txs /\ ResvOf[owner[r]] = r /\ Owns(owner[r])
    BY <1>1 DEF Inv, NoFreeSeat, Owns
  <2>4. \A t, u \in Txs : Owns(t) /\ Owns(u) /\ ResvOf[t] = ResvOf[u] => t = u
    BY DEF Owns
  <2> QED
    BY <2>1, <2>2, <2>3, <2>4 DEF Sale!OneBuyer
<1> QED
  BY SagaInvariance, <1>1, PTL

\* Who may touch a row of payment_transactions, and who a user's money.
LEMMA RowAndMoneyWriters ==
  ASSUME [Next]_vars
  PROVE  /\ \/ UNCHANGED rowVars
            \/ \E c \in Consumers : CreateTransaction(c) \/ CatchPayment(c) \/ SetCancel(c)
         /\ \/ UNCHANGED <<used, refunded>>
            \/ \E c \in Consumers : UsePoint(c) \/ Refund(c)
<1>1. ASSUME NEW c \in Consumers, FindTransaction(c) \/ AcquireLock(c) \/ ReleaseLock(c)
                \/ DeleteToken(c) \/ PublishPaymentSuccess(c) \/ PublishPaymentRetry(c)
      PROVE  UNCHANGED <<rowVars, moneyVars>>
  BY <1>1 DEF FindTransaction, AcquireLock, ReleaseLock, DeleteToken,
     PublishPaymentSuccess, PublishPaymentRetry
<1>2. ASSUME NEW c \in Consumers, ConfirmReservation(c) \/ UpdateRanking(c)
                \/ PublishReservationFailure(c) \/ PublishPaymentCancel(c)
      PROVE  UNCHANGED <<rowVars, moneyVars>>
  BY <1>2 DEF ConfirmReservation, UpdateRanking, PublishReservationFailure, PublishPaymentCancel
<1>3. ASSUME NEW c \in Consumers, Break(c) PROVE UNCHANGED <<rowVars, moneyVars>>
  BY <1>3 DEF Break, Crash, Rebalance, PaymentRedisFails, LockReplyLost,
              PaymentDbFails, RankingFails,
     ConfirmDbFails, CompensationDbFails
<1>4. ASSUME NEW c \in Consumers
      PROVE  /\ CreateTransaction(c) \/ CatchPayment(c) \/ SetCancel(c) => UNCHANGED moneyVars
             /\ UsePoint(c) \/ Refund(c) => UNCHANGED rowVars
  BY DEF CreateTransaction, CatchPayment, SetCancel, UsePoint, Refund
<1>5. ASSUME \/ \E t \in Txs : RequestPayment(t)
             \/ \E r \in Reservations : TokenExpires(r) \/ ReservationExpires(r)
             \/ \E u \in Users : LockExpires(u)
             \/ \E c \in Consumers : Ack(c)
             \/ \E c \in Consumers, m \in Message : Take(c, m)
             \/ UNCHANGED vars
      PROVE  UNCHANGED <<rowVars, moneyVars>>
  BY <1>5 DEF RequestPayment, TokenExpires, ReservationExpires, LockExpires, Ack, Take, vars,
     rowVars, moneyVars
<1> QED
  BY <1>1, <1>2, <1>3, <1>4, <1>5 DEF Next, Pay, Decide, moneyVars

\* FAILURE and CANCEL are final and retries count one by one (onPaymentRetry,
\* publishPaymentCancel), whatever was lost or rolled back.
THEOREM StatusesInOrder == Spec => StatusOrder
<1>1. ASSUME Inv, SagaInv, [Next]_vars, Benign', NEW t \in Txs
      PROVE  /\ status[t] \in {"FAILURE", "CANCEL"} => status'[t] = status[t]
             /\ retryCount'[t] \in {retryCount[t], retryCount[t] + 1}
  <2>1. TypeOK /\ \A x \in Txs : Carried(x)
    BY <1>1, BenignBefore DEF Inv, SagaInv
  <2>2. CASE UNCHANGED rowVars
    BY <2>2 DEF rowVars
  <2>3. ASSUME NEW c \in Consumers, CreateTransaction(c) \/ CatchPayment(c) \/ SetCancel(c)
        PROVE  /\ status[t] \in {"FAILURE", "CANCEL"} => status'[t] = status[t]
               /\ retryCount'[t] \in {retryCount[t], retryCount[t] + 1}
    <3>1. pc[c] \in {"create", "catch", "set_cancel"}
      BY <2>3 DEF CreateTransaction, CatchPayment, SetCancel
    <3>2. /\ status[Tx(c)] \notin {"FAILURE", "CANCEL"}
          /\ pc[c] = "catch" => retryCount[Tx(c)] = msg[c].n
      BY <2>1, <3>1, InHand DEF Flow, Open
    <3>3. CASE t = Tx(c)
      BY <2>1, <2>3, <3>2, <3>3
      DEF CreateTransaction, CatchPayment, SetCancel, TypeOK, rowVars
    <3>4. CASE t # Tx(c)
      BY <2>1, <2>3, <3>4
      DEF CreateTransaction, CatchPayment, SetCancel, TypeOK, rowVars
    <3> QED
      BY <3>3, <3>4
  <2> QED
    BY <1>1, <2>2, <2>3, RowAndMoneyWriters
<1>2. Inv /\ SagaInv /\ [Next]_vars =>
        [Benign' => \A t \in Txs :
           /\ status[t] \in {"FAILURE", "CANCEL"} => status'[t] = status[t]
           /\ retryCount'[t] \in {retryCount[t], retryCount[t] + 1}]_vars
  BY <1>1
<1> QED
  BY SagaInvariance, <1>2, PTL DEF Spec, StatusOrder

-----------------------------------------------------------------------------
(* Without faults                                                          *)

\* The budgets allow these faults only.
AtMost(kinds) == \A B \in Budgets : \A k \in FaultKinds \ kinds : B[k] = 0

FaultFree == AtMost({})

LEMMA WithinBudget ==
  ASSUME NEW kinds, AtMost(kinds), TypeOK, [Next]_vars,
         \A k \in FaultKinds \ kinds : faults[k] = 0
  PROVE  \A k \in FaultKinds \ kinds : faults'[k] = 0
<1>1. ASSUME NEW kind \in FaultKinds, Fault(kind)
      PROVE  \A k \in FaultKinds \ kinds : faults'[k] = 0
  <2>1. PICK B \in Budgets : \A k \in FaultKinds : faults'[k] <= B[k]
    BY <1>1 DEF Fault
  <2>2. \A k \in FaultKinds : faults'[k] \in Nat
    BY <1>1, FaultType
  <2> QED
    BY <2>1, <2>2 DEF AtMost
<1> QED
  BY <1>1, FaultsCounted

LEMMA Undisturbed ==
  ASSUME FaultFree
  PROVE  Spec => [](Inv /\ SagaInv /\ Faultless /\ \A t \in Txs : Carried(t))
<1>1. Init => Faultless
  BY DEF Init, Faultless
<1>2. Inv /\ Faultless /\ [Next]_vars => Faultless'
  BY WithinBudget DEF Inv, FaultFree, Faultless
<1>3. SagaInv /\ Faultless => \A t \in Txs : Carried(t)
  BY DEF SagaInv, Benign, Faultless
<1> QED
  BY SagaInvariance, <1>1, <1>2, <1>3, PTL DEF Spec

\* What is settled has no carrier.
LEMMA SettledOutcome ==
  ASSUME TypeOK, Faultless, NEW t \in Txs, Carried(t), Settled(t)
  PROVE  Outcome(t)
<1>1. InTopic(t) = {} /\ InHands(t) = {}
  BY DEF Settled, InTopic, InHands, TypeOK
<1> QED
  BY <1>1 DEF Carried, Settled

\* Without faults the shop has the money of exactly the payments that own a seat,
\* once nothing is on its way (executePayment, confirmReservation, cancelPayment).
THEOREM PaidForSeats ==
  ASSUME FaultFree PROVE Spec => []PaidIffOwned
<1>1. Inv /\ Faultless /\ (\A t \in Txs : Carried(t)) => PaidIffOwned
  BY SettledOutcome DEF Inv, PaidIffOwned, Outcome
<1> QED
  BY Undisturbed, <1>1, PTL

\* Without faults FAILURE and CANCEL are told to those who did not get the seat,
\* and to nobody else.
THEOREM LosersHear ==
  ASSUME FaultFree PROVE Spec => []LosersAreTold
<1>1. Inv /\ Faultless /\ (\A t \in Txs : Carried(t)) => LosersAreTold
  BY SettledOutcome DEF Inv, LosersAreTold, Outcome, Open
<1> QED
  BY Undisturbed, <1>1, PTL

\* No accepted payment is left behind: until it has ended properly a message or a
\* handler carries it (the safety half of PaymentConcludes).
THEOREM NeverStranded ==
  ASSUME FaultFree
  PROVE  Spec => [](\A t \in Txs : request[t] = "accepted" =>
                      InTopic(t) # {} \/ InHands(t) # {} \/ Outcome(t))
<1>1. Faultless /\ (\A t \in Txs : Carried(t)) =>
        \A t \in Txs : request[t] = "accepted" =>
          InTopic(t) # {} \/ InHands(t) # {} \/ Outcome(t)
  BY DEF Carried
<1> QED
  BY Undisturbed, <1>1, PTL

-----------------------------------------------------------------------------
(* How far a payment is from its end                                       *)

\* How many steps, its own and its successors', a handler in a control state can
\* still cause; every retry that is left costs another fifteen.
StepsLeft(state, n) ==
  (CASE state = "find"            -> 15
     [] state = "create"          -> 14
     [] state = "lock"            -> 13
     [] state = "use"             -> 12
     [] state = "unlock"          -> 11
     [] state = "delete_token"    -> 10
     [] state = "publish_success" -> 9
     [] state = "confirm"         -> 7
     [] state = "publish_failure" -> 6
     [] state = "set_cancel"      -> 4
     [] state = "publish_cancel"  -> 3
     [] state = "unlock_failed"   -> 2
     [] state \in {"catch", "refund", "rank"} -> 1
     [] OTHER -> 0)
  + (IF state \in Unpaid THEN 15 * (MaxRetry - n) ELSE 0)

\* At most k steps are left to payment t, wherever its carrier is.
Within(t, k) ==
  /\ \A m \in InTopic(t) : StepsLeft(FirstStep(m.type), m.n) + 1 <= k
  /\ \A c \in InHands(t) : StepsLeft(pc[c], msg[c].n) <= k

\* A handler works on t, or a consumer takes a message about it.
Advances(t) ==
  \/ \E c \in Consumers : pc[c] # "idle" /\ Tx(c) = t /\ (Pay(c) \/ Decide(c))
  \/ \E c \in Consumers, m \in Message : m.tx = t /\ Take(c, m)

\* A payment none of whose carriers moves keeps its distance.
LEMMA WithinElsewhere ==
  ASSUME NEW t, NEW k, Within(t, k),
         InTopic(t)' \subseteq InTopic(t), InHands(t)' \subseteq InHands(t),
         \A c \in InHands(t)' : pc'[c] = pc[c] /\ msg'[c] = msg[c]
  PROVE  Within(t, k)'
BY DEF Within

LEMMA StepsLeftType ==
  ASSUME NEW state, NEW n \in 0 .. MaxRetry
  PROVE  StepsLeft(state, n) \in Nat
BY DEF StepsLeft, MaxRetry

\* What a handler does: it goes on, ends, or publishes and ends; each is one step.
LEMMA HandlerStep ==
  ASSUME Inv, \A t \in Txs : Carried(t), Benign',
         NEW c \in Consumers, Pay(c) \/ Decide(c) \/ Break(c),
         NEW n, n = msg[c].n, NEW x, x = Tx(c)
  PROVE  /\ pc[c] \notin {"idle", "ack"} /\ msg' = msg /\ x \in Txs
         /\ \/ \E s \in PC :
                 /\ Goto(c, s) /\ topic' = topic
                 /\ s # "ack" => StepsLeft(s, n) + 1 <= StepsLeft(pc[c], n)
            \/ \E m \in Message :
                 /\ m.tx = x /\ Publish(m) /\ Goto(c, "ack")
                 /\ StepsLeft(FirstStep(m.type), m.n) + 2 <= StepsLeft(pc[c], n)
<1> USE DEF PC, StepsLeft, Unpaid, MaxRetry
<1>1. TypeOK
  BY DEF Inv
<1>2. ~Fault("crash") /\ ~Fault("rebalance") /\ ~Fault("redis")
  BY <1>1, FaultCounts DEF FaultKinds
<1>3. pc[c] \notin {"idle", "ack"} /\ msg' = msg
  BY <1>2
  DEF Pay, FindTransaction, CreateTransaction, AcquireLock, UsePoint, ReleaseLock, DeleteToken,
      PublishPaymentSuccess, CatchPayment, PublishPaymentRetry, Decide, ConfirmReservation,
      UpdateRanking, PublishReservationFailure, SetCancel, PublishPaymentCancel, Refund, Break,
      Crash, Rebalance, PaymentRedisFails, LockReplyLost,
      PaymentDbFails, RankingFails, ConfirmDbFails,
      CompensationDbFails
<1>4. x \in Txs /\ n \in 0 .. MaxRetry /\ (pc[c] = "publish_retry" => n < MaxRetry)
  BY <1>1, <1>3, AtWork, InHand DEF Flow
<1>5. CASE \/ FindTransaction(c) \/ CreateTransaction(c) \/ AcquireLock(c) \/ UsePoint(c)
           \/ ReleaseLock(c) \/ DeleteToken(c) \/ CatchPayment(c)
  <2>1. PICK s \in PC : Goto(c, s) /\ topic' = topic
          /\ \/ pc[c] = "find" /\ s \in {"create", "ack"}
             \/ pc[c] = "create" /\ s \in {"lock", "catch"}
             \/ pc[c] = "lock" /\ s \in {"use", "catch"}
             \/ pc[c] = "use" /\ s \in {"unlock", "unlock_failed"}
             \/ pc[c] = "unlock" /\ s = "delete_token"
             \/ pc[c] = "unlock_failed" /\ s = "catch"
             \/ pc[c] = "delete_token" /\ s = "publish_success"
             \/ pc[c] = "catch" /\ s \in {"ack", "publish_retry"}
    BY <1>5 DEF FindTransaction, CreateTransaction, AcquireLock, UsePoint, ReleaseLock,
                DeleteToken, CatchPayment
  <2>2. s # "ack" => StepsLeft(s, n) + 1 <= StepsLeft(pc[c], n)
    BY <1>4, <2>1
  <2> QED
    BY <1>3, <1>4, <2>1, <2>2
<1>6. CASE ConfirmReservation(c) \/ UpdateRanking(c) \/ SetCancel(c) \/ Refund(c)
  <2>1. PICK s \in PC : Goto(c, s) /\ topic' = topic
          /\ \/ pc[c] = "confirm" /\ s \in {"rank", "publish_failure"}
             \/ pc[c] = "rank" /\ s = "ack"
             \/ pc[c] = "set_cancel" /\ s \in {"ack", "publish_cancel"}
             \/ pc[c] = "refund" /\ s = "ack"
    BY <1>6 DEF ConfirmReservation, UpdateRanking, SetCancel, Refund
  <2>2. s # "ack" => StepsLeft(s, n) + 1 <= StepsLeft(pc[c], n)
    BY <1>4, <2>1
  <2> QED
    BY <1>3, <1>4, <2>1, <2>2
<1>7. CASE Break(c)
  <2>1. PICK s \in PC : Goto(c, s) /\ topic' = topic
          /\ \/ pc[c] \in {"find", "create"} /\ s = "catch"
             \/ pc[c] = "use" /\ s = "unlock_failed"
             \/ pc[c] = "confirm" /\ s = "publish_failure"
             \/ pc[c] \in {"catch", "set_cancel", "refund"} /\ s = "ack"
    BY <1>2, <1>7 DEF Break, Crash, Rebalance, PaymentRedisFails, LockReplyLost,
                      PaymentDbFails,
                      RankingFails, ConfirmDbFails, CompensationDbFails
  <2>2. s # "ack" => StepsLeft(s, n) + 1 <= StepsLeft(pc[c], n)
    BY <1>4, <2>1
  <2> QED
    BY <1>3, <1>4, <2>1, <2>2
<1>8. CASE PublishPaymentSuccess(c)
  <2> DEFINE m == Msg("payment.success", x, 0)
  <2>1. m \in Message /\ m.tx = x /\ m.n = 0 /\ FirstStep(m.type) = "confirm"
    BY <1>4 DEF Msg, Message, Types, FirstStep
  <2>2. Publish(m) /\ Goto(c, "ack") /\ pc[c] = "publish_success"
    BY <1>8 DEF PublishPaymentSuccess
  <2>3. StepsLeft(FirstStep(m.type), m.n) + 2 <= StepsLeft(pc[c], n)
    BY <1>4, <2>1, <2>2
  <2> QED
    BY <1>3, <1>4, <2>1, <2>2, <2>3
<1>9. CASE PublishPaymentRetry(c)
  <2> DEFINE m == Msg("payment.retry", x, n + 1)
  <2>1. Publish(m) /\ Goto(c, "ack") /\ pc[c] = "publish_retry"
    BY <1>9 DEF PublishPaymentRetry
  <2>2. m \in Message /\ m.tx = x /\ m.n = n + 1 /\ FirstStep(m.type) = "lock"
    BY <1>4, <2>1 DEF Msg, Message, Types, FirstStep
  <2>3. StepsLeft(FirstStep(m.type), m.n) + 2 <= StepsLeft(pc[c], n)
    BY <1>4, <2>1, <2>2
  <2> QED
    BY <1>3, <1>4, <2>1, <2>2, <2>3
<1>10. CASE PublishReservationFailure(c)
  <2> DEFINE m == Msg("reservation.failure", x, 0)
  <2>1. m \in Message /\ m.tx = x /\ m.n = 0 /\ FirstStep(m.type) = "set_cancel"
    BY <1>4 DEF Msg, Message, Types, FirstStep
  <2>2. Publish(m) /\ Goto(c, "ack") /\ pc[c] = "publish_failure"
    BY <1>10 DEF PublishReservationFailure
  <2>3. StepsLeft(FirstStep(m.type), m.n) + 2 <= StepsLeft(pc[c], n)
    BY <1>4, <2>1, <2>2
  <2> QED
    BY <1>3, <1>4, <2>1, <2>2, <2>3
<1>11. CASE PublishPaymentCancel(c)
  <2> DEFINE m == Msg("payment.cancel", x, 0)
  <2>1. m \in Message /\ m.tx = x /\ m.n = 0 /\ FirstStep(m.type) = "refund"
    BY <1>4 DEF Msg, Message, Types, FirstStep
  <2>2. Publish(m) /\ Goto(c, "ack") /\ pc[c] = "publish_cancel"
    BY <1>11 DEF PublishPaymentCancel
  <2>3. StepsLeft(FirstStep(m.type), m.n) + 2 <= StepsLeft(pc[c], n)
    BY <1>4, <2>1, <2>2
  <2> QED
    BY <1>3, <1>4, <2>1, <2>2, <2>3
<1> QED
  BY <1>5, <1>6, <1>7, <1>8, <1>9, <1>10, <1>11 DEF Pay, Decide

\* A handler's step brings its payment nearer, and no other further away.
LEMMA HandlerAdvances ==
  ASSUME Inv, \A t \in Txs : Carried(t), Benign',
         NEW c \in Consumers, Pay(c) \/ Decide(c) \/ Break(c),
         NEW t \in Txs, NEW k \in Nat, Within(t, k)
  PROVE  Within(t, k)' /\ (t = Tx(c) => Within(t, k - 1)')
<1>1. PICK x, n : x = Tx(c) /\ n = msg[c].n
  OBVIOUS
<1>2. /\ pc[c] \notin {"idle", "ack"} /\ msg' = msg /\ x \in Txs /\ TypeOK
      /\ n \in 0 .. MaxRetry
  BY <1>1, HandlerStep, AtWork DEF Inv
<1>3. InHands(x) = {c} /\ InTopic(x) = {}
  BY <1>1, <1>2 DEF Carried, Solo, InHands
<1>4. ASSUME NEW s \in PC, Goto(c, s), topic' = topic,
             s # "ack" => StepsLeft(s, n) + 1 <= StepsLeft(pc[c], n)
      PROVE  Within(t, k)' /\ (t = x => Within(t, k - 1)')
  <2>1. pc'[c] = s /\ \A d \in Consumers \ {c} : pc'[d] = pc[d]
    BY <1>2, <1>4 DEF Goto, TypeOK
  <2>2. InTopic(t)' = InTopic(t)
    BY <1>4 DEF InTopic
  <2>3. CASE t # x
    <3>1. InHands(t)' = InHands(t) /\ \A d \in InHands(t) : pc'[d] = pc[d]
      BY <1>1, <1>2, <2>1, <2>3 DEF InHands, Tx
    <3> QED
      BY <1>2, <2>2, <2>3, <3>1, WithinElsewhere
  <2>4. CASE t = x
    <3>1. InHands(x)' \subseteq {c} /\ InTopic(x)' = {} /\ (s = "ack" => InHands(x)' = {})
      BY <1>2, <1>3, <2>1, <2>2, <2>4 DEF InHands, Tx
    <3>2. StepsLeft(pc[c], n) <= k
      BY <1>1, <1>3, <2>4 DEF Within
    <3>3. StepsLeft(s, n) \in Nat /\ StepsLeft(pc[c], n) \in Nat
      BY <1>2, StepsLeftType
    <3>4. s # "ack" => StepsLeft(s, n) <= k - 1
      BY <1>4, <3>2, <3>3
    <3>5. \A d \in InHands(x)' : pc'[d] = s /\ msg'[d].n = n /\ s # "ack"
      BY <1>1, <1>2, <2>1, <3>1
    <3> QED
      BY <2>4, <3>1, <3>3, <3>4, <3>5 DEF Within, StepsLeft
  <2> QED
    BY <2>3, <2>4
<1>5. ASSUME NEW m \in Message, m.tx = x, Publish(m), Goto(c, "ack"),
             StepsLeft(FirstStep(m.type), m.n) + 2 <= StepsLeft(pc[c], n)
      PROVE  Within(t, k)' /\ (t = x => Within(t, k - 1)')
  <2>1. pc'[c] = "ack" /\ \A d \in Consumers \ {c} : pc'[d] = pc[d]
    BY <1>2, <1>5 DEF Goto, TypeOK
  <2>2. \A l \in Message \ {m} : topic'[l] = topic[l]
    BY <1>2, <1>5 DEF Publish, TypeOK
  <2>3. CASE t # x
    <3>1. InHands(t)' = InHands(t) /\ \A d \in InHands(t) : pc'[d] = pc[d]
      BY <1>1, <1>2, <2>1, <2>3 DEF InHands, Tx
    <3>2. InTopic(t)' = InTopic(t)
      BY <1>5, <2>2, <2>3 DEF InTopic
    <3> QED
      BY <1>2, <2>3, <3>1, <3>2, WithinElsewhere
  <2>4. CASE t = x
    <3>1. InHands(x)' = {}
      BY <1>2, <1>3, <2>1 DEF InHands, Tx
    <3>2. InTopic(x)' \subseteq {m}
      BY <1>3, <2>2 DEF InTopic
    <3>3. StepsLeft(pc[c], n) <= k
      BY <1>1, <1>3, <2>4 DEF Within
    <3>4. m.n \in 0 .. MaxRetry
      BY DEF Message
    <3>5. StepsLeft(FirstStep(m.type), m.n) \in Nat /\ StepsLeft(pc[c], n) \in Nat
      BY <1>2, <3>4, StepsLeftType
    <3>6. StepsLeft(FirstStep(m.type), m.n) + 1 <= k - 1
          /\ StepsLeft(FirstStep(m.type), m.n) + 1 <= k
      BY <1>5, <3>3, <3>5
    <3>7. \A l \in InTopic(t)' : l = m
      BY <2>4, <3>2
    <3> HIDE DEF StepsLeft
    <3> QED
      BY <2>4, <3>1, <3>6, <3>7 DEF Within
  <2> QED
    BY <2>3, <2>4
<1> QED
  BY <1>1, <1>4, <1>5, HandlerStep

\* ... and so does taking the message.
LEMMA TakeAdvances ==
  ASSUME Inv, \A t \in Txs : Carried(t),
         NEW c \in Consumers, NEW m \in Message, Take(c, m),
         NEW t \in Txs, NEW k \in Nat, Within(t, k)
  PROVE  Within(t, k)' /\ (t = m.tx => Within(t, k - 1)')
<1>1. /\ pc[c] = "idle" /\ topic[m] > 0 /\ topic[m] \in Nat /\ topic'[m] = topic[m] - 1
      /\ \A l \in Message \ {m} : topic'[l] = topic[l]
      /\ msg'[c] = m /\ pc'[c] = FirstStep(m.type)
      /\ \A d \in Consumers \ {c} : pc'[d] = pc[d] /\ msg'[d] = msg[d]
  BY DEF Take, Goto, Inv, TypeOK
<1>2. CASE t # m.tx
  <2>1. InTopic(t)' = InTopic(t)
    BY <1>1, <1>2 DEF InTopic
  <2>2. InHands(t)' = InHands(t)
        /\ \A d \in InHands(t) : pc'[d] = pc[d] /\ msg'[d] = msg[d]
    BY <1>1, <1>2 DEF InHands, Tx
  <2> QED
    BY <1>2, <2>1, <2>2, WithinElsewhere
<1>3. CASE t = m.tx
  <2>1. m \in InTopic(t)
    BY <1>1, <1>3 DEF InTopic
  <2>2. InTopic(t) = {m} /\ topic[m] = 1 /\ InHands(t) = {}
    BY <2>1 DEF Carried, Solo
  <2>3. InTopic(t)' = {}
    BY <1>1, <2>2 DEF InTopic
  <2>4. InHands(t)' \subseteq {c}
    BY <1>1, <2>2 DEF InHands, Tx
  <2>5. StepsLeft(FirstStep(m.type), m.n) + 1 <= k
    BY <2>1 DEF Within
  <2>6. m.n \in 0 .. MaxRetry
    BY DEF Message
  <2>7. StepsLeft(FirstStep(m.type), m.n) \in Nat
    BY <2>6, StepsLeftType
  <2>8. StepsLeft(FirstStep(m.type), m.n) <= k - 1 /\ StepsLeft(FirstStep(m.type), m.n) <= k
    BY <2>5, <2>7
  <2>9. \A d \in InHands(t)' : pc'[d] = FirstStep(m.type) /\ msg'[d].n = m.n
    BY <1>1, <2>4
  <2> QED
    BY <1>3, <2>3, <2>8, <2>9 DEF Within, StepsLeft
<1> QED
  BY <1>2, <1>3

\* Everything else leaves the carriers alone.
LEMMA OthersKeepDistance ==
  ASSUME Inv, NEW t \in Txs, NEW k \in Nat, Within(t, k), request[t] = "accepted",
         \/ \E x \in Txs : RequestPayment(x)
         \/ \E r \in Reservations : TokenExpires(r) \/ ReservationExpires(r)
         \/ \E u \in Users : LockExpires(u)
         \/ \E c \in Consumers : Ack(c)
         \/ UNCHANGED vars
  PROVE  Within(t, k)'
<1>1. InTopic(t)' \subseteq InTopic(t)
  <2>1. ASSUME NEW x \in Txs, RequestPayment(x) PROVE InTopic(t)' \subseteq InTopic(t)
    <3>1. x # t
      BY <2>1 DEF RequestPayment
    <3>2. \A m \in Message : m.tx = t => topic'[m] = topic[m]
      BY <2>1, <3>1 DEF RequestPayment, Publish, Msg, Inv, TypeOK
    <3> QED
      BY <3>2 DEF InTopic
  <2>2. CASE topic' = topic
    BY <2>2 DEF InTopic
  <2> QED
    BY <2>1, <2>2 DEF TokenExpires, ReservationExpires, LockExpires, Ack, vars
<1>2. \A c \in Consumers : \/ pc'[c] = pc[c] /\ msg'[c] = msg[c]
                           \/ pc'[c] = "idle"
  BY DEF RequestPayment, TokenExpires, ReservationExpires, LockExpires, Ack, Goto, vars, Inv,
         TypeOK
<1>3. /\ InHands(t)' \subseteq InHands(t)
      /\ \A c \in InHands(t)' : pc'[c] = pc[c] /\ msg'[c] = msg[c]
  BY <1>2 DEF InHands, Tx
<1> QED
  BY <1>1, <1>3, WithinElsewhere

\* A payment begins with sixty-one steps before it.
LEMMA BeginsWithin ==
  ASSUME Inv, SagaInv, Benign', [Next]_vars, NEW t \in Txs, request[t] = "new"
  PROVE  Within(t, 61)'
<1>1. TypeOK /\ SagaInv' /\ Benign
  BY BenignBefore, NextSagaInv DEF Inv
<1>2. Carried(t) /\ Carried(t)'
  BY <1>1 DEF SagaInv
<1>3. CASE request'[t] # "accepted"
  BY <1>2, <1>3 DEF Carried, Within
<1>4. CASE RequestPayment(t)
  <2>1. InTopic(t) = {} /\ InHands(t) = {}
    BY <1>2, <1>4 DEF Carried, RequestPayment
  <2>2. InHands(t)' = {}
    BY <1>4, <2>1 DEF RequestPayment, InHands, Tx
  <2>3. \A m \in InTopic(t)' : m.type = "payment.try" /\ m.n = 0
    BY <1>1, <1>4, <2>1 DEF RequestPayment, Publish, InTopic, Msg, TypeOK
  <2>4. \A m \in InTopic(t)' : FirstStep(m.type) = "find"
    BY <2>3 DEF FirstStep
  <2>5. StepsLeft("find", 0) = 60
    BY DEF StepsLeft, Unpaid, MaxRetry
  <2> QED
    BY <2>2, <2>3, <2>4, <2>5 DEF Within, StepsLeft
<1>5. CASE ~RequestPayment(t)
  <2>1. request'[t] = request[t]
    BY <1>1, <1>5
    DEF TypeOK, Next, vars, clientVars, RequestPayment, TokenExpires, ReservationExpires,
        LockExpires, Take, Ack, Pay, FindTransaction, CreateTransaction, AcquireLock, UsePoint,
        ReleaseLock, DeleteToken, PublishPaymentSuccess, CatchPayment, PublishPaymentRetry,
        Decide, ConfirmReservation, UpdateRanking, PublishReservationFailure, SetCancel,
        PublishPaymentCancel, Refund, Break, Crash, Rebalance, PaymentRedisFails, LockReplyLost,
        PaymentDbFails, RankingFails, ConfirmDbFails, CompensationDbFails
  <2> QED
    BY <1>3, <2>1
<1> QED
  BY <1>4, <1>5

\* Every step of a handler, and every message taken, brings a payment nearer to its
\* end, and nothing takes it back: after its request 61 steps are enough, whatever
\* is lost or rolled back.  With NeverStranded and the fairness of consumers this
\* is why PaymentConcludes holds.
THEOREM EveryStepCounts ==
  Spec => [][Benign' => \A t \in Txs :
               /\ request[t] = "new" => Within(t, 61)'
               /\ request[t] = "accepted" => \A k \in Nat : Within(t, k) =>
                    /\ Within(t, k)'
                    /\ Advances(t) => Within(t, k - 1)']_vars
<1>1. ASSUME Inv, SagaInv, [Next]_vars, Benign', NEW t \in Txs, NEW k \in Nat,
             Within(t, k), request[t] = "accepted"
      PROVE  Within(t, k)' /\ (Advances(t) => Within(t, k - 1)')
  <2>1. \A x \in Txs : Carried(x)
    BY <1>1, BenignBefore DEF Inv, SagaInv
  <2>2. ASSUME NEW c \in Consumers, Pay(c) \/ Decide(c) \/ Break(c)
        PROVE  Within(t, k)' /\ (t = Tx(c) => Within(t, k - 1)')
    BY <1>1, <2>1, <2>2, HandlerAdvances
  <2>3. ASSUME NEW c \in Consumers, NEW m \in Message, Take(c, m)
        PROVE  Within(t, k)' /\ (t = m.tx => Within(t, k - 1)')
    BY <1>1, <2>1, <2>3, TakeAdvances
  <2>4. Advances(t) => Within(t, k - 1)'
    BY <2>2, <2>3, Zenon DEF Advances
  <2>5. Within(t, k)'
    BY <1>1, <2>2, <2>3, OthersKeepDistance, Zenon DEF Next
  <2> QED
    BY <2>4, <2>5
<1>2. Inv /\ SagaInv /\ [Next]_vars =>
        [Benign' => \A t \in Txs :
           /\ request[t] = "new" => Within(t, 61)'
           /\ request[t] = "accepted" => \A k \in Nat : Within(t, k) =>
                /\ Within(t, k)'
                /\ Advances(t) => Within(t, k - 1)']_vars
  BY <1>1, BeginsWithin
<1> QED
  BY SagaInvariance, <1>2, PTL DEF Spec

-----------------------------------------------------------------------------
(* The saga implements the abstract sale                                   *)

\* The charge is the sale's payment.
LEMMA UsePays ==
  ASSUME Inv, OwnersConfirmed, \A t \in Txs : Carried(t),
         NEW c \in Consumers, UsePoint(c)
  PROVE  [Sale!Next]_Sale!vars
<1>0. PICK x \in Txs : x = Tx(c)
  BY InHand DEF Inv, UsePoint
<1>1. TypeOK /\ used[x] = 0 /\ refunded[x] = 0 /\ ~Owns(x)
  BY <1>0, InHand, OwnerPaid DEF Inv, UsePoint, Money, Unpaid
<1>2. UNCHANGED <<resv, owner, refunded>>
  BY DEF UsePoint, seatVars
<1>3. \A t \in Txs : Owns(t)' <=> Owns(t)
  BY <1>2 DEF Owns
<1>4. CASE balance[User(c)] > 0
  <2>1. \A t \in Txs : used'[t] = IF t = x THEN 1 ELSE used[t]
    BY <1>0, <1>1, <1>4 DEF UsePoint, TypeOK
  <2>2. Sale!Pay(x)
    BY <1>1, <1>2, <1>3, <2>1 DEF Sale!Pay, Sale!Purchase!Pay, Taken
  <2> QED
    BY <2>2 DEF Sale!Next
<1>5. CASE ~(balance[User(c)] > 0)
  <2>1. UNCHANGED used
    BY <1>5 DEF UsePoint
  <2> QED
    BY <1>2, <1>3, <2>1 DEF Sale!vars, Taken
<1> QED
  BY <1>4, <1>5

\* confirmReservation's commit sells the seat to a payment whose money is there.
LEMMA ConfirmSells ==
  ASSUME Inv, OwnersConfirmed, \A t \in Txs : Carried(t),
         NEW c \in Consumers, ConfirmReservation(c)
  PROVE  [Sale!Next]_Sale!vars
<1>0. PICK x \in Txs : x = Tx(c)
  BY InHand DEF Inv, ConfirmReservation
<1> DEFINE r == ResvOf[x]
<1>1. TypeOK /\ Taken(x) /\ ~Owns(x) /\ r \in Reservations
  BY <1>0, InHand, SagaAssumption DEF Inv, ConfirmReservation, Money, Flow, Unpaid, Paying, Taken
<1>2. UNCHANGED <<used, refunded>>
  BY DEF ConfirmReservation, moneyVars
<1>3. CASE resv[r] = "PENDING"
  <2>1. /\ \A q \in Reservations : resv'[q] = IF q = r THEN "CONFIRMED" ELSE resv[q]
        /\ \A q \in Reservations : owner'[q] = IF q = r THEN x ELSE owner[q]
    BY <1>0, <1>1, <1>3 DEF ConfirmReservation, Resv, TypeOK
  <2>2. owner[r] = NoTx
    BY <1>1, <1>3 DEF OwnersConfirmed
  <2>3. \A t \in Txs : ResvOf[t] \in Reservations /\ t # NoTx
    BY SagaAssumption
  <2>4. \A t \in Txs : Owns(t)' <=> (Owns(t) \/ t = x)
    BY <1>1, <2>1, <2>2, <2>3 DEF Owns
  <2>5. \A t \in Txs : Owns(t) => ResvOf[t] # r
    BY <2>2, <2>3 DEF Owns
  <2>6. Sale!Booking!Sell(r)
    BY <1>1, <1>3, <2>1 DEF Sale!Booking!Sell
  <2>7. Sale!Purchase!Buy(x)
    BY <1>1, <1>2, <2>4, <2>5 DEF Sale!Purchase!Buy, Taken
  <2>8. Sale!Sell(x)
    BY <2>6, <2>7 DEF Sale!Sell
  <2> QED
    BY <2>8 DEF Sale!Next
<1>4. CASE resv[r] # "PENDING"
  <2>1. UNCHANGED <<resv, owner>>
    BY <1>0, <1>4 DEF ConfirmReservation, Resv, seatVars
  <2> QED
    BY <1>2, <2>1 DEF Sale!vars, Taken, Owns
<1> QED
  BY <1>3, <1>4

\* cancelPayment gives back what bought no seat, and cannot buy it any more unless
\* confirmReservation's transaction failed.
LEMMA RefundReturns ==
  ASSUME Inv, \A t \in Txs : Carried(t), NEW c \in Consumers, Refund(c)
  PROVE  /\ Sale!Purchase!Next
         /\ LossOnly => Sale!Next
<1>0. PICK x \in Txs : x = Tx(c)
  BY InHand DEF Inv, Refund
<1>1. /\ TypeOK /\ used[x] = 1 /\ refunded[x] = 0
      /\ ~Owns(x) /\ (LossOnly => resv[ResvOf[x]] # "PENDING")
  BY <1>0, InHand DEF Inv, Refund, Money, Flow, Unpaid, Undoing
<1>2. UNCHANGED <<resv, owner, used>>
  BY DEF Refund, seatVars
<1>3. \A t \in Txs : Owns(t)' <=> Owns(t)
  BY <1>2 DEF Owns
<1>4. \A t \in Txs : refunded'[t] = IF t = x THEN 1 ELSE refunded[t]
  BY <1>0, <1>1 DEF Refund, TypeOK
<1>5. Sale!Purchase!Return(x)
  BY <1>1, <1>2, <1>3, <1>4 DEF Sale!Purchase!Return, Taken
<1>6. LossOnly => Sale!Return(x)
  BY <1>1, <1>2, <1>5 DEF Sale!Return
<1> QED
  BY <1>5, <1>6 DEF Sale!Next, Sale!Purchase!Next

LEMMA ExpiryLapses ==
  ASSUME TypeOK, NEW r \in Reservations, ReservationExpires(r)
  PROVE  [Sale!Next]_Sale!vars
<1>1. \A q \in Reservations : resv'[q] = IF q = r THEN "EXPIRED" ELSE resv[q]
  BY DEF ReservationExpires, TypeOK
<1>2. UNCHANGED <<used, refunded, owner>> /\ resv[r] = "PENDING"
  BY DEF ReservationExpires, moneyVars
<1>3. Sale!Lapse(r)
  BY <1>1, <1>2 DEF Sale!Lapse, Sale!Booking!Lapse, Taken, Owns
<1> QED
  BY <1>3 DEF Sale!Next

\* One step of the saga.  Only a refund may be no step of the sale.
LEMMA SaleStep ==
  ASSUME Inv, OwnersConfirmed, \A t \in Txs : Carried(t), [Next]_vars
  PROVE  \/ [Sale!Next]_Sale!vars
         \/ Sale!Purchase!Next /\ ~LossOnly
<1>1. CASE UNCHANGED seatVars /\ UNCHANGED <<used, refunded>>
  BY <1>1 DEF Sale!vars, Taken, Owns, seatVars
<1>2. CASE ~UNCHANGED seatVars
  BY <1>2, SeatWriters, ConfirmSells, ExpiryLapses DEF Inv
<1>3. CASE ~UNCHANGED <<used, refunded>>
  BY <1>3, RowAndMoneyWriters, UsePays, RefundReturns
<1> QED
  BY <1>1, <1>2, <1>3

LEMMA InitSale == Init => Sale!Init
BY DEF Init, Sale!Init, Sale!Booking!Init, Sale!Purchase!Init, Taken

\* As long as messages only get lost, the messages, retries and compensations of
\* the saga are a sale: seat and money change hands together, and no refund goes
\* out while the reservation could still be confirmed.
THEOREM SaleImplemented ==
  ASSUME AtMost({"loss"}) PROVE Spec => ImplementsSale
<1>1. Init => LossOnly
  BY DEF Init, LossOnly
<1>2. Inv /\ LossOnly /\ [Next]_vars => LossOnly'
  BY WithinBudget DEF Inv, LossOnly
<1>3. Inv /\ SagaInv /\ LossOnly /\ [Next]_vars => [Sale!Next]_Sale!vars
  BY SaleStep DEF SagaInv, LossOnly, Benign
<1> QED
  BY SagaInvariance, InitSale, <1>1, <1>2, <1>3, PTL DEF Spec, ImplementsSale, Sale!Spec

\* When transactions fail too, a refund may go out for a reservation that is still
\* PENDING; the clients' money is nevertheless safe: it pays, buys or comes back.
THEOREM PurchaseImplemented ==
  ASSUME AtMost({"loss", "db"}) PROVE Spec => Sale!Purchase!Spec
<1>1. Init => Benign
  BY DEF Init, Benign
<1>2. Inv /\ Benign /\ [Next]_vars => Benign'
  BY WithinBudget DEF Inv, Benign
<1>3. ASSUME Inv, SagaInv, Benign, [Next]_vars
      PROVE  [Sale!Purchase!Next]_(Sale!Purchase!vars)
  <2>1. CASE Sale!Next
    <3>1. ASSUME NEW r \in Reservations, Sale!Hold(r) \/ Sale!Lapse(r)
          PROVE  UNCHANGED Sale!Purchase!vars
      BY <3>1 DEF Sale!Hold, Sale!Lapse, Sale!Purchase!vars
    <3>2. ASSUME NEW t \in Txs, Sale!Pay(t) \/ Sale!Sell(t) \/ Sale!Return(t)
          PROVE  Sale!Purchase!Next
      BY <3>2 DEF Sale!Pay, Sale!Sell, Sale!Return, Sale!Purchase!Next
    <3> QED
      BY <2>1, <3>1, <3>2 DEF Sale!Next
  <2>2. CASE UNCHANGED Sale!vars
    BY <2>2 DEF Sale!vars, Sale!Purchase!vars
  <2> QED
    BY <1>3, <2>1, <2>2, SaleStep DEF SagaInv
<1>4. Init => Sale!Purchase!Init
  BY InitSale DEF Sale!Init
<1> QED
  BY SagaInvariance, <1>1, <1>2, <1>3, <1>4, PTL DEF Spec, Sale!Purchase!Spec

\* The seats are never at stake: under every fault a reservation is held, then sold
\* or lapsed for good, as SeatReservation promises.
THEOREM BookingImplemented == Spec => Sale!Booking!Spec
<1>1. Init => Sale!Booking!Init
  BY InitSale DEF Sale!Init
<1>2. ASSUME TypeOK, [Next]_vars PROVE [Sale!Booking!Next]_(Sale!Booking!vars)
  <2>1. CASE UNCHANGED seatVars
    BY <2>1 DEF seatVars, Sale!Booking!vars
  <2>2. ASSUME NEW c \in Consumers, ConfirmReservation(c)
        PROVE  [Sale!Booking!Next]_(Sale!Booking!vars)
    <3>1. PICK r \in Reservations : r = Resv(c)
      BY <1>2, <2>2, AtWork DEF ConfirmReservation
    <3>2. CASE resv[r] = "PENDING"
      <4>1. \A q \in Reservations : resv'[q] = IF q = r THEN "CONFIRMED" ELSE resv[q]
        BY <1>2, <2>2, <3>1, <3>2 DEF ConfirmReservation, TypeOK
      <4>2. Sale!Booking!Sell(r)
        BY <3>2, <4>1 DEF Sale!Booking!Sell
      <4> QED
        BY <4>2 DEF Sale!Booking!Next
    <3>3. CASE resv[r] # "PENDING"
      BY <2>2, <3>1, <3>3 DEF ConfirmReservation, seatVars, Sale!Booking!vars
    <3> QED
      BY <3>2, <3>3
  <2>3. ASSUME NEW r \in Reservations, ReservationExpires(r)
        PROVE  [Sale!Booking!Next]_(Sale!Booking!vars)
    <3>1. \A q \in Reservations : resv'[q] = IF q = r THEN "EXPIRED" ELSE resv[q]
      BY <1>2, <2>3 DEF ReservationExpires, TypeOK
    <3>2. Sale!Booking!Lapse(r)
      BY <2>3, <3>1 DEF ReservationExpires, Sale!Booking!Lapse
    <3> QED
      BY <3>2 DEF Sale!Booking!Next
  <2> QED
    BY <1>2, <2>1, <2>2, <2>3, SeatWriters
<1> QED
  BY TypeCorrect, <1>1, <1>2, PTL DEF Spec, Sale!Booking!Spec

-----------------------------------------------------------------------------
(* The payment key                                                         *)

\* Consumers between the acquireLock of executePayment and its releaseLock, for
\* the payments of one user.
InLock(u) == {c \in Consumers : pc[c] \in {"use", "unlock", "unlock_failed"} /\ User(c) = u}

UserLock(u) == INSTANCE DistributedLock WITH
  Clients <- Consumers, key <- lock[u], inside <- InLock(u), slow <- TRUE

LEMMA PayKeepsLock ==
  ASSUME TypeOK, NEW c \in Consumers, Pay(c), NEW u \in Users
  PROVE  UserLock(u)!Next \/ UNCHANGED UserLock(u)!vars
<1>0. /\ pc[c] # "idle" /\ msg' = msg /\ User(c) \in Users
      /\ \A d \in Consumers \ {c} : pc'[d] = pc[d]
  BY SagaAssumption
  DEF Pay, FindTransaction, CreateTransaction, AcquireLock, UsePoint, ReleaseLock, DeleteToken,
      PublishPaymentSuccess, CatchPayment, PublishPaymentRetry, Goto, TypeOK, User, Tx, Message
<1>1. CASE AcquireLock(c) /\ ~lock[User(c)] /\ User(c) = u
  <2>1. pc[c] = "lock" /\ pc'[c] = "use" /\ lock[u] = FALSE /\ lock'[u] = TRUE
    BY <1>1 DEF AcquireLock, Goto, TypeOK
  <2>2. c \notin InLock(u) /\ InLock(u)' = InLock(u) \cup {c}
    BY <1>0, <1>1, <2>1 DEF InLock, User, Tx
  <2>3. UserLock(u)!Acquire(c)
    BY <2>1, <2>2 DEF UserLock!Acquire
  <2> QED
    BY <2>3 DEF UserLock!Next
<1>2. CASE ReleaseLock(c) /\ User(c) = u
  <2>1. /\ pc[c] \in {"unlock", "unlock_failed"} /\ pc'[c] \in {"delete_token", "catch"}
        /\ lock'[u] = FALSE
    BY <1>2 DEF ReleaseLock, Goto, TypeOK
  <2>2. c \in InLock(u) /\ InLock(u)' = InLock(u) \ {c}
    BY <1>0, <1>2, <2>1 DEF InLock, User, Tx
  <2>3. UserLock(u)!Release(c)
    BY <2>1, <2>2 DEF UserLock!Release
  <2> QED
    BY <2>3 DEF UserLock!Next
<1>3. CASE UsePoint(c)
  <2>1. pc[c] = "use" /\ pc'[c] \in {"unlock", "unlock_failed"} /\ lock' = lock
    BY <1>3 DEF UsePoint, Goto, TypeOK
  <2>2. InLock(u)' = InLock(u)
    BY <1>0, <2>1 DEF InLock, User, Tx
  <2> QED
    BY <2>1, <2>2 DEF UserLock!vars
<1>4. CASE (AcquireLock(c) /\ User(c) # u) \/ (ReleaseLock(c) /\ User(c) # u)
  <2>1. lock'[u] = lock[u]
    BY <1>0, <1>4 DEF AcquireLock, ReleaseLock, TypeOK
  <2>2. InLock(u)' = InLock(u)
    BY <1>0, <1>4 DEF InLock, User, Tx
  <2> QED
    BY <2>1, <2>2 DEF UserLock!vars
<1>5. CASE (AcquireLock(c) /\ lock[User(c)])
           \/ FindTransaction(c) \/ CreateTransaction(c) \/ DeleteToken(c)
           \/ PublishPaymentSuccess(c) \/ CatchPayment(c) \/ PublishPaymentRetry(c)
  <2>1. /\ lock' = lock
        /\ pc[c] \notin {"use", "unlock", "unlock_failed"}
        /\ pc'[c] \notin {"use", "unlock", "unlock_failed"}
    BY <1>5 DEF AcquireLock, FindTransaction, CreateTransaction, DeleteToken,
                PublishPaymentSuccess, CatchPayment, PublishPaymentRetry, Goto, TypeOK
  <2>2. InLock(u)' = InLock(u)
    BY <1>0, <2>1 DEF InLock, User, Tx
  <2> QED
    BY <2>1, <2>2 DEF UserLock!vars
<1> QED
  BY <1>1, <1>2, <1>3, <1>4, <1>5 DEF Pay

LEMMA BreakKeepsLock ==
  ASSUME TypeOK, NEW c \in Consumers, Break(c), NEW u \in Users
  PROVE  UserLock(u)!Next \/ UNCHANGED UserLock(u)!vars
<1>0. \A d \in Consumers \ {c} : pc'[d] = pc[d] /\ msg'[d] = msg[d]
  BY DEF Break, Crash, Rebalance, PaymentRedisFails, LockReplyLost,
         PaymentDbFails, RankingFails, ConfirmDbFails, CompensationDbFails, Goto, TypeOK
<1>1. lock' = lock \/ LockReplyLost(c)
  BY DEF Break, Crash, Rebalance, PaymentRedisFails, PaymentDbFails, RankingFails,
         ConfirmDbFails, CompensationDbFails
<1>2. pc'[c] \in {"use", "unlock", "unlock_failed"} =>
        pc[c] \in {"use", "unlock", "unlock_failed"} /\ msg'[c] = msg[c]
  BY DEF Break, Crash, Rebalance, PaymentRedisFails, LockReplyLost,
         PaymentDbFails, RankingFails, ConfirmDbFails, CompensationDbFails, Goto, TypeOK
<1>3. CASE LockReplyLost(c)
  <2>1. InLock(u)' = InLock(u)
    BY <1>0, <1>2, <1>3 DEF LockReplyLost, InLock, User, Tx
  <2>2. CASE User(c) = u
    <3>1. UserLock(u)!ReplyLost
      BY <1>3, <2>1, <2>2 DEF LockReplyLost, UserLock!ReplyLost, TypeOK
    <3> QED
      BY <3>1 DEF UserLock!Next
  <2>3. CASE User(c) # u
    BY <1>3, <2>1, <2>3 DEF LockReplyLost, UserLock!vars, TypeOK
  <2> QED
    BY <2>2, <2>3
<1>4. CASE lock' = lock /\ InLock(u)' = InLock(u)
  BY <1>4 DEF UserLock!vars
<1>5. CASE lock' = lock /\ InLock(u)' # InLock(u)
  <2>1. \A d \in Consumers : d \in InLock(u)' => d \in InLock(u)
    BY <1>0, <1>2 DEF InLock, User, Tx
  <2>2. \A d \in Consumers \ {c} : d \in InLock(u) => d \in InLock(u)'
    BY <1>0 DEF InLock, User, Tx
  <2>3. c \in InLock(u) /\ InLock(u)' = InLock(u) \ {c}
    BY <1>5, <2>1, <2>2 DEF InLock
  <2>4. UserLock(u)!Abandon(c)
    BY <1>5, <2>3 DEF UserLock!Abandon
  <2> QED
    BY <2>4 DEF UserLock!Next
<1> QED
  BY <1>1, <1>3, <1>4, <1>5

\* executePayment uses the payment key of each user as DistributedLock says, under
\* every fault: whoever enters leaves by releaseLock or dies, and no other handler
\* touches the key.  OverlapIsPaidFor bounds what slow transactions do to it.
THEOREM UserLockRefined ==
  ASSUME NEW u \in Users PROVE Spec => UserLock(u)!Spec
<1>1. Init => UserLock(u)!Init
  BY DEF Init, UserLock!Init, InLock
<1>2. TypeOK /\ [Next]_vars => [UserLock(u)!Next]_(UserLock(u)!vars)
  <2> SUFFICES ASSUME TypeOK, [Next]_vars
               PROVE  UserLock(u)!Next \/ UNCHANGED UserLock(u)!vars
    OBVIOUS
  <2>1. ASSUME NEW c \in Consumers, Pay(c) \/ Break(c)
        PROVE  UserLock(u)!Next \/ UNCHANGED UserLock(u)!vars
    BY <2>1, PayKeepsLock, BreakKeepsLock
  <2>2. ASSUME NEW v \in Users, LockExpires(v)
        PROVE  UserLock(u)!Next \/ UNCHANGED UserLock(u)!vars
    <3>1. InLock(u)' = InLock(u)
      BY <2>2 DEF LockExpires, InLock, User, Tx
    <3>2. CASE v = u
      <4>1. UserLock(u)!Expire
        BY <2>2, <3>1, <3>2 DEF LockExpires, UserLock!Expire, TypeOK
      <4> QED
        BY <4>1 DEF UserLock!Next
    <3>3. CASE v # u
      BY <2>2, <3>1, <3>3 DEF LockExpires, UserLock!vars, TypeOK
    <3> QED
      BY <3>2, <3>3
  <2>3. ASSUME \/ \E c \in Consumers : Decide(c) \/ Ack(c)
               \/ \E c \in Consumers, m \in Message : Take(c, m)
        PROVE  UNCHANGED UserLock(u)!vars
    <3> PICK c \in Consumers : Decide(c) \/ Ack(c) \/ \E m \in Message : Take(c, m)
      BY <2>3
    <3>1. lock' = lock /\ \A d \in Consumers \ {c} : pc'[d] = pc[d] /\ msg'[d] = msg[d]
      BY DEF Decide, ConfirmReservation, UpdateRanking, PublishReservationFailure, SetCancel,
             PublishPaymentCancel, Refund, Ack, Take, Goto, TypeOK
    <3>2. pc[c] \notin {"use", "unlock", "unlock_failed"}
      BY DEF Decide, ConfirmReservation, UpdateRanking, PublishReservationFailure, SetCancel,
             PublishPaymentCancel, Refund, Ack, Take
    <3>3. pc'[c] \notin {"use", "unlock", "unlock_failed"}
      <4>1. ASSUME NEW m \in Message, Take(c, m)
            PROVE  pc'[c] \notin {"use", "unlock", "unlock_failed"}
        <5>1. pc'[c] = FirstStep(m.type)
          BY <4>1 DEF Take, Goto, TypeOK
        <5> QED
          BY <5>1 DEF FirstStep, Message, Types
      <4>2. CASE Decide(c) \/ Ack(c)
        BY <4>2 DEF Decide, ConfirmReservation, UpdateRanking, PublishReservationFailure,
                    SetCancel, PublishPaymentCancel, Refund, Ack, Goto, TypeOK
      <4> QED
        BY <4>1, <4>2
    <3>4. InLock(u)' = InLock(u)
      BY <3>1, <3>2, <3>3 DEF InLock, User, Tx
    <3> QED
      BY <3>1, <3>4 DEF UserLock!vars
  <2>4. ASSUME \/ \E t \in Txs : RequestPayment(t)
               \/ \E r \in Reservations : TokenExpires(r) \/ ReservationExpires(r)
               \/ UNCHANGED vars
        PROVE  UNCHANGED UserLock(u)!vars
    <3>1. UNCHANGED <<lock, pc, msg>>
      BY <2>4 DEF RequestPayment, TokenExpires, ReservationExpires, vars
    <3> QED
      BY <3>1 DEF UserLock!vars, InLock, User, Tx
  <2> QED
    BY <2>1, <2>2, <2>3, <2>4 DEF Next
<1> QED
  BY TypeCorrect, <1>1, <1>2, PTL DEF Spec, UserLock!Spec
=============================================================================
