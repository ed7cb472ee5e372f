---------------------------- MODULE PaymentSaga ----------------------------
(***************************************************************************)
(* Paying for a reservation over Kafka: the request (PaymentService.       *)
(* processPaymentAndReservation), the consumers of payment.try, .retry,    *)
(* .success, .cancel and reservation.failure, and the compensation that    *)
(* gives the money back.                                                   *)
(*                                                                         *)
(* A consumer instance handles one message at a time and acknowledges it   *)
(* when its handler returns, error or not (every handler swallows its      *)
(* errors).  A topic is a bag: order between topics and keys is not        *)
(* relied upon.  Money movements (_useTransaction, cancelPayment) and the  *)
(* final assignment (confirmReservation's transaction) are atomic here;    *)
(* SeatReservation shows the latter is.  All amounts are one seat's price. *)
(***************************************************************************)
EXTENDS Naturals

CONSTANTS
  Users, Reservations,
  Txs,              \* calls of processPaymentAndReservation = paymentTxIds
  UserOf, ResvOf,   \* who pays with a transaction, and for what
  TokenOf,          \* the reservation its payment token was issued for; nothing
                    \* ties it to the one that is paid for
  Funds,            \* bound: largest initial balance, in seat prices
  Consumers,        \* instances in ticketing-consumer-group
  Budgets,          \* bound: how often each kind of fault may happen; a
                    \* behaviour stays within one of these
  NoTx,             \* "nobody paid"
  NoMsg             \* what an idle consumer handles

FaultKinds == {"crash", "rebalance", "loss", "redis", "db"}

ASSUME SagaAssumption ==
  /\ UserOf \in [Txs -> Users]
  /\ ResvOf \in [Txs -> Reservations]
  /\ TokenOf \in [Txs -> Reservations]
  /\ Funds \in Nat
  /\ Budgets \subseteq [FaultKinds -> Nat]
  /\ NoTx \notin Txs

VARIABLES
  request,    \* [Txs -> {"new", "accepted", "refused"}]: the HTTP call
  status,     \* payment_transactions.status of every tx, NONE = no row
  retryCount, \* payment_transactions.retry_count
  token,      \* [Reservations -> BOOLEAN]: payment token WAITING in Redis
  resv,       \* reservations.status (rows exist before anybody pays)
  owner,      \* the payment whose confirmReservation committed (not stored)
  balance,    \* user_points.balance
  used,       \* point_histories: number of USE rows of every payment
  refunded,   \* point_histories: number of REFUND rows of every payment
  lock,       \* [Users -> BOOLEAN]: the Redis key lock:payment:<user> exists
  topic,      \* [Message -> Nat]: undelivered copies
  pc, msg,    \* every consumer's control state and the message it handles
  faults      \* [FaultKinds -> Nat]: faults so far

moneyVars    == <<balance, used, refunded>>
seatVars     == <<resv, owner>>
clientVars   == <<request, token>>
rowVars      == <<status, retryCount>>
vars == <<request, token, status, retryCount, resv, owner, balance, used,
          refunded, lock, topic, pc, msg, faults>>

MaxRetry == 3        \* retryCount < 3 in onPaymentRetry

Types == {"payment.try", "payment.retry", "payment.success", "payment.cancel",
          "reservation.failure"}
\* n is the retryCount of a payment.retry
Message == {m \in [type : Types, tx : Txs, n : 0 .. MaxRetry] :
              m.n > 0 <=> m.type = "payment.retry"}
Msg(type, t, n) == [type |-> type, tx |-> t, n |-> n]

ASSUME NoMsgAssumption == NoMsg \notin Message

RowStatus == {"NONE", "PENDING", "RETRYING", "SUCCESS", "FAILURE", "CANCEL"}
PC == {"idle", "find", "create", "lock", "use", "unlock", "unlock_failed",
       "delete_token", "publish_success", "catch", "publish_retry", "confirm",
       "rank", "publish_failure", "set_cancel", "publish_cancel", "refund",
       "ack"}

TypeOK ==
  /\ request \in [Txs -> {"new", "accepted", "refused"}]
  /\ status \in [Txs -> RowStatus]
  /\ retryCount \in [Txs -> 0 .. MaxRetry]
  /\ token \in [Reservations -> BOOLEAN]
  /\ resv \in [Reservations -> {"PENDING", "CONFIRMED", "EXPIRED"}]
  /\ owner \in [Reservations -> Txs \cup {NoTx}]
  /\ balance \in [Users -> Nat]
  /\ used \in [Txs -> Nat]
  /\ refunded \in [Txs -> Nat]
  /\ lock \in [Users -> BOOLEAN]
  /\ topic \in [Message -> Nat]
  /\ pc \in [Consumers -> PC]
  /\ msg \in [Consumers -> Message \cup {NoMsg}]
  /\ \A c \in Consumers : msg[c] = NoMsg => pc[c] = "idle"
  /\ faults \in [FaultKinds -> Nat]

Init ==
  /\ request = [t \in Txs |-> "new"]
  /\ status = [t \in Txs |-> "NONE"]
  /\ retryCount = [t \in Txs |-> 0]
  /\ token = [r \in Reservations |-> TRUE]
  /\ resv = [r \in Reservations |-> "PENDING"]
  /\ owner = [r \in Reservations |-> NoTx]
  /\ balance \in [Users -> 0 .. Funds]
  /\ used = [t \in Txs |-> 0]
  /\ refunded = [t \in Txs |-> 0]
  /\ lock = [u \in Users |-> FALSE]
  /\ topic = [m \in Message |-> 0]
  /\ pc = [c \in Consumers |-> "idle"]
  /\ msg = [c \in Consumers |-> NoMsg]
  /\ faults = [k \in FaultKinds |-> 0]

-----------------------------------------------------------------------------
(* Kafka and faults                                                        *)

Fault(kind) ==
  /\ faults' = [faults EXCEPT ![kind] = @ + 1]
  /\ \E B \in Budgets : \A k \in FaultKinds : faults'[k] <= B[k]

NoFault == UNCHANGED faults

\* KafkaEventBus.publish does not await producer.send: the caller goes on
\* whether or not the broker has the message.
Publish(m) ==
  \/ topic' = [topic EXCEPT ![m] = @ + 1] /\ NoFault
  \/ topic' = topic /\ Fault("loss")

Goto(c, state) == pc' = [pc EXCEPT ![c] = state]

Tx(c)   == msg[c].tx
User(c) == UserOf[Tx(c)]
Resv(c) == ResvOf[Tx(c)]

-----------------------------------------------------------------------------
(* The client and the clock                                                *)

\* processPaymentAndReservation: verify the token, publish payment.try, answer
\* PAYMENT_PROCESSING.  The token is checked, not consumed, and neither the
\* reservation's status nor payment_transactions is looked at; verifyToken
\* compares the user of the token, not its seat.
RequestPayment(t) ==
  /\ request[t] = "new"
  /\ IF token[TokenOf[t]]
       THEN /\ request' = [request EXCEPT ![t] = "accepted"]
            /\ Publish(Msg("payment.try", t, 0))
       ELSE /\ request' = [request EXCEPT ![t] = "refused"]
            /\ UNCHANGED topic /\ NoFault
  /\ UNCHANGED <<rowVars, token, seatVars, moneyVars, lock, pc, msg>>

\* PAYMENT_EXPIRE_TTL
TokenExpires(r) ==
  /\ token[r]
  /\ token' = [token EXCEPT ![r] = FALSE]
  /\ UNCHANGED <<request, rowVars, seatVars, moneyVars, lock, topic, pc, msg, faults>>

\* ReservationExpireConsumer.process commits.
ReservationExpires(r) ==
  /\ resv[r] = "PENDING"
  /\ resv' = [resv EXCEPT ![r] = "EXPIRED"]
  /\ UNCHANGED <<clientVars, rowVars, owner, moneyVars, lock, topic, pc, msg, faults>>

\* PAYMENT_LOCK_TTL: also how the key of a dead owner goes away.
LockExpires(u) ==
  /\ lock[u]
  /\ lock' = [lock EXCEPT ![u] = FALSE]
  /\ UNCHANGED <<clientVars, rowVars, seatVars, moneyVars, topic, pc, msg, faults>>

-----------------------------------------------------------------------------
(* A consumer takes and acknowledges messages                              *)

FirstStep(type) ==
  CASE type = "payment.try"         -> "find"
    [] type = "payment.retry"       -> "lock"
    [] type = "payment.success"     -> "confirm"
    [] type = "payment.cancel"      -> "refund"
    [] type = "reservation.failure" -> "set_cancel"

Take(c, m) ==
  /\ pc[c] = "idle"
  /\ topic[m] > 0
  /\ topic' = [topic EXCEPT ![m] = @ - 1]
  /\ msg' = [msg EXCEPT ![c] = m]
  /\ Goto(c, FirstStep(m.type))
  /\ UNCHANGED <<clientVars, rowVars, seatVars, moneyVars, lock, faults>>

Ack(c) ==
  /\ pc[c] = "ack"
  /\ Goto(c, "idle")
  /\ msg' = [msg EXCEPT ![c] = NoMsg]
  /\ UNCHANGED <<clientVars, rowVars, seatVars, moneyVars, lock, topic, faults>>

\* The instance dies; its message is unacknowledged and comes again.
Crash(c) ==
  /\ pc[c] # "idle"
  /\ Fault("crash")
  /\ topic' = [topic EXCEPT ![msg[c]] = @ + 1]
  /\ msg' = [msg EXCEPT ![c] = NoMsg]
  /\ Goto(c, "idle")
  /\ UNCHANGED <<clientVars, rowVars, seatVars, moneyVars, lock>>

\* The partition moves to another instance while this one is still working.
Rebalance(c) ==
  /\ pc[c] # "idle"
  /\ Fault("rebalance")
  /\ topic' = [topic EXCEPT ![msg[c]] = @ + 1]
  /\ UNCHANGED <<clientVars, rowVars, seatVars, moneyVars, lock, pc, msg>>

-----------------------------------------------------------------------------
(* onPaymentTry, onPaymentRetry: executePayment and its catch branches      *)

\* findPendingTransaction: a row of any status means a duplicate.
FindTransaction(c) ==
  /\ pc[c] = "find"
  /\ Goto(c, IF status[Tx(c)] = "NONE" THEN "create" ELSE "ack")
  /\ UNCHANGED <<clientVars, rowVars, seatVars, moneyVars, lock, topic, msg, faults>>

\* createPaymentTransaction: UNIQUE(payment_tx_id) makes a second insert throw.
CreateTransaction(c) ==
  /\ pc[c] = "create"
  /\ IF status[Tx(c)] = "NONE"
       THEN /\ status' = [status EXCEPT ![Tx(c)] = "PENDING"]
            /\ Goto(c, "lock")
       ELSE Goto(c, "catch") /\ UNCHANGED status
  /\ UNCHANGED <<clientVars, retryCount, seatVars, moneyVars, lock, topic, msg, faults>>

\* withLock: ten attempts within a second, then it throws.
AcquireLock(c) ==
  /\ pc[c] = "lock"
  /\ IF lock[User(c)]
       THEN Goto(c, "catch") /\ UNCHANGED lock
       ELSE Goto(c, "use") /\ lock' = [lock EXCEPT ![User(c)] = TRUE]
  /\ UNCHANGED <<clientVars, rowVars, seatVars, moneyVars, topic, msg, faults>>

\* Mutant: NOT_ENOUGH_POINT is not checked.
UsePointOnCredit(c) ==
  /\ pc[c] = "use"
  /\ balance' = [balance EXCEPT ![User(c)] = @ - 1]
  /\ used' = [used EXCEPT ![Tx(c)] = @ + 1]
  /\ Goto(c, "unlock")
  /\ UNCHANGED <<clientVars, rowVars, seatVars, refunded, lock, topic, msg, faults>>

\* _useTransaction under the row lock: the USE row and the new balance commit
\* together, or NOT_ENOUGH_POINT rolls both back.
UsePoint(c) ==
  /\ pc[c] = "use"
  /\ IF balance[User(c)] > 0
       THEN /\ balance' = [balance EXCEPT ![User(c)] = @ - 1]
            /\ used' = [used EXCEPT ![Tx(c)] = @ + 1]
            /\ Goto(c, "unlock")
       ELSE Goto(c, "unlock_failed") /\ UNCHANGED <<balance, used>>
  /\ UNCHANGED <<clientVars, rowVars, seatVars, refunded, lock, topic, msg, faults>>

\* Mutant: the finally clause returns and swallows the exception.
ReleaseLockAndReturn(c) ==
  /\ pc[c] \in {"unlock", "unlock_failed"}
  /\ lock' = [lock EXCEPT ![User(c)] = FALSE]
  /\ Goto(c, "delete_token")
  /\ UNCHANGED <<clientVars, rowVars, seatVars, moneyVars, topic, msg, faults>>

\* finally { releaseLock }: deletes the key, whoever set it.
ReleaseLock(c) ==
  /\ pc[c] \in {"unlock", "unlock_failed"}
  /\ lock' = [lock EXCEPT ![User(c)] = FALSE]
  /\ Goto(c, IF pc[c] = "unlock" THEN "delete_token" ELSE "catch")
  /\ UNCHANGED <<clientVars, rowVars, seatVars, moneyVars, topic, msg, faults>>

DeleteToken(c) ==
  /\ pc[c] = "delete_token"
  /\ token' = [token EXCEPT ![TokenOf[Tx(c)]] = FALSE]
  /\ Goto(c, "publish_success")
  /\ UNCHANGED <<request, rowVars, seatVars, moneyVars, lock, topic, msg, faults>>

\* Mutant: the publisher awaits the broker, so that a lost message throws.
PublishPaymentSuccessAwaited(c) ==
  /\ pc[c] = "publish_success"
  /\ \/ /\ topic' = [topic EXCEPT ![Msg("payment.success", Tx(c), 0)] = @ + 1]
        /\ Goto(c, "ack") /\ NoFault
     \/ Goto(c, "catch") /\ UNCHANGED topic /\ Fault("loss")
  /\ UNCHANGED <<clientVars, rowVars, seatVars, moneyVars, lock, msg>>

PublishPaymentSuccess(c) ==
  /\ pc[c] = "publish_success"
  /\ Publish(Msg("payment.success", Tx(c), 0))
  /\ Goto(c, "ack")
  /\ UNCHANGED <<clientVars, rowVars, seatVars, moneyVars, lock, msg>>

\* Mutant: the retry is recorded but not published.
CatchPaymentForgets(c) ==
  LET n == msg[c].n IN
  /\ pc[c] = "catch"
  /\ status' = [status EXCEPT ![Tx(c)] = IF n < MaxRetry THEN "RETRYING" ELSE "FAILURE"]
  /\ retryCount' = [retryCount EXCEPT ![Tx(c)] = IF n < MaxRetry THEN n + 1 ELSE @]
  /\ Goto(c, "ack")
  /\ UNCHANGED <<clientVars, seatVars, moneyVars, lock, topic, msg, faults>>

\* Mutant: FAILURE is recorded although the payment is tried again.
CatchPaymentFailsFirst(c) ==
  LET n == msg[c].n IN
  /\ pc[c] = "catch"
  /\ status' = [status EXCEPT ![Tx(c)] = "FAILURE"]
  /\ retryCount' = [retryCount EXCEPT ![Tx(c)] = IF n < MaxRetry THEN n + 1 ELSE @]
  /\ Goto(c, IF n < MaxRetry THEN "publish_retry" ELSE "ack")
  /\ UNCHANGED <<clientVars, seatVars, moneyVars, lock, topic, msg, faults>>

\* Retry 1 after payment.try, n + 1 after a payment.retry n < 3, else FAILURE.
\* updateStatus throws, and the handler gives up, when there is no row.
CatchPayment(c) ==
  LET n == msg[c].n IN
  /\ pc[c] = "catch"
  /\ \/ /\ status[Tx(c)] = "NONE"
        /\ Goto(c, "ack") /\ UNCHANGED rowVars
     \/ /\ status[Tx(c)] # "NONE" /\ n < MaxRetry
        /\ status' = [status EXCEPT ![Tx(c)] = "RETRYING"]
        /\ retryCount' = [retryCount EXCEPT ![Tx(c)] = n + 1]
        /\ Goto(c, "publish_retry")
     \/ /\ status[Tx(c)] # "NONE" /\ n = MaxRetry
        /\ status' = [status EXCEPT ![Tx(c)] = "FAILURE"]
        /\ Goto(c, "ack")       \* payment.failure has no consumer
        /\ UNCHANGED retryCount
  /\ UNCHANGED <<clientVars, seatVars, moneyVars, lock, topic, msg, faults>>

PublishPaymentRetry(c) ==
  /\ pc[c] = "publish_retry"
  /\ Publish(Msg("payment.retry", Tx(c), msg[c].n + 1))
  /\ Goto(c, "ack")
  /\ UNCHANGED <<clientVars, rowVars, seatVars, moneyVars, lock, msg>>

\* Redis fails in executePayment (lock, key release, token): after the money
\* moved the exception cannot be told from a failed payment.
PaymentRedisFails(c) ==
  /\ pc[c] \in {"lock", "unlock", "unlock_failed", "delete_token"}
  /\ Fault("redis")
  /\ Goto(c, "catch")
  /\ UNCHANGED <<clientVars, rowVars, seatVars, moneyVars, lock, topic, msg>>

\* SET NX was done and its reply got lost: acquireLock answers false, and the
\* call's own key keeps out its remaining attempts.
LockReplyLost(c) ==
  /\ pc[c] = "lock" /\ ~lock[User(c)]
  /\ Fault("redis")
  /\ lock' = [lock EXCEPT ![User(c)] = TRUE]
  /\ Goto(c, "catch")
  /\ UNCHANGED <<clientVars, rowVars, seatVars, moneyVars, topic, msg>>

\* A statement or transaction fails and rolls back.
PaymentDbFails(c) ==
  /\ Fault("db")
  /\ \/ pc[c] \in {"find", "create"} /\ Goto(c, "catch")
     \/ pc[c] = "use" /\ Goto(c, "unlock_failed")
     \/ pc[c] = "catch" /\ Goto(c, "ack")
  /\ UNCHANGED <<clientVars, rowVars, seatVars, moneyVars, lock, topic, msg>>

Pay(c) ==
  \/ FindTransaction(c) \/ CreateTransaction(c) \/ AcquireLock(c) \/ UsePoint(c)
  \/ ReleaseLock(c) \/ DeleteToken(c) \/ PublishPaymentSuccess(c)
  \/ CatchPayment(c) \/ PublishPaymentRetry(c)

-----------------------------------------------------------------------------
(* onPaymentSuccess, onReservationFailure, onPaymentCancel                  *)

\* Mutant: the status of the reservation is not checked.
ConfirmAnyReservation(c) ==
  /\ pc[c] = "confirm"
  /\ resv' = [resv EXCEPT ![Resv(c)] = "CONFIRMED"]
  /\ owner' = [owner EXCEPT ![Resv(c)] = Tx(c)]
  /\ Goto(c, "rank")
  /\ UNCHANGED <<clientVars, rowVars, moneyVars, lock, topic, msg, faults>>

\* confirmReservation's transaction: anything but a PENDING reservation throws.
ConfirmReservation(c) ==
  /\ pc[c] = "confirm"
  /\ IF resv[Resv(c)] = "PENDING"
       THEN /\ resv' = [resv EXCEPT ![Resv(c)] = "CONFIRMED"]
            /\ owner' = [owner EXCEPT ![Resv(c)] = Tx(c)]
            /\ Goto(c, "rank")
       ELSE Goto(c, "publish_failure") /\ UNCHANGED seatVars
  /\ UNCHANGED <<clientVars, rowVars, moneyVars, lock, topic, msg, faults>>

\* Mutant: the ranking throws for a schedule that is not sold out.
UpdateRankingThrows(c) ==
  /\ pc[c] = "rank"
  /\ Goto(c, "publish_failure")
  /\ UNCHANGED <<clientVars, rowVars, seatVars, moneyVars, lock, topic, msg, faults>>

\* reservation.success goes out (only the data platform listens) and the
\* sellout ranking is updated inside the same try.
UpdateRanking(c) ==
  /\ pc[c] = "rank"
  /\ Goto(c, "ack")
  /\ UNCHANGED <<clientVars, rowVars, seatVars, moneyVars, lock, topic, msg, faults>>

RankingFails(c) ==
  /\ pc[c] = "rank"
  /\ Fault("redis")
  /\ Goto(c, "publish_failure")
  /\ UNCHANGED <<clientVars, rowVars, seatVars, moneyVars, lock, topic, msg>>

ConfirmDbFails(c) ==
  /\ pc[c] = "confirm"
  /\ Fault("db")
  /\ Goto(c, "publish_failure")
  /\ UNCHANGED <<clientVars, rowVars, seatVars, moneyVars, lock, topic, msg>>

PublishReservationFailure(c) ==
  /\ pc[c] = "publish_failure"
  /\ Publish(Msg("reservation.failure", Tx(c), 0))
  /\ Goto(c, "ack")
  /\ UNCHANGED <<clientVars, rowVars, seatVars, moneyVars, lock, msg>>

\* Mutant: payment.cancel is not published.
SetCancelAndReturn(c) ==
  /\ pc[c] = "set_cancel"
  /\ status' = [status EXCEPT ![Tx(c)] = "CANCEL"]
  /\ Goto(c, "ack")
  /\ UNCHANGED <<clientVars, retryCount, seatVars, moneyVars, lock, topic, msg, faults>>

\* publishPaymentCancel, first half: updateStatus(CANCEL), unconditionally.
SetCancel(c) ==
  /\ pc[c] = "set_cancel"
  /\ IF status[Tx(c)] = "NONE"
       THEN Goto(c, "ack") /\ UNCHANGED status
       ELSE /\ status' = [status EXCEPT ![Tx(c)] = "CANCEL"]
            /\ Goto(c, "publish_cancel")
  /\ UNCHANGED <<clientVars, retryCount, seatVars, moneyVars, lock, topic, msg, faults>>

PublishPaymentCancel(c) ==
  /\ pc[c] = "publish_cancel"
  /\ Publish(Msg("payment.cancel", Tx(c), 0))
  /\ Goto(c, "ack")
  /\ UNCHANGED <<clientVars, rowVars, seatVars, moneyVars, lock, msg>>

\* cancelPayment: REFUND row and balance in one transaction, no check that this
\* payment was taken or not yet given back.
Refund(c) ==
  /\ pc[c] = "refund"
  /\ balance' = [balance EXCEPT ![User(c)] = @ + 1]
  /\ refunded' = [refunded EXCEPT ![Tx(c)] = @ + 1]
  /\ Goto(c, "ack")
  /\ UNCHANGED <<clientVars, rowVars, seatVars, used, lock, topic, msg, faults>>

\* The compensation itself fails: the error is logged and the message gone.
CompensationDbFails(c) ==
  /\ pc[c] \in {"set_cancel", "refund"}
  /\ Fault("db")
  /\ Goto(c, "ack")
  /\ UNCHANGED <<clientVars, rowVars, seatVars, moneyVars, lock, topic, msg>>

Decide(c) ==
  \/ ConfirmReservation(c) \/ UpdateRanking(c) \/ PublishReservationFailure(c)
  \/ SetCancel(c) \/ PublishPaymentCancel(c) \/ Refund(c)

Break(c) ==
  \/ Crash(c) \/ Rebalance(c) \/ PaymentRedisFails(c) \/ LockReplyLost(c)
  \/ PaymentDbFails(c) \/ RankingFails(c) \/ ConfirmDbFails(c)
  \/ CompensationDbFails(c)

-----------------------------------------------------------------------------
Next ==
  \/ \E t \in Txs : RequestPayment(t)
  \/ \E r \in Reservations : TokenExpires(r) \/ ReservationExpires(r)
  \/ \E u \in Users : LockExpires(u)
  \/ \E c \in Consumers : Pay(c) \/ Decide(c) \/ Ack(c) \/ Break(c)
  \/ \E c \in Consumers, m \in Message : Take(c, m)

Spec == Init /\ [][Next]_vars

\* Handlers run on and every message is handed to some consumer.  Clients,
\* expiry and faults owe nothing.
Fairness ==
  /\ \A c \in Consumers : WF_vars(Pay(c) \/ Decide(c) \/ Ack(c))
  /\ \A m \in Message : WF_vars(\E c \in Consumers : Take(c, m))

FairSpec == Spec /\ Fairness

-----------------------------------------------------------------------------
(* Safety                                                                  *)

\* Nothing about t is on its way any more.
Settled(t) ==
  /\ request[t] = "accepted"
  /\ \A m \in Message : m.tx = t => topic[m] = 0
  /\ \A c \in Consumers : pc[c] # "idle" => Tx(c) # t

Owns(t) == owner[ResvOf[t]] = t

\* Without faults, once nothing is on its way the client's money is with the
\* shop exactly if its payment is the one that got the seat: two payments for
\* one reservation, an expiry that overtakes the payment and a retry that
\* overtakes another payment all end in a full refund (executePayment,
\* confirmReservation and the compensation chain together).
PaidIffOwned ==
  \A t \in Txs : Settled(t) => used[t] = refunded[t] + (IF Owns(t) THEN 1 ELSE 0)

\* Without faults a client whose payment did not get the seat is told so in
\* payment_transactions when nothing is on its way any more: by FAILURE if nothing
\* was taken, by CANCEL if it was taken and given back (the last retry and
\* publishPaymentCancel).  Nobody else is told either.
LosersAreTold ==
  \A t \in Txs : Settled(t) =>
    /\ Owns(t) <=> status[t] \notin {"FAILURE", "CANCEL"}
    /\ status[t] = "FAILURE" => used[t] = 0
    /\ status[t] = "CANCEL" => used[t] = 1 /\ refunded[t] = 1

\* A payment is charged at most once and gives back no more than it took.
ChargedAtMostOnce ==
  \A t \in Txs : used[t] <= 1 /\ refunded[t] <= used[t]

\* Messages only got lost and database transactions only failed so far.
Benign == \A k \in FaultKinds \ {"loss", "db"} : faults[k] = 0

\* That holds as long as messages only get lost and database transactions only
\* fail: every retry and every refund follows a rollback or a compensation
\* (updateStatus and publish come after it).  A crash, a redelivery or a Redis
\* error after the charge is another matter.
LossNeverChargesTwice == Benign => ChargedAtMostOnce

\* The rows about a payment do not contradict each other: who has the seat paid
\* for it, did not get the money back and is not told that it failed; no row and
\* FAILURE mean that nothing was taken, CANCEL that something was.
Honest(t) ==
  /\ Owns(t) => status[t] \notin {"FAILURE", "CANCEL"} /\ used[t] = 1 /\ refunded[t] = 0
  /\ status[t] \in {"NONE", "FAILURE"} => used[t] = 0
  /\ status[t] = "CANCEL" => used[t] = 1

\* Wherever a message is lost or a transaction rolls back (executePayment,
\* confirmReservation, the compensation), the payment stops with an honest record.
LossNeverMisleads == Benign => \A t \in Txs : Honest(t)

\* ... and until then FAILURE and CANCEL are final and retries are counted one by
\* one (updateStatus is unconditional).
StatusOrder ==
  [][Benign' => \A t \in Txs :
       /\ status[t] \in {"FAILURE", "CANCEL"} => status'[t] = status[t]
       /\ retryCount'[t] \in {retryCount[t], retryCount[t] + 1}]_vars

\* Whatever crashes, is redelivered or fails: a seat is assigned only to a
\* payment whose money was taken (payment.success follows the commit of USE).
NoFreeSeat ==
  \A r \in Reservations : resv[r] = "CONFIRMED" =>
    /\ owner[r] \in Txs
    /\ ResvOf[owner[r]] = r
    /\ used[owner[r]] >= 1

\* What NoFreeSeat rests on: wherever payment.success is, in a topic or in a
\* consumer's hands, the money has been taken; and only its handler confirms.
SuccessIsBacked ==
  /\ \A m \in Message :
       m.type = "payment.success" /\ topic[m] > 0 => used[m.tx] >= 1
  /\ \A c \in Consumers :
       /\ pc[c] # "idle" /\ msg[c].type = "payment.success" => used[Tx(c)] >= 1
       /\ pc[c] = "confirm" => msg[c].type = "payment.success"
       /\ pc[c] \in {"unlock", "delete_token", "publish_success"}
            => used[Tx(c)] >= 1

\* A payment that has the seat has not been given back.
ConfirmedStaysPaid ==
  \A t \in Txs : Owns(t) /\ Settled(t) => used[t] > refunded[t]

(* Liveness                                                                *)

\* Without faults every accepted payment comes to an end: the seat is bought,
\* the payment failed, or it was cancelled and given back.
PaymentConcludes ==
  \A t \in Txs : request[t] = "accepted" ~>
    \/ Owns(t)
    \/ status[t] = "FAILURE"
    \/ status[t] = "CANCEL" /\ used[t] = refunded[t]

-----------------------------------------------------------------------------
(* The promise implemented.                                                *)

Taken(t)  == used[t] = 1 /\ refunded[t] = 0

Sale == INSTANCE TicketSale WITH
  Seats <- Reservations, Requests <- Reservations,
  SeatOf   <- [r \in Reservations |-> r],
  held     <- {r \in Reservations : resv[r] = "PENDING"},
  sold     <- {r \in Reservations : resv[r] = "CONFIRMED"},
  lapsed   <- {r \in Reservations : resv[r] = "EXPIRED"},
  paid     <- {t \in Txs : Taken(t) /\ ~Owns(t)},
  bought   <- {t \in Txs : Taken(t) /\ Owns(t)},
  returned <- {t \in Txs : used[t] = 1 /\ refunded[t] = 1 /\ ~Owns(t)}

\* Without faults every step of the saga is a step of TicketSale or invisible
\* to it: the seat is sold in the step that makes the payment its buyer, and no
\* refund goes out while the reservation could still be confirmed.
ImplementsSale == Sale!Spec
=============================================================================
