# Concert ticketing: a TLA+ verification of the service

The repository is a NestJS service that sells concert seats: a waiting room
hands out the right to reserve, a reservation holds a seat for five minutes,
a payment with prepaid points confirms it, and Kafka events join the ticketing
module to the payment module. MySQL (through Prisma) holds the truth, Redis
holds queues, locks, tokens and caches, BullMQ holds the delayed expiry jobs.

This directory holds TLA+ modules of its concurrent core, the TLC
configurations that check them, and TLAPS proofs about them. `PROJECT.json`
maps every definition to the lines it translates. Paths below are relative to
the service's `src/src/` directory unless they say otherwise.

Contents: 1 inventory · 2 modules · 3 runs · 4 bounds · 5 fairness · 6 proofs ·
7 where the code does not keep a promise · 8 what is left out · 9 plan

## 1. Inventory

### 1.1 Components

| Component | State it keeps | Operations |
|---|---|---|
| Seat reservation (`ticketing/application/services/reservation.service.ts`, `queue/services/reservation-expire-consumer.service.ts`) | `seats.status`, `reservations.status`, Redis `lock:seat:<id>`, the expiry job | `temporaryReserve`, `confirmReservation`, expiry `process` |
| Payment saga (`payment/application/services/payment.service.ts`, the Kafka consumers of both modules) | `payment_transactions`, Kafka topics, payment token | `processPaymentAndReservation`, `onPaymentTry/Retry/Success/Cancel`, `onReservationFailure` |
| User points (same service, `user-point.ts`, repositories) | `user_points.balance`, `point_histories`, Redis `lock:payment:<user>` | `charge`, `use`, `cancelPayment` |
| Waiting queue (`queue-ranking.service.ts`, `queue-token.service.ts`) | Redis sorted sets `waitingQueue`, `activeQueue` | `createToken`, `updateEntireQueue`, `verifyToken`, `deleteToken`, `initialize` |
| Distributed lock (`common/services/redis/distributed-lock.service.ts`) | one Redis key per resource | `withLock` = SET NX EX, retry, action, DEL |
| Payment token (`payment-token.service.ts`) | one Redis key per user and seat | create, verify, delete, TTL |
| Seat and schedule cache (`event-search.service.ts`, `redis.service.ts`) | Redis hashes `schedule:<id>:seats`, one string per concert | `getSeats` reads through, `temporaryReserve` writes back |
| Sellout ranking (`sellout-ranking.service.ts`) | three Redis keys per schedule and a sorted set | `startToSell`, `updateRanking`, `getFastSelloutRanking` |
| Auth, concert repository, data platform, controllers, in-process event bus, legacy queue consumer, `seat-lock.service.ts` | none that the above depends on | not modelled, see 8 |

### 1.2 How they interact

    client -> createToken -> waitingQueue
    client -> temporaryReserve -> updateEntireQueue -> verifyToken
                 -> withLock(seat) { transaction on seats, reservations }
                 -> cache write-back -> payment token -> delete queue token
                 -> delayed expiry job (BullMQ)
    client -> processPaymentAndReservation -> Kafka payment.try
      payment.try / payment.retry -> withLock(user) { transaction on points }
                 -> delete token -> payment.success | payment.retry | FAILURE
      payment.success -> confirmReservation { transaction on reservations, seats }
                 -> updateRanking; on any error reservation.failure
      reservation.failure -> status CANCEL -> payment.cancel
      payment.cancel -> refund { transaction on points }
    expiry job -> { transaction on reservations, seats }
    client -> getSeats -> HGETALL | SELECT, HSET, EXPIRE
    client -> getFastSelloutRanking -> sorted set, then two keys per schedule

### 1.3 What is hard

* Transactions of different handlers meet on the same rows: reserve, confirm
  and expire on a seat; charge, use and refund on a balance. They protect
  themselves with different means: a Redis key that can expire, conditional
  UPDATEs on a snapshot, `FOR UPDATE`, or nothing.
* Every handler goes on after its COMMIT (Redis, Kafka, BullMQ), so there is a
  window in which the database has moved and the rest has not.
* Kafka delivers at least once, `publish` does not await the broker, and every
  consumer swallows its errors, so nothing is retried by the broker.
* The queue, the seat cache and the ranking are sequences of single Redis
  commands that each request runs; no script or transaction makes a promotion, a
  fill, a write-back or a count atomic.

### 1.4 What makes each component correct

* **Seat reservation.** The two tables agree; a seat has one owner; final
  states are final; a hold ends; success is announced once, failure only for a
  delivery that lost; an expired seat can be had again.
* **Payment saga.** Money taken and seat assigned go together; the status a
  client polls is true; every accepted payment concludes; faults never produce a
  free seat or a second charge.
* **User points.** The balance is the sum of its histories; nobody overspends.
* **Waiting queue.** Order of arrival, no token lost or in two places, a limit
  on the active set, progress.
* **Distributed lock.** Mutual exclusion while the TTL lasts.
* **Seat cache.** Never ahead of the database, complete, gone after an hour.
* **Sellout ranking.** Shows the schedules that sold out, and all of them.
* **All together.** Every sold seat has one buyer; everybody else has the money.

`PROJECT.json` lists the individual hazards with the line at which each bites.

## 2. Modules

| Module | Role |
|---|---|
| `SeatBooking` | abstract: a reservation is held, then sold or lapsed |
| `SeatReservation` | reserve, confirm and expire as interleaved transactions; implements `SeatBooking` |
| `SeatPurchase` | abstract: money is taken once and ends as a seat or as a refund |
| `TicketSale` | abstract: `SeatBooking` and `SeatPurchase` composed; a seat and its price change hands in one step |
| `PaymentSaga` | payment over Kafka with faults; implements `TicketSale` as long as only messages get lost |
| `DistributedLock` | what `withLock` does with one key; implemented by `UserPoints`, `SeatReservation` and `PaymentSaga` |
| `UserPoints` | charge, use, refund of one balance under two kinds of lock |
| `WaitingQueue` | promotion from the waiting to the active set |
| `SeatCache` | the hashes behind the seat list: read through and written back |
| `SelloutRanking` | counting sales and recording the duration of a sellout |
| `MC*` | instances for TLC |
| `*Proofs` | theorems, checked by TLAPS |

The detailed modules are separate because their interfaces are narrow:
`PaymentSaga` takes confirmation and money movement as atomic, which
`SeatReservation` (refinement of `SeatBooking`) and `UserPoints`
(`OnlyChargesOverwrite`: what a payment or a refund commits is its own amount, in
every mix) show; `WaitingQueue` takes the reservation as one step
that succeeds or throws. `SeatCache` and `SelloutRanking` see of a reservation only
its commits. What the detailed modules do together is `TicketSale`: its parts are
what `SeatReservation` implements and what the money does, and the saga, in which
they meet, implements the whole.

Some definitions are marked "Mutant": a plausible bug of the definition below
it, used to see that a property notices. They are in no next-state relation.

### 2.1 SeatReservation

| Variable | Stands for |
|---|---|
| `seat`, `resv` | committed `seats.status`, `reservations.status` (`NONE` = no row) |
| `seatLock` | the Redis key `lock:seat:<id>` |
| `rpc`, `verdict`, `token` | every `temporaryReserve` call: where it is, how its transaction ended, whether the client has a payment token |
| `cpc`, `csnap` | every delivery of `payment.success`: where `confirmReservation` is, the seat in its snapshot |
| `job`, `jsnap`, `stalled` | the expiry job, its snapshot, whether BullMQ put it back already |
| `faulty` | history: a fault happened |

A transaction's writes stay private until COMMIT and lock their rows until
then. So `seat` and `resv` change in the commit actions only, and which
transaction holds which row is read off the control states (`SeatRowFree`,
`ResvRowFree`). The first SELECT fixes the snapshot.

`CondUpdate` is `repository.update(x, expected)`: Prisma selects in the snapshot,
updates the current version by id and expected status, reads back, and the
repository compares what it reads with what it wanted. An UPDATE that matched
nothing is noticed *because* the read-back still shows the snapshot. InnoDB keeps
the row lock of such an UPDATE until the rollback; the model releases it in the same
step. The transaction only reads its snapshot and throws in between, so it makes
others wait a little longer and waits for nobody.

| Code | Actions |
|---|---|
| `temporaryReserve` | `AcquireSeatLock`, `ReserveRead`, `ReserveUpdateSeat`, `ReserveInsert`, `ReserveCommit`, `ReleaseSeatLock`, `WriteBackCache`, `IssuePaymentToken`, `AddExpireJob` |
| `confirmReservation` | `ConfirmRead`, `ConfirmUpdateResv`, `ConfirmUpdateSeat`, `ConfirmCommit`, `AnnounceSuccess`, `UpdateRanking` |
| expiry `process` | `ExpireRead`, `ExpireUpdateResv`, `ExpireUpdateSeat`, `ExpireCommit`, `ExpireComplete` |
| TTL of the key | `SeatLockExpires` |
| failing statement, Redis or process | `…TxFails`, `ReserveRedisFails`, `RankingFails`, `…Crash` |

### 2.2 PaymentSaga

`request` is the HTTP call, `status` and `retryCount` the row of
`payment_transactions`, `token` the payment token, `resv` the reservation,
`balance`, `used`, `refunded` the points with their histories, `lock` the Redis
key. `TokenOf` is the reservation a payment's token was issued for: `verifyToken`
compares the token's user, not its seat, so a client may pay for one reservation with
the token of another. `topic` is a bag of undelivered messages, `pc` and `msg` the consumer
instances. `owner` (whose payment was confirmed) is history: the code stores it
nowhere.

| Code | Actions |
|---|---|
| `processPaymentAndReservation` | `RequestPayment` |
| `onPaymentTry`, `onPaymentRetry` | `FindTransaction`, `CreateTransaction`, `AcquireLock`, `UsePoint`, `ReleaseLock`, `DeleteToken`, `PublishPaymentSuccess`, `CatchPayment`, `PublishPaymentRetry` |
| `onPaymentSuccess` | `ConfirmReservation`, `UpdateRanking`, `PublishReservationFailure` |
| `onReservationFailure` | `SetCancel`, `PublishPaymentCancel` |
| `onPaymentCancel` | `Refund` |
| Kafka | `Take`, `Ack`, `Publish` (may lose), `Crash`, `Rebalance` (redeliver) |
| clocks | `TokenExpires`, `ReservationExpires`, `LockExpires` |
| failures | `PaymentRedisFails`, `LockReplyLost`, `PaymentDbFails`, `RankingFails`, `ConfirmDbFails`, `CompensationDbFails` |

A topic is a bag because messages of one key but of different topics are not
ordered, and because a retry is a new message. Every amount is the price of one
seat. `Budgets` says how many faults of each kind a behaviour may see.

### 2.3 UserPoints

One user's row. `row`, `balance` and `ledger` are the committed row and the sum
of its histories, `key` the Redis key, `pc` and `seen` every call and the balance
its domain object holds. `kind` and `pace` are fixed by the initial state: which
operations come together and whether calls may outlast the key's TTL
(`PAYMENT_LOCK_TTL` is 3 s, a transaction may take 10 s).

`Acquire`, `GiveUp`, `Release`, `KeyExpires` are `withLock`; `ChargeRead`,
`ChargeCreate`, `ChargeWrite`, `Commit` are `_chargeTransaction`;
`ReadForUpdate`, `WriteLocked`, `Commit` are `_useTransaction` and (from
`CancelBegin`) `cancelPayment`. Amounts are assumed positive: the request DTOs
check only that they are numbers.

### 2.4 WaitingQueue

`waiting` with the scores `since` is the sorted set `waitingQueue`: ordered by the
time of the ZADD and, within a millisecond, by the token, so tokens are numbers.
`active` is the other set, `fresh` its members promoted less than three minutes
ago. `head` is the variable `token` of `updateEntireQueue`, `booting` is true
between the two DELs of `initialize`. `again`, `spent` and `faults` are history.

One action per Redis command: `CountActive`, `CountWaiting`, `ReadHead`,
`RemoveHead`, `AddActive` are `updateEntireQueue`; `CheckWaiting`, `CheckActive`
are `verifyToken`; `DeleteFromWaitingQueue`, `DeleteFromActiveQueue` are
`deleteToken`; `InitializeWaiting`, `InitializeActive` are `onModuleInit`, which
runs in every starting process while others are at work.

A call comes with the token `tokenOf` says; two calls may share one (a client that
sends its request twice). A client that asks for a token twice within a second gets
the same one (`CreateTokenAgain`), because the payload is the same and `iat` counts
seconds. The JWT's expiry after an hour and the check of its user id are left out:
a token that expired is one whose client stops calling.

### 2.5 SeatCache

`hash` is what the Redis hash of every schedule shows, `ttl` the hashes with a time
to live. A seat's status is abstracted to `version`, how often the committed row has
changed (AVAILABLE, RESERVED, SOLD or released): a list is stale if it shows an older
version. `ScheduleOf` and `asked` are fixed by the initial state. `SameId` says which
schedule has the same number as a seat, since the write-back goes to
`getSeatsCacheKey(seatId)`. `disturbed`, `abandoned` and `revived` are history.

| Code | Actions |
|---|---|
| `getSeats` | `LookUp` (HGETALL), `ReadSeats` (SELECT), `Fill` (HSET, 0 new fields is an error), `SetTtl` (EXPIRE) |
| `temporaryReserve` | `ReserveCommit`, `CheckHash` (EXISTS), `WriteBack` (HSET, 0 new fields is an error) |
| confirmation or expiry | `EndHold` |
| clock, failures | `Perish`; `LookUpFails`, `ReadFails`, `WriteBackFails` |

Who may call `getSeats` is checked with the queue token, which is `CheckActive` of
`WaitingQueue`. `getSchedules` writes its key with one SET EX and no code updates a
row it shows.

### 2.6 SelloutRanking

`total`, `booked` and `start` are the three keys of one schedule, `entry` its score in
the sorted set, `pc` and `got` every confirmation that has committed, `viewPc` and
`view` a client that reads the ranking. A key that does not exist is `None`, and
`Number(None)` is 0 as `Number(null)` is. `late` and `soldOutAt` are history.

| Code | Actions |
|---|---|
| `startToSell` | `SetTotal`, `SetBooked`, `SetStart`, `StartFails` |
| `updateRanking` | `Increment`, `GetBooked`, `Compare`, `GetStart`, `AddToRanking`, `LoseUpdate` |
| `getFastSelloutRanking` | `ReadEntry`, `ReadStart`, `ReadTotal` |

### 2.7 DistributedLock and TicketSale

`DistributedLock` is one key and the calls `inside` it. The key has no owner, so
`Release` removes any key, `ReplyLost` leaves one that is nobody's, and `Expire` may
come while a call is inside only if calls are `slow`. `UserPoints` implements it with
its one key, `SeatReservation` with the key of every seat, `PaymentSaga` with the key
of every user.

`TicketSale` instantiates `SeatBooking` and `SeatPurchase`. They share one step,
`Sell`: the reservation is sold and a payment of it buys. A payment is returned only
when its reservation is no longer held.

## 3. Runs

| Run | Expectation | Question |
|---|---|---|
| `SeatReservationOneSeat` | pass | Do the two tables, the jobs and the announcements stay consistent, and does somebody win, when two attempts, two deliveries of `payment.success`, the expiry job and every fault meet on one seat? It supposes that somebody runs the expiry worker |
| `PaymentSagaSafe` | pass | Without faults, do two payments for one reservation, one of them with the token of another, and with expiry at any time, end with money and seat in agreement and a conclusion, and is exactly the loser told? |
| `PaymentSagaFaults` | pass | With one fault of any kind, is there ever a free seat; do losses and failed transactions ever charge twice, make a record lie, or undo a final status? |
| `UserPointsMixes` | pass | Five mixes of charges, payments and a refund, fast and slow: which of them can lose an update, and whose? |
| `WaitingQueueRace` | pass | Do order, conservation, the bounded overshoot and progress survive interleaved loops, a crash, a starting process, a token asked for twice and calls that share a token? |
| `SeatCacheRace` | pass | Two readers, two seats being reserved, written back and sold, and every failure: is what a client is shown ever ahead of the database, incomplete, or stale for ever? |
| `SelloutRankingRace` | pass | Three confirmations, up to two starts and a reader of the ranking: is only a sold-out schedule ranked and shown, and is it always? |
| `SeatReservationRebook`, `SeatReservationCached` | violation | Can a seat be had again after an expiry? Has every hold a job when the hash field exists? (7) |
| `SeatReservationNoWorker` | violation | Does a hold end in the program as deployed, where nobody runs the worker? (7) |
| `PaymentSagaRedelivery` | violation | Does the money stay with the shop when `payment.success` comes twice? (7) |
| `PaymentSagaRedis` | violation | Is a payment charged once in spite of a Redis error? (7) |

What the properties say is written above each of them in its module. The less
obvious ones:

* `OpenTransactions` speaks about transactions that have not committed: two of
  them never write the same row and each still finds what it checked. It is what
  makes agreement of the tables inductive. Its last part, `HoldersDoNotWait`, is why
  the opposite lock orders (reserve: seat, reservation; confirm and expire:
  reservation, seat) cannot deadlock: who holds a reservation row finds its seat row
  free, since a seat with a reservation is not AVAILABLE and no reserver holds it.
* `SomebodyWins`: of the payments and the expiry that have begun on a hold one
  commits. They compare with snapshots and lock two rows in the same order, so they
  neither block each other for ever nor all give up. `HoldEnds` says more (a hold that
  nobody pays for ends too), needs the worker, and is violated as deployed.
* `FailureOnlyForLosers`: `reservation.failure` triggers a refund, so it must
  not be published for a delivery that confirmed. Without faults it is not; with a
  Redis error in `updateRanking` it is, and the run excludes that by `faulty`.
* `PaidIffOwned`: when nothing about a payment is under way, the client's
  money is with the shop exactly if that payment got the seat.
* `LosersAreTold`: a payment at rest has FAILURE or CANCEL exactly if it did not get
  the seat, and money moved as the status says. It claims nothing of
  what a buyer is told: nothing is (section 7).
* `LossNeverMisleads`: where a loss or a rollback stops a payment, its row, the seat
  and the money do not contradict each other: FAILURE took nothing, CANCEL did take
  the money (whether the refund came through or was lost), and the owner of the
  seat has paid and has neither of the two. It covers the compensation whose own transaction fails.
* `LossHasCause` names the two ways a balance can depart from its histories: a charge
  committed beside a refund (no common lock), or a charge whose key had expired.
  `OnlyChargesOverwrite`: even then it is the charge that overwrites.
* `LossNeverChargesTwice` conditions "charged at most once" on there having been
  only losses and failed transactions; section 7 shows that it is false otherwise.
* `QueueMoves`: a client that keeps calling gets its turn unless `Clogged`:
  entries that ran out are never removed by anybody but their own client, so
  once `MaxActive` of them are in the active set no more are promoted. That such a
  state is reached, and lasts, is section 7.
* `ImplementsLock` and `ImplementsSeatLock` say that nobody enters without having set
  the key, whatever replies get lost and processes die. Their mutant lets a call in
  that found the key.
* `ImplementsSale`: whatever two payments, the expiry and the compensations do, the
  seat is sold in the step in which one payment buys it, and only a payment that can
  no longer have it is returned.
* `ThrowsOnlyWhenOvertaken`: of clients that miss together all but one get an error,
  because the HSET of the others adds nothing; this says that nobody else does.
* `HashIsPerishable`, `HitIsComplete` and `StalenessEnds` name the cases in which a
  hash stays for ever (its filler failed before EXPIRE, or a write-back created it
  after it had perished) and say that there are no others.
* `RankedOnlyWhenSoldOut` bounds the recorded time by that of
  the last sale, although several sales may find themselves the last, and although
  the reader reads the entry, the start and the seats one after the other.

## 4. Bounds

| Run | Bound | Why it is enough |
|---|---|---|
| Seat reservation | 1 seat, 2 requests, 2 deliveries per reservation | Rows of different seats share nothing, so one seat shows every conflict; UNIQUE(seat_id) admits one reservation per seat, so a second request shows all that another can do to the first. Two deliveries give a redelivery and two payments. The safety theorems hold for any number |
| Payment saga | 1 user, 2 payments for one reservation, 2 consumers, 0–2 seat prices of money; in `PaymentSagaSafe` a second reservation, whose token the second payment uses | Two payments contend for the reservation, the balance and the key; 0, 1 and 2 prices give "none, one, both can pay". `MaxRetry` = 3 is the code's own |
| Faults | one fault of any kind in `PaymentSagaFaults`; no bound in `SeatReservation` other than BullMQ's single put-back | One fault is what the design claims to survive; the theorem about free seats has no bound |
| User points | 3 calls, amounts 2, 1, 1, initial balance 0–3, `MaxCharge` 1 | Includes balances that suffice for one payment but not both, a charge above the limit, and a row that does not exist |
| Waiting queue | 2 callers, `MaxActive` 1, three `Cases`: two clients with one crash or start; two clients of whom the first asks for its token twice; one client calling twice at a time | The loops of two callers contend for one slot; the overshoot bound is reached. The cases are apart because each doubles the others; the safety theorems allow any mix |
| Seat cache | 2 schedules, 2 seats, 2 readers, every fault; layouts in which a schedule has both seats, one, or none, and in which the readers ask for the same schedule or not | Two readers show every race of fills; a seat whose id is its own schedule's number, another's, or none shows what the write-back does |
| Sellout ranking | 3 sales, 2 starts, clock 0–1, start time 1 | Two sales suffice for both to be last, the third is one that is not; the second start is a late one |

Symmetry (consumers, and payments of one user for one reservation) is used in
`PaymentSagaFaults` only, which has no liveness property. Deadlock checking is
off in every configuration, since the system may stop for good: all calls
answered, all messages consumed.

## 5. Fairness

* `SeatReservation`: weak fairness per started handler, per picked-up job and per
  key's TTL: processes run on, InnoDB grants a row lock once it is free, Redis
  expires keys. None for starting a reservation or a payment, none for faults.
  A job is picked up only if `WorkerRuns`.
* `PaymentSaga`: weak fairness per consumer's handler and per message being handed
  to some consumer (Kafka keeps a message until it is consumed). None for clients,
  expiry or faults.
* `WaitingQueue`: calls run on, three minutes run out, and a client calls again as
  long as it waits or is promoted (the client polls). None for `createToken`,
  crashes or starts.
* `SeatCache`: a `getSeats` and a write-back that began go on, and Redis removes what
  has expired. None for clients, reservations or their ends.
* `SelloutRanking`: a confirmation that committed goes on to `updateRanking`. None for
  the clock, `startToSell`, or the reader.

`SeatReservationOneSeat` has `WorkerRuns` = TRUE, so that the job can meet the
payments at all; none of its properties says that a job is ever begun (`SomebodyWins`
speaks of those that have). `SeatReservationNoWorker` is the program as deployed:
`autorun` is false and nothing calls `run()`.

## 6. Proofs

| Theorem | Says |
|---|---|
| `SeatReservationProofs!TypeCorrect`, `TablesAgree`, `TransactionsApart` | the invariants `TypeOK`, `SeatAgreesWithReservation`, `OpenTransactions` (with freedom from deadlock on rows) |
| `SeatReservationProofs!FinalStatus` | `FinalIsFinal`, an action property |
| `SeatReservationProofs!AnnouncedOnce` | `SuccessAnnouncedOnce` |
| `SeatReservationProofs!Implementation` | `Spec => Booking!Spec`: initial states map to initial states, each step to a step of `SeatBooking` or a stutter |
| `SeatReservationProofs!HoldsAreSeenTo`, `JobsDecide`, `FailuresAreLosses` | `NoOrphanedHold` (assuming `FieldCached = {}`), `JobDecides`, `FailureOnlyForLosers` |
| `SeatReservationProofs!SeatLockRefined` | `ImplementsSeatLock`: the SEAT key of each seat is a `DistributedLock`, under every fault |
| `PaymentSagaProofs!TypeCorrect`, `SuccessBacked`, `NoSeatForFree` | `TypeOK`, `NoFreeSeat`, and that every `payment.success` follows a committed charge, for any number of faults of any kind |
| `PaymentSagaProofs!ChargedOnce`, `LossHonest`, `SoldSeatsArePaid`, `StatusesInOrder` | `LossNeverChargesTwice`, `LossNeverMisleads`, "every sold seat has exactly one payment whose money the shop keeps", `StatusOrder`: until the first fault worse than a lost message or a rollback |
| `PaymentSagaProofs!PaidForSeats`, `LosersHear`, `NeverStranded` | `PaidIffOwned`, `LosersAreTold`, and that an accepted payment is under way or has its outcome, assuming `FaultFree` (no budget allows a fault) |
| `PaymentSagaProofs!EveryStepCounts` | After its request a payment has at most 61 steps before it; each step of its handlers takes one away and nothing gives one back |
| `PaymentSagaProofs!SaleImplemented`, `PurchaseImplemented`, `BookingImplemented` | The saga implements `TicketSale` (`ImplementsSale`) if budgets allow lost messages only, `SeatPurchase` if they allow rollbacks too, `SeatBooking` under every fault |
| `PaymentSagaProofs!UserLockRefined` | The payment key of each user is a `DistributedLock`, under every fault |
| `UserPointsProofs!TypeCorrect`, `LossExplained`, `ChargesAlone` | `TypeOK`, `LossHasCause`, `OnlyChargesOverwrite`, for any mix |
| `UserPointsProofs!NoLostUpdate`, `LockExcludes` | `BalanceIsLedger` for the mixes the code protects; nobody but the key's owner is inside while calls are fast |
| `UserPointsProofs!LockRefined` | `ImplementsLock`, for any mix: `UserPoints` implements `DistributedLock` |
| `DistributedLockProofs!Exclusive`, `OverlapIsPaidFor` | `MutualExclusion` of fast calls; n + 1 calls are inside together only if the key expired under somebody n times |
| `WaitingQueueProofs!TypeCorrect`, `SetsDisjoint`, `InOrder`, `TokensKept`, `OvershootIsBounded` | `TypeOK`, `NeverInBothQueues`, `FirstComeFirstServed`, `NoTokenLost`, `OvershootBounded` |
| `WaitingQueueProofs!NobodyOvertakes` | Those who are ahead of a waiting token (by score) only become fewer |
| `SeatCacheProofs!TypeCorrect`, `CacheBehind`, `Perishable`, `HitsComplete`, `ThrowsExplained` | `TypeOK`, `NeverAhead`, `HashIsPerishable`, `HitIsComplete`, `ThrowsOnlyWhenOvertaken` |
| `SeatCacheProofs!TtlSetOnce` | EXPIRE is never sent for a hash that has a TTL, and by one reader only |
| `SelloutRankingProofs!TypeCorrect`, `CountsSales`, `RankedWhenSoldOut` | `TypeOK`, `CountMatchesSales`, `RankedOnlyWhenSoldOut` |
| `SelloutRankingProofs!NeverForgotten` | When every sale went through `updateRanking` the schedule is ranked, unless the start was late |
| `TicketSaleProofs!SoldOnce`, `PartsImplemented` | `OneBuyer`, and that `TicketSale` implements `SeatBooking` and `SeatPurchase` |

All hold for every value of the constants that satisfies the modules' ASSUMEs:
any number of seats, requests, deliveries, users, payments, consumers, calls, any
set of faults and any budget.

**Seat reservation.** Agreement of the tables is not inductive: a commit sets
both rows, and only what the transaction checked earlier says that the values it
replaces are the right ones. The inductive invariant is `TypeOK` with
`SeatAgreesWithReservation` and `OpenTransactions`. The last says: (1) a seat never
gets a second reservation row, (2) a reserver past its UPDATE still finds the seat
AVAILABLE and is alone, (3) a confirmer or expirer past its UPDATE still finds the
reservation PENDING and is alone. Each is kept because the UPDATE waits for the
row and matches the expected status. Neither the Redis key nor the snapshot is
used. `HoldersDoNotWait` follows from these three and the agreement of the tables
(lemma `SecondRowIsFree`). `AnnouncedOnce` adds that an announcing delivery found its reservation
CONFIRMED by its own commit.

The three claims about holds rest on a second invariant, `HoldInv`. `InCharge`: as long
as nothing failed, a call that ended with a reservation has handed it to a job, and a
job that failed found a CONFIRMED reservation. `JobView`: what a job read stays true
unless a payment was faster. `Winner`: whatever is CONFIRMED was confirmed by a
delivery that goes on to announce it. Only the four COMMITs and the first writer
decide; all other steps carry the facts along. `NoOrphanedHold` needs
`FieldCached = {}`: with a cached field the write-back throws after the commit (the
run `SeatReservationCached`).

**Payment saga.** `TypeOK`, `SuccessIsBacked` and `NoFreeSeat` are inductive
together: `payment.success` is published in a control state reached only
through the committed charge, and `used` never decreases, so the charge still backs
the message after any crash or redelivery.

The other claims need to know how far a payment has come, and hold to different
grades of faults: `Faultless` (nothing failed), `LossOnly` (messages got lost),
`Benign` (and transactions rolled back). `FaultsStay`: a grade once left is never
regained, so a claim about a grade may use that it held before the step. While
`Benign`, a payment has one carrier at most, its message in a topic or the consumer
that handles it (`Solo`); the carrier's control state tells whether the money was taken
(`Money`), the row's status, the retry count and who has the seat (`Flow`); a payment
without a carrier has an honest record (`Honest`) and, if `Faultless`, has come to one
of three ends (`Outcome`). `SagaInv` says this of every payment. Each step either moves a
carrier on (lemmas `Goes`, `HandsOn`, `Takes`, `Requests`) or leaves it where it is
(`Elsewhere`), so a handler's step has to be checked only for the facts of the state it
goes to. `LosersAreTold` is read off `Outcome`, `LossNeverMisleads` off
`Flow` in every control state (`FitsHonest`), not only where a payment stops.

For the refinement `Flow` says that a refund starts only when the reservation is no
longer PENDING, and that who is charged does not own the seat yet. The first is what
a rollback in `confirmReservation` breaks: the money goes back while the reservation may
still be had. Hence `TicketSale` is implemented up to lost messages, its purchase
half up to rollbacks, its booking half always. With `TicketSaleProofs` a seat is sold to
one buyer. A crash, a rebalance or a Redis error breaks `Solo` or `Money`: section 7.

`PaymentConcludes` itself is liveness, but its two halves are proved. `NeverStranded`:
without faults whoever has no outcome is in a topic or in a consumer's hands, where
`Fairness` applies. `EveryStepCounts`: `StepsLeft` measures the steps a control state and
the messages it may still send can cause (a retry costs another 15), and every step
of a handler on behalf of a payment lowers it; other payments, expiries and losses
do not raise it. 61 = the step that takes the message + 15 for each of 4 attempts.

**User points.** No assumption on the mix. Two locks protect the balance, and the
invariant has a part for each. `RowLocked`: one transaction has the row, and a
payment or a refund that has it, or a charge that inserted it, knows the committed
balance. `ChargesCurrent`: while calls are fast and no refund has finished, a charge
knows it too, because everybody else who could commit needs the key (`KeyHeld`).
`LossHasCause` is the negation of the second part's premise, made a history of
finished calls; it is kept because a commit with the current balance keeps balance
and ledger equal, and a charge without it has a cause. `Checked`: a payment past its
check has enough, so the balance stays a natural number.

**Distributed lock.** `MutualExclusion` is not inductive: the key must exist while
somebody is inside and calls are fast, which is the strengthening `Backed`.
`OverlapIsPaidFor` drops "fast": a history variable counts the expiries that hit
somebody, and `Accounted` says that the calls inside are at most those expiries plus one
if the key exists. A DEL of somebody else's key does not break it, since the call
that sent it leaves at the same time. The refinements (`LockRefined`, `SeatLockRefined`,
`UserLockRefined`) need only types: each step either enters with the key absent, or
leaves, or touches nothing of the lock.

**Waiting queue.** `TypeOK` is inductive with two facts about scores and one about
the sets (`QueueInv`): no score is ahead of the clock (`Ordered`), and a promoted token,
or one whose ZADD is due, is not waiting and came no later than all that wait
(`Apart`, with `Ordered` the content of `NeverInBothQueues` and
`FirstComeFirstServed`). It is kept by the stale ZREM because a removed token never
comes back to the waiting set unless it is issued again. `TokensKept` follows from
`Conserved`. `OvershootIsBounded` counts: the active set and the calls that may still
add to it without looking again (`Reserved`) are at most `MaxActive` + calls - 1.
`NobodyOvertakes` uses that no score is ahead of the clock, so a ZADD puts its token
behind; within one millisecond the set orders by token, and a newcomer may come first.

**Seat cache.** A read-through is five commands, so the invariant says who is
responsible for a hash between them (`Caring`): a hash with a TTL, or with a reader
about to set one, exists, was filled as a whole and is nobody else's to fill; a
hash that exists and was not created by a late write-back is complete. `Missing`: what
a reader missed stays missing until it was disturbed or a write-back was faster,
which explains every throw. `Caring` also gives `TtlSetOnce`: with the hash complete a
second HSET adds no field and throws before EXPIRE, so nobody prolongs a stale list.

**Sellout ranking.** `Counts` puts `booked` between the confirmations that are past
their INCR and those whose INCR succeeded; the induction is on how the two sets
grow, by cardinality. `Keys`: unless the start was late, `soldOutAt` is set exactly when
the count is full. `Carried` and `Times` follow the value a confirmation carries (a
count, then a time between the last sale and now, then a duration) into the ranking
and from there to a reader. `NeverForgotten` adds `SomebodyRecords`: from the last INCR on
some sale is on its way to the ZADD or failed, because whoever counts last reads the
full count; a complete count cannot be reset without the start being late.

**Ticket sale.** What is sold is what was bought, and a seat is held or sold under one
reservation at a time; `OneBuyer` needs both, and the last comes from `SeatBooking`.

Only model-checked: everything under fairness (`SomebodyWins`, `PaymentConcludes`,
`QueueMoves`, `StalenessEnds`, `SoldOutIsRanked`), which is beyond the prover. What is
proved of them is that nobody can get into a state that fairness would not lead out
of: `HoldsAreSeenTo`, `NeverStranded` with `EveryStepCounts`, `NobodyOvertakes`,
`Perishable` with `TtlSetOnce`, `NeverForgotten`. The properties of the violation runs do
not hold in their settings (section 7).

## 7. Where the code does not keep a promise

| Run, property | What TLC shows | The promise |
|---|---|---|
| `SeatReservationRebook`, `ExpiredSeatCanBeReserved` | The expired row stays and `@@unique([seatId])` refuses every later reservation of the seat | `reservation.service.int.spec.ts:161` |
| `SeatReservationCached`, `NoOrphanedHold` | The write-back uses the seat's id as a schedule's key, and `hsetField` takes an overwritten field for an error: the handler throws after COMMIT, before the job | `docs/concurrency.md:105` |
| `PaymentSagaRedelivery`, `ConfirmedStaysPaid` | A redelivered `payment.success` finds the reservation CONFIRMED, announces failure, and the owner's money is refunded | `docs/kafka_implement.md:12` |
| `PaymentSagaRedis`, `ChargedAtMostOnce` | A Redis error after the charge committed is retried as if nothing had been taken | `docs/kafka_implement.md:215` |
| `SeatReservationNoWorker`, `HoldEnds` | The worker is created with `autorun: false` and nothing calls `run()` (`reservation-expire-consumer.service.ts:40`): an unpaid hold stays PENDING for ever, without any fault | `docs/concurrency.md:105`, `:107` |

Seen while modelling, without a run of its own:

* A refund between the plain read and the UPDATE of a charge is overwritten, since
  `cancelPayment` does not take the Redis key and `charge` does not lock the row
  (`payment.service.ts:76`). `LossHasCause` and `OnlyChargesOverwrite` say that this and
  a key that expired are the only ways to lose an update.
* A Redis error in `updateRanking`, which runs after the COMMIT inside the same try
  (`reservation.service.ts:229`), announces a failure: the owner of the seat is refunded
  and told CANCEL, as in `PaymentSagaRedelivery`. `FailureOnlyForLosers` leaves it out.
* A crash between `createPaymentTransaction` and `executePayment` leaves the payment
  PENDING for ever, since the redelivered `payment.try` counts as a duplicate.
* No code writes the status SUCCESS (`docs/kafka_implement.md:49`, `:79`, `:94`): a
  payment that bought its seat keeps PENDING or RETRYING, which its client cannot tell
  from one in progress.
* The three minutes of a promoted client are looked at only when it calls itself, and
  no worker removes its entry (`docs/infra_diagram.md:26`): if it left, the entry fills
  its place for ever, the `Clogged` of `WaitingQueue`.
* EXISTS and HSET of a write-back are two commands: a hash that perishes in between is
  created again with one field and no TTL (`redis.service.ts:162` to `170`), the `revived`
  of `SeatCache`, up to which `HashIsPerishable`, `HitIsComplete` and `StalenessEnds` hold.
* `startToSell` is called by tests only. Without it the keys do not exist,
  `Number(null) >= Number(null)` holds, and the first sale of a schedule records a
  duration since 1970; called after the first sale it forgets those counted before.
  That is the `late` of `SelloutRanking`.
* With calls that outlast the key's TTL (`pace` = "slow") two calls are inside
  `withLock`, because the key expires and because `releaseLock` deletes whatever key
  there is (`distributed-lock.service.ts:18`); a mix with a charge is then not
  protected. `LockExcludes` is therefore stated for fast calls; `OverlapIsPaidFor` says
  how many get in otherwise.
* The limit of ten active users is overshot by one per concurrent loop
  (`OvershootBounded`).
* A late ZADD may put a token back into the active set after its client used and
  deleted it; `NoTokenLost` and `NeverInBothQueues` allow that, and it is one way to
  clog the active set.
* A sale whose `updateRanking` did not come through (a crash or a Redis error after
  the COMMIT) is never counted, so its schedule is never ranked: the `lost` of
  `SelloutRanking`. `CountMatchesSales` and `SoldOutIsRanked` hold up to such sales.
* A reader that fails between HSET and EXPIRE leaves a hash without a TTL, which every
  later reader is shown: the `abandoned` of `SeatCache`. `HashIsPerishable` and
  `StalenessEnds` hold up to it.
* A payment may be made with the token of another reservation of the same user; the
  token deleted afterwards is then the other one's.
* `startAt` is when the performance begins, so a sellout before it has a negative
  duration.
* Two clients that miss the seat cache together: the second one's request fails,
  since `hset` takes "no new field" for an error (`redis.service.ts:143`).
  `getSeats` of a schedule without seats always fails.
* The write-back changes the list of the schedule whose id is the seat's number. The
  seat's own list goes on showing it AVAILABLE until its hour is over; a list that was
  left without a TTL, for ever.
* A client that asks for a queue token twice within a second holds one token twice:
  if the first was promoted in between, it is sent back to wait while its entry takes
  a place in the active set.
* Two concurrent calls of `temporaryReserve` with one token can both reserve a seat:
  each passes `verifyToken` before the other deletes the token.

## 8. What is left out

* **Payment token:** no module of its own; it is issued in `SeatReservation`,
  verified, deleted and expired in `PaymentSaga`.
* **`getSchedules`:** see 2.5. `checkQueueStatus` as a request of its own, `getBalance`,
  `getInfo` and the other reads change nothing.
* `_reserveWithPessimisticLock` and `SeatLockService` are called from no live code;
  the in-process event bus and its listeners are not bound to `EVENT_BUS`;
  `queue-consumer.service.ts` is never started.
* Authentication (sequential), the inserts of the concert repository (used by tests), the data platform (an append-only log
  nobody reads), controllers, DTOs and module wiring keep no state that matters here.
* `payment.failure` has no consumer, and `reservation.success` reaches only the data
  platform: neither is in `Types`.
* Prices, user names, JWT contents, timestamps and log lines are abstracted.

## 9. Plan

1. *(done)* `SeatReservation` with `SeatBooking`; `PaymentSaga`; `UserPoints`;
   `WaitingQueue`; `SeatCache`; `SelloutRanking`; `DistributedLock` and `TicketSale`
   as what they promise; the proofs of section 6.
2. A composition with the queue: a token, a hold and a charge of one client in one
   behaviour.
3. The grades of faults for redelivery: what survives a duplicate `payment.try`, which
   the row makes idempotent, although a duplicate `payment.success` does not.
