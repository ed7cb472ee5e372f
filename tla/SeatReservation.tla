-------------------------- MODULE SeatReservation --------------------------
(***************************************************************************)
(* The life of a seat: temporaryReserve (ReservationService), the final    *)
(* assignment on payment.success (confirmReservation) and the delayed      *)
(* expiry job (ReservationExpireConsumer.process), each as the interleaved *)
(* steps of its database transaction and of the Redis calls around it.     *)
(*                                                                         *)
(* A transaction's writes stay private until it commits and keep their     *)
(* rows locked until then, so seat and resv hold COMMITTED values only and *)
(* who locks which row is read off the control states (SeatRowFree,        *)
(* ResvRowFree).  A handler's own snapshot (InnoDB REPEATABLE READ) is     *)
(* taken by its first SELECT.                                              *)
(***************************************************************************)
EXTENDS FiniteSets

CONSTANTS
  Seats,        \* rows of "seats"
  Requests,     \* calls of temporaryReserve; also names the row one creates
  SeatOf,       \* the seatId of every call
  FieldCached,  \* seats s for which the hash schedule:<s>:seats exists in Redis
                \* and has a field <s>
  Copies,       \* deliveries of payment.success per reservation
  Faults,       \* which of the faults below may happen
  WorkerRuns    \* TRUE iff somebody calls process() for the expiry jobs

ASSUME SeatOfAssumption == SeatOf \in [Requests -> Seats]
ASSUME FieldCachedAssumption == FieldCached \subseteq Seats
ASSUME FaultsAssumption == Faults \subseteq {"redis", "db", "crash"}
ASSUME WorkerRunsAssumption == WorkerRuns \in BOOLEAN

Deliveries == Requests \X Copies
ResvOf(d)  == d[1]

VARIABLES
  seat,         \* [Seats -> SeatStatus]: seats.status
  resv,         \* [Requests -> ResvStatus]: reservations.status, NONE = no row
  seatLock,     \* [Seats -> BOOLEAN]: the Redis key lock:seat:<id> exists
  rpc,          \* control state of every temporaryReserve call
  verdict,      \* how its transaction ended
  token,        \* [Requests -> BOOLEAN]: a payment token was issued
  cpc,          \* control state of every payment.success delivery
  csnap,        \* the seat status in its snapshot
  job,          \* state of the expiry job of every reservation
  jsnap,        \* what the job's snapshot shows
  stalled,      \* jobs BullMQ already put back once
  faulty        \* a fault happened (history, read by properties only)

dbVars      == <<seat, resv>>
reserveVars == <<rpc, verdict, token, seatLock>>
confirmVars == <<cpc, csnap>>
jobVars     == <<job, jsnap, stalled>>
vars == <<seat, resv, seatLock, rpc, verdict, token, cpc, csnap,
          job, jsnap, stalled, faulty>>

SeatStatus == {"AVAILABLE", "RESERVED", "SOLD"}
ResvStatus == {"NONE", "PENDING", "CONFIRMED", "EXPIRED"}
Snapshot   == [resv : ResvStatus, seat : SeatStatus]

ReservePC == {"idle", "locked", "read", "updated", "inserted", "release",
              "committed", "cached", "enqueue", "done", "failed"}
Verdicts  == {"none", "ok", "ALREADY_RESERVED", "update_failed",
              "seat_id_taken", "tx_failed"}
ConfirmPC == {"idle", "read", "resv_updated", "seat_updated", "committed",
              "announced", "done", "failed"}
JobPC     == {"none", "waiting", "read", "resv_updated", "seat_updated",
              "committed", "completed", "failed"}

TypeOK ==
  /\ seat \in [Seats -> SeatStatus]
  /\ resv \in [Requests -> ResvStatus]
  /\ seatLock \in [Seats -> BOOLEAN]
  /\ rpc \in [Requests -> ReservePC]
  /\ verdict \in [Requests -> Verdicts]
  /\ token \in [Requests -> BOOLEAN]
  /\ cpc \in [Deliveries -> ConfirmPC]
  /\ csnap \in [Deliveries -> SeatStatus]
  /\ job \in [Requests -> JobPC]
  /\ jsnap \in [Requests -> Snapshot]
  /\ stalled \in SUBSET Requests
  /\ faulty \in BOOLEAN

Init ==
  /\ seat = [s \in Seats |-> "AVAILABLE"]
  /\ resv = [r \in Requests |-> "NONE"]
  /\ seatLock = [s \in Seats |-> FALSE]
  /\ rpc = [r \in Requests |-> "idle"]
  /\ verdict = [r \in Requests |-> "none"]
  /\ token = [r \in Requests |-> FALSE]
  /\ cpc = [d \in Deliveries |-> "idle"]
  /\ csnap = [d \in Deliveries |-> "AVAILABLE"]
  /\ job = [r \in Requests |-> "none"]
  /\ jsnap = [r \in Requests |-> [resv |-> "NONE", seat |-> "AVAILABLE"]]
  /\ stalled = {}
  /\ faulty = FALSE

-----------------------------------------------------------------------------
(* The database: row locks, the conditional UPDATE, UNIQUE(seat_id).       *)

\* No open transaction has written the row of seat s.
SeatRowFree(s) ==
  /\ \A r \in Requests : SeatOf[r] = s =>
       rpc[r] \notin {"updated", "inserted"} /\ job[r] # "seat_updated"
  /\ \A d \in Deliveries : SeatOf[ResvOf(d)] = s => cpc[d] # "seat_updated"

\* No open transaction has written the row of reservation r.
ResvRowFree(r) ==
  /\ job[r] \notin {"resv_updated", "seat_updated"}
  /\ \A d \in Deliveries :
       ResvOf(d) = r => cpc[d] \notin {"resv_updated", "seat_updated"}

\* The row the repository compares with what it wrote is read from the
\* transaction's own snapshot when the UPDATE matched nothing.
Reread(snapshot, current) == snapshot

\* Mutant: UPDATE ... WHERE id = ?, the expected status forgotten.
UnconditionalUpdate(snapshot, current, expected, wanted) == TRUE

\* repository.update(x, expected): Prisma SELECTs the row by id and status in
\* the snapshot, UPDATEs it by id and status in its current version, and reads
\* it back; the repository throws unless the row read shows the wanted status.
\* (InnoDB locks the row even of an UPDATE that matches nothing; its transaction
\* rolls back without waiting for another row, so that lock is left out.)
CondUpdate(snapshot, current, expected, wanted) ==
  /\ snapshot = expected
  /\ current = expected \/ Reread(snapshot, current) = wanted

\* Mutant: the table has no @@unique([seatId]).
NotUnique(r) == FALSE

\* INSERT INTO reservations fails when the seat has a row, whatever its status.
SeatIdTaken(r) ==
  \E q \in Requests : SeatOf[q] = SeatOf[r] /\ resv[q] # "NONE"

-----------------------------------------------------------------------------
(* temporaryReserve.  An attempt that fails inside withLock still runs the  *)
(* finally clause, hence goes through "release".                           *)

Verdict(r, v) == verdict' = [verdict EXCEPT ![r] = v]
ReserveTo(r, state) == rpc' = [rpc EXCEPT ![r] = state]

\* Mutant: SET without NX.
AcquireSeatLockAlways(r) ==
  /\ rpc[r] = "idle"
  /\ ReserveTo(r, "locked")
  /\ seatLock' = [seatLock EXCEPT ![SeatOf[r]] = TRUE]
  /\ UNCHANGED <<dbVars, verdict, token, confirmVars, jobVars>>

\* withLock with one attempt: SET NX EX, and the call fails if the key exists.
AcquireSeatLock(r) ==
  /\ rpc[r] = "idle"
  /\ IF seatLock[SeatOf[r]]
       THEN ReserveTo(r, "failed") /\ UNCHANGED seatLock
       ELSE /\ ReserveTo(r, "locked")
            /\ seatLock' = [seatLock EXCEPT ![SeatOf[r]] = TRUE]
  /\ UNCHANGED <<dbVars, verdict, token, confirmVars, jobVars>>

\* The key outlives neither its TTL nor its owner's patience: it may vanish
\* while the owner is still in its transaction.
SeatLockExpires(s) ==
  /\ seatLock[s]
  /\ seatLock' = [seatLock EXCEPT ![s] = FALSE]
  /\ UNCHANGED <<dbVars, rpc, verdict, token, confirmVars, jobVars>>

\* BEGIN and the first SELECT, which fixes the snapshot.
ReserveRead(r) ==
  /\ rpc[r] = "locked"
  /\ IF seat[SeatOf[r]] = "AVAILABLE"
       THEN ReserveTo(r, "read") /\ UNCHANGED verdict
       ELSE ReserveTo(r, "release") /\ Verdict(r, "ALREADY_RESERVED")
  /\ UNCHANGED <<dbVars, seatLock, token, confirmVars, jobVars>>

\* The conditional UPDATE AVAILABLE -> RESERVED; waits for the row.  The
\* snapshot showed AVAILABLE, or ReserveRead would have thrown.
ReserveUpdateSeat(r) ==
  /\ rpc[r] = "read"
  /\ SeatRowFree(SeatOf[r])
  /\ IF CondUpdate("AVAILABLE", seat[SeatOf[r]], "AVAILABLE", "RESERVED")
       THEN ReserveTo(r, "updated") /\ UNCHANGED verdict
       ELSE ReserveTo(r, "release") /\ Verdict(r, "update_failed")
  /\ UNCHANGED <<dbVars, seatLock, token, confirmVars, jobVars>>

ReserveInsert(r) ==
  /\ rpc[r] = "updated"
  /\ IF SeatIdTaken(r)
       THEN ReserveTo(r, "release") /\ Verdict(r, "seat_id_taken")
       ELSE ReserveTo(r, "inserted") /\ UNCHANGED verdict
  /\ UNCHANGED <<dbVars, seatLock, token, confirmVars, jobVars>>

\* Mutant: the reservation's status goes into the seat's column (both are small
\* integers).
ReserveCommitWrongEnum(r) ==
  /\ rpc[r] = "inserted"
  /\ seat' = [seat EXCEPT ![SeatOf[r]] = "PENDING"]
  /\ resv' = [resv EXCEPT ![r] = "PENDING"]
  /\ ReserveTo(r, "release")
  /\ Verdict(r, "ok")
  /\ UNCHANGED <<seatLock, token, confirmVars, jobVars>>

ReserveCommit(r) ==
  /\ rpc[r] = "inserted"
  /\ seat' = [seat EXCEPT ![SeatOf[r]] = "RESERVED"]
  /\ resv' = [resv EXCEPT ![r] = "PENDING"]
  /\ ReserveTo(r, "release")
  /\ Verdict(r, "ok")
  /\ UNCHANGED <<seatLock, token, confirmVars, jobVars>>

\* The finally clause deletes the key, whoever set it.
ReleaseSeatLock(r) ==
  /\ rpc[r] = "release"
  /\ seatLock' = [seatLock EXCEPT ![SeatOf[r]] = FALSE]
  /\ ReserveTo(r, IF verdict[r] = "ok" THEN "committed" ELSE "failed")
  /\ UNCHANGED <<dbVars, verdict, token, confirmVars, jobVars>>

\* hsetField(schedule:<seatId>:seats): nothing happens without the hash; HSET
\* answers 0 when it overwrites a field, which hsetField takes for a failure.
WriteBackCache(r) ==
  /\ rpc[r] = "committed"
  /\ ReserveTo(r, IF SeatOf[r] \in FieldCached THEN "failed" ELSE "cached")
  /\ UNCHANGED <<dbVars, seatLock, verdict, token, confirmVars, jobVars>>

\* Mutant: the handler answers with the token and skips the job.
IssuePaymentTokenAndReturn(r) ==
  /\ rpc[r] = "cached"
  /\ token' = [token EXCEPT ![r] = TRUE]
  /\ ReserveTo(r, "done")
  /\ UNCHANGED <<dbVars, seatLock, verdict, confirmVars, jobVars>>

\* The payment token; the queue token is deleted.
IssuePaymentToken(r) ==
  /\ rpc[r] = "cached"
  /\ token' = [token EXCEPT ![r] = TRUE]
  /\ ReserveTo(r, "enqueue")
  /\ UNCHANGED <<dbVars, seatLock, verdict, confirmVars, jobVars>>

AddExpireJob(r) ==
  /\ rpc[r] = "enqueue"
  /\ job' = [job EXCEPT ![r] = "waiting"]
  /\ ReserveTo(r, "done")
  /\ UNCHANGED <<dbVars, seatLock, verdict, token, confirmVars, jsnap, stalled>>

InReserveTx(r) == rpc[r] \in {"locked", "read", "updated", "inserted"}

\* The transaction fails (10 s timeout, lost connection): rollback.
ReserveTxFails(r) ==
  /\ "db" \in Faults
  /\ InReserveTx(r)
  /\ ReserveTo(r, "release")
  /\ Verdict(r, "tx_failed")
  /\ UNCHANGED <<dbVars, seatLock, token, confirmVars, jobVars>>

\* The SET was done but its answer got lost: acquireLock takes the error for
\* "not acquired", and the key belongs to nobody.
AcquireReplyLost(r) ==
  /\ "redis" \in Faults
  /\ rpc[r] = "idle" /\ ~seatLock[SeatOf[r]]
  /\ seatLock' = [seatLock EXCEPT ![SeatOf[r]] = TRUE]
  /\ ReserveTo(r, "failed")
  /\ UNCHANGED <<dbVars, verdict, token, confirmVars, jobVars>>

\* Redis refuses a command after COMMIT (key release, cache write-back, token
\* or job): the handler throws, the reservation stays.
ReserveRedisFails(r) ==
  /\ "redis" \in Faults
  /\ rpc[r] \in {"release", "committed", "cached", "enqueue"}
  /\ ReserveTo(r, "failed")
  /\ UNCHANGED <<dbVars, seatLock, verdict, token, confirmVars, jobVars>>

\* The process dies; an open transaction rolls back, the Redis key stays.
ReserveCrash(r) ==
  /\ "crash" \in Faults
  /\ rpc[r] \in ReservePC \ {"idle", "done", "failed"}
  /\ ReserveTo(r, "failed")
  /\ UNCHANGED <<dbVars, seatLock, verdict, token, confirmVars, jobVars>>

Reserve(r) ==
  \/ AcquireSeatLock(r) \/ ReserveRead(r) \/ ReserveUpdateSeat(r)
  \/ ReserveInsert(r) \/ ReserveCommit(r) \/ ReleaseSeatLock(r)
  \/ WriteBackCache(r) \/ IssuePaymentToken(r) \/ AddExpireJob(r)

ReserveFault(r) ==
  \/ AcquireReplyLost(r) \/ ReserveTxFails(r) \/ ReserveRedisFails(r) \/ ReserveCrash(r)

-----------------------------------------------------------------------------
(* onPaymentSuccess -> confirmReservation.  "failed" is the catch branch:   *)
(* reservation.failure was published.                                      *)

ConfirmTo(d, state) == cpc' = [cpc EXCEPT ![d] = state]

\* A payment names an existing reservation.  The first SELECT fixes the
\* snapshot and throws NOT_PENDING_RESERVATION.
ConfirmRead(d) ==
  /\ cpc[d] = "idle"
  /\ resv[ResvOf(d)] # "NONE"
  /\ csnap' = [csnap EXCEPT ![d] = seat[SeatOf[ResvOf(d)]]]
  /\ ConfirmTo(d, IF resv[ResvOf(d)] = "PENDING" THEN "read" ELSE "failed")
  /\ UNCHANGED <<dbVars, reserveVars, jobVars>>

\* PENDING -> CONFIRMED; the snapshot showed PENDING.
ConfirmUpdateResv(d) ==
  /\ cpc[d] = "read"
  /\ ResvRowFree(ResvOf(d))
  /\ ConfirmTo(d, IF CondUpdate("PENDING", resv[ResvOf(d)], "PENDING", "CONFIRMED")
                    THEN "resv_updated" ELSE "failed")
  /\ UNCHANGED <<dbVars, reserveVars, csnap, jobVars>>

\* RESERVED -> SOLD
ConfirmUpdateSeat(d) ==
  LET s == SeatOf[ResvOf(d)] IN
  /\ cpc[d] = "resv_updated"
  /\ SeatRowFree(s)
  /\ ConfirmTo(d, IF CondUpdate(csnap[d], seat[s], "RESERVED", "SOLD")
                    THEN "seat_updated" ELSE "failed")
  /\ UNCHANGED <<dbVars, reserveVars, csnap, jobVars>>

ConfirmCommit(d) ==
  /\ cpc[d] = "seat_updated"
  /\ resv' = [resv EXCEPT ![ResvOf(d)] = "CONFIRMED"]
  /\ seat' = [seat EXCEPT ![SeatOf[ResvOf(d)]] = "SOLD"]
  /\ ConfirmTo(d, "committed")
  /\ UNCHANGED <<reserveVars, csnap, jobVars>>

\* publishReservationSuccess
AnnounceSuccess(d) ==
  /\ cpc[d] = "committed"
  /\ ConfirmTo(d, "announced")
  /\ UNCHANGED <<dbVars, reserveVars, csnap, jobVars>>

\* Mutant: the ranking throws for a seat that is the first to sell.
UpdateRankingThrows(d) ==
  /\ cpc[d] = "announced"
  /\ ConfirmTo(d, "failed")
  /\ UNCHANGED <<dbVars, reserveVars, csnap, jobVars>>

\* selloutRankingService.updateRanking returns
UpdateRanking(d) ==
  /\ cpc[d] = "announced"
  /\ ConfirmTo(d, "done")
  /\ UNCHANGED <<dbVars, reserveVars, csnap, jobVars>>

\* updateRanking rethrows a Redis error inside the same try: the catch
\* publishes reservation.failure for a reservation that is CONFIRMED.
RankingFails(d) ==
  /\ "redis" \in Faults
  /\ cpc[d] = "announced"
  /\ ConfirmTo(d, "failed")
  /\ UNCHANGED <<dbVars, reserveVars, csnap, jobVars>>

ConfirmTxFails(d) ==
  /\ "db" \in Faults
  /\ cpc[d] \in {"read", "resv_updated", "seat_updated"}
  /\ ConfirmTo(d, "failed")
  /\ UNCHANGED <<dbVars, reserveVars, csnap, jobVars>>

\* The consumer dies before it acknowledges: the message comes again.
ConfirmCrash(d) ==
  /\ "crash" \in Faults
  /\ cpc[d] \in {"read", "resv_updated", "seat_updated", "committed", "announced"}
  /\ ConfirmTo(d, "idle")
  /\ UNCHANGED <<dbVars, reserveVars, csnap, jobVars>>

Confirm(d) ==
  \/ ConfirmRead(d) \/ ConfirmUpdateResv(d) \/ ConfirmUpdateSeat(d)
  \/ ConfirmCommit(d) \/ AnnounceSuccess(d) \/ UpdateRanking(d)

ConfirmFault(d) == RankingFails(d) \/ ConfirmTxFails(d) \/ ConfirmCrash(d)

-----------------------------------------------------------------------------
(* The delayed job: ReservationExpireConsumer.process.  It has no attempts  *)
(* left when it throws.  The 301 s delay orders it after nothing: a payment *)
(* or a slow handler may take longer.                                      *)

JobTo(r, state) == job' = [job EXCEPT ![r] = state]

ExpireRead(r) ==
  /\ WorkerRuns
  /\ job[r] = "waiting"
  /\ jsnap' = [jsnap EXCEPT ![r] = [resv |-> resv[r], seat |-> seat[SeatOf[r]]]]
  /\ JobTo(r, "read")
  /\ UNCHANGED <<dbVars, reserveVars, confirmVars, stalled>>

\* PENDING -> EXPIRED
ExpireUpdateResv(r) ==
  /\ job[r] = "read"
  /\ ResvRowFree(r)
  /\ JobTo(r, IF CondUpdate(jsnap[r].resv, resv[r], "PENDING", "EXPIRED")
                THEN "resv_updated" ELSE "failed")
  /\ UNCHANGED <<dbVars, reserveVars, confirmVars, jsnap, stalled>>

\* Mutant: expected AVAILABLE, the status it sets.
ExpireUpdateSeatWrongly(r) ==
  /\ job[r] = "resv_updated"
  /\ SeatRowFree(SeatOf[r])
  /\ JobTo(r, IF CondUpdate(jsnap[r].seat, seat[SeatOf[r]], "AVAILABLE", "AVAILABLE")
                THEN "seat_updated" ELSE "failed")
  /\ UNCHANGED <<dbVars, reserveVars, confirmVars, jsnap, stalled>>

\* RESERVED -> AVAILABLE
ExpireUpdateSeat(r) ==
  /\ job[r] = "resv_updated"
  /\ SeatRowFree(SeatOf[r])
  /\ JobTo(r, IF CondUpdate(jsnap[r].seat, seat[SeatOf[r]], "RESERVED", "AVAILABLE")
                THEN "seat_updated" ELSE "failed")
  /\ UNCHANGED <<dbVars, reserveVars, confirmVars, jsnap, stalled>>

\* Mutant: the expiry forgets the seat.
ExpireCommitKeepsSeat(r) ==
  /\ job[r] = "seat_updated"
  /\ resv' = [resv EXCEPT ![r] = "EXPIRED"]
  /\ JobTo(r, "committed")
  /\ UNCHANGED <<seat, reserveVars, confirmVars, jsnap, stalled>>

ExpireCommit(r) ==
  /\ job[r] = "seat_updated"
  /\ resv' = [resv EXCEPT ![r] = "EXPIRED"]
  /\ seat' = [seat EXCEPT ![SeatOf[r]] = "AVAILABLE"]
  /\ JobTo(r, "committed")
  /\ UNCHANGED <<reserveVars, confirmVars, jsnap, stalled>>

\* process returns true and BullMQ removes the job.
ExpireComplete(r) ==
  /\ job[r] = "committed"
  /\ JobTo(r, "completed")
  /\ UNCHANGED <<dbVars, reserveVars, confirmVars, jsnap, stalled>>

InExpire(r) == job[r] \in {"read", "resv_updated", "seat_updated", "committed"}

ExpireTxFails(r) ==
  /\ "db" \in Faults
  /\ InExpire(r) /\ job[r] # "committed"
  /\ JobTo(r, "failed")
  /\ UNCHANGED <<dbVars, reserveVars, confirmVars, jsnap, stalled>>

\* The worker dies: BullMQ finds the stalled job and puts it back once.
ExpireCrash(r) ==
  /\ "crash" \in Faults
  /\ InExpire(r)
  /\ JobTo(r, IF r \in stalled THEN "failed" ELSE "waiting")
  /\ stalled' = stalled \cup {r}
  /\ UNCHANGED <<dbVars, reserveVars, confirmVars, jsnap>>

Expire(r) ==
  \/ ExpireRead(r) \/ ExpireUpdateResv(r) \/ ExpireUpdateSeat(r)
  \/ ExpireCommit(r) \/ ExpireComplete(r)

ExpireFault(r) == ExpireTxFails(r) \/ ExpireCrash(r)

-----------------------------------------------------------------------------
Work ==
  \/ \E r \in Requests : Reserve(r) \/ Expire(r)
  \/ \E d \in Deliveries : Confirm(d)
  \/ \E s \in Seats : SeatLockExpires(s)

Break ==
  \/ \E r \in Requests : ReserveFault(r) \/ ExpireFault(r)
  \/ \E d \in Deliveries : ConfirmFault(d)

NoFault == UNCHANGED faulty

Next ==
  \/ Work /\ NoFault
  \/ Break /\ faulty' = TRUE

Spec == Init /\ [][Next]_vars

\* A started handler keeps running, a waiting UPDATE gets its row, a worker that
\* runs picks up its jobs, a key's TTL runs out.  Nobody is obliged to reserve or
\* to pay.
Fairness ==
  /\ \A r \in Requests : WF_vars(Reserve(r) /\ rpc[r] # "idle" /\ NoFault)
  /\ \A r \in Requests : WF_vars(Expire(r) /\ NoFault)
  /\ \A d \in Deliveries : WF_vars(Confirm(d) /\ cpc[d] # "idle" /\ NoFault)
  /\ \A s \in Seats : WF_vars(SeatLockExpires(s) /\ NoFault)

FairSpec == Spec /\ Fairness

-----------------------------------------------------------------------------
(* Safety                                                                  *)

Active(r) == resv[r] \in {"PENDING", "CONFIRMED"}

\* The two tables never tell different stories: a seat is RESERVED exactly when
\* one reservation of it is PENDING, SOLD exactly when one is CONFIRMED, and
\* never has two active reservations (one seat to one user).  The code keeps
\* this by updating both rows in one transaction, each on its expected status;
\* neither the Redis key (it expires, anybody deletes it) nor the order of
\* payment and expiry matters.
SeatAgreesWithReservation ==
  /\ \A q, r \in Requests :
       Active(q) /\ Active(r) /\ SeatOf[q] = SeatOf[r] => q = r
  /\ \A s \in Seats :
       /\ seat[s] = "RESERVED" <=>
            \E r \in Requests : SeatOf[r] = s /\ resv[r] = "PENDING"
       /\ seat[s] = "SOLD" <=>
            \E r \in Requests : SeatOf[r] = s /\ resv[r] = "CONFIRMED"

Announced(d) == cpc[d] \in {"announced", "done"}

\* A seat never gets a second row in reservations.
UniqueSeatId ==
  \A q, r \in Requests :
    resv[q] # "NONE" /\ resv[r] # "NONE" /\ SeatOf[q] = SeatOf[r] => q = r

\* A call has no row before its COMMIT; one that wrote the seat row found it
\* AVAILABLE and is alone with it; one that inserted found no other row.
ReserverOwnsSeat ==
  /\ \A r \in Requests :
       /\ rpc[r] \in {"idle", "locked", "read", "updated", "inserted"}
            => resv[r] = "NONE"
       /\ rpc[r] \in {"updated", "inserted"} => seat[SeatOf[r]] = "AVAILABLE"
       /\ rpc[r] = "inserted" => ~SeatIdTaken(r)
  /\ \A q, r \in Requests :
       rpc[q] \in {"updated", "inserted"} /\ rpc[r] \in {"updated", "inserted"}
         /\ SeatOf[q] = SeatOf[r] => q = r

\* A confirmation or an expiry that wrote the reservation row found it PENDING
\* and is alone with it.
FinisherOwnsReservation ==
  /\ \A r \in Requests :
       job[r] \in {"resv_updated", "seat_updated"} => resv[r] = "PENDING"
  /\ \A d \in Deliveries : cpc[d] \in {"resv_updated", "seat_updated"} =>
       /\ resv[ResvOf(d)] = "PENDING"
       /\ job[ResvOf(d)] \notin {"resv_updated", "seat_updated"}
  /\ \A d, e \in Deliveries :
       cpc[d] \in {"resv_updated", "seat_updated"}
         /\ cpc[e] \in {"resv_updated", "seat_updated"}
         /\ ResvOf(d) = ResvOf(e) => d = e

\* No two open transactions ever write the same row, and each still finds the
\* status it saw.  With it the agreement above is inductive.
RowOwnership == UniqueSeatId /\ ReserverOwnsSeat /\ FinisherOwnsReservation

\* Whoever has written its first row and turns to the seat finds it unlocked and
\* RESERVED.
HoldersDoNotWait ==
  /\ \A d \in Deliveries : cpc[d] = "resv_updated" =>
       SeatRowFree(SeatOf[ResvOf(d)]) /\ seat[SeatOf[ResvOf(d)]] = "RESERVED"
  /\ \A r \in Requests : job[r] = "resv_updated" =>
       SeatRowFree(SeatOf[r]) /\ seat[SeatOf[r]] = "RESERVED"

\* What holds while transactions are open.  Confirmation and expiry lock
\* reservation before seat, temporaryReserve seat before reservation: yet whoever
\* holds a row never waits for another, so the two orders cannot close a circle
\* and no transaction is a deadlock victim.
OpenTransactions == RowOwnership /\ HoldersDoNotWait

\* reservation.success goes out at most once per reservation, and only for one
\* that is CONFIRMED, however many payments or redeliveries confirm it at the
\* same time (confirmReservation publishes after its transaction).
SuccessAnnouncedOnce ==
  /\ \A d \in Deliveries : Announced(d) => resv[ResvOf(d)] = "CONFIRMED"
  /\ \A d, e \in Deliveries :
       Announced(d) /\ Announced(e) /\ ResvOf(d) = ResvOf(e) => d = e

\* A CONFIRMED or EXPIRED reservation never changes again: of a payment and an
\* expiry that overlap only the first to write wins.
FinalIsFinal ==
  [][\A r \in Requests :
       resv[r] \in {"CONFIRMED", "EXPIRED"} => resv'[r] = resv[r]]_vars

\* As long as no fault happened, a PENDING reservation is still in its
\* handler's hands or has an expiry job that has not run: no seat is held for
\* ever (temporaryReserve enqueues the job only after COMMIT, outside any
\* transaction).  Holds only if nothing is cached for its seat.
NoOrphanedHold ==
  ~faulty => \A r \in Requests : resv[r] = "PENDING" =>
    \/ rpc[r] \in {"release", "committed", "cached", "enqueue"}
    \/ job[r] \in JobPC \ {"none", "completed", "failed"}

\* A job that completed expired its reservation, and one that threw without a
\* fault lost against a payment: the job is never used up for nothing.
JobDecides ==
  \A r \in Requests :
    /\ job[r] = "completed" => resv[r] = "EXPIRED"
    /\ job[r] = "failed" /\ ~faulty => resv[r] = "CONFIRMED"

\* Without a fault the failure event, hence the refund it triggers, never goes
\* out for a delivery whose own transaction confirmed the reservation: if the
\* reservation is CONFIRMED another delivery did it.
FailureOnlyForLosers ==
  ~faulty => \A d \in Deliveries :
    cpc[d] = "failed" /\ resv[ResvOf(d)] = "CONFIRMED" =>
      \E e \in Deliveries :
        ResvOf(e) = ResvOf(d) /\ cpc[e] \in {"committed", "announced", "done"}

\* An attempt turned away by UNIQUE(seat_id) is turned away by a reservation
\* that is still active: after an expiry the seat can be reserved again.
ExpiredSeatCanBeReserved ==
  \A r \in Requests : verdict[r] = "seat_id_taken" =>
    \E q \in Requests : SeatOf[q] = SeatOf[r] /\ Active(q)

(* Liveness                                                                *)

\* When a payment or an expiry has begun on a hold, one of those that have begun
\* wins: they neither wait for each other's rows nor all give up (confirm and
\* expire lock reservation and seat and compare with their snapshots).
SomebodyWins ==
  \A r \in Requests :
    job[r] = "read" \/ (\E d \in Deliveries : ResvOf(d) = r /\ cpc[d] = "read")
      ~> resv[r] # "PENDING" \/ faulty

\* Every hold ends, by a payment or by the expiry job, unless a fault happens
\* (docs/concurrency.md: the job queued with the hold ends it after five minutes).
HoldEnds ==
  \A r \in Requests : resv[r] = "PENDING" ~> resv[r] # "PENDING" \/ faulty

-----------------------------------------------------------------------------
(* The specifications implemented.                                         *)

Status(st) == {r \in Requests : resv[r] = st}

Booking == INSTANCE SeatBooking WITH
  held <- Status("PENDING"), sold <- Status("CONFIRMED"), lapsed <- Status("EXPIRED")

\* Every step of the handlers is a step of SeatBooking or changes nothing it
\* can see: what the interleaved transactions do, one atomic booking could do.
ImplementsBooking == Booking!Spec

\* Between withLock's acquire and its finally clause.
InCritical(r) == InReserveTx(r) \/ rpc[r] = "release"

SeatLock(s) == INSTANCE DistributedLock WITH
  Clients <- {r \in Requests : SeatOf[r] = s},
  key <- seatLock[s],
  inside <- {r \in Requests : SeatOf[r] = s /\ InCritical(r)},
  slow <- TRUE

\* Every seat has a lock of its own, used as DistributedLock says: no failure in
\* the transaction leaves withLock without its finally clause, and nothing after
\* withLock touches the key.
ImplementsSeatLock ==
  /\ \A s \in Seats : SeatLock(s)!Init
  /\ [][\A s \in Seats : SeatLock(s)!Next \/ UNCHANGED SeatLock(s)!vars]_vars
=============================================================================
