----------------------- MODULE SeatReservationProofs -----------------------
(***************************************************************************)
(* What SeatReservation guarantees for every set of seats, calls and       *)
(* payment deliveries, with every fault allowed.                           *)
(***************************************************************************)
EXTENDS SeatReservation, TLAPS

\* Typing facts every step needs.
LEMMA DeliveryOfRequest == \A d \in Deliveries : ResvOf(d) \in Requests
BY DEF Deliveries, ResvOf

LEMMA SeatOfRequest == \A r \in Requests : SeatOf[r] \in Seats
BY SeatOfAssumption

-----------------------------------------------------------------------------
(* Type correctness                                                        *)

LEMMA InitTypeOK == Init => TypeOK
<1>1. Init => faulty \in BOOLEAN
  BY ZenonT(30) DEF Init
<1> QED
  BY <1>1 DEF Init, TypeOK, SeatStatus, ResvStatus, ReservePC, Verdicts,
              ConfirmPC, JobPC, Snapshot

LEMMA ReserveTypeOK ==
  ASSUME TypeOK, NEW r \in Requests, Reserve(r) \/ ReserveFault(r),
         faulty' \in BOOLEAN
  PROVE  TypeOK'
<1> USE DEF TypeOK, dbVars, confirmVars, jobVars, ReserveTo, Verdict, SeatStatus,
        ResvStatus, ReservePC, Verdicts, JobPC
<1>0. SeatOf[r] \in Seats
  BY SeatOfRequest
<1>1. CASE AcquireSeatLock(r)    BY <1>0, <1>1 DEF AcquireSeatLock
<1>2. CASE ReserveRead(r)        BY <1>0, <1>2 DEF ReserveRead
<1>3. CASE ReserveUpdateSeat(r)  BY <1>0, <1>3 DEF ReserveUpdateSeat
<1>4. CASE ReserveInsert(r)      BY <1>0, <1>4 DEF ReserveInsert
<1>5. CASE ReserveCommit(r)      BY <1>0, <1>5 DEF ReserveCommit
<1>6. CASE ReleaseSeatLock(r)    BY <1>0, <1>6 DEF ReleaseSeatLock
<1>7. CASE WriteBackCache(r) \/ IssuePaymentToken(r)
  BY <1>0, <1>7 DEF WriteBackCache, IssuePaymentToken
<1>8. CASE AddExpireJob(r)       BY <1>0, <1>8 DEF AddExpireJob
<1>9. CASE ReserveFault(r)
  BY <1>0, <1>9 DEF ReserveFault, ReserveTxFails, AcquireReplyLost, ReserveRedisFails, ReserveCrash
<1> QED
  BY <1>1, <1>2, <1>3, <1>4, <1>5, <1>6, <1>7, <1>8, <1>9 DEF Reserve

LEMMA ConfirmTypeOK ==
  ASSUME TypeOK, NEW d \in Deliveries, Confirm(d) \/ ConfirmFault(d),
         faulty' \in BOOLEAN
  PROVE  TypeOK'
<1> USE DEF TypeOK, dbVars, reserveVars, jobVars, ConfirmTo, SeatStatus,
        ResvStatus, ConfirmPC
<1>0. ResvOf(d) \in Requests /\ SeatOf[ResvOf(d)] \in Seats
  BY DeliveryOfRequest, SeatOfRequest
<1>1. CASE ConfirmRead(d)        BY <1>0, <1>1 DEF ConfirmRead
<1>2. CASE ConfirmUpdateResv(d)  BY <1>0, <1>2 DEF ConfirmUpdateResv
<1>3. CASE ConfirmUpdateSeat(d)  BY <1>0, <1>3 DEF ConfirmUpdateSeat
<1>4. CASE ConfirmCommit(d)      BY <1>0, <1>4 DEF ConfirmCommit
<1>5. CASE AnnounceSuccess(d)    BY <1>0, <1>5 DEF AnnounceSuccess
<1>6. CASE UpdateRanking(d)      BY <1>0, <1>6 DEF UpdateRanking
<1>7. CASE ConfirmFault(d)
  BY <1>0, <1>7 DEF ConfirmFault, RankingFails, ConfirmTxFails, ConfirmCrash
<1> QED
  BY <1>1, <1>2, <1>3, <1>4, <1>5, <1>6, <1>7 DEF Confirm

LEMMA ExpireTypeOK ==
  ASSUME TypeOK, NEW r \in Requests, Expire(r) \/ ExpireFault(r),
         faulty' \in BOOLEAN
  PROVE  TypeOK'
<1> USE DEF TypeOK, dbVars, reserveVars, confirmVars, JobTo, SeatStatus,
        ResvStatus, JobPC, Snapshot
<1>0. SeatOf[r] \in Seats
  BY SeatOfRequest
<1>1. CASE ExpireRead(r)        BY <1>0, <1>1 DEF ExpireRead
<1>2. CASE ExpireUpdateResv(r)  BY <1>0, <1>2 DEF ExpireUpdateResv
<1>3. CASE ExpireUpdateSeat(r)  BY <1>0, <1>3 DEF ExpireUpdateSeat
<1>4. CASE ExpireCommit(r)      BY <1>0, <1>4 DEF ExpireCommit
<1>5. CASE ExpireComplete(r)    BY <1>0, <1>5 DEF ExpireComplete
<1>6. CASE ExpireFault(r)
  BY <1>0, <1>6 DEF ExpireFault, ExpireTxFails, ExpireCrash
<1> QED
  BY <1>1, <1>2, <1>3, <1>4, <1>5, <1>6 DEF Expire

LEMMA NextTypeOK == TypeOK /\ [Next]_vars => TypeOK'
<1> SUFFICES ASSUME TypeOK, [Next]_vars PROVE TypeOK'
  OBVIOUS
<1>0. faulty' \in BOOLEAN
  <2>1. faulty' = TRUE \/ faulty' = faulty
    BY Zenon DEF Next, NoFault, vars
  <2> QED
    BY <2>1, Zenon DEF TypeOK
<1>1. CASE \E r \in Requests :
             Reserve(r) \/ ReserveFault(r) \/ Expire(r) \/ ExpireFault(r)
  BY <1>0, <1>1, ReserveTypeOK, ExpireTypeOK
<1>2. CASE \E d \in Deliveries : Confirm(d) \/ ConfirmFault(d)
  BY <1>0, <1>2, ConfirmTypeOK
<1>3. CASE \E s \in Seats : SeatLockExpires(s)
  BY <1>0, <1>3 DEF SeatLockExpires, TypeOK, dbVars, confirmVars, jobVars
<1>4. CASE UNCHANGED vars
  BY <1>4 DEF vars, TypeOK
<1> QED
  BY <1>1, <1>2, <1>3, <1>4 DEF Next, Work, Break

\* Every variable keeps its type, whatever interleaving and faults occur.
THEOREM TypeCorrect == Spec => []TypeOK
BY InitTypeOK, NextTypeOK, PTL DEF Spec

-----------------------------------------------------------------------------
(* The tables agree                                                        *)

Inv == TypeOK /\ SeatAgreesWithReservation /\ RowOwnership

\* An UPDATE that is accepted found the expected status in the current row.
LEMMA CondUpdateCurrent ==
  ASSUME NEW snapshot, NEW current, NEW expected, NEW wanted,
         wanted # expected, CondUpdate(snapshot, current, expected, wanted)
  PROVE  current = expected
BY DEF CondUpdate, Reread

LEMMA InitInv == Init => Inv
<1> SUFFICES ASSUME Init PROVE Inv
  OBVIOUS
<1>1. TypeOK
  BY InitTypeOK
<1>2. SeatAgreesWithReservation
  BY SeatOfRequest DEF Init, SeatAgreesWithReservation, Active
<1>3. RowOwnership
  BY DeliveryOfRequest, SeatOfRequest
  DEF Init, RowOwnership, UniqueSeatId, ReserverOwnsSeat, SeatIdTaken,
      FinisherOwnsReservation
<1> QED
  BY <1>1, <1>2, <1>3 DEF Inv

\* The agreement is about committed rows only.
LEMMA AgreementOfRows ==
  ASSUME SeatAgreesWithReservation, UniqueSeatId, UNCHANGED dbVars
  PROVE  SeatAgreesWithReservation' /\ UniqueSeatId'
BY DEF SeatAgreesWithReservation, UniqueSeatId, Active, dbVars

\* A step of a reserving call that writes nothing keeps the open transactions
\* in order.
LEMMA ReserveStepInv ==
  ASSUME Inv, NEW r \in Requests, Reserve(r) \/ ReserveFault(r),
         ~ReserveCommit(r)
  PROVE  SeatAgreesWithReservation' /\ RowOwnership'
<1> USE DEF Inv, RowOwnership
<1>1. UNCHANGED dbVars /\ UNCHANGED confirmVars
  BY DEF Reserve, ReserveFault, AcquireSeatLock, ReserveRead, ReserveUpdateSeat,
         ReserveInsert, ReleaseSeatLock, WriteBackCache, IssuePaymentToken, AddExpireJob,
         ReserveTxFails, AcquireReplyLost, ReserveRedisFails, ReserveCrash
<1>2. \A q \in Requests : q # r => rpc'[q] = rpc[q] /\ job'[q] = job[q]
  BY DEF TypeOK, Reserve, ReserveFault, AcquireSeatLock, ReserveRead,
         ReserveUpdateSeat, ReserveInsert, ReleaseSeatLock, WriteBackCache, IssuePaymentToken,
         AddExpireJob, ReserveTxFails, AcquireReplyLost, ReserveRedisFails, ReserveCrash,
         ReserveTo, jobVars
<1>3. job'[r] = job[r] \/ job'[r] = "waiting"
  BY DEF TypeOK, Reserve, ReserveFault, AcquireSeatLock, ReserveRead,
         ReserveUpdateSeat, ReserveInsert, ReleaseSeatLock, WriteBackCache, IssuePaymentToken,
         AddExpireJob, ReserveTxFails, AcquireReplyLost, ReserveRedisFails, ReserveCrash, jobVars
<1>4. /\ rpc'[r] \in {"idle", "locked", "read", "updated", "inserted"}
           => rpc[r] \in {"idle", "locked", "read", "updated", "inserted"}
      /\ rpc'[r] \in {"updated", "inserted"} =>
           \/ rpc[r] \in {"updated", "inserted"}
           \/ SeatRowFree(SeatOf[r]) /\ seat[SeatOf[r]] = "AVAILABLE"
      /\ rpc'[r] = "inserted" => rpc[r] = "inserted" \/ ~SeatIdTaken(r)
  <2>1. CASE ReserveUpdateSeat(r)
    BY <2>1, CondUpdateCurrent DEF TypeOK, ReserveUpdateSeat, ReserveTo
  <2>2. CASE ~ReserveUpdateSeat(r)
    BY <2>2 DEF TypeOK, Reserve, ReserveFault, AcquireSeatLock, ReserveRead,
           ReserveInsert, ReleaseSeatLock, WriteBackCache, IssuePaymentToken, AddExpireJob,
           ReserveTxFails, AcquireReplyLost, ReserveRedisFails, ReserveCrash, ReserveTo
  <2> QED BY <2>1, <2>2
<1>5. SeatAgreesWithReservation' /\ UniqueSeatId'
  BY <1>1, AgreementOfRows
<1>6. ReserverOwnsSeat'
  BY <1>1, <1>2, <1>4, SeatOfRequest
  DEF ReserverOwnsSeat, SeatRowFree, SeatIdTaken, dbVars
<1>7. FinisherOwnsReservation'
  BY <1>1, <1>2, <1>3, DeliveryOfRequest
  DEF FinisherOwnsReservation, dbVars, confirmVars
<1> QED
  BY <1>5, <1>6, <1>7

\* COMMIT of a reservation: the seat had no row, so it was AVAILABLE for all.
LEMMA ReserveCommitInv ==
  ASSUME Inv, NEW r \in Requests, ReserveCommit(r)
  PROVE  SeatAgreesWithReservation' /\ RowOwnership'
<1> DEFINE s == SeatOf[r]
<1> USE DEF Inv, RowOwnership
<1>1. /\ seat[s] = "AVAILABLE" /\ s \in Seats
      /\ \A q \in Requests : SeatOf[q] = s => resv[q] = "NONE"
  BY SeatOfRequest DEF ReserveCommit, ReserverOwnsSeat, SeatIdTaken
<1>2. /\ \A t \in Seats : seat'[t] = IF t = s THEN "RESERVED" ELSE seat[t]
      /\ \A q \in Requests : resv'[q] = IF q = r THEN "PENDING" ELSE resv[q]
      /\ \A q \in Requests : rpc'[q] = IF q = r THEN "release" ELSE rpc[q]
      /\ UNCHANGED <<job, cpc>>
  BY DEF ReserveCommit, TypeOK, ReserveTo, jobVars, confirmVars
<1>3. \A q \in Requests : SeatOf[q] \in Seats
  BY SeatOfRequest
<1> HIDE DEF s
<1>4. SeatAgreesWithReservation'
  BY <1>1, <1>2, <1>3 DEF SeatAgreesWithReservation, Active, s
<1>5. UniqueSeatId'
  BY <1>1, <1>2 DEF UniqueSeatId, s
<1>6. ReserverOwnsSeat'
  BY <1>1, <1>2, <1>3 DEF ReserverOwnsSeat, SeatIdTaken, ReserveCommit, s
<1>7. FinisherOwnsReservation'
  BY <1>1, <1>2, DeliveryOfRequest DEF FinisherOwnsReservation, s
<1> QED
  BY <1>4, <1>5, <1>6, <1>7

\* A step of a payment.success delivery that writes nothing.
LEMMA ConfirmStepInv ==
  ASSUME Inv, NEW d \in Deliveries, Confirm(d) \/ ConfirmFault(d),
         ~ConfirmCommit(d)
  PROVE  SeatAgreesWithReservation' /\ RowOwnership'
<1> USE DEF Inv, RowOwnership
<1>1. UNCHANGED dbVars /\ UNCHANGED reserveVars /\ UNCHANGED jobVars
  BY DEF Confirm, ConfirmFault, ConfirmRead, ConfirmUpdateResv,
         ConfirmUpdateSeat, AnnounceSuccess, UpdateRanking, RankingFails,
         ConfirmTxFails, ConfirmCrash
<1>2. \A e \in Deliveries : e # d => cpc'[e] = cpc[e]
  BY DEF TypeOK, Confirm, ConfirmFault, ConfirmRead, ConfirmUpdateResv,
         ConfirmUpdateSeat, AnnounceSuccess, UpdateRanking, RankingFails,
         ConfirmTxFails, ConfirmCrash, ConfirmTo
<1>3. cpc'[d] \in {"resv_updated", "seat_updated"} =>
        \/ cpc[d] \in {"resv_updated", "seat_updated"}
        \/ ResvRowFree(ResvOf(d)) /\ resv[ResvOf(d)] = "PENDING"
  <2>1. CASE ConfirmUpdateResv(d)
    BY <2>1, CondUpdateCurrent DEF TypeOK, ConfirmUpdateResv, ConfirmTo
  <2>2. CASE ~ConfirmUpdateResv(d)
    BY <2>2 DEF TypeOK, Confirm, ConfirmFault, ConfirmRead, ConfirmUpdateSeat,
           AnnounceSuccess, UpdateRanking, RankingFails, ConfirmTxFails,
           ConfirmCrash, ConfirmTo
  <2> QED BY <2>1, <2>2
<1>4. SeatAgreesWithReservation' /\ UniqueSeatId'
  BY <1>1, AgreementOfRows
<1>5. ReserverOwnsSeat'
  BY <1>1 DEF ReserverOwnsSeat, SeatIdTaken, dbVars, reserveVars
<1>6. FinisherOwnsReservation'
  BY <1>1, <1>2, <1>3, DeliveryOfRequest
  DEF FinisherOwnsReservation, ResvRowFree, dbVars, jobVars
<1> QED
  BY <1>4, <1>5, <1>6

\* The two COMMITs that end a hold move one PENDING reservation and its
\* RESERVED seat together.
LEMMA EndOfHold ==
  ASSUME Inv, NEW r \in Requests, resv[r] = "PENDING",
         NEW final \in {"CONFIRMED", "EXPIRED"},
         resv' = [resv EXCEPT ![r] = final],
         seat' = [seat EXCEPT ![SeatOf[r]] =
                    IF final = "CONFIRMED" THEN "SOLD" ELSE "AVAILABLE"],
         UNCHANGED rpc
  PROVE  SeatAgreesWithReservation' /\ UniqueSeatId' /\ ReserverOwnsSeat'
<1> DEFINE s == SeatOf[r]
<1> USE DEF Inv, RowOwnership
<1>1. /\ seat[s] = "RESERVED" /\ s \in Seats
      /\ \A q \in Requests : SeatOf[q] = s /\ q # r => resv[q] = "NONE"
  BY SeatOfRequest DEF SeatAgreesWithReservation, UniqueSeatId, TypeOK
<1>2. /\ \A t \in Seats : t # s => seat'[t] = seat[t]
      /\ seat'[s] = IF final = "CONFIRMED" THEN "SOLD" ELSE "AVAILABLE"
      /\ \A q \in Requests : resv'[q] = IF q = r THEN final ELSE resv[q]
  BY <1>1 DEF TypeOK
<1>3. \A q \in Requests : SeatOf[q] \in Seats
  BY SeatOfRequest
<1> HIDE DEF s
<1>4. SeatAgreesWithReservation'
  BY <1>1, <1>2, <1>3 DEF SeatAgreesWithReservation, Active, s
<1>5. UniqueSeatId'
  BY <1>1, <1>2 DEF UniqueSeatId, s
<1>6. ReserverOwnsSeat'
  BY <1>1, <1>2, <1>3 DEF ReserverOwnsSeat, SeatIdTaken, s
<1> QED
  BY <1>4, <1>5, <1>6

LEMMA ConfirmCommitInv ==
  ASSUME Inv, NEW d \in Deliveries, ConfirmCommit(d)
  PROVE  SeatAgreesWithReservation' /\ RowOwnership'
<1> USE DEF Inv, RowOwnership
<1>1. ResvOf(d) \in Requests /\ resv[ResvOf(d)] = "PENDING"
  BY DeliveryOfRequest DEF ConfirmCommit, FinisherOwnsReservation
<1>2. SeatAgreesWithReservation' /\ UniqueSeatId' /\ ReserverOwnsSeat'
  BY <1>1, EndOfHold, "CONFIRMED" \in {"CONFIRMED", "EXPIRED"}
  DEF ConfirmCommit, reserveVars
<1>3. FinisherOwnsReservation'
  BY <1>1, DeliveryOfRequest
  DEF ConfirmCommit, ConfirmTo, FinisherOwnsReservation, TypeOK, jobVars
<1> QED
  BY <1>2, <1>3

\* A step of an expiry job that writes nothing.
LEMMA ExpireStepInv ==
  ASSUME Inv, NEW r \in Requests, Expire(r) \/ ExpireFault(r), ~ExpireCommit(r)
  PROVE  SeatAgreesWithReservation' /\ RowOwnership'
<1> USE DEF Inv, RowOwnership
<1>1. UNCHANGED dbVars /\ UNCHANGED reserveVars /\ UNCHANGED confirmVars
  BY DEF Expire, ExpireFault, ExpireRead, ExpireUpdateResv, ExpireUpdateSeat,
         ExpireComplete, ExpireTxFails, ExpireCrash
<1>2. \A q \in Requests : q # r => job'[q] = job[q]
  BY DEF TypeOK, Expire, ExpireFault, ExpireRead, ExpireUpdateResv,
         ExpireUpdateSeat, ExpireComplete, ExpireTxFails, ExpireCrash, JobTo
<1>3. job'[r] \in {"resv_updated", "seat_updated"} =>
        \/ job[r] \in {"resv_updated", "seat_updated"}
        \/ ResvRowFree(r) /\ resv[r] = "PENDING"
  <2>1. CASE ExpireUpdateResv(r)
    BY <2>1, CondUpdateCurrent DEF TypeOK, ExpireUpdateResv, JobTo
  <2>2. CASE ~ExpireUpdateResv(r)
    BY <2>2 DEF TypeOK, Expire, ExpireFault, ExpireRead, ExpireUpdateSeat,
           ExpireComplete, ExpireTxFails, ExpireCrash, JobTo
  <2> QED BY <2>1, <2>2
<1>4. SeatAgreesWithReservation' /\ UniqueSeatId'
  BY <1>1, AgreementOfRows
<1>5. ReserverOwnsSeat'
  BY <1>1 DEF ReserverOwnsSeat, SeatIdTaken, dbVars, reserveVars
<1>6. FinisherOwnsReservation'
  BY <1>1, <1>2, <1>3, DeliveryOfRequest
  DEF FinisherOwnsReservation, ResvRowFree, dbVars, confirmVars
<1> QED
  BY <1>4, <1>5, <1>6

LEMMA ExpireCommitInv ==
  ASSUME Inv, NEW r \in Requests, ExpireCommit(r)
  PROVE  SeatAgreesWithReservation' /\ RowOwnership'
<1> USE DEF Inv, RowOwnership
<1>1. resv[r] = "PENDING"
  BY DEF ExpireCommit, FinisherOwnsReservation
<1>2. SeatAgreesWithReservation' /\ UniqueSeatId' /\ ReserverOwnsSeat'
  BY <1>1, EndOfHold, "EXPIRED" \in {"CONFIRMED", "EXPIRED"}
  DEF ExpireCommit, reserveVars
<1>3. FinisherOwnsReservation'
  BY <1>1, DeliveryOfRequest
  DEF ExpireCommit, JobTo, FinisherOwnsReservation, TypeOK, confirmVars
<1> QED
  BY <1>2, <1>3

LEMMA NextInv == Inv /\ [Next]_vars => Inv'
<1> SUFFICES ASSUME Inv, [Next]_vars
             PROVE  SeatAgreesWithReservation' /\ RowOwnership'
  BY NextTypeOK DEF Inv
<1>1. CASE \E r \in Requests :
             Reserve(r) \/ ReserveFault(r) \/ Expire(r) \/ ExpireFault(r)
  BY <1>1, ReserveStepInv, ReserveCommitInv, ExpireStepInv, ExpireCommitInv
<1>2. CASE \E d \in Deliveries : Confirm(d) \/ ConfirmFault(d)
  BY <1>2, ConfirmStepInv, ConfirmCommitInv
<1>3. CASE (\E s \in Seats : SeatLockExpires(s)) \/ UNCHANGED vars
  <2>1. UNCHANGED <<seat, resv, rpc, job, cpc>>
    BY <1>3 DEF SeatLockExpires, vars, dbVars, confirmVars, jobVars
  <2> QED
    BY <2>1
    DEF Inv, SeatAgreesWithReservation, Active, RowOwnership, UniqueSeatId,
        ReserverOwnsSeat, SeatIdTaken, FinisherOwnsReservation
<1> QED
  BY <1>1, <1>2, <1>3 DEF Next, Work, Break

LEMMA Invariance == Spec => []Inv
BY InitInv, NextInv, PTL DEF Spec

\* One seat, one active reservation, and the two tables agree, for any number
\* of concurrent calls, payments and jobs and under every fault.
THEOREM TablesAgree == Spec => []SeatAgreesWithReservation
<1>1. Inv => SeatAgreesWithReservation
  BY DEF Inv
<1> QED
  BY Invariance, <1>1, PTL

\* A transaction that has written the PENDING reservation finds its seat RESERVED
\* and unlocked: who reserves locks AVAILABLE seats only, and who ends a hold has
\* written its reservation first.
LEMMA SecondRowIsFree ==
  ASSUME Inv, NEW p \in Requests, resv[p] = "PENDING", job[p] # "seat_updated",
         \A e \in Deliveries : ResvOf(e) = p => cpc[e] # "seat_updated"
  PROVE  SeatRowFree(SeatOf[p]) /\ seat[SeatOf[p]] = "RESERVED"
<1> USE DEF Inv, RowOwnership
<1>1. seat[SeatOf[p]] = "RESERVED"
  BY SeatOfRequest DEF SeatAgreesWithReservation
<1>2. \A q \in Requests : SeatOf[q] = SeatOf[p] /\ resv[q] = "PENDING" => q = p
  BY DEF SeatAgreesWithReservation, Active
<1>3. \A r \in Requests : SeatOf[r] = SeatOf[p] =>
        rpc[r] \notin {"updated", "inserted"} /\ job[r] # "seat_updated"
  BY <1>1, <1>2 DEF ReserverOwnsSeat, FinisherOwnsReservation
<1>4. \A d \in Deliveries : SeatOf[ResvOf(d)] = SeatOf[p] => cpc[d] # "seat_updated"
  BY <1>2, DeliveryOfRequest DEF FinisherOwnsReservation
<1> QED
  BY <1>1, <1>3, <1>4 DEF SeatRowFree

\* Row locks and conditional updates keep open transactions apart, and nobody
\* who holds a row waits for one: for any number of calls, payments and jobs the
\* opposite lock orders never deadlock.
THEOREM TransactionsApart == Spec => []OpenTransactions
<1>1. ASSUME Inv, NEW d \in Deliveries, cpc[d] = "resv_updated"
      PROVE  SeatRowFree(SeatOf[ResvOf(d)]) /\ seat[SeatOf[ResvOf(d)]] = "RESERVED"
  <2>1. /\ resv[ResvOf(d)] = "PENDING" /\ job[ResvOf(d)] # "seat_updated"
        /\ \A e \in Deliveries : ResvOf(e) = ResvOf(d) => cpc[e] # "seat_updated"
    BY <1>1 DEF Inv, RowOwnership, FinisherOwnsReservation
  <2> QED
    BY <1>1, <2>1, DeliveryOfRequest, SecondRowIsFree
<1>2. ASSUME Inv, NEW r \in Requests, job[r] = "resv_updated"
      PROVE  SeatRowFree(SeatOf[r]) /\ seat[SeatOf[r]] = "RESERVED"
  <2>1. /\ resv[r] = "PENDING" /\ job[r] # "seat_updated"
        /\ \A e \in Deliveries : ResvOf(e) = r => cpc[e] # "seat_updated"
    BY <1>2 DEF Inv, RowOwnership, FinisherOwnsReservation
  <2> QED
    BY <1>2, <2>1, SecondRowIsFree
<1>3. Inv => OpenTransactions
  BY <1>1, <1>2 DEF Inv, OpenTransactions, HoldersDoNotWait
<1> QED
  BY Invariance, <1>3, PTL

-----------------------------------------------------------------------------
(* A confirmation happens once, and an end of a hold is final               *)

\* The only steps that write reservations.
LEMMA WritersOfResv ==
  ASSUME Inv, [Next]_vars, NEW q \in Requests, resv'[q] # resv[q]
  PROVE  \/ ReserveCommit(q) /\ resv[q] = "NONE" /\ resv'[q] = "PENDING"
         \/ /\ resv[q] = "PENDING" /\ resv'[q] = "CONFIRMED"
            /\ \E d \in Deliveries : ConfirmCommit(d) /\ ResvOf(d) = q
         \/ ExpireCommit(q) /\ resv[q] = "PENDING" /\ resv'[q] = "EXPIRED"
<1>1. CASE \E r \in Requests : Reserve(r) \/ ReserveFault(r)
  <2> PICK r \in Requests : Reserve(r) \/ ReserveFault(r)
    BY <1>1
  <2>1. ReserveCommit(r)
    BY DEF Reserve, ReserveFault, AcquireSeatLock, ReserveRead,
           ReserveUpdateSeat, ReserveInsert, ReleaseSeatLock,
           WriteBackCache, IssuePaymentToken, AddExpireJob, ReserveTxFails,
           AcquireReplyLost, ReserveRedisFails, ReserveCrash, dbVars
  <2> QED
    BY <2>1 DEF ReserveCommit, Inv, TypeOK, RowOwnership, ReserverOwnsSeat
<1>2. CASE \E r \in Requests : Expire(r) \/ ExpireFault(r)
  <2> PICK r \in Requests : Expire(r) \/ ExpireFault(r)
    BY <1>2
  <2>1. ExpireCommit(r)
    BY DEF Expire, ExpireFault, ExpireRead, ExpireUpdateResv, ExpireUpdateSeat,
           ExpireComplete, ExpireTxFails, ExpireCrash, dbVars
  <2> QED
    BY <2>1
    DEF ExpireCommit, Inv, TypeOK, RowOwnership, FinisherOwnsReservation
<1>3. CASE \E d \in Deliveries : Confirm(d) \/ ConfirmFault(d)
  <2> PICK d \in Deliveries : Confirm(d) \/ ConfirmFault(d)
    BY <1>3
  <2>1. ConfirmCommit(d)
    BY DEF Confirm, ConfirmFault, ConfirmRead, ConfirmUpdateResv,
           ConfirmUpdateSeat, AnnounceSuccess, UpdateRanking, RankingFails,
           ConfirmTxFails, ConfirmCrash, dbVars
  <2> QED
    BY <2>1, DeliveryOfRequest
    DEF ConfirmCommit, Inv, TypeOK, RowOwnership, FinisherOwnsReservation
<1>4. CASE (\E s \in Seats : SeatLockExpires(s)) \/ UNCHANGED vars
  BY <1>4 DEF SeatLockExpires, vars, dbVars
<1> QED
  BY <1>1, <1>2, <1>3, <1>4 DEF Next, Work, Break

\* Whoever ends the hold first decides.
THEOREM FinalStatus == Spec => FinalIsFinal
<1>1. Inv /\ [Next]_vars =>
        [\A r \in Requests :
           resv[r] \in {"CONFIRMED", "EXPIRED"} => resv'[r] = resv[r]]_vars
  BY WritersOfResv
<1> QED
  BY Invariance, <1>1, PTL DEF Spec, FinalIsFinal

Confirmed(d) == cpc[d] \in {"committed", "announced", "done"}

\* The delivery whose transaction committed is the only one of its reservation.
OneConfirmation ==
  /\ \A d \in Deliveries : Confirmed(d) => resv[ResvOf(d)] = "CONFIRMED"
  /\ \A d, e \in Deliveries :
       Confirmed(d) /\ Confirmed(e) /\ ResvOf(d) = ResvOf(e) => d = e

LEMMA NextOneConfirmation ==
  Inv /\ OneConfirmation /\ [Next]_vars => OneConfirmation'
<1> SUFFICES ASSUME Inv, OneConfirmation, [Next]_vars PROVE OneConfirmation'
  OBVIOUS
<1>1. \A q \in Requests : resv[q] = "CONFIRMED" => resv'[q] = "CONFIRMED"
  BY WritersOfResv
<1>2. ASSUME NEW d \in Deliveries, ConfirmCommit(d)
      PROVE  OneConfirmation'
  <2>1. /\ resv[ResvOf(d)] = "PENDING" /\ resv'[ResvOf(d)] = "CONFIRMED"
        /\ ResvOf(d) \in Requests
    BY <1>2, DeliveryOfRequest
    DEF ConfirmCommit, Inv, TypeOK, RowOwnership, FinisherOwnsReservation
  <2>2. \A e \in Deliveries : e # d => cpc'[e] = cpc[e]
    BY <1>2 DEF ConfirmCommit, ConfirmTo, Inv, TypeOK
  <2> QED
    BY <1>1, <2>1, <2>2, DeliveryOfRequest DEF OneConfirmation, Confirmed
<1>3. ASSUME \A d \in Deliveries : ~ConfirmCommit(d)
      PROVE  OneConfirmation'
  <2>1. \A d \in Deliveries : Confirmed(d)' => Confirmed(d)
    BY <1>3
    DEF Inv, TypeOK, Confirmed, Next, Work, Break, vars, Reserve, ReserveFault,
        AcquireSeatLock, ReserveRead, ReserveUpdateSeat, ReserveInsert,
        ReserveCommit, ReleaseSeatLock, WriteBackCache, IssuePaymentToken, AddExpireJob,
        ReserveTxFails, AcquireReplyLost, ReserveRedisFails, ReserveCrash, Expire, ExpireFault,
        ExpireRead, ExpireUpdateResv, ExpireUpdateSeat, ExpireCommit,
        ExpireComplete, ExpireTxFails, ExpireCrash, Confirm, ConfirmFault,
        ConfirmRead, ConfirmUpdateResv, ConfirmUpdateSeat, AnnounceSuccess,
        UpdateRanking, RankingFails, ConfirmTxFails, ConfirmCrash, ConfirmTo,
        SeatLockExpires, confirmVars
  <2> QED
    BY <1>1, <2>1, DeliveryOfRequest DEF OneConfirmation
<1> QED
  BY <1>2, <1>3

\* Two payments, a redelivered payment, a crash between COMMIT and the publish:
\* a reservation is announced at most once, and only when it is CONFIRMED.
THEOREM AnnouncedOnce == Spec => []SuccessAnnouncedOnce
<1>1. Init => OneConfirmation
  BY DEF Init, OneConfirmation, Confirmed
<1>2. OneConfirmation => SuccessAnnouncedOnce
  BY DEF OneConfirmation, Confirmed, SuccessAnnouncedOnce, Announced
<1> QED
  BY Invariance, NextOneConfirmation, <1>1, <1>2, PTL DEF Spec

-----------------------------------------------------------------------------
(* Who is in charge of a hold                                              *)

\* A call that got to an end without a fault has handed its hold to a job, and a
\* job that ended without a fault was decided by a payment.
InCharge ==
  /\ \A r \in Requests : rpc[r] = "done" <=> job[r] # "none"
  /\ \A r \in Requests :
       rpc[r] \in {"committed", "cached", "enqueue", "done"} => resv[r] # "NONE"
  /\ \A r \in Requests : rpc[r] = "release" => (verdict[r] = "ok" <=> resv[r] # "NONE")
  /\ ~faulty => \A r \in Requests :
       /\ rpc[r] = "failed" /\ FieldCached = {} => resv[r] = "NONE"
       /\ resv[r] = "EXPIRED" => job[r] \in {"committed", "completed"}
       /\ job[r] = "failed" => resv[r] = "CONFIRMED"

\* What a job has seen is still true, unless a payment was faster.
JobView ==
  \A r \in Requests :
    /\ job[r] \in {"read", "resv_updated", "seat_updated"} =>
         \/ jsnap[r].resv = "PENDING" /\ jsnap[r].seat = "RESERVED"
         \/ job[r] = "read" /\ resv[r] \in {"CONFIRMED", "EXPIRED"}
    /\ job[r] \in {"committed", "completed"} => resv[r] = "EXPIRED"

\* Whatever is CONFIRMED was confirmed by a delivery that went on to announce it.
Winner ==
  ~faulty => \A r \in Requests : resv[r] = "CONFIRMED" =>
    \E e \in Deliveries : ResvOf(e) = r /\ Confirmed(e)

HoldInv == InCharge /\ JobView /\ Winner

\* The steps of the handlers, one lemma per handler: only the four COMMITs and the
\* first writer decide, everything else carries the facts along.
LEMMA InitHoldInv == Init => HoldInv
<1> SUFFICES ASSUME Init PROVE HoldInv
  OBVIOUS
<1>1. /\ \A r \in Requests : /\ rpc[r] = "idle" /\ job[r] = "none"
                             /\ resv[r] = "NONE"
  BY DEF Init
<1> QED
  BY <1>1 DEF HoldInv, InCharge, JobView, Winner

\* Without a fault a delivery that confirmed keeps having confirmed.
LEMMA WinnerStep ==
  ASSUME Inv, Winner, [Next]_vars
  PROVE  Winner'
<1> SUFFICES ASSUME ~faulty', NEW q \in Requests, resv'[q] = "CONFIRMED"
             PROVE  \E e \in Deliveries : ResvOf(e) = q /\ Confirmed(e)'
  BY DEF Winner, Confirmed
<1>1. ~faulty /\ (Work \/ UNCHANGED vars)
  <2>1. UNCHANGED vars => faulty' = faulty
    BY DEF vars
  <2>2. (Work /\ NoFault) \/ UNCHANGED vars
    BY Zenon DEF Next
  <2>3. faulty' = faulty
    BY <2>1, <2>2, Zenon DEF NoFault
  <2> QED
    BY <2>2, <2>3, Zenon
<1>2. CASE resv[q] = "CONFIRMED"
  <2>1. PICK e \in Deliveries : ResvOf(e) = q /\ Confirmed(e)
    BY <1>1, <1>2 DEF Winner, Confirmed
  <2>2. Confirmed(e)'
    BY <1>1, <2>1
    DEF Inv, TypeOK, Confirmed, Work, vars, Reserve,
        AcquireSeatLock, ReserveRead, ReserveUpdateSeat, ReserveInsert,
        ReserveCommit, ReleaseSeatLock, WriteBackCache, IssuePaymentToken, AddExpireJob,
        Expire, ExpireRead, ExpireUpdateResv, ExpireUpdateSeat, ExpireCommit,
        ExpireComplete, Confirm, ConfirmRead, ConfirmUpdateResv, ConfirmUpdateSeat,
        ConfirmCommit, AnnounceSuccess, UpdateRanking, ConfirmTo, SeatLockExpires,
        confirmVars
  <2> QED
    BY <2>1, <2>2
<1>3. CASE resv[q] # "CONFIRMED"
  <2>1. PICK d \in Deliveries : ConfirmCommit(d) /\ ResvOf(d) = q
    BY <1>3, WritersOfResv
  <2>2. cpc'[d] = "committed"
    BY <2>1 DEF ConfirmCommit, ConfirmTo, Inv, TypeOK
  <2> QED
    BY <2>1, <2>2 DEF Confirmed
<1> QED
  BY <1>2, <1>3

\* A step of one call: what it leaves behind is a row that it inserted or none.
LEMMA ReserveHold ==
  ASSUME Inv, InCharge, JobView, NEW r \in Requests,
         \/ Reserve(r) /\ NoFault
         \/ ReserveFault(r) /\ faulty' = TRUE
  PROVE  InCharge' /\ JobView'
<1> USE DEF Inv, RowOwnership
<1>1. \A q \in Requests \ {r} :
        /\ rpc'[q] = rpc[q] /\ verdict'[q] = verdict[q]
        /\ resv'[q] = resv[q] /\ job'[q] = job[q]
  BY DEF TypeOK, Reserve, ReserveFault, AcquireSeatLock, ReserveRead,
         ReserveUpdateSeat, ReserveInsert, ReserveCommit, ReleaseSeatLock, WriteBackCache,
         IssuePaymentToken, AddExpireJob, ReserveTxFails, AcquireReplyLost,
         ReserveRedisFails, ReserveCrash, ReserveTo, Verdict, jobVars, dbVars
<1>2. jsnap' = jsnap /\ (faulty => faulty')
  BY DEF Reserve, ReserveFault, AcquireSeatLock, ReserveRead,
         ReserveUpdateSeat, ReserveInsert, ReserveCommit, ReleaseSeatLock, WriteBackCache,
         IssuePaymentToken, AddExpireJob, ReserveTxFails, AcquireReplyLost,
         ReserveRedisFails, ReserveCrash, jobVars, NoFault
<1>3. /\ rpc[r] # "done" /\ job[r] = "none"
      /\ rpc[r] \in {"idle", "locked", "read", "updated", "inserted"} => resv[r] = "NONE"
  BY DEF TypeOK, InCharge, ReserverOwnsSeat, InReserveTx, Reserve, ReserveFault, AcquireSeatLock, ReserveRead,
         ReserveUpdateSeat, ReserveInsert, ReserveCommit, ReleaseSeatLock, WriteBackCache,
         IssuePaymentToken, AddExpireJob, ReserveTxFails, AcquireReplyLost,
         ReserveRedisFails, ReserveCrash
<1>4. /\ rpc'[r] = "done" <=> job'[r] # "none"
      /\ job'[r] \in {"none", "waiting"}
      /\ rpc'[r] \in {"committed", "cached", "enqueue", "done"} => resv'[r] # "NONE"
      /\ rpc'[r] = "release" => (verdict'[r] = "ok" <=> resv'[r] # "NONE")
      /\ ~faulty' /\ rpc'[r] = "failed" /\ FieldCached = {} => resv'[r] = "NONE"
      /\ resv'[r] \in {resv[r], "PENDING"}
  <2> USE <1>3 DEF TypeOK, InCharge, ReserveTo, Verdict, dbVars, jobVars
  <2>1. CASE AcquireSeatLock(r) \/ AcquireReplyLost(r)
    BY <2>1 DEF AcquireSeatLock, AcquireReplyLost
  <2>2. CASE ReserveRead(r) \/ ReserveUpdateSeat(r) \/ ReserveInsert(r) \/ ReserveTxFails(r)
    BY <2>2 DEF ReserveRead, ReserveUpdateSeat, ReserveInsert, ReserveTxFails, InReserveTx
  <2>3. CASE ReserveCommit(r)
    BY <2>3 DEF ReserveCommit
  <2>4. CASE ReleaseSeatLock(r)
    BY <2>4 DEF ReleaseSeatLock
  <2>5. CASE WriteBackCache(r)
    BY <2>5, SeatOfRequest DEF WriteBackCache
  <2>6. CASE IssuePaymentToken(r) \/ AddExpireJob(r)
    BY <2>6 DEF IssuePaymentToken, AddExpireJob
  <2>7. CASE (ReserveRedisFails(r) \/ ReserveCrash(r)) /\ faulty'
    BY <2>7 DEF ReserveRedisFails, ReserveCrash
  <2> QED
    BY <2>1, <2>2, <2>3, <2>4, <2>5, <2>6, <2>7 DEF Reserve, ReserveFault
<1>5. InCharge'
  BY <1>1, <1>2, <1>3, <1>4 DEF InCharge
<1>6. JobView'
  BY <1>1, <1>2, <1>4 DEF JobView
<1> QED
  BY <1>5, <1>6

\* A delivery decides a hold for good.
LEMMA ConfirmHold ==
  ASSUME Inv, InCharge, JobView, NEW d \in Deliveries,
         \/ Confirm(d) /\ NoFault
         \/ ConfirmFault(d) /\ faulty' = TRUE
  PROVE  InCharge' /\ JobView'
<1> DEFINE p == ResvOf(d)
<1>1. UNCHANGED <<rpc, verdict, job, jsnap>> /\ (faulty => faulty') /\ p \in Requests
  BY DeliveryOfRequest
  DEF Confirm, ConfirmFault, ConfirmRead, ConfirmUpdateResv, ConfirmUpdateSeat,
      ConfirmCommit, AnnounceSuccess, UpdateRanking, RankingFails, ConfirmTxFails,
      ConfirmCrash, reserveVars, jobVars, NoFault
<1>2. CASE resv' = resv
  BY <1>1, <1>2 DEF InCharge, JobView
<1>3. CASE ConfirmCommit(d)
  <2>1. resv[p] = "PENDING" /\ job[p] \notin {"resv_updated", "seat_updated"}
    BY <1>3 DEF Inv, RowOwnership, FinisherOwnsReservation, ConfirmCommit
  <2>2. \A q \in Requests : resv'[q] = IF q = p THEN "CONFIRMED" ELSE resv[q]
    BY <1>1, <1>3 DEF ConfirmCommit, Inv, TypeOK
  <2>3. ~faulty /\ rpc[p] = "failed" => FieldCached # {}
    BY <1>1, <2>1 DEF InCharge
  <2>4. InCharge'
    BY <1>1, <2>1, <2>2, <2>3 DEF InCharge
  <2>5. JobView'
    BY <1>1, <2>1, <2>2 DEF JobView
  <2> QED
    BY <2>4, <2>5
<1> QED
  BY <1>2, <1>3
  DEF Confirm, ConfirmFault, ConfirmRead, ConfirmUpdateResv, ConfirmUpdateSeat,
      AnnounceSuccess, UpdateRanking, RankingFails, ConfirmTxFails, ConfirmCrash, dbVars

\* A job finds what it expects, unless a payment was faster.
LEMMA ExpireHold ==
  ASSUME Inv, InCharge, JobView, NEW r \in Requests,
         \/ Expire(r) /\ NoFault
         \/ ExpireFault(r) /\ faulty' = TRUE
  PROVE  InCharge' /\ JobView'
<1>1. /\ UNCHANGED <<rpc, verdict>> /\ (faulty => faulty')
      /\ \A q \in Requests \ {r} :
           resv'[q] = resv[q] /\ job'[q] = job[q] /\ jsnap'[q] = jsnap[q]
  BY DEF Inv, TypeOK, Expire, ExpireFault, ExpireRead, ExpireUpdateResv, ExpireUpdateSeat,
         ExpireCommit, ExpireComplete, ExpireTxFails, ExpireCrash, JobTo, reserveVars, dbVars,
         NoFault
<1>2. /\ job[r] \notin {"none", "completed", "failed"} /\ rpc[r] = "done" /\ resv[r] # "NONE"
      /\ job'[r] # "none"
  BY DEF Inv, TypeOK, InCharge, Expire, ExpireFault, ExpireRead, ExpireUpdateResv,
         ExpireUpdateSeat, ExpireCommit, ExpireComplete, ExpireTxFails, ExpireCrash, InExpire,
         JobTo
<1>3. /\ resv[r] = "PENDING" => seat[SeatOf[r]] = "RESERVED"
      /\ resv[r] \in {"PENDING", "CONFIRMED", "EXPIRED"}
      /\ job[r] \in {"resv_updated", "seat_updated"} => resv[r] = "PENDING"
  BY <1>2, SeatOfRequest
  DEF Inv, TypeOK, ResvStatus, SeatAgreesWithReservation, RowOwnership,
      FinisherOwnsReservation
<1>4. /\ job'[r] \in {"read", "resv_updated", "seat_updated"} =>
           \/ jsnap'[r].resv = "PENDING" /\ jsnap'[r].seat = "RESERVED"
           \/ job'[r] = "read" /\ resv'[r] \in {"CONFIRMED", "EXPIRED"}
      /\ job'[r] \in {"committed", "completed"} => resv'[r] = "EXPIRED"
      /\ resv'[r] # "NONE"
      /\ ~faulty' /\ resv'[r] = "EXPIRED" => job'[r] \in {"committed", "completed"}
      /\ ~faulty' /\ job'[r] = "failed" => resv'[r] = "CONFIRMED"
  <2> USE <1>2, <1>3 DEF Inv, TypeOK, JobTo, dbVars, JobView, InCharge
  <2>1. CASE ExpireRead(r)
    BY <1>1, <2>1 DEF ExpireRead
  <2>2. CASE ExpireUpdateResv(r)
    BY <1>1, <2>2 DEF ExpireUpdateResv, CondUpdate, Reread
  <2>3. CASE ExpireUpdateSeat(r)
    BY <1>1, <2>3 DEF ExpireUpdateSeat, CondUpdate
  <2>4. CASE ExpireCommit(r)
    BY <1>1, <2>4 DEF ExpireCommit
  <2>5. CASE ExpireComplete(r)
    BY <1>1, <2>5 DEF ExpireComplete
  <2>6. CASE ExpireFault(r) /\ faulty'
    BY <1>1, <2>6 DEF ExpireFault, ExpireTxFails, ExpireCrash, InExpire
  <2> QED
    BY <2>1, <2>2, <2>3, <2>4, <2>5, <2>6 DEF Expire
<1>5. InCharge'
  BY <1>1, <1>2, <1>4 DEF InCharge
<1>6. JobView'
  BY <1>1, <1>4 DEF JobView
<1> QED
  BY <1>5, <1>6

LEMMA NextHoldInv == Inv /\ HoldInv /\ [Next]_vars => HoldInv'
<1> SUFFICES ASSUME Inv, HoldInv, [Next]_vars PROVE InCharge' /\ JobView'
  BY WinnerStep DEF HoldInv
<1>1. InCharge /\ JobView
  BY DEF HoldInv
<1>2. ASSUME NEW r \in Requests,
             \/ (Reserve(r) \/ Expire(r)) /\ NoFault
             \/ (ReserveFault(r) \/ ExpireFault(r)) /\ faulty' = TRUE
      PROVE  InCharge' /\ JobView'
  BY <1>1, <1>2, ReserveHold, ExpireHold
<1>3. ASSUME NEW d \in Deliveries,
             \/ Confirm(d) /\ NoFault
             \/ ConfirmFault(d) /\ faulty' = TRUE
      PROVE  InCharge' /\ JobView'
  BY <1>1, <1>3, ConfirmHold
<1>4. CASE (\E s \in Seats : SeatLockExpires(s)) /\ NoFault
  BY <1>1, <1>4 DEF SeatLockExpires, dbVars, confirmVars, jobVars, NoFault, InCharge, JobView
<1>5. CASE UNCHANGED vars
  BY <1>1, <1>5 DEF vars, InCharge, JobView
<1> QED
  BY <1>2, <1>3, <1>4, <1>5 DEF Next, Work, Break

LEMMA HoldInvariance == Spec => [](Inv /\ HoldInv)
BY InitInv, NextInv, InitHoldInv, NextHoldInv, PTL DEF Spec

\* As long as no fault happens somebody is in charge of every hold, if nothing is
\* cached for which the write-back throws.
THEOREM HoldsAreSeenTo ==
  ASSUME FieldCached = {}
  PROVE  Spec => []NoOrphanedHold
<1>1. Inv /\ HoldInv => NoOrphanedHold
  <2> SUFFICES ASSUME Inv, HoldInv, ~faulty, NEW r \in Requests, resv[r] = "PENDING"
               PROVE  \/ rpc[r] \in {"release", "committed", "cached", "enqueue"}
                      \/ job[r] \in JobPC \ {"none", "completed", "failed"}
    BY DEF NoOrphanedHold
  <2>1. rpc[r] \in {"release", "committed", "cached", "enqueue", "done"}
    BY DEF Inv, TypeOK, ReservePC, RowOwnership, ReserverOwnsSeat, HoldInv, InCharge
  <2>2. rpc[r] = "done" => job[r] \in JobPC \ {"none", "completed", "failed"}
    BY DEF Inv, TypeOK, HoldInv, InCharge, JobView
  <2> QED
    BY <2>1, <2>2
<1> QED
  BY HoldInvariance, <1>1, PTL

\* A job is never used up for nothing.
THEOREM JobsDecide == Spec => []JobDecides
<1>1. HoldInv => JobDecides
  BY DEF HoldInv, InCharge, JobView, JobDecides
<1> QED
  BY HoldInvariance, <1>1, PTL

\* Who confirmed a reservation is not told that it failed.
THEOREM FailuresAreLosses == Spec => []FailureOnlyForLosers
<1>1. HoldInv => FailureOnlyForLosers
  BY DeliveryOfRequest DEF HoldInv, Winner, Confirmed, FailureOnlyForLosers
<1> QED
  BY HoldInvariance, <1>1, PTL

-----------------------------------------------------------------------------
(* The lock of a seat                                                      *)

\* What a step of one call does to the locks.
LEMMA ReserveLock ==
  ASSUME TypeOK, NEW r \in Requests, Reserve(r) \/ ReserveFault(r), NEW s \in Seats
  PROVE  [SeatLock(s)!Next]_(SeatLock(s)!vars)
<1> DEFINE Inside == {q \in Requests : SeatOf[q] = s /\ InCritical(q)}
<1> USE DEF TypeOK, ReserveTo, InCritical, InReserveTx
<1>1. SeatOf[r] \in Seats
  BY SeatOfRequest
<1>2. CASE AcquireSeatLock(r) /\ ~seatLock[SeatOf[r]] /\ SeatOf[r] = s
  <2>1. Inside' = Inside \cup {r} /\ r \notin Inside
    BY <1>1, <1>2 DEF AcquireSeatLock
  <2>2. SeatLock(s)!Acquire(r)
    BY <1>1, <1>2, <2>1 DEF AcquireSeatLock, SeatLock!Acquire
  <2> QED
    BY <1>2, <2>2 DEF SeatLock!Next
<1>3. CASE ReleaseSeatLock(r) /\ SeatOf[r] = s
  <2>1. Inside' = Inside \ {r} /\ r \in Inside
    BY <1>1, <1>3 DEF ReleaseSeatLock
  <2>2. SeatLock(s)!Release(r)
    BY <1>1, <1>3, <2>1 DEF ReleaseSeatLock, SeatLock!Release
  <2> QED
    BY <1>3, <2>2 DEF SeatLock!Next
<1>4. CASE AcquireReplyLost(r) /\ SeatOf[r] = s
  <2>1. Inside' = Inside
    BY <1>4 DEF AcquireReplyLost
  <2>2. SeatLock(s)!ReplyLost
    BY <1>1, <1>4, <2>1 DEF AcquireReplyLost, SeatLock!ReplyLost
  <2> QED
    BY <2>2 DEF SeatLock!Next
<1>5. CASE (ReserveCrash(r) \/ ReserveRedisFails(r)) /\ InCritical(r) /\ SeatOf[r] = s
  <2>1. Inside' = Inside \ {r} /\ r \in Inside
    BY <1>5 DEF ReserveCrash, ReserveRedisFails
  <2>2. SeatLock(s)!Abandon(r)
    BY <1>5, <2>1 DEF ReserveCrash, ReserveRedisFails, SeatLock!Abandon
  <2> QED
    BY <1>5, <2>2 DEF SeatLock!Next
<1>6. CASE \/ SeatOf[r] # s
           \/ ~InCritical(r) /\ (ReserveCrash(r) \/ ReserveRedisFails(r))
           \/ AcquireSeatLock(r) /\ seatLock[SeatOf[r]]
           \/ ReserveRead(r) \/ ReserveUpdateSeat(r) \/ ReserveInsert(r) \/ ReserveCommit(r)
           \/ WriteBackCache(r) \/ IssuePaymentToken(r) \/ AddExpireJob(r) \/ ReserveTxFails(r)
  <2>1. Inside' = Inside
    BY <1>6
    DEF Reserve, ReserveFault, AcquireSeatLock, ReserveRead, ReserveUpdateSeat, ReserveInsert,
        ReserveCommit, ReleaseSeatLock, WriteBackCache, IssuePaymentToken, AddExpireJob,
        ReserveTxFails, AcquireReplyLost, ReserveRedisFails, ReserveCrash
  <2>2. seatLock'[s] = seatLock[s]
    BY <1>1, <1>6
    DEF Reserve, ReserveFault, AcquireSeatLock, ReserveRead, ReserveUpdateSeat, ReserveInsert,
        ReserveCommit, ReleaseSeatLock, WriteBackCache, IssuePaymentToken, AddExpireJob,
        ReserveTxFails, AcquireReplyLost, ReserveRedisFails, ReserveCrash
  <2> QED
    BY <2>1, <2>2 DEF SeatLock!vars
<1> QED
  BY <1>2, <1>3, <1>4, <1>5, <1>6 DEF Reserve, ReserveFault

\* Nothing but withLock touches a key, and no failure leaves withLock without its
\* finally clause: each seat's key is a DistributedLock.
THEOREM SeatLockRefined == Spec => ImplementsSeatLock
<1>1. Init => \A s \in Seats : SeatLock(s)!Init
  BY DEF Init, SeatLock!Init, InCritical, InReserveTx
<1>2. TypeOK /\ [Next]_vars =>
        [\A s \in Seats : SeatLock(s)!Next \/ UNCHANGED SeatLock(s)!vars]_vars
  <2> SUFFICES ASSUME TypeOK, [Next]_vars, NEW s \in Seats
               PROVE  [SeatLock(s)!Next]_(SeatLock(s)!vars)
    OBVIOUS
  <2>1. CASE \E r \in Requests : Reserve(r) \/ ReserveFault(r)
    BY <2>1, ReserveLock
  <2>2. CASE \E t \in Seats : SeatLockExpires(t)
    <3> PICK t \in Seats : SeatLockExpires(t)
      BY <2>2
    <3>1. CASE t = s
      <4>1. SeatLock(s)!Expire
        BY <3>1 DEF SeatLockExpires, SeatLock!Expire, TypeOK, InCritical, InReserveTx
      <4> QED
        BY <4>1 DEF SeatLock!Next
    <3>2. CASE t # s
      BY <3>2 DEF SeatLockExpires, SeatLock!vars, TypeOK, InCritical, InReserveTx
    <3> QED
      BY <3>1, <3>2
  <2>3. CASE UNCHANGED <<rpc, seatLock>>
    BY <2>3 DEF SeatLock!vars, InCritical, InReserveTx
  <2>4. CASE \/ \E r \in Requests : Expire(r) \/ ExpireFault(r)
             \/ \E d \in Deliveries : Confirm(d) \/ ConfirmFault(d)
             \/ UNCHANGED vars
    <3>1. UNCHANGED <<rpc, seatLock>>
      BY <2>4 DEF vars, reserveVars, Expire, ExpireFault, ExpireRead, ExpireUpdateResv,
         ExpireUpdateSeat, ExpireCommit, ExpireComplete, ExpireTxFails, ExpireCrash,
         Confirm, ConfirmFault, ConfirmRead, ConfirmUpdateResv, ConfirmUpdateSeat,
         ConfirmCommit, AnnounceSuccess, UpdateRanking, RankingFails, ConfirmTxFails,
         ConfirmCrash
    <3> QED
      BY <2>3, <3>1
  <2> QED
    BY <2>1, <2>2, <2>4 DEF Next, Work, Break
<1> QED
  BY TypeCorrect, <1>1, <1>2, PTL DEF Spec, ImplementsSeatLock

-----------------------------------------------------------------------------
(* Refinement                                                              *)

\* COMMIT of a reservation takes a seat nobody holds or owns.
LEMMA CommitIsHold ==
  ASSUME Inv, NEW r \in Requests, ReserveCommit(r) PROVE Booking!Hold(r)
<1>1. \A q \in Requests : SeatOf[q] = SeatOf[r] => resv[q] = "NONE"
  BY DEF Inv, RowOwnership, ReserverOwnsSeat, SeatIdTaken, ReserveCommit
<1>2. \A q \in Requests : resv'[q] = IF q = r THEN "PENDING" ELSE resv[q]
  BY DEF ReserveCommit, Inv, TypeOK
<1> QED
  BY <1>1, <1>2 DEF Booking!Hold, Status

LEMMA ConfirmIsSell ==
  ASSUME Inv, NEW d \in Deliveries, ConfirmCommit(d)
  PROVE  Booking!Sell(ResvOf(d))
<1>1. ResvOf(d) \in Requests /\ resv[ResvOf(d)] = "PENDING"
  BY DeliveryOfRequest
  DEF ConfirmCommit, Inv, RowOwnership, FinisherOwnsReservation
<1>2. \A q \in Requests :
        resv'[q] = IF q = ResvOf(d) THEN "CONFIRMED" ELSE resv[q]
  BY DEF ConfirmCommit, Inv, TypeOK
<1> QED
  BY <1>1, <1>2 DEF Booking!Sell, Status

LEMMA ExpireIsLapse ==
  ASSUME Inv, NEW r \in Requests, ExpireCommit(r) PROVE Booking!Lapse(r)
<1>1. resv[r] = "PENDING"
  BY DEF ExpireCommit, Inv, RowOwnership, FinisherOwnsReservation
<1>2. \A q \in Requests : resv'[q] = IF q = r THEN "EXPIRED" ELSE resv[q]
  BY DEF ExpireCommit, Inv, TypeOK
<1> QED
  BY <1>1, <1>2 DEF Booking!Lapse, Status

\* Transactions, locks, redeliveries and jobs implement atomic booking.
THEOREM Implementation == Spec => ImplementsBooking
<1>1. Init => Booking!Init
  BY DEF Init, Booking!Init, Status
<1>2. Inv /\ [Next]_vars => [Booking!Next]_Booking!vars
  <2> SUFFICES ASSUME Inv, [Next]_vars PROVE [Booking!Next]_Booking!vars
    OBVIOUS
  <2>1. CASE \E q \in Requests : resv'[q] # resv[q]
    <3> PICK q \in Requests : resv'[q] # resv[q]
      BY <2>1
    <3>1. Booking!Hold(q) \/ Booking!Sell(q) \/ Booking!Lapse(q)
      BY WritersOfResv, CommitIsHold, ConfirmIsSell, ExpireIsLapse
    <3> QED
      BY <3>1 DEF Booking!Next
  <2>2. CASE \A q \in Requests : resv'[q] = resv[q]
    BY <2>2 DEF Status, Booking!vars
  <2> QED
    BY <2>1, <2>2
<1> QED
  BY Invariance, <1>1, <1>2, PTL DEF Spec, ImplementsBooking, Booking!Spec
=============================================================================
