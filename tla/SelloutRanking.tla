--------------------------- MODULE SelloutRanking ---------------------------
(***************************************************************************)
(* How fast a schedule sold out: startToSell prepares three Redis keys, a  *)
(* confirmed reservation's updateRanking counts itself and, if it finds    *)
(* the last seat gone, records the duration in a sorted set, which         *)
(* getFastSelloutRanking shows.  One Redis command is one step.  Keys and  *)
(* entries of different schedules are apart, so one schedule is modelled.  *)
(***************************************************************************)
EXTENDS Integers, FiniteSets

CONSTANTS
  Sales,       \* the reservations of the schedule that get confirmed
  StartAt,     \* schedule.startAt
  MaxTime,     \* bound: the clock stops here
  MaxStarts,   \* bound: calls of startToSell
  Faults       \* TRUE iff a process may die or Redis fail in updateRanking

ASSUME SalesAssumption == IsFiniteSet(Sales)
ASSUME StartAtAssumption == StartAt \in Nat \ {0}
ASSUME MaxTimeAssumption == MaxTime \in Nat
ASSUME MaxStartsAssumption == MaxStarts \in Nat
ASSUME FaultsAssumption == Faults \in BOOLEAN

\* schedule.totalSeats, and the schedule has that many seats.
TotalSeats == Cardinality(Sales)

\* A key or an entry that does not exist: below every time and every duration.
None == -StartAt - 1

VARIABLES
  now,         \* Date.now()
  total,       \* total_seats_count:schedule:<id>
  booked,      \* booked_count:schedule:<id>
  start,       \* selling_start_time:schedule:<id>
  entry,       \* the schedule's score in fast_sellout_ranking
  startPc,     \* control state of startToSell
  starts,      \* how often it was called
  pc,          \* [Sales -> control state of the confirmation]
  got,         \* [Sales -> the booked count it read, then its Date.now()]
  viewPc,      \* control state of one getFastSelloutRanking
  view,        \* [duration, selloutTime, seatsCount] as far as it has got
  late,        \* a sale was counted before startToSell ended, or forgotten by it
  soldOutAt    \* when the last sale was counted
               \* (late and soldOutAt: history, read by properties only)

keys     == <<total, booked, start>>
startVar == <<startPc, starts>>
saleVar  == <<pc, got>>
viewVar  == <<viewPc, view>>
vars == <<now, keys, entry, startVar, saleVar, viewVar, late, soldOutAt>>

SalePC == {"idle", "committed", "counted", "compare", "sold_out", "scored", "done",
           "lost"}
Known(key, values) == key \in values \cup {None}

TypeOK ==
  /\ now \in 0 .. MaxTime
  /\ Known(total, {TotalSeats})
  /\ Known(booked, 0 .. TotalSeats)
  /\ Known(start, {StartAt})
  /\ Known(entry, -StartAt .. MaxTime)
  /\ startPc \in {"idle", "total", "booked"}
  /\ starts \in 0 .. MaxStarts
  /\ pc \in [Sales -> SalePC]
  /\ got \in [Sales -> -StartAt .. MaxTime + TotalSeats]
  /\ viewPc \in {"idle", "entry", "start", "done"}
  /\ view \in [duration : Int, selloutTime : Int, seatsCount : Int]
  /\ late \in BOOLEAN
  /\ Known(soldOutAt, 0 .. MaxTime)

Init ==
  /\ now = 0
  /\ total = None /\ booked = None /\ start = None
  /\ entry = None
  /\ startPc = "idle" /\ starts = 0
  /\ pc = [s \in Sales |-> "idle"]
  /\ got = [s \in Sales |-> 0]
  /\ viewPc = "idle"
  /\ view = [duration |-> 0, selloutTime |-> 0, seatsCount |-> 0]
  /\ late = FALSE
  /\ soldOutAt = None

\* Number(null) is 0, and get answers null for a key that does not exist.
Number(key) == IF key = None THEN 0 ELSE key

Tick ==
  /\ now < MaxTime
  /\ now' = now + 1
  /\ UNCHANGED <<keys, entry, startVar, saleVar, viewVar, late, soldOutAt>>

-----------------------------------------------------------------------------
(* startToSell                                                             *)

SetTotal ==
  /\ startPc = "idle" /\ starts < MaxStarts
  /\ total' = TotalSeats
  /\ startPc' = "total"
  /\ starts' = starts + 1
  /\ UNCHANGED <<now, booked, start, entry, saleVar, viewVar, late, soldOutAt>>

\* The count starts again from 0, whatever it was.
SetBooked ==
  /\ startPc = "total"
  /\ booked' = 0
  /\ startPc' = "booked"
  /\ late' = (late \/ Number(booked) > 0)
  /\ UNCHANGED <<now, total, start, entry, starts, saleVar, viewVar, soldOutAt>>

SetStart ==
  /\ startPc = "booked"
  /\ start' = StartAt
  /\ startPc' = "idle"
  /\ UNCHANGED <<now, total, booked, entry, starts, saleVar, viewVar, late, soldOutAt>>

\* A SET fails: startToSell throws half way.
StartFails ==
  /\ Faults
  /\ startPc \in {"total", "booked"}
  /\ startPc' = "idle"
  /\ UNCHANGED <<now, keys, entry, starts, saleVar, viewVar, late, soldOutAt>>

StartToSell == SetTotal \/ SetBooked \/ SetStart \/ StartFails

-----------------------------------------------------------------------------
(* confirmReservation after its COMMIT: updateRanking                       *)

To(s, state) == pc' = [pc EXCEPT ![s] = state]

ConfirmCommit(s) ==
  /\ pc[s] = "idle"
  /\ To(s, "committed")
  /\ UNCHANGED <<now, keys, entry, startVar, got, viewVar, late, soldOutAt>>

\* INCR
Increment(s) ==
  /\ pc[s] = "committed"
  /\ booked' = Number(booked) + 1
  /\ late' = (late \/ None \in {total, booked, start})
  /\ soldOutAt' = IF booked' = TotalSeats THEN now ELSE soldOutAt
  /\ To(s, "counted")
  /\ UNCHANGED <<now, total, start, entry, startVar, got, viewVar>>

\* GET booked_count: not the value INCR answered.
GetBooked(s) ==
  /\ pc[s] = "counted"
  /\ got' = [got EXCEPT ![s] = Number(booked)]
  /\ To(s, "compare")
  /\ UNCHANGED <<now, keys, entry, startVar, viewVar, late, soldOutAt>>

\* Mutant: off by one, as if the count had been read before INCR.
CompareWithNext(s) ==
  /\ pc[s] = "compare"
  /\ IF got[s] + 1 >= Number(total)
       THEN To(s, "sold_out") /\ got' = [got EXCEPT ![s] = now]
       ELSE To(s, "done") /\ got' = [got EXCEPT ![s] = 0]
  /\ UNCHANGED <<now, keys, entry, startVar, viewVar, late, soldOutAt>>

\* Mutant: > for >=.
CompareStrictly(s) ==
  /\ pc[s] = "compare"
  /\ IF got[s] > Number(total)
       THEN To(s, "sold_out") /\ got' = [got EXCEPT ![s] = now]
       ELSE To(s, "done") /\ got' = [got EXCEPT ![s] = 0]
  /\ UNCHANGED <<now, keys, entry, startVar, viewVar, late, soldOutAt>>

\* GET total_seats_count, the comparison, and Date.now(), which is evaluated
\* before the third GET is awaited.
Compare(s) ==
  /\ pc[s] = "compare"
  /\ IF got[s] >= Number(total)
       THEN To(s, "sold_out") /\ got' = [got EXCEPT ![s] = now]
       ELSE To(s, "done") /\ got' = [got EXCEPT ![s] = 0]
  /\ UNCHANGED <<now, keys, entry, startVar, viewVar, late, soldOutAt>>

\* GET selling_start_time
GetStart(s) ==
  /\ pc[s] = "sold_out"
  /\ got' = [got EXCEPT ![s] = @ - Number(start)]
  /\ To(s, "scored")
  /\ UNCHANGED <<now, keys, entry, startVar, viewVar, late, soldOutAt>>

\* ZADD, over whatever score there is.
AddToRanking(s) ==
  /\ pc[s] = "scored"
  /\ entry' = got[s]
  /\ got' = [got EXCEPT ![s] = 0]
  /\ To(s, "done")
  /\ UNCHANGED <<now, keys, startVar, viewVar, late, soldOutAt>>

InUpdate(s) == pc[s] \in {"committed", "counted", "compare", "sold_out", "scored"}

\* Mutant: a redelivered payment.success counts again.
RetryUpdate(s) ==
  /\ Faults /\ InUpdate(s)
  /\ To(s, "committed")
  /\ UNCHANGED <<now, keys, entry, startVar, got, viewVar, late, soldOutAt>>

\* The process dies or Redis fails.  The message may come again, but then the
\* reservation is no longer PENDING and updateRanking is not reached.
LoseUpdate(s) ==
  /\ Faults /\ InUpdate(s)
  /\ To(s, "lost")
  /\ got' = [got EXCEPT ![s] = 0]
  /\ UNCHANGED <<now, keys, entry, startVar, viewVar, late, soldOutAt>>

UpdateRanking(s) ==
  Increment(s) \/ GetBooked(s) \/ Compare(s) \/ GetStart(s) \/ AddToRanking(s)

-----------------------------------------------------------------------------
(* getFastSelloutRanking                                                   *)

\* ZRANGE; a schedule without an entry is not in it.
ReadEntry ==
  /\ viewPc = "idle"
  /\ entry # None
  /\ view' = [duration |-> entry, selloutTime |-> 0, seatsCount |-> 0]
  /\ viewPc' = "entry"
  /\ UNCHANGED <<now, keys, entry, startVar, saleVar, late, soldOutAt>>

ReadStart ==
  /\ viewPc = "entry"
  /\ view' = [view EXCEPT !.selloutTime = Number(start) + view.duration]
  /\ viewPc' = "start"
  /\ UNCHANGED <<now, keys, entry, startVar, saleVar, late, soldOutAt>>

ReadTotal ==
  /\ viewPc = "start"
  /\ view' = [view EXCEPT !.seatsCount = Number(total)]
  /\ viewPc' = "done"
  /\ UNCHANGED <<now, keys, entry, startVar, saleVar, late, soldOutAt>>

ViewRanking == ReadEntry \/ ReadStart \/ ReadTotal

-----------------------------------------------------------------------------
Next ==
  \/ Tick
  \/ StartToSell
  \/ \E s \in Sales : ConfirmCommit(s) \/ UpdateRanking(s) \/ LoseUpdate(s)
  \/ ViewRanking

Spec == Init /\ [][Next]_vars

\* A confirmation that has begun goes on.
FairSpec == Spec /\ \A s \in Sales : WF_vars(UpdateRanking(s))

-----------------------------------------------------------------------------
Counted(s) == pc[s] \in {"counted", "compare", "sold_out", "scored", "done"}

\* Every confirmed reservation is counted once: each that got past INCR, and none
\* that was not confirmed, however often its message was delivered.  A start that
\* is late forgets sales, but never invents one.
CountMatchesSales ==
  /\ Number(booked) <= Cardinality({s \in Sales : pc[s] # "idle"})
  /\ ~late => Cardinality({s \in Sales : Counted(s)}) <= Number(booked)

\* If startToSell ended before the first sale, the ranking has the schedule only
\* after all of its seats were sold, with a time between that of the last sale and
\* now (INCR, GET and GET are apart, and several sales may find themselves last);
\* and what a client is shown, read from three keys one after the other, is such a
\* time and all of the seats.
RankedOnlyWhenSoldOut ==
  /\ entry # None /\ ~late =>
       /\ soldOutAt # None
       /\ \A s \in Sales : pc[s] # "idle"
       /\ soldOutAt <= entry + StartAt /\ entry + StartAt <= now
  /\ viewPc = "done" /\ ~late =>
       /\ soldOutAt <= view.selloutTime /\ view.selloutTime <= now
       /\ view.seatsCount = TotalSeats

\* A schedule that has sold out gets into the ranking, unless a sale was not
\* counted: a crash, a Redis error or a late start.
SoldOutIsRanked ==
  (\A s \in Sales : pc[s] # "idle") ~>
    (entry # None \/ late \/ \E s \in Sales : pc[s] = "lost")
=============================================================================
