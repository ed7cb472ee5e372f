------------------------ MODULE SelloutRankingProofs ------------------------
(***************************************************************************)
(* Counting sales with INCR and looking for the last one with GET is       *)
(* enough: for any number of sales, starts and failures the count never    *)
(* exceeds the sales and only a schedule that sold out is ranked and       *)
(* shown.                                                                  *)
(***************************************************************************)
EXTENDS SelloutRanking, FiniteSetTheorems, TLAPS

\* Sales whose INCR was done or given up, and those that were counted.
Past    == {s \in Sales : pc[s] \notin {"idle", "committed"}}
Present == {s \in Sales : Counted(s)}

\* What a confirmation carries is a count, then a time, then a duration.
Carried ==
  \A s \in Sales :
    /\ pc[s] = "compare" => got[s] \in 0 .. TotalSeats
    /\ pc[s] = "sold_out" => got[s] \in 0 .. MaxTime
    /\ pc[s] = "scored" => got[s] \in -StartAt .. MaxTime

Counts ==
  /\ Number(booked) <= Cardinality(Past)
  /\ ~late => Cardinality(Present) <= Number(booked)

\* Once a sale was counted after a start the keys are there; the schedule has sold
\* out when the count says so.
Keys ==
  /\ soldOutAt # None => soldOutAt <= now
  /\ ~late => /\ Number(booked) > 0 => total = TotalSeats /\ start = StartAt
              /\ soldOutAt # None <=> Number(booked) = TotalSeats /\ TotalSeats > 0

\* Between the last sale and now.
Between(time) == soldOutAt # None /\ soldOutAt <= time /\ time <= now

Times ==
  ~late =>
    /\ \A s \in Sales :
         /\ pc[s] = "compare" => got[s] <= Number(booked)
         /\ pc[s] = "sold_out" => Between(got[s])
         /\ pc[s] = "scored" => Between(got[s] + StartAt)
    /\ entry # None => Between(entry + StartAt)
    /\ viewPc = "entry" => Between(view.duration + StartAt)
    /\ viewPc \in {"start", "done"} => Between(view.selloutTime)
    /\ viewPc = "done" => view.seatsCount = TotalSeats

Inv == TypeOK /\ Carried /\ Counts /\ Keys /\ Times

-----------------------------------------------------------------------------
LEMMA Constants ==
  /\ TotalSeats \in Nat /\ StartAt \in Nat /\ StartAt > 0 /\ MaxTime \in Nat
  /\ None \in Int /\ None < 0 /\ None < -StartAt
BY SalesAssumption, StartAtAssumption, MaxTimeAssumption, FS_CardinalityType
   DEF TotalSeats, None

LEMMA Subsets ==
  ASSUME NEW T \in SUBSET Sales
  PROVE  /\ IsFiniteSet(T)
         /\ Cardinality(T) \in Nat
         /\ Cardinality(T) <= TotalSeats
         /\ Cardinality(T) = TotalSeats => T = Sales
         /\ \A s \in T : Cardinality(T) > 0
         /\ \A s \in Sales \ T : Cardinality(T \cup {s}) = Cardinality(T) + 1
         /\ \A U \in SUBSET T : Cardinality(U) <= Cardinality(T)
<1>1. /\ IsFiniteSet(T) /\ Cardinality(T) \in Nat
      /\ Cardinality(T) <= TotalSeats
      /\ Cardinality(T) = TotalSeats => T = Sales
  BY SalesAssumption, FS_Subset, FS_CardinalityType DEF TotalSeats
<1>2. \A U \in SUBSET T : Cardinality(U) <= Cardinality(T)
  BY <1>1, FS_Subset
<1>3. \A s \in Sales \ T : Cardinality(T \cup {s}) = Cardinality(T) + 1
  BY <1>1, FS_AddElement
<1>4. T # {} => Cardinality(T) > 0
  BY <1>1, FS_EmptySet
<1> QED
  BY <1>1, <1>2, <1>3, <1>4

\* What is counted was sold; if it is everything nobody is left to sell.
LEMMA CountFacts ==
  ASSUME TypeOK, Counts
  PROVE  /\ Number(booked) \in 0 .. TotalSeats
         /\ Number(booked) = TotalSeats => \A s \in Sales : pc[s] \notin {"idle", "committed"}
         /\ \A s \in Sales : Counted(s) /\ ~late => Number(booked) > 0
<1>1. /\ Past \in SUBSET Sales /\ Present \in SUBSET Sales
      /\ \A s \in Sales : Counted(s) <=> s \in Present
  BY DEF Past, Present
<1>2. Number(booked) \in Nat
  BY Constants DEF TypeOK, Known, Number
<1>3. Number(booked) <= TotalSeats
  BY <1>1, <1>2, Subsets, Constants DEF Counts
<1>4. Number(booked) = TotalSeats => Past = Sales
  BY <1>1, <1>2, Subsets, Constants DEF Counts
<1>5. \A s \in Sales : Counted(s) /\ ~late => Number(booked) > 0
  BY <1>1, <1>2, Subsets DEF Counts
<1> QED
  BY <1>2, <1>3, <1>4, <1>5, Constants DEF Past

LEMMA InitInv == Init => Inv
<1> SUFFICES ASSUME Init PROVE Inv
  OBVIOUS
<1>1. Past = {} /\ Present = {} /\ Cardinality(Past) = 0 /\ Cardinality(Present) = 0
  BY FS_EmptySet DEF Init, Past, Present, Counted
<1>2. TypeOK
  <2>1. 0 \in 0 .. MaxTime /\ 0 \in 0 .. MaxStarts /\ 0 \in -StartAt .. MaxTime + TotalSeats
    BY Constants, MaxStartsAssumption
  <2>2. got \in [Sales -> -StartAt .. MaxTime + TotalSeats] /\ pc \in [Sales -> SalePC]
    BY <2>1 DEF Init, SalePC
  <2>3. view \in [duration : Int, selloutTime : Int, seatsCount : Int]
    BY DEF Init
  <2>4. late \in BOOLEAN
    BY DEF Init
  <2>5. /\ Known(total, {TotalSeats}) /\ Known(booked, 0 .. TotalSeats)
        /\ Known(start, {StartAt}) /\ Known(entry, -StartAt .. MaxTime)
        /\ Known(soldOutAt, 0 .. MaxTime)
    BY DEF Init, Known
  <2>6. now \in 0 .. MaxTime /\ starts \in 0 .. MaxStarts
        /\ startPc \in {"idle", "total", "booked"}
        /\ viewPc \in {"idle", "entry", "start", "done"}
    BY <2>1 DEF Init
  <2> QED
    BY <2>2, <2>3, <2>4, <2>5, <2>6 DEF TypeOK
<1>3. Number(booked) = 0 /\ Counts
  <2>1. Number(booked) = 0
    BY DEF Init, Number
  <2> QED
    BY <1>1, <2>1 DEF Counts
<1>4. Keys
  BY <1>3, Constants DEF Init, Keys
<1>5. Carried /\ Times
  BY DEF Init, Carried, Times
<1> QED
  BY <1>2, <1>3, <1>4, <1>5 DEF Inv

-----------------------------------------------------------------------------
\* The clock only makes "now" later.
LEMMA TickStep == Inv /\ Tick => Inv'
<1> SUFFICES ASSUME Inv, Tick PROVE Inv'
  OBVIOUS
<1> USE Constants DEF Inv, Tick, keys, startVar, saleVar, viewVar
<1>1. TypeOK'
  BY DEF TypeOK, Known
<1>2. Carried' /\ Counts'
  BY DEF Carried, Counts, Past, Present, Counted, Number
<1>3. now \in Int /\ now' = now + 1 /\ (soldOutAt # None => soldOutAt \in Int)
  BY DEF TypeOK, Known
<1>4. Keys'
  BY <1>3 DEF Keys, Number
<1>5. \A time \in Int : Between(time) => Between(time)'
  BY <1>3 DEF Between
<1>6. /\ \A s \in Sales : got[s] \in Int
      /\ entry \in Int /\ view.duration \in Int /\ view.selloutTime \in Int
  BY DEF TypeOK, Known
<1>7. Times'
  BY <1>5, <1>6 DEF Times, Number
<1> QED
  BY <1>1, <1>2, <1>4, <1>7

\* startToSell: setting the count to 0 when it is not makes the schedule late.
LEMMA StartSteps == Inv /\ StartToSell => Inv'
<1> SUFFICES ASSUME Inv, StartToSell PROVE Inv'
  OBVIOUS
<1> USE Constants DEF Inv, saleVar, viewVar
<1>1. /\ UNCHANGED <<now, entry, pc, got, viewPc, view, soldOutAt>>
      /\ total' \in {total, TotalSeats} /\ start' \in {start, StartAt}
      /\ \/ UNCHANGED <<booked, late>>
         \/ booked' = 0 /\ late' = (late \/ Number(booked) > 0)
  BY DEF StartToSell, SetTotal, SetBooked, SetStart, StartFails, keys
<1>2. Number(booked) \in 0 .. TotalSeats
  BY CountFacts
<1>3. TypeOK'
  <2>1. starts' \in 0 .. MaxStarts /\ startPc' \in {"idle", "total", "booked"}
    BY MaxStartsAssumption DEF TypeOK, StartToSell, SetTotal, SetBooked, SetStart, StartFails
  <2>2. Known(total', {TotalSeats}) /\ Known(booked', 0 .. TotalSeats) /\ Known(start', {StartAt})
    BY <1>1 DEF TypeOK, Known
  <2>3. late' \in BOOLEAN
    BY <1>1 DEF TypeOK
  <2> QED
    BY <1>1, <2>1, <2>2, <2>3 DEF TypeOK, Known
<1>4. Carried'
  BY <1>1 DEF Carried
<1>5. ~late' => ~late /\ Number(booked)' = Number(booked)
  <2>1. CASE UNCHANGED <<booked, late>>
    BY <2>1 DEF Number
  <2>2. CASE booked' = 0 /\ late' = (late \/ Number(booked) > 0)
    <3>1. Number(booked)' = 0
      BY <2>2 DEF Number
    <3>2. ~(Number(booked) > 0) => Number(booked) = 0
      BY <1>2
    <3> QED
      BY <2>2, <3>1, <3>2, Zenon
  <2> QED
    BY <1>1, <2>1, <2>2
<1>6. Number(booked)' \in {0, Number(booked)}
  BY <1>1, <1>2 DEF Number
<1>7. Past' = Past /\ Present' = Present
  BY <1>1 DEF Past, Present, Counted
<1>8. Counts'
  <2>1. Past \in SUBSET Sales
    BY DEF Past
  <2>2. Cardinality(Past) \in Nat
    BY <2>1, Subsets
  <2> QED
    BY <1>2, <1>5, <1>6, <1>7, <2>2 DEF Counts
<1>9. Keys'
  BY <1>1, <1>5 DEF Keys
<1>10. Times'
  BY <1>1, <1>5 DEF Times, Between
<1> QED
  BY <1>3, <1>4, <1>8, <1>9, <1>10

\* INCR: the only step that counts, and that finds the schedule sold out.
LEMMA IncrementStep == ASSUME Inv, NEW s \in Sales, Increment(s) PROVE Inv'
<1> USE Constants DEF Inv, startVar, viewVar
<1>1. /\ UNCHANGED <<now, total, start, entry, startPc, starts, got, viewPc, view>>
      /\ pc[s] = "committed"
      /\ booked' = Number(booked) + 1
      /\ late' = (late \/ None \in {total, booked, start})
      /\ soldOutAt' = IF booked' = TotalSeats THEN now ELSE soldOutAt
      /\ pc' = [pc EXCEPT ![s] = "counted"]
  BY DEF Increment, To
<1>2. /\ Past' = Past \cup {s} /\ s \notin Past /\ Past \in SUBSET Sales
      /\ Present' = Present \cup {s} /\ s \notin Present /\ Present \in SUBSET Sales
  BY <1>1 DEF Past, Present, Counted, TypeOK, SalePC
<1>3. /\ Cardinality(Past') = Cardinality(Past) + 1
      /\ Cardinality(Present') = Cardinality(Present) + 1
      /\ Cardinality(Past) \in Nat /\ Cardinality(Present) \in Nat
      /\ Cardinality(Past') <= TotalSeats
  BY <1>2, Subsets
<1>4. Number(booked) \in Nat /\ booked' \in 0 .. TotalSeats /\ Number(booked)' = booked'
  BY <1>1, <1>3, CountFacts DEF Counts, Number
<1>5. TypeOK'
  <2>1. pc' \in [Sales -> SalePC]
    BY <1>1 DEF TypeOK, SalePC
  <2>2. Known(booked', 0 .. TotalSeats) /\ Known(soldOutAt', 0 .. MaxTime)
    BY <1>1, <1>4 DEF TypeOK, Known
  <2>3. late' \in BOOLEAN
    BY <1>1 DEF TypeOK
  <2> QED
    BY <1>1, <2>1, <2>2, <2>3 DEF TypeOK, Known
<1>6. Carried'
  BY <1>1 DEF Carried, TypeOK
<1>7. Counts'
  <2>1. Number(booked)' <= Cardinality(Past')
    BY <1>1, <1>3, <1>4 DEF Counts
  <2>2. ~late' => ~late
    BY <1>1, Zenon
  <2>3. ~late' => Cardinality(Present') <= Number(booked)'
    BY <1>1, <1>3, <1>4, <2>2 DEF Counts
  <2> QED
    BY <2>1, <2>3, Zenon DEF Counts
<1>8. ~late' => /\ ~late /\ total = TotalSeats /\ start = StartAt
                /\ soldOutAt = None /\ Number(booked) < TotalSeats
  <2>1. total # None /\ start # None => total = TotalSeats /\ start = StartAt
    BY DEF TypeOK, Known
  <2>2. ~late' => ~late /\ None \notin {total, booked, start}
    BY <1>1, Zenon
  <2>3. Number(booked) < TotalSeats
    BY <1>1, <1>4
  <2>4. ~late => soldOutAt = None
    BY <1>4, <2>3 DEF Keys
  <2> QED
    BY <2>1, <2>2, <2>3, <2>4
<1>9. Keys'
  <2>1. now \in Nat
    BY DEF TypeOK
  <2>2. soldOutAt' # None => soldOutAt' <= now'
    BY <1>1, <2>1 DEF Keys
  <2>3. ~late' => (soldOutAt' # None <=> booked' = TotalSeats)
    BY <1>1, <1>8, <2>1
  <2> QED
    BY <1>1, <1>4, <1>8, <2>2, <2>3 DEF Keys
<1>10. Times'
  <2> SUFFICES ASSUME ~late' PROVE Times'
    BY DEF Times
  <2>1. \A time : ~Between(time)
    BY <1>8 DEF Between
  <2>2. \A t \in Sales : pc'[t] = "compare" => pc[t] = "compare" /\ got[t] <= Number(booked)
    BY <1>1, <1>8 DEF Times, TypeOK
  <2>3. \A t \in Sales : pc'[t] = "compare" => got'[t] <= Number(booked)'
    BY <1>1, <1>4, <2>2 DEF Carried
  <2>4. \A t \in Sales : pc'[t] \notin {"sold_out", "scored"}
    BY <1>1, <1>8, <2>1 DEF Times, TypeOK
  <2>5. entry = None /\ viewPc \notin {"entry", "start", "done"}
    BY <1>8, <2>1 DEF Times
  <2> QED
    BY <1>1, <2>3, <2>4, <2>5 DEF Times
<1> QED
  BY <1>5, <1>6, <1>7, <1>9, <1>10

\* What a confirmation may carry in a state.
MayCarry(state, value) ==
  /\ state = "compare" => value \in 0 .. TotalSeats /\ (~late => value <= Number(booked))
  /\ state = "sold_out" => value \in 0 .. MaxTime /\ (~late => Between(value))
  /\ state = "scored" => value \in -StartAt .. MaxTime /\ (~late => Between(value + StartAt))

\* A step of one confirmation that is not INCR.
LEMMA SaleStep ==
  ASSUME Inv, NEW s \in Sales, NEW state \in SalePC,
         NEW value \in -StartAt .. MaxTime + TotalSeats,
         pc' = [pc EXCEPT ![s] = state], got' = [got EXCEPT ![s] = value],
         UNCHANGED <<now, keys, startVar, viewVar, late, soldOutAt>>,
         state \in {"idle", "committed"} => pc[s] \in {"idle", "committed"},
         state \in {"counted", "compare", "sold_out", "scored", "done"} => Counted(s),
         MayCarry(state, value),
         Known(entry', -StartAt .. MaxTime),
         entry' # None /\ ~late => Between(entry' + StartAt)
  PROVE  Inv'
<1> USE Constants DEF Inv, keys, startVar, viewVar
<1>1. TypeOK'
  <2>1. pc' \in [Sales -> SalePC] /\ got' \in [Sales -> -StartAt .. MaxTime + TotalSeats]
    BY DEF TypeOK
  <2> QED
    BY <2>1 DEF TypeOK, Known
<1>2. Carried'
  BY DEF Carried, MayCarry, TypeOK
<1>3. Number(booked)' = Number(booked)
  BY DEF Number
<1>4. Counts'
  <2>1. Past \in SUBSET Past' /\ Past' \in SUBSET Sales
    BY DEF Past, TypeOK
  <2>2. Present' \in SUBSET Present /\ Present \in SUBSET Sales
    BY DEF Present, Counted, TypeOK
  <2>3. /\ Cardinality(Past) <= Cardinality(Past')
        /\ Cardinality(Present') <= Cardinality(Present)
        /\ Cardinality(Past) \in Nat /\ Cardinality(Past') \in Nat
        /\ Cardinality(Present) \in Nat /\ Cardinality(Present') \in Nat
    <3>1. Past \in SUBSET Sales /\ Present' \in SUBSET Sales
      BY <2>1, <2>2
    <3> QED
      BY <2>1, <2>2, <3>1, Subsets
  <2>4. Number(booked) \in Nat
    BY CountFacts
  <2> QED
    BY <1>3, <2>3, <2>4 DEF Counts
<1>5. Keys'
  BY <1>3 DEF Keys
<1>6. \A time : Between(time)' <=> Between(time)
  BY DEF Between
<1>7. Times'
  <2> SUFFICES ASSUME ~late, ~late' PROVE Times'
    BY DEF Times
  <2>1. \A t \in Sales :
          /\ pc'[t] = "compare" => got'[t] <= Number(booked)
          /\ pc'[t] = "sold_out" => Between(got'[t])
          /\ pc'[t] = "scored" => Between(got'[t] + StartAt)
    <3> SUFFICES ASSUME NEW t \in Sales
                 PROVE  /\ pc'[t] = "compare" => got'[t] <= Number(booked)
                        /\ pc'[t] = "sold_out" => Between(got'[t])
                        /\ pc'[t] = "scored" => Between(got'[t] + StartAt)
      OBVIOUS
    <3>1. CASE t = s
      BY <3>1 DEF TypeOK, MayCarry
    <3>2. CASE t # s
      BY <3>2 DEF TypeOK, Times
    <3> QED
      BY <3>1, <3>2
  <2> QED
    BY <1>3, <1>6, <2>1 DEF Times
<1> QED
  BY <1>1, <1>2, <1>4, <1>5, <1>7

\* The other steps of a confirmation: who finds the count complete carries a time
\* between the last sale and now into the ranking.
LEMMA SaleSteps ==
  ASSUME Inv, NEW s \in Sales,
         \/ ConfirmCommit(s) \/ GetBooked(s) \/ Compare(s)
         \/ GetStart(s) \/ AddToRanking(s) \/ LoseUpdate(s)
  PROVE  Inv'
<1> DEFINE Values == -StartAt .. MaxTime + TotalSeats
<1>1. /\ pc[s] \in SalePC /\ got[s] \in Values /\ 0 \in Values
      /\ got = [got EXCEPT ![s] = got[s]]
      /\ now \in 0 .. MaxTime /\ now \in Values
      /\ Known(entry, -StartAt .. MaxTime)
  BY Constants DEF Inv, TypeOK
<1>2. entry # None /\ ~late => Between(entry + StartAt)
  BY DEF Inv, Times
<1>3. Number(booked) \in 0 .. TotalSeats /\ Number(booked) \in Values
  BY CountFacts, Constants DEF Inv
<1>4. MayCarry(pc[s], got[s])
  BY DEF Inv, Carried, Times, MayCarry
<1> USE DEF SalePC
<1>5. CASE ConfirmCommit(s)
  <2> DEFINE state == "committed"
             value == got[s]
  <2>1. MayCarry(state, value)
    BY DEF MayCarry
  <2>2. /\ pc' = [pc EXCEPT ![s] = state] /\ got' = [got EXCEPT ![s] = value]
        /\ UNCHANGED <<now, keys, startVar, viewVar, late, soldOutAt, entry>>
        /\ pc[s] = "idle"
    BY <1>1, <1>5 DEF ConfirmCommit, To
  <2> QED
    BY <1>1, <1>2, <2>1, <2>2, SaleStep
<1>6. CASE GetBooked(s)
  <2> DEFINE state == "compare"
             value == Number(booked)
  <2>1. MayCarry(state, value)
    BY <1>3 DEF MayCarry
  <2>2. /\ pc' = [pc EXCEPT ![s] = state] /\ got' = [got EXCEPT ![s] = value]
        /\ UNCHANGED <<now, keys, startVar, viewVar, late, soldOutAt, entry>>
        /\ pc[s] = "counted" /\ Counted(s)
    BY <1>6 DEF GetBooked, To, Counted
  <2> QED
    BY <1>1, <1>2, <1>3, <2>1, <2>2, SaleStep
<1>7. CASE Compare(s)
  <2>1. /\ UNCHANGED <<now, keys, startVar, viewVar, late, soldOutAt, entry>>
        /\ pc[s] = "compare" /\ Counted(s)
    BY <1>7 DEF Compare, Counted
  <2>2. CASE got[s] >= Number(total)
    <3> DEFINE state == "sold_out"
               value == now
    <3>1. pc' = [pc EXCEPT ![s] = state] /\ got' = [got EXCEPT ![s] = value]
      BY <1>7, <2>2 DEF Compare, To
    <3>2. ASSUME ~late PROVE Between(now)
      <4>1. got[s] <= Number(booked) /\ got[s] \in Int
        BY <1>1, <1>4, <2>1, <3>2 DEF MayCarry
      <4>2. Number(booked) > 0
        BY <2>1, <3>2, CountFacts DEF Inv
      <4>3. Number(total) = TotalSeats
        BY <3>2, <4>2, Constants DEF Inv, Keys, Number
      <4>4. Number(booked) = TotalSeats /\ TotalSeats > 0
        BY <1>3, <2>2, <4>1, <4>2, <4>3, Constants
      <4> QED
        BY <1>1, <3>2, <4>4 DEF Inv, Keys, Between
    <3>3. MayCarry(state, value)
      BY <1>1, <3>2 DEF MayCarry
    <3> QED
      BY <1>1, <1>2, <2>1, <3>1, <3>3, SaleStep
  <2>3. CASE ~(got[s] >= Number(total))
    <3> DEFINE state == "done"
               value == 0
    <3>1. pc' = [pc EXCEPT ![s] = state] /\ got' = [got EXCEPT ![s] = value]
      BY <1>7, <2>3 DEF Compare, To
    <3>2. MayCarry(state, value)
      BY DEF MayCarry
    <3> QED
      BY <1>1, <1>2, <2>1, <3>1, <3>2, SaleStep
  <2> QED
    BY <2>2, <2>3
<1>8. CASE GetStart(s)
  <2> DEFINE state == "scored"
             value == got[s] - Number(start)
  <2>1. /\ pc' = [pc EXCEPT ![s] = state] /\ got' = [got EXCEPT ![s] = value]
        /\ UNCHANGED <<now, keys, startVar, viewVar, late, soldOutAt, entry>>
        /\ pc[s] = "sold_out" /\ Counted(s)
    BY <1>1, <1>8 DEF GetStart, To, Counted
  <2>2. got[s] \in 0 .. MaxTime /\ (~late => Between(got[s]))
    BY <1>4, <2>1 DEF MayCarry
  <2>3. Number(start) \in {0, StartAt}
    BY DEF Inv, TypeOK, Known, Number
  <2>4. value \in -StartAt .. MaxTime /\ value \in Values
    BY <2>2, <2>3, Constants
  <2>5. ASSUME ~late PROVE Between(value + StartAt)
    <3>1. Number(booked) > 0
      BY <2>1, <2>5, CountFacts DEF Inv
    <3>2. Number(start) = StartAt
      BY <2>5, <3>1, Constants DEF Inv, Keys, Number
    <3>3. value + StartAt = got[s]
      BY <2>2, <3>2, Constants
    <3> QED
      BY <2>2, <2>5, <3>3
  <2>6. MayCarry(state, value)
    BY <2>4, <2>5 DEF MayCarry
  <2> QED
    BY <1>1, <1>2, <2>1, <2>4, <2>6, SaleStep
<1>9. CASE AddToRanking(s)
  <2> DEFINE state == "done"
             value == 0
  <2>1. /\ pc' = [pc EXCEPT ![s] = state] /\ got' = [got EXCEPT ![s] = value]
        /\ UNCHANGED <<now, keys, startVar, viewVar, late, soldOutAt>>
        /\ entry' = got[s]
        /\ pc[s] = "scored" /\ Counted(s)
    BY <1>9 DEF AddToRanking, To, Counted
  <2>2. MayCarry(state, value)
    BY DEF MayCarry
  <2>3. Known(entry', -StartAt .. MaxTime) /\ (~late => Between(entry' + StartAt))
    BY <1>4, <2>1 DEF MayCarry, Known
  <2> QED
    BY <1>1, <2>1, <2>2, <2>3, SaleStep
<1>10. CASE LoseUpdate(s)
  <2> DEFINE state == "lost"
             value == 0
  <2>1. /\ pc' = [pc EXCEPT ![s] = state] /\ got' = [got EXCEPT ![s] = value]
        /\ UNCHANGED <<now, keys, startVar, viewVar, late, soldOutAt, entry>>
    BY <1>10 DEF LoseUpdate, To
  <2>2. MayCarry(state, value)
    BY DEF MayCarry
  <2> QED
    BY <1>1, <1>2, <2>1, <2>2, SaleStep
<1> QED
  BY <1>5, <1>6, <1>7, <1>8, <1>9, <1>10

\* getFastSelloutRanking: three reads, but what they read no longer changes.
LEMMA ViewSteps == Inv /\ ViewRanking => Inv'
<1> SUFFICES ASSUME Inv, ViewRanking PROVE Inv'
  OBVIOUS
<1> USE Constants DEF Inv, keys, startVar, saleVar
<1>1. UNCHANGED <<now, keys, entry, startVar, saleVar, late, soldOutAt>>
  BY DEF ViewRanking, ReadEntry, ReadStart, ReadTotal
<1>2. Carried' /\ Counts' /\ Keys'
  BY <1>1 DEF Carried, Counts, Keys, Past, Present, Counted, Number
<1>3. \A time : Between(time)' <=> Between(time)
  BY <1>1 DEF Between
<1>4. /\ view.duration \in Int /\ view.selloutTime \in Int /\ view.seatsCount \in Int
      /\ Number(start) \in Int /\ Number(total) \in Int /\ entry \in Int
  BY DEF TypeOK, Known, Number
<1>5. ASSUME ~late, NEW time, Between(time)
      PROVE  Number(start) = StartAt /\ Number(total) = TotalSeats
  BY <1>5 DEF Between, Keys, Number
<1>6. Number(booked)' = Number(booked)
  BY <1>1 DEF Number
<1>7. ASSUME ~late
      PROVE  /\ \A s \in Sales :
                  /\ pc[s] = "compare" => got[s] <= Number(booked)
                  /\ pc[s] = "sold_out" => Between(got[s])
                  /\ pc[s] = "scored" => Between(got[s] + StartAt)
             /\ entry # None => Between(entry + StartAt)
  BY <1>7 DEF Times
<1>8. CASE ReadEntry
  <2>1. /\ view' = [duration |-> entry, selloutTime |-> 0, seatsCount |-> 0]
        /\ viewPc' = "entry" /\ entry # None
    BY <1>8 DEF ReadEntry
  <2>2. TypeOK'
    BY <1>1, <1>4, <2>1 DEF TypeOK, Known
  <2>3. view'.duration = entry
    BY <2>1
  <2>4. Times'
    BY <1>1, <1>3, <1>6, <1>7, <2>1, <2>3 DEF Times
  <2> QED
    BY <1>2, <2>2, <2>4
<1>9. CASE ReadStart
  <2>1. /\ view' = [view EXCEPT !.selloutTime = Number(start) + view.duration]
        /\ viewPc = "entry" /\ viewPc' = "start"
    BY <1>9 DEF ReadStart
  <2>2. view'.selloutTime = Number(start) + view.duration
    BY <2>1 DEF TypeOK
  <2>3. view' \in [duration : Int, selloutTime : Int, seatsCount : Int]
    <3>1. Number(start) + view.duration \in Int
      BY <1>4
    <3> QED
      BY <2>1, <3>1 DEF TypeOK
  <2>4. TypeOK'
    BY <1>1, <2>1, <2>3 DEF TypeOK, Known
  <2>5. ASSUME ~late PROVE Between(view'.selloutTime)
    <3>1. Between(view.duration + StartAt)
      BY <2>1, <2>5 DEF Times
    <3>2. view'.selloutTime = view.duration + StartAt
      BY <1>4, <1>5, <2>2, <2>5, <3>1
    <3> QED
      BY <3>1, <3>2
  <2>6. Times'
    BY <1>1, <1>3, <1>6, <1>7, <2>1, <2>5 DEF Times
  <2> QED
    BY <1>2, <2>4, <2>6
<1>10. CASE ReadTotal
  <2>1. /\ view' = [view EXCEPT !.seatsCount = Number(total)]
        /\ viewPc = "start" /\ viewPc' = "done"
    BY <1>10 DEF ReadTotal
  <2>2. view'.selloutTime = view.selloutTime /\ view'.seatsCount = Number(total)
    BY <2>1 DEF TypeOK
  <2>3. view' \in [duration : Int, selloutTime : Int, seatsCount : Int]
    BY <1>4, <2>1 DEF TypeOK
  <2>4. TypeOK'
    BY <1>1, <2>1, <2>3 DEF TypeOK, Known
  <2>5. ASSUME ~late PROVE Between(view'.selloutTime) /\ view'.seatsCount = TotalSeats
    BY <1>5, <2>1, <2>2, <2>5 DEF Times
  <2>6. Times'
    BY <1>1, <1>3, <1>6, <1>7, <2>1, <2>5 DEF Times
  <2> QED
    BY <1>2, <2>4, <2>6
<1> QED
  BY <1>8, <1>9, <1>10 DEF ViewRanking

LEMMA NextInv == Inv /\ [Next]_vars => Inv'
<1> SUFFICES ASSUME Inv, [Next]_vars PROVE Inv'
  OBVIOUS
<1>1. CASE Tick
  BY <1>1, TickStep
<1>2. CASE StartToSell
  BY <1>2, StartSteps
<1>3. ASSUME NEW s \in Sales, ConfirmCommit(s) \/ UpdateRanking(s) \/ LoseUpdate(s)
      PROVE  Inv'
  BY <1>3, IncrementStep, SaleSteps DEF UpdateRanking
<1>4. CASE ViewRanking
  BY <1>4, ViewSteps
<1>5. CASE UNCHANGED vars
  BY <1>5 DEF vars, keys, startVar, saleVar, viewVar, Inv, TypeOK, Known, Carried, Counts,
              Past, Present, Counted, Number, Keys, Times, Between
<1> QED
  BY <1>1, <1>2, <1>3, <1>4, <1>5 DEF Next

\* The inductive invariant holds in every reachable state.
THEOREM Invariant == Spec => []Inv
BY InitInv, NextInv, PTL DEF Spec

-----------------------------------------------------------------------------
\* Every variable keeps its type: the count never goes above the seats.
THEOREM TypeCorrect == Spec => []TypeOK
<1>1. Inv => TypeOK
  BY DEF Inv
<1> QED
  BY Invariant, <1>1, PTL

\* The count is the number of sales that were counted: never more than were
\* confirmed, and none is forgotten unless the start was late.
THEOREM CountsSales == Spec => []CountMatchesSales
<1>1. Inv => CountMatchesSales
  <2> SUFFICES ASSUME Inv PROVE CountMatchesSales
    OBVIOUS
  <2> DEFINE Sold == {s \in Sales : pc[s] # "idle"}
  <2>1. Past \in SUBSET Sold /\ Sold \in SUBSET Sales /\ Past \in SUBSET Sales
    BY DEF Past
  <2>2. /\ Cardinality(Past) <= Cardinality(Sold)
        /\ Cardinality(Past) \in Nat /\ Cardinality(Sold) \in Nat
    BY <2>1, Subsets
  <2>3. Number(booked) \in Nat
    BY CountFacts DEF Inv
  <2>4. Number(booked) <= Cardinality(Sold)
    BY <2>2, <2>3 DEF Inv, Counts
  <2> QED
    BY <2>4 DEF Inv, Counts, Present, CountMatchesSales
<1> QED
  BY Invariant, <1>1, PTL

\* Only a schedule that sold out after its start is ranked and shown, with a time
\* between that of its last sale and now.
THEOREM RankedWhenSoldOut == Spec => []RankedOnlyWhenSoldOut
<1>1. Inv => RankedOnlyWhenSoldOut
  <2> SUFFICES ASSUME Inv PROVE RankedOnlyWhenSoldOut
    OBVIOUS
  <2>1. ASSUME ~late, soldOutAt # None PROVE \A s \in Sales : pc[s] # "idle"
    BY <2>1, CountFacts DEF Inv, Keys
  <2>2. ASSUME ~late, NEW time, Between(time)
        PROVE  /\ soldOutAt # None /\ (\A s \in Sales : pc[s] # "idle")
               /\ soldOutAt <= time /\ time <= now
    BY <2>1, <2>2 DEF Between
  <2>3. ASSUME ~late
        PROVE  /\ entry # None => Between(entry + StartAt)
               /\ viewPc = "done" => Between(view.selloutTime) /\ view.seatsCount = TotalSeats
    BY <2>3 DEF Inv, Times
  <2> QED
    BY <2>2, <2>3 DEF RankedOnlyWhenSoldOut
<1> QED
  BY Invariant, <1>1, PTL

-----------------------------------------------------------------------------
(* The safety half of SoldOutIsRanked: the ranking is never forgotten.       *)

\* A sale that is about to record the duration, or that failed and never will.
Recorder(s) ==
  \/ pc[s] \in {"counted", "sold_out", "scored", "lost"}
  \/ pc[s] = "compare" /\ got[s] = TotalSeats

\* From the last INCR on somebody records it, until it is in the ranking.
SomebodyRecords == soldOutAt # None => entry # None \/ late \/ \E s \in Sales : Recorder(s)

\* Other sales neither take the duration back nor make anybody forget it.
LEMMA RecorderStep ==
  ASSUME Inv, ~late, soldOutAt # None, NEW s \in Sales, Recorder(s),
         GetBooked(s) \/ Compare(s) \/ GetStart(s) \/ AddToRanking(s) \/ LoseUpdate(s)
  PROVE  entry' # None \/ Recorder(s)'
<1>1. /\ Number(booked) = TotalSeats /\ Number(total) = TotalSeats
      /\ got[s] \in -StartAt .. MaxTime + TotalSeats
      /\ TotalSeats \in Nat /\ StartAt \in Nat /\ MaxTime \in Nat
  BY Constants DEF Inv, Keys, TypeOK, Known, Number
<1> USE DEF To, Inv, TypeOK, Recorder
<1>2. CASE GetBooked(s)
  BY <1>1, <1>2 DEF GetBooked
<1>3. CASE Compare(s)
  BY <1>1, <1>3 DEF Compare
<1>4. CASE GetStart(s)
  BY <1>4 DEF GetStart
<1>5. CASE AddToRanking(s)
  <2>1. entry' = got[s] /\ got[s] \in -StartAt .. MaxTime
    BY <1>5 DEF AddToRanking, Carried
  <2> QED
    BY <2>1, Constants
<1>6. CASE LoseUpdate(s)
  BY <1>6 DEF LoseUpdate
<1> QED
  BY <1>2, <1>3, <1>4, <1>5, <1>6

LEMMA RecordsNext == Inv /\ SomebodyRecords /\ [Next]_vars => SomebodyRecords'
<1> SUFFICES ASSUME Inv, SomebodyRecords, [Next]_vars, soldOutAt' # None, ~late'
             PROVE  entry' # None \/ \E s \in Sales : Recorder(s)'
  BY DEF SomebodyRecords
<1> USE DEF keys, startVar, saleVar, viewVar
<1>1. ASSUME NEW s \in Sales, Increment(s)
      PROVE  Recorder(s)'
  BY <1>1 DEF Increment, To, Recorder, Inv, TypeOK
<1>2. ASSUME NEW s \in Sales,
             \/ ConfirmCommit(s) \/ GetBooked(s) \/ Compare(s)
             \/ GetStart(s) \/ AddToRanking(s) \/ LoseUpdate(s)
      PROVE  entry' # None \/ \E t \in Sales : Recorder(t)'
  <2>1. /\ ~late /\ soldOutAt # None
        /\ \A t \in Sales \ {s} : pc'[t] = pc[t] /\ got'[t] = got[t]
        /\ entry' = entry \/ AddToRanking(s)
    BY <1>2 DEF ConfirmCommit, GetBooked, Compare, GetStart, AddToRanking, LoseUpdate, To,
                Inv, TypeOK
  <2>2. CASE AddToRanking(s)
    <3>1. entry' = got[s] /\ got[s] \in -StartAt .. MaxTime
      BY <2>2 DEF AddToRanking, Inv, Carried
    <3> QED
      BY <3>1, Constants
  <2>3. CASE entry' = entry /\ entry # None
    BY <2>3
  <2>4. ASSUME NEW t \in Sales, Recorder(t), ~AddToRanking(s)
        PROVE  entry' # None \/ \E d \in Sales : Recorder(d)'
    <3>1. CASE t # s
      BY <2>1, <2>4, <3>1 DEF Recorder
    <3>2. CASE t = s
      <4>1. ~ConfirmCommit(s)
        BY <2>4, <3>2 DEF ConfirmCommit, Recorder
      <4> QED
        BY <1>2, <2>1, <2>4, <3>2, <4>1, RecorderStep
    <3> QED
      BY <3>1, <3>2
  <2> QED
    BY <2>1, <2>2, <2>3, <2>4 DEF SomebodyRecords
<1>3. CASE StartToSell
  <2>1. /\ UNCHANGED <<entry, pc, got, soldOutAt>>
        /\ late' = late \/ late' = (late \/ Number(booked) > 0)
    BY <1>3 DEF StartToSell, SetTotal, SetBooked, SetStart, StartFails
  <2>2. ~late
    BY <2>1, Zenon
  <2> QED
    BY <2>1, <2>2 DEF SomebodyRecords, Recorder
<1>4. CASE Tick \/ ViewRanking \/ UNCHANGED vars
  <2>1. UNCHANGED <<entry, pc, got, soldOutAt, late>>
    BY <1>4 DEF Tick, ViewRanking, ReadEntry, ReadStart, ReadTotal, vars
  <2> QED
    BY <2>1 DEF SomebodyRecords, Recorder
<1> QED
  BY <1>1, <1>2, <1>3, <1>4 DEF Next, UpdateRanking

\* When every sale of a schedule went through updateRanking the schedule is in the
\* ranking, unless it was started late: whichever sale found itself last.  That every
\* sale does go through is the fairness of FairSpec.
THEOREM NeverForgotten ==
  Spec => [](Sales # {} /\ (\A s \in Sales : pc[s] = "done") => entry # None \/ late)
<1>1. Init => SomebodyRecords
  BY DEF Init, SomebodyRecords
<1>2. Inv /\ SomebodyRecords =>
        (Sales # {} /\ (\A s \in Sales : pc[s] = "done") => entry # None \/ late)
  <2> SUFFICES ASSUME Inv, SomebodyRecords, Sales # {}, \A s \in Sales : pc[s] = "done",
                      ~late
               PROVE  entry # None
    OBVIOUS
  <2>1. Present = Sales /\ Sales \in SUBSET Sales
    BY DEF Present, Counted
  <2>2. Cardinality(Present) = TotalSeats /\ TotalSeats > 0
    BY <2>1, Subsets DEF TotalSeats
  <2>3. Number(booked) \in 0 .. TotalSeats /\ TotalSeats <= Number(booked)
    BY <2>2, CountFacts DEF Inv, Counts
  <2>4. Number(booked) = TotalSeats /\ TotalSeats > 0
    BY <2>2, <2>3, Constants
  <2>5. soldOutAt # None
    BY <2>4 DEF Inv, Keys
  <2>6. \A s \in Sales : ~Recorder(s)
    BY DEF Recorder
  <2> QED
    BY <2>5, <2>6 DEF SomebodyRecords
<1> QED
  BY Invariant, <1>1, <1>2, RecordsNext, PTL DEF Spec
=============================================================================
