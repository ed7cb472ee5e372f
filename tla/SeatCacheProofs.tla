--------------------------- MODULE SeatCacheProofs ---------------------------
(***************************************************************************)
(* What the seat cache shows, for any number of schedules, seats and       *)
(* readers, any assignment of seats to schedules, and any faults: never    *)
(* ahead of the database, complete, and perishable, and an error only for  *)
(* readers that were overtaken.                                            *)
(***************************************************************************)
EXTENDS SeatCache, TLAPS

Filling(r, k) == gpc[r] = "filled" /\ asked[r] = k

\* Somebody sees to it that the hash goes away.
InCare(k) == k \in ttl \/ \E r \in Readers : Filling(r, k)

Complete(k) == SeatsIn(k) \subseteq DOMAIN hash[k]

\* A call that writes back has committed; what a reader is about to write are the
\* seats of its schedule.
Sources ==
  /\ \A s \in Seats : wpc[s] # "idle" => version[s] > 0
  /\ \A r \in Readers : gpc[r] = "read" => DOMAIN seen[r] = SeatsIn(asked[r])

\* Seats of other schedules come from write-backs only, revived or not.
Foreign ==
  \A k \in Schedules : \A s \in DOMAIN hash[k] \ SeatsIn(k) :
    k \in SameId[s] /\ version[s] > 0

\* A hash that is in care was filled, as a whole and by one reader.
Caring ==
  /\ \A k \in Schedules : InCare(k) => Exists(k) /\ Complete(k) /\ k \notin revived
  /\ \A k \in Schedules : Exists(k) /\ k \notin revived => Complete(k)
  /\ \A r \in Readers : gpc[r] = "filled" =>
       /\ asked[r] \notin ttl
       /\ \A q \in Readers : Filling(q, asked[r]) => q = r

\* A reader that missed finds the hash still missing, unless it was disturbed or a
\* write-back was faster; one that threw because of a write-back has left a hash
\* that nobody will ever take away.
Missing ==
  \A r \in Readers : r \notin disturbed =>
    /\ gpc[r] \in {"missed", "read"} /\ Exists(asked[r]) => asked[r] \in revived
    /\ gpc[r] = "failed" /\ SeatsIn(asked[r]) # {} =>
         asked[r] \in revived /\ Complete(asked[r])

Inv == TypeOK /\ Sources /\ Foreign /\ NeverAhead /\ HashIsPerishable /\ Caring /\ Missing

-----------------------------------------------------------------------------
LEMMA ListFacts ==
  /\ Nothing \in Lists /\ DOMAIN Nothing = {}
  /\ \A h \in Lists :
       /\ h = [s \in DOMAIN h |-> h[s]]
       /\ DOMAIN h \subseteq Seats
       /\ \A s \in DOMAIN h : h[s] \in Versions
  /\ \A D \in SUBSET Seats : [D -> Versions] \subseteq Lists
<1>1. Nothing \in [{} -> Versions] /\ DOMAIN Nothing = {}
  BY DEF Nothing
<1>2. \A D \in SUBSET Seats : [D -> Versions] \subseteq Lists
  BY DEF Lists
<1>3. \A h \in Lists : \E D \in SUBSET Seats : h \in [D -> Versions]
  BY DEF Lists
<1> QED
  BY <1>1, <1>2, <1>3

\* HSET keeps every field that is there and adds the new ones.
LEMMA MergeFacts ==
  ASSUME NEW g \in Lists, NEW h \in Lists
  PROVE  /\ Merge(g, h) \in Lists
         /\ DOMAIN Merge(g, h) = DOMAIN g \cup DOMAIN h
         /\ \A s \in DOMAIN g \cup DOMAIN h :
              Merge(g, h)[s] = IF s \in DOMAIN g THEN g[s] ELSE h[s]
<1>1. /\ DOMAIN Merge(g, h) = DOMAIN g \cup DOMAIN h
      /\ \A s \in DOMAIN g \cup DOMAIN h :
           Merge(g, h)[s] = IF s \in DOMAIN g THEN g[s] ELSE h[s]
  BY DEF Merge
<1>2. DOMAIN g \cup DOMAIN h \in SUBSET Seats
  BY ListFacts
<1>3. Merge(g, h) \in [DOMAIN g \cup DOMAIN h -> Versions]
  BY ListFacts DEF Merge
<1> QED
  BY <1>1, <1>2, <1>3, ListFacts

LEMMA HsetFacts ==
  ASSUME TypeOK, NEW g \in Lists, NEW k \in Schedules,
         hash' = [hash EXCEPT ![k] = Merge(g, hash[k])]
  PROVE  /\ DOMAIN hash'[k] = DOMAIN g \cup DOMAIN hash[k]
         /\ \A s \in DOMAIN g \cup DOMAIN hash[k] :
              hash'[k][s] = IF s \in DOMAIN g THEN g[s] ELSE hash[k][s]
         /\ \A l \in Schedules \ {k} : hash'[l] = hash[l]
<1>1. hash'[k] = Merge(g, hash[k]) /\ \A l \in Schedules \ {k} : hash'[l] = hash[l]
  BY DEF TypeOK
<1> QED
  BY <1>1 DEF Merge

-----------------------------------------------------------------------------
LEMMA InitInv == Init => Inv
<1> SUFFICES ASSUME Init PROVE Inv
  OBVIOUS
<1> USE ListFacts DEF Init
<1>1. ScheduleOf \in [Seats -> Schedules] /\ asked \in [Readers -> Schedules]
  BY LayoutsAssumption
<1>2. TypeOK
  BY <1>1 DEF TypeOK, Versions, ReadPC, WritePC
<1>3. \A k \in Schedules : ~Exists(k)
  BY DEF Exists
<1> QED
  BY <1>2, <1>3 DEF Inv, Sources, Foreign, NeverAhead, HashIsPerishable, Caring, Missing,
     InCare, Filling

\* What a step does to one hash, ttl or seen is seen by its types only.
LEMMA NextTypeOK ==
  ASSUME TypeOK, Sources, Next
  PROVE  TypeOK'
<1> USE DEF TypeOK, ReadPC, WritePC, fixed, readVars, history, ReadTo, WriteTo
<1>1. ASSUME NEW r \in Readers, LookUp(r) \/ LookUpFails(r) \/ SetTtl(r)
      PROVE  TypeOK'
  BY <1>1 DEF LookUp, LookUpFails, SetTtl
<1>2. ASSUME NEW r \in Readers, ReadSeats(r) PROVE TypeOK'
  <2>1. [s \in SeatsIn(asked[r]) |-> version[s]] \in Lists
    <3>1. SeatsIn(asked[r]) \in SUBSET Seats
      BY DEF SeatsIn
    <3>2. [s \in SeatsIn(asked[r]) |-> version[s]] \in [SeatsIn(asked[r]) -> Versions]
      BY <3>1
    <3> QED
      BY <3>1, <3>2, ListFacts
  <2>2. seen' \in [Readers -> Lists]
    BY <1>2, <2>1 DEF ReadSeats
  <2> QED
    BY <1>2, <2>2 DEF ReadSeats
<1>3. ASSUME NEW r \in Readers, Fill(r) PROVE TypeOK'
  <2>1. Merge(seen[r], hash[asked[r]]) \in Lists
    BY MergeFacts
  <2>2. hash' \in [Schedules -> Lists]
    BY <1>3, <2>1 DEF Fill
  <2>3. seen' \in [Readers -> Lists]
    BY <1>3, ListFacts DEF Fill
  <2> QED
    BY <1>3, <2>2, <2>3 DEF Fill, Overtaken
<1>4. ASSUME NEW r \in Readers, ReadFails(r) PROVE TypeOK'
  <2>1. seen' \in [Readers -> Lists]
    BY <1>4, ListFacts DEF ReadFails
  <2> QED
    BY <1>4, <2>1 DEF ReadFails
<1>5. ASSUME NEW s \in Seats,
             ReserveCommit(s) \/ CheckHash(s) \/ WriteBackFails(s) \/ EndHold(s)
      PROVE  TypeOK'
  <2>1. CASE ReserveCommit(s) \/ EndHold(s)
    BY <2>1 DEF ReserveCommit, EndHold, Versions
  <2>2. CASE CheckHash(s) \/ WriteBackFails(s)
    <3>1. wpc' \in [Seats -> WritePC]
      BY <2>2 DEF CheckHash, WriteBackFails
    <3> QED
      BY <2>2, <3>1 DEF CheckHash, WriteBackFails
  <2> QED
    BY <1>5, <2>1, <2>2
<1>6. ASSUME NEW s \in Seats, WriteBack(s) PROVE TypeOK'
  <2>1. PICK k \in SameId[s] :
          /\ hash' = [hash EXCEPT ![k] = Merge([t \in {s} |-> 1], @)]
          /\ WriteTo(s, IF s \in DOMAIN hash[k] THEN "failed" ELSE "done")
          /\ revived' = IF Exists(k) THEN revived ELSE revived \cup {k}
    BY <1>6 DEF WriteBack
  <2>2. k \in Schedules
    BY SameIdAssumption
  <2>3. [t \in {s} |-> 1] \in Lists
    <3>1. [t \in {s} |-> 1] \in [{s} -> Versions]
      BY DEF Versions
    <3> QED
      BY <3>1, ListFacts
  <2>4. hash' \in [Schedules -> Lists]
    BY <2>1, <2>2, <2>3, MergeFacts
  <2> QED
    BY <1>6, <2>1, <2>2, <2>4 DEF WriteBack
<1>7. ASSUME NEW k \in Schedules, Perish(k) PROVE TypeOK'
  <2>1. hash' \in [Schedules -> Lists]
    BY <1>7, ListFacts DEF Perish
  <2> QED
    BY <1>7, <2>1 DEF Perish
<1> QED
  BY <1>1, <1>2, <1>3, <1>4, <1>5, <1>6, <1>7 DEF Next, GetSeats, WriteBackSeat

-----------------------------------------------------------------------------
\* The seat: its versions only grow, and no hash changes.
LEMMA SeatSteps ==
  ASSUME Inv, NEW s \in Seats,
         ReserveCommit(s) \/ CheckHash(s) \/ WriteBackFails(s) \/ EndHold(s)
  PROVE  /\ Sources' /\ Foreign' /\ NeverAhead' /\ HashIsPerishable'
         /\ Caring' /\ Missing'
<1> USE DEF Inv, TypeOK, fixed, readVars, history, WriteTo
<1>1. /\ UNCHANGED <<ScheduleOf, asked, hash, ttl, gpc, seen, disturbed, abandoned, revived>>
      /\ version' \in [Seats -> Versions]
      /\ \A t \in Seats : version[t] <= version'[t]
  BY DEF ReserveCommit, CheckHash, WriteBackFails, EndHold, Versions
<1>2. \A t \in Seats : wpc'[t] # "idle" => version'[t] > 0
  BY <1>1 DEF ReserveCommit, CheckHash, WriteBackFails, EndHold, Versions, Sources
<1>3. \A t \in Seats : version[t] \in Nat /\ version'[t] \in Nat
  BY <1>1 DEF Versions
<1>4. \A k \in Schedules : SeatsIn(k)' = SeatsIn(k) /\ Exists(k)' = Exists(k)
  BY <1>1 DEF SeatsIn, Exists
<1>5. Sources'
  BY <1>1, <1>2, <1>4 DEF Sources
<1>6. Foreign'
  <2> SUFFICES ASSUME NEW k \in Schedules, NEW t \in DOMAIN hash[k], t \notin SeatsIn(k)
               PROVE  k \in SameId[t] /\ version'[t] > 0
    BY <1>1, <1>4 DEF Foreign
  <2>1. t \in Seats /\ k \in SameId[t] /\ version[t] > 0
    BY ListFacts DEF Foreign
  <2> QED
    BY <1>1, <1>3, <2>1
<1>7. NeverAhead'
  <2>1. ASSUME NEW k \in Schedules, NEW t \in DOMAIN hash[k]
        PROVE  hash[k][t] <= version'[t]
    <3>1. t \in Seats /\ hash[k][t] \in Nat /\ hash[k][t] <= version[t]
      BY ListFacts DEF NeverAhead, Versions
    <3> QED
      BY <1>1, <1>3, <3>1
  <2>2. ASSUME NEW r \in Readers, NEW t \in DOMAIN seen[r]
        PROVE  seen[r][t] <= version'[t]
    <3>1. seen[r] \in Lists
      OBVIOUS
    <3>2. t \in Seats /\ seen[r][t] \in Nat
      BY <3>1, ListFacts DEF Versions
    <3>3. seen[r][t] <= version[t]
      BY DEF NeverAhead
    <3> QED
      BY <1>1, <1>3, <3>2, <3>3
  <2> QED
    BY <1>1, <2>1, <2>2 DEF NeverAhead
<1>8. HashIsPerishable'
  BY <1>1, <1>4 DEF HashIsPerishable
<1>9. Caring' /\ Missing'
  BY <1>1, <1>4 DEF Caring, Missing, InCare, Filling, Complete
<1> QED
  BY <1>5, <1>6, <1>7, <1>8, <1>9

\* Looking: the hashes stay, and whoever misses one finds none.
LEMMA LookSteps ==
  ASSUME Inv, NEW r \in Readers, LookUp(r) \/ LookUpFails(r) \/ ReadSeats(r)
  PROVE  /\ Sources' /\ Foreign' /\ NeverAhead' /\ HashIsPerishable'
         /\ Caring' /\ Missing'
<1> USE DEF Inv, TypeOK, fixed, readVars, history, ReadTo
<1>1. /\ UNCHANGED <<ScheduleOf, asked, version, hash, ttl, wpc, abandoned, revived>>
      /\ gpc' \in [Readers -> ReadPC]
      /\ \A q \in Readers \ {r} : gpc'[q] = gpc[q] /\ seen'[q] = seen[q]
      /\ \A q \in Readers \ {r} : q \in disturbed <=> q \in disturbed'
      /\ gpc[r] # "filled" /\ gpc'[r] \notin {"filled", "failed"}
  BY DEF LookUp, LookUpFails, ReadSeats, ReadPC
<1>2. \A k \in Schedules : SeatsIn(k)' = SeatsIn(k) /\ Exists(k)' = Exists(k)
  BY <1>1 DEF SeatsIn, Exists
<1>3. \A q \in Readers : gpc'[q] = "filled" <=> gpc[q] = "filled"
  BY <1>1
<1>4. ASSUME gpc'[r] = "read" PROVE seen'[r] = [s \in SeatsIn(asked[r]) |-> version[s]]
  BY <1>4 DEF LookUp, LookUpFails, ReadSeats, ReadPC
<1>5. Sources'
  BY <1>1, <1>2, <1>4 DEF Sources
<1>6. Foreign'
  BY <1>1, <1>2 DEF Foreign
<1>7. NeverAhead'
  <2>1. \A t \in Seats : version[t] <= version[t]
    BY DEF Versions
  <2>2. CASE ReadSeats(r)
    <3>1. seen'[r] = [s \in SeatsIn(asked[r]) |-> version[s]]
      BY <2>2 DEF ReadSeats
    <3>2. \A s \in DOMAIN seen'[r] : seen'[r][s] <= version'[s]
      BY <1>1, <2>1, <3>1 DEF SeatsIn
    <3> QED
      BY <1>1, <3>2 DEF NeverAhead
  <2>3. CASE LookUp(r) \/ LookUpFails(r)
    BY <1>1, <2>3 DEF NeverAhead, LookUp, LookUpFails
  <2> QED
    BY <2>2, <2>3
<1>8. HashIsPerishable' /\ Caring'
  BY <1>1, <1>2, <1>3 DEF HashIsPerishable, Caring, InCare, Filling, Complete
<1>9. Missing'
  <2>1. ASSUME r \notin disturbed', gpc'[r] \in {"missed", "read"}, Exists(asked[r])
        PROVE  asked[r] \in revived
    BY <2>1 DEF LookUp, LookUpFails, ReadSeats, Missing, ReadPC
  <2>2. \A q \in Readers \ {r} : Complete(asked[q])' = Complete(asked[q])
    BY <1>1, <1>2 DEF Complete
  <2> QED
    BY <1>1, <1>2, <2>1, <2>2 DEF Missing
<1> QED
  BY <1>5, <1>6, <1>7, <1>8, <1>9

\* EXPIRE, or a call that ends early: the hash a filler leaves is in other care.
LEMMA EndSteps ==
  ASSUME Inv, NEW r \in Readers, SetTtl(r) \/ ReadFails(r)
  PROVE  /\ Sources' /\ Foreign' /\ NeverAhead' /\ HashIsPerishable'
         /\ Caring' /\ Missing'
<1> USE DEF Inv, TypeOK, fixed, readVars, history, ReadTo
<1>1. /\ UNCHANGED <<ScheduleOf, asked, version, hash, wpc, revived>>
      /\ gpc' \in [Readers -> ReadPC]
      /\ \A q \in Readers \ {r} : gpc'[q] = gpc[q] /\ seen'[q] = seen[q]
      /\ \A q \in Readers \ {r} : q \in disturbed <=> q \in disturbed'
      /\ seen'[r] \in {seen[r], Nothing}
      /\ gpc'[r] = "idle" \/ (gpc'[r] = "failed" /\ r \in disturbed')
      /\ ttl \subseteq ttl' /\ ttl' \subseteq ttl \cup {asked[r]}
      /\ abandoned \subseteq abandoned'
      /\ gpc[r] = "filled" => asked[r] \in ttl' \cup abandoned'
      /\ asked[r] \in ttl' \ ttl => gpc[r] = "filled"
  <2>1. CASE SetTtl(r)
    <3>1. gpc' = [gpc EXCEPT ![r] = "idle"] /\ UNCHANGED <<seen, disturbed>>
      BY <2>1 DEF SetTtl
    <3>2. /\ UNCHANGED <<ScheduleOf, asked, version, hash, wpc, revived, abandoned>>
          /\ ttl' = ttl \cup {asked[r]} /\ gpc[r] = "filled"
      BY <2>1 DEF SetTtl
    <3> QED
      BY <3>1, <3>2 DEF ReadPC
  <2>2. CASE ReadFails(r)
    BY <2>2 DEF ReadFails, ReadPC
  <2> QED
    BY <2>1, <2>2
<1>2. \A k \in Schedules : SeatsIn(k)' = SeatsIn(k) /\ Exists(k)' = Exists(k)
  BY <1>1 DEF SeatsIn, Exists
<1>3. Sources' /\ Foreign'
  BY <1>1, <1>2 DEF Sources, Foreign
<1>4. NeverAhead'
  BY <1>1, ListFacts DEF NeverAhead
<1>5. HashIsPerishable'
  BY <1>1, <1>2 DEF HashIsPerishable
<1>6. Caring'
  BY <1>1, <1>2 DEF Caring, InCare, Filling, Complete
<1>7. Missing'
  BY <1>1, <1>2 DEF Missing, Complete
<1> QED
  BY <1>3, <1>4, <1>5, <1>6, <1>7

\* HSET of what was read: the hash becomes complete, and if nobody was faster r
\* alone cares for it.
LEMMA FillSteps ==
  ASSUME Inv, NEW r \in Readers, Fill(r)
  PROVE  /\ Sources' /\ Foreign' /\ NeverAhead' /\ HashIsPerishable'
         /\ Caring' /\ Missing'
<1> DEFINE k0 == asked[r]
           new == Added(seen[r], hash[k0])
<1> USE DEF Inv, TypeOK, fixed, readVars, history, ReadTo
<1>1. /\ UNCHANGED <<ScheduleOf, asked, version, ttl, wpc, abandoned>>
      /\ gpc[r] = "read"
      /\ gpc' = [gpc EXCEPT ![r] = IF new = {} THEN "failed" ELSE "filled"]
      /\ hash' = [hash EXCEPT ![k0] = Merge(seen[r], hash[k0])]
      /\ seen' = [seen EXCEPT ![r] = Nothing]
      /\ revived' = IF new = {} THEN revived ELSE revived \ {k0}
      /\ disturbed' = disturbed \cup Overtaken(r)
      /\ k0 \in Schedules /\ seen[r] \in Lists /\ hash[k0] \in Lists
  BY DEF Fill
<1>2. /\ DOMAIN seen[r] = SeatsIn(k0)
      /\ DOMAIN hash'[k0] = SeatsIn(k0) \cup DOMAIN hash[k0]
      /\ \A s \in SeatsIn(k0) \cup DOMAIN hash[k0] :
           hash'[k0][s] = IF s \in SeatsIn(k0) THEN seen[r][s] ELSE hash[k0][s]
      /\ \A k \in Schedules \ {k0} : hash'[k] = hash[k]
  <2>1. DOMAIN seen[r] = SeatsIn(k0)
    BY <1>1 DEF Sources
  <2>2. TypeOK
    OBVIOUS
  <2> HIDE DEF k0, new, Inv, TypeOK
  <2>3. /\ DOMAIN hash'[k0] = DOMAIN seen[r] \cup DOMAIN hash[k0]
        /\ \A s \in DOMAIN seen[r] \cup DOMAIN hash[k0] :
             hash'[k0][s] = IF s \in DOMAIN seen[r] THEN seen[r][s] ELSE hash[k0][s]
        /\ \A k \in Schedules \ {k0} : hash'[k] = hash[k]
    <3> DEFINE g == seen[r]
    <3>1. g \in Lists /\ k0 \in Schedules /\ hash' = [hash EXCEPT ![k0] = Merge(g, hash[k0])]
      BY <1>1
    <3> HIDE DEF g
    <3>2. /\ DOMAIN hash'[k0] = DOMAIN g \cup DOMAIN hash[k0]
          /\ \A s \in DOMAIN g \cup DOMAIN hash[k0] :
               hash'[k0][s] = IF s \in DOMAIN g THEN g[s] ELSE hash[k0][s]
          /\ \A k \in Schedules \ {k0} : hash'[k] = hash[k]
      BY <2>2, <3>1, HsetFacts
    <3> QED
      BY <3>2 DEF g
  <2> QED
    BY <2>1, <2>3
<1>3. \A k \in Schedules :
        /\ SeatsIn(k)' = SeatsIn(k)
        /\ DOMAIN hash[k] \subseteq DOMAIN hash'[k]
        /\ Exists(k) => Exists(k)'
        /\ Complete(k) => Complete(k)'
        /\ k # k0 => Exists(k)' = Exists(k) /\ Complete(k)' = Complete(k)
  <2>1. \A k \in Schedules : SeatsIn(k)' = SeatsIn(k)
    BY <1>1 DEF SeatsIn
  <2>2. \A k \in Schedules : DOMAIN hash[k] \subseteq DOMAIN hash'[k]
    BY <1>2
  <2> QED
    BY <1>2, <2>1, <2>2 DEF Exists, Complete
<1>4. Complete(k0)' /\ (new = {} <=> Complete(k0)) /\ (new # {} => Exists(k0)')
  BY <1>1, <1>2, <1>3 DEF Complete, Added, Exists
<1>5. \A q \in Readers \ {r} : gpc'[q] = gpc[q] /\ seen'[q] = seen[q]
  BY <1>1
<1>6. Sources'
  BY <1>1, <1>3 DEF Sources
<1>7. Foreign'
  BY <1>1, <1>2, <1>3 DEF Foreign
<1>8. NeverAhead'
  <2>1. \A s \in DOMAIN hash'[k0] : hash'[k0][s] <= version[s]
    BY <1>1, <1>2 DEF NeverAhead
  <2>2. \A q \in Readers : \A s \in DOMAIN seen'[q] : seen'[q][s] <= version[s]
    BY <1>1, <1>5, ListFacts DEF NeverAhead
  <2> QED
    BY <1>1, <1>2, <2>1, <2>2 DEF NeverAhead
<1>9. HashIsPerishable'
  <2> SUFFICES ASSUME NEW k \in Schedules, Exists(k)'
               PROVE  k \in ttl \cup abandoned \cup revived' \/ \E q \in Readers : Filling(q, k)'
    BY <1>1 DEF HashIsPerishable, Filling
  <2>1. CASE k = k0 /\ new # {}
    BY <1>1, <2>1 DEF Filling
  <2>2. CASE k # k0 \/ new = {}
    <3>1. Exists(k)
      BY <1>2, <1>3, <1>4, <2>2 DEF Exists, Complete
    <3>2. k \in ttl \cup abandoned \cup revived \/ \E q \in Readers : Filling(q, k)
      BY <3>1 DEF HashIsPerishable, Filling
    <3>3. \A q \in Readers : Filling(q, k) => Filling(q, k)'
      BY <1>1, <1>5 DEF Filling
    <3> QED
      BY <1>1, <2>2, <3>2, <3>3
  <2> QED
    BY <2>1, <2>2
<1>10. Caring'
  <2>1. \A k \in Schedules : k # k0 \/ new = {} => InCare(k)' = InCare(k)
    BY <1>1, <1>5 DEF InCare, Filling
  <2>2. new # {} => ~InCare(k0)
    BY <1>1, <1>4 DEF Caring
  <2>3. new # {} => \A q \in Readers : Filling(q, k0)' => q = r
    BY <1>1, <1>5, <2>2 DEF InCare, Filling
  <2>4. \A k \in Schedules : InCare(k)' => Exists(k)' /\ Complete(k)' /\ k \notin revived'
    BY <1>1, <1>3, <1>4, <2>1 DEF Caring
  <2>5. \A k \in Schedules : Exists(k)' /\ k \notin revived' => Complete(k)'
    BY <1>1, <1>3, <1>4 DEF Caring
  <2>6. ASSUME NEW p \in Readers, gpc'[p] = "filled"
        PROVE  asked[p] \notin ttl /\ \A q \in Readers : Filling(q, asked[p])' => q = p
    <3>1. CASE p = r
      BY <1>1, <2>2, <2>3, <2>6, <3>1 DEF InCare
    <3>2. CASE p # r
      <4>1. gpc[p] = "filled" /\ Filling(p, asked[p])
        BY <1>5, <2>6, <3>2 DEF Filling
      <4>2. asked[p] \notin ttl /\ \A q \in Readers : Filling(q, asked[p]) => q = p
        BY <4>1 DEF Caring
      <4>3. asked[p] = k0 => new = {}
        BY <1>1, <2>2, <4>1 DEF InCare
      <4>4. ~Filling(r, asked[p])'
        BY <1>1, <4>3 DEF Filling
      <4>5. \A q \in Readers \ {r} : Filling(q, asked[p])' = Filling(q, asked[p])
        BY <1>1, <1>5 DEF Filling
      <4> QED
        BY <4>2, <4>4, <4>5
    <3> QED
      BY <3>1, <3>2
  <2> QED
    BY <1>1, <2>4, <2>5, <2>6 DEF Caring, Filling
<1>11. Missing'
  <2> SUFFICES ASSUME NEW q \in Readers, q \notin disturbed'
               PROVE  /\ gpc'[q] \in {"missed", "read"} /\ Exists(asked[q])' =>
                           asked[q] \in revived'
                      /\ gpc'[q] = "failed" /\ SeatsIn(asked[q]) # {} =>
                           asked[q] \in revived' /\ Complete(asked[q])'
    BY <1>1, <1>3 DEF Missing
  <2>1. CASE q = r
    <3>1. ASSUME new = {}, SeatsIn(k0) # {} PROVE k0 \in revived
      <4>1. Exists(k0)
        BY <1>4, <3>1 DEF Complete, Exists
      <4> QED
        BY <1>1, <2>1, <4>1 DEF Missing
    <3> QED
      BY <1>1, <1>4, <2>1, <3>1
  <2>2. CASE q # r
    <3>1. gpc'[q] = gpc[q] /\ q \notin disturbed
      BY <1>1, <1>5, <2>2
    <3>2. ASSUME gpc[q] \in {"missed", "read"} PROVE asked[q] # k0
      BY <1>1, <2>2, <3>2 DEF Overtaken
    <3>3. ASSUME gpc[q] = "failed", SeatsIn(asked[q]) # {}
          PROVE  asked[q] \in revived' /\ Complete(asked[q])'
      <4>1. asked[q] \in revived /\ Complete(asked[q])
        BY <3>1, <3>3 DEF Missing
      <4> QED
        BY <1>1, <1>3, <1>4, <4>1
    <3> QED
      BY <1>1, <1>3, <3>1, <3>2, <3>3 DEF Missing
  <2> QED
    BY <2>1, <2>2
<1> QED
  BY <1>6, <1>7, <1>8, <1>9, <1>10, <1>11

\* HSET of one field: it may create the hash again, and then nobody cares for it.
LEMMA WriteBackSteps ==
  ASSUME Inv, NEW s \in Seats, WriteBack(s)
  PROVE  /\ Sources' /\ Foreign' /\ NeverAhead' /\ HashIsPerishable'
         /\ Caring' /\ Missing'
<1> USE DEF Inv, TypeOK, fixed, readVars, history, WriteTo
<1>1. PICK k0 \in SameId[s] :
        /\ hash' = [hash EXCEPT ![k0] = Merge([t \in {s} |-> 1], hash[k0])]
        /\ wpc' = [wpc EXCEPT ![s] = IF s \in DOMAIN hash[k0] THEN "failed" ELSE "done"]
        /\ revived' = IF Exists(k0) THEN revived ELSE revived \cup {k0}
  BY DEF WriteBack
<1>2. /\ UNCHANGED <<ScheduleOf, asked, version, ttl, gpc, seen, disturbed, abandoned>>
      /\ wpc[s] = "exists" /\ version[s] > 0
      /\ k0 \in Schedules
  BY SameIdAssumption DEF WriteBack, Sources
<1>3. /\ DOMAIN hash'[k0] = {s} \cup DOMAIN hash[k0]
      /\ \A t \in {s} \cup DOMAIN hash[k0] :
           hash'[k0][t] = IF t = s THEN 1 ELSE hash[k0][t]
      /\ \A k \in Schedules \ {k0} : hash'[k] = hash[k]
  <2>1. [t \in {s} |-> 1] \in [{s} -> Versions]
    BY DEF Versions
  <2>2. [t \in {s} |-> 1] \in Lists /\ DOMAIN [t \in {s} |-> 1] = {s}
    BY <2>1, ListFacts
  <2>3. \A t \in {s} : [u \in {s} |-> 1][t] = 1
    OBVIOUS
  <2> DEFINE g == [t \in {s} |-> 1]
  <2> HIDE DEF g, Inv
  <2>4. /\ DOMAIN hash'[k0] = DOMAIN g \cup DOMAIN hash[k0]
        /\ \A t \in DOMAIN g \cup DOMAIN hash[k0] :
             hash'[k0][t] = IF t \in DOMAIN g THEN g[t] ELSE hash[k0][t]
        /\ \A k \in Schedules \ {k0} : hash'[k] = hash[k]
    <3>1. g \in Lists /\ hash' = [hash EXCEPT ![k0] = Merge(g, hash[k0])]
      BY <1>1, <2>2 DEF g
    <3> QED
      BY <1>2, <3>1, HsetFacts DEF Inv
  <2> QED
    BY <2>2, <2>3, <2>4 DEF g
<1>4. \A k \in Schedules :
        /\ SeatsIn(k)' = SeatsIn(k)
        /\ InCare(k)' = InCare(k)
        /\ Exists(k) => Exists(k)'
        /\ Complete(k) => Complete(k)'
        /\ k # k0 => Exists(k)' = Exists(k)
  BY <1>2, <1>3 DEF SeatsIn, InCare, Filling, Exists, Complete
<1>5. revived \subseteq revived' /\ (~Exists(k0) => k0 \in revived')
      /\ \A k \in revived' \ revived : k = k0 /\ ~Exists(k)
  BY <1>1
<1>6. Sources' /\ Foreign'
  BY <1>1, <1>2, <1>3, <1>4 DEF Sources, Foreign
<1>7. NeverAhead'
  <2>1. 1 <= version[s]
    BY <1>2 DEF Versions
  <2> QED
    BY <1>2, <1>3, <2>1 DEF NeverAhead
<1>8. HashIsPerishable'
  BY <1>2, <1>4, <1>5 DEF HashIsPerishable
<1>9. Caring'
  BY <1>2, <1>4, <1>5 DEF Caring, Filling
<1>10. Missing'
  BY <1>2, <1>4, <1>5 DEF Missing
<1> QED
  BY <1>6, <1>7, <1>8, <1>9, <1>10

\* The hour is over: a hash that was in care is not one that is missed.
LEMMA PerishSteps ==
  ASSUME Inv, NEW k0 \in Schedules, Perish(k0)
  PROVE  /\ Sources' /\ Foreign' /\ NeverAhead' /\ HashIsPerishable'
         /\ Caring' /\ Missing'
<1> USE DEF Inv, TypeOK, fixed, readVars, history
<1>1. /\ UNCHANGED <<ScheduleOf, asked, version, gpc, seen, wpc, disturbed, abandoned, revived>>
      /\ k0 \in ttl /\ ttl' = ttl \ {k0}
      /\ hash'[k0] = Nothing
      /\ \A k \in Schedules \ {k0} : hash'[k] = hash[k]
  BY DEF Perish
<1>2. \A k \in Schedules :
        /\ SeatsIn(k)' = SeatsIn(k)
        /\ k # k0 => Exists(k)' = Exists(k) /\ Complete(k)' = Complete(k)
                     /\ InCare(k)' = InCare(k)
  BY <1>1 DEF SeatsIn, Exists, Complete, InCare, Filling
<1>3. ~Exists(k0)' /\ k0 \notin revived
  BY <1>1, ListFacts DEF Exists, Caring, InCare
<1>4. \A q \in Readers : ~Filling(q, k0)
  BY <1>1 DEF Caring, Filling
<1>5. Sources' /\ Foreign'
  BY <1>1, <1>2, ListFacts DEF Sources, Foreign
<1>6. NeverAhead'
  BY <1>1, ListFacts DEF NeverAhead
<1>7. HashIsPerishable'
  BY <1>1, <1>2, <1>3 DEF HashIsPerishable
<1>8. Caring'
  <2>1. ~InCare(k0)'
    BY <1>1, <1>4 DEF InCare, Filling
  <2> QED
    BY <1>1, <1>2, <1>3, <2>1 DEF Caring, Filling
<1>9. Missing'
  BY <1>1, <1>2, <1>3 DEF Missing
<1> QED
  BY <1>5, <1>6, <1>7, <1>8, <1>9

LEMMA NextInv == Inv /\ [Next]_vars => Inv'
<1> SUFFICES ASSUME Inv, [Next]_vars PROVE Inv'
  OBVIOUS
<1>1. CASE UNCHANGED vars
  BY <1>1 DEF vars, fixed, readVars, history, Inv, TypeOK, Sources, Foreign, NeverAhead,
     HashIsPerishable, Caring, Missing, InCare, Filling, Complete, Exists, SeatsIn
<1>2. CASE Next
  <2>1. TypeOK'
    BY <1>2, NextTypeOK DEF Inv
  <2>2. /\ Sources' /\ Foreign' /\ NeverAhead' /\ HashIsPerishable'
        /\ Caring' /\ Missing'
    BY <1>2, SeatSteps, LookSteps, EndSteps, FillSteps, WriteBackSteps, PerishSteps
       DEF Next, GetSeats, WriteBackSeat
  <2> QED
    BY <2>1, <2>2 DEF Inv
<1> QED
  BY <1>1, <1>2

THEOREM Invariant == Spec => []Inv
BY InitInv, NextInv, PTL DEF Spec

\* Every value stays in its domain, whatever is merged into a hash.
THEOREM TypeCorrect == Spec => []TypeOK
<1>1. Inv => TypeOK
  BY DEF Inv
<1> QED
  BY <1>1, Invariant, PTL

\* The seat list never shows a reservation that was not committed, whatever
\* readers, write-backs and failures come together (event-search.service.ts).
THEOREM CacheBehind == Spec => []NeverAhead
<1>1. Inv => NeverAhead
  BY DEF Inv
<1> QED
  BY <1>1, Invariant, PTL

\* Every hash has a TTL or gets one, but for the two named gaps between commands.
THEOREM Perishable == Spec => []HashIsPerishable
<1>1. Inv => HashIsPerishable
  BY DEF Inv
<1> QED
  BY <1>1, Invariant, PTL

\* A hit is the whole list of the schedule, and at most the seat whose id is the
\* schedule's number is too much.
THEOREM HitsComplete == Spec => []HitIsComplete
<1>1. Inv => HitIsComplete
  BY DEF Inv, Foreign, Caring, Complete, HitIsComplete
<1> QED
  BY <1>1, Invariant, PTL

\* getSeats throws only at readers that were overtaken, failed by Redis, or asked
\* for a schedule whose hash a late write-back created or that has no seats.
THEOREM ThrowsExplained == Spec => []ThrowsOnlyWhenOvertaken
<1>1. Inv => ThrowsOnlyWhenOvertaken
  BY DEF Inv, Missing, ThrowsOnlyWhenOvertaken
<1> QED
  BY <1>1, Invariant, PTL

\* EXPIRE is never sent for a hash that has a TTL, and by one reader only: whoever
\* misses, overtakes or fails, no stale list lives longer than the hour it was given
\* (hset throws when it adds no field, before EXPIRE).  With Perish this is why
\* StalenessEnds holds.
THEOREM TtlSetOnce ==
  Spec => [](\A r \in Readers : gpc[r] = "filled" =>
               /\ asked[r] \notin ttl
               /\ \A q \in Readers : gpc[q] = "filled" /\ asked[q] = asked[r] => q = r)
<1>1. Inv => \A r \in Readers : gpc[r] = "filled" =>
               /\ asked[r] \notin ttl
               /\ \A q \in Readers : gpc[q] = "filled" /\ asked[q] = asked[r] => q = r
  BY DEF Inv, Caring, Filling
<1> QED
  BY <1>1, Invariant, PTL
=============================================================================
