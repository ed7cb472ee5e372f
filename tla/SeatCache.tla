------------------------------ MODULE SeatCache ------------------------------
(***************************************************************************)
(* The Redis hashes schedule:<id>:seats that getSeats (EventSearchService) *)
(* reads through and fills, and that temporaryReserve writes back to after *)
(* its COMMIT.  Every Redis command and every SELECT is a step of its own; *)
(* neither side locks anything, and confirmations and expiries never touch *)
(* the cache.  getSchedules fills its key with one SET EX, and the rows it *)
(* shows are never updated by any code: it has no state worth modelling.   *)
(***************************************************************************)
EXTENDS Naturals, FiniteSets

CONSTANTS
  Schedules,    \* ids getSeats is asked for, whether they exist or not
  Seats,        \* rows of "seats"
  SameId,       \* [Seats -> SUBSET Schedules]: the schedule whose id is the same
                \* number as the seat's, if there is one
  Readers,      \* clients that call getSeats for one schedule, again and again
  Layouts,      \* which seats belong to which schedules, and who asks for what
  Faults        \* which of the faults below may happen

ASSUME SameIdAssumption ==
  /\ SameId \in [Seats -> SUBSET Schedules]
  /\ \A s \in Seats : \A k, l \in SameId[s] : k = l
  /\ \A s, t \in Seats : SameId[s] \cap SameId[t] # {} => s = t
ASSUME LayoutsAssumption ==
  Layouts \subseteq [seats : [Seats -> Schedules], asks : [Readers -> Schedules]]
ASSUME FaultsAssumption == Faults \subseteq {"redis", "crash"}

VARIABLES
  ScheduleOf, \* [Seats -> Schedules]: seats.schedule_id, fixed by Init
  version,   \* [Seats -> 0 .. 2]: how often the committed status changed:
             \* 0 AVAILABLE, 1 RESERVED, 2 SOLD or, after an expiry, AVAILABLE
  hash,      \* [Schedules -> what the hash shows: a version for some seats]; a
             \* hash without fields does not exist
  ttl,       \* the schedules whose hash has a time to live
  gpc,       \* control state of every reader
  asked,     \* the schedule it asks for, fixed by Init
  seen,      \* what it read from the database and is about to write
  wpc,       \* [Seats -> control state of the call that reserved the seat]
  disturbed, \* readers that Redis failed, or whose hash another one filled after
             \* they had missed it
  abandoned, \* hashes whose filler failed between HSET and EXPIRE
  revived    \* hashes created by a write-back that had seen an older one
             \* (disturbed, abandoned, revived: history, read by properties only)

readVars  == <<gpc, seen>>
fixed     == <<ScheduleOf, asked>>
history   == <<disturbed, abandoned, revived>>
vars == <<fixed, version, hash, ttl, readVars, wpc, history>>

Versions == 0 .. 2
Nothing  == [s \in {} |-> 0]
SeatsIn(k) == {s \in Seats : ScheduleOf[s] = k}
Exists(k)  == DOMAIN hash[k] # {}

Lists == UNION {[D -> Versions] : D \in SUBSET Seats}

ReadPC  == {"idle", "missed", "read", "filled", "failed"}
WritePC == {"idle", "committed", "exists", "done", "failed"}

TypeOK ==
  /\ ScheduleOf \in [Seats -> Schedules]
  /\ version \in [Seats -> Versions]
  /\ hash \in [Schedules -> Lists]
  /\ ttl \subseteq Schedules
  /\ gpc \in [Readers -> ReadPC]
  /\ asked \in [Readers -> Schedules]
  /\ seen \in [Readers -> Lists]
  /\ wpc \in [Seats -> WritePC]
  /\ disturbed \subseteq Readers
  /\ abandoned \subseteq Schedules
  /\ revived \subseteq Schedules

Init ==
  /\ \E l \in Layouts : ScheduleOf = l.seats /\ asked = l.asks
  /\ version = [s \in Seats |-> 0]
  /\ hash = [k \in Schedules |-> Nothing]
  /\ ttl = {}
  /\ gpc = [r \in Readers |-> "idle"]
  /\ seen = [r \in Readers |-> Nothing]
  /\ wpc = [s \in Seats |-> "idle"]
  /\ disturbed = {}
  /\ abandoned = {}
  /\ revived = {}

ReadTo(r, state)  == gpc' = [gpc EXCEPT ![r] = state]
WriteTo(s, state) == wpc' = [wpc EXCEPT ![s] = state]

\* HSET: given fields overwrite or join what is there.
Merge(new, old) ==
  [s \in DOMAIN new \cup DOMAIN old |-> IF s \in DOMAIN new THEN new[s] ELSE old[s]]

-----------------------------------------------------------------------------
(* getSeats.  "idle" is before the call and after its answer; "failed" is   *)
(* a call that threw.                                                      *)

\* HGETALL of a hash that exists is the answer.
LookUp(r) ==
  /\ gpc[r] \in {"idle", "failed"}
  /\ ReadTo(r, IF Exists(asked[r]) THEN "idle" ELSE "missed")
  /\ disturbed' = disturbed \ {r}
  /\ UNCHANGED <<fixed, version, hash, ttl, seen, wpc, abandoned, revived>>

\* hgetall takes an error of Redis for a miss.
LookUpFails(r) ==
  /\ "redis" \in Faults
  /\ gpc[r] \in {"idle", "failed"}
  /\ ReadTo(r, "missed")
  /\ disturbed' = disturbed \cup {r}
  /\ UNCHANGED <<fixed, version, hash, ttl, seen, wpc, abandoned, revived>>

\* Mutant: seats that are held are left out of the list.
ReadFreeSeats(r) ==
  /\ gpc[r] = "missed"
  /\ seen' = [seen EXCEPT ![r] =
       [s \in {t \in SeatsIn(asked[r]) : version[t] # 1} |-> version[s]]]
  /\ ReadTo(r, "read")
  /\ UNCHANGED <<fixed, version, hash, ttl, wpc, history>>

\* findSeats
ReadSeats(r) ==
  /\ gpc[r] = "missed"
  /\ seen' = [seen EXCEPT ![r] = [s \in SeatsIn(asked[r]) |-> version[s]]]
  /\ ReadTo(r, "read")
  /\ UNCHANGED <<fixed, version, hash, ttl, wpc, history>>

\* HSET answers how many fields are new; hset takes 0 for an error although the
\* values were overwritten.  HSET without any field is an error of Redis.
Added(new, old) == DOMAIN new \ DOMAIN old

\* Readers that missed the hash r fills.
Overtaken(r) ==
  {q \in Readers \ {r} : asked[q] = asked[r] /\ gpc[q] \in {"missed", "read"}}

\* Mutant: hset wants every field to be new.
FillWantsAllNew(r) ==
  LET k == asked[r] IN
  /\ gpc[r] = "read"
  /\ hash' = [hash EXCEPT ![k] = Merge(seen[r], @)]
  /\ ReadTo(r, IF Added(seen[r], hash[k]) # DOMAIN seen[r] THEN "failed" ELSE "filled")
  /\ revived' = IF Added(seen[r], hash[k]) = {} THEN revived ELSE revived \ {k}
  /\ seen' = [seen EXCEPT ![r] = Nothing]
  /\ disturbed' = disturbed \cup Overtaken(r)
  /\ UNCHANGED <<fixed, version, ttl, wpc, abandoned>>

\* Mutant: hset returns before EXPIRE.
FillOnly(r) ==
  LET k == asked[r] IN
  /\ gpc[r] = "read"
  /\ hash' = [hash EXCEPT ![k] = Merge(seen[r], @)]
  /\ ReadTo(r, IF Added(seen[r], hash[k]) = {} THEN "failed" ELSE "idle")
  /\ revived' = IF Added(seen[r], hash[k]) = {} THEN revived ELSE revived \ {k}
  /\ seen' = [seen EXCEPT ![r] = Nothing]
  /\ disturbed' = disturbed \cup Overtaken(r)
  /\ UNCHANGED <<fixed, version, ttl, wpc, abandoned>>

\* HSET of the seats read.
Fill(r) ==
  LET k == asked[r] IN
  /\ gpc[r] = "read"
  /\ hash' = [hash EXCEPT ![k] = Merge(seen[r], @)]
  /\ ReadTo(r, IF Added(seen[r], hash[k]) = {} THEN "failed" ELSE "filled")
  /\ revived' = IF Added(seen[r], hash[k]) = {} THEN revived ELSE revived \ {k}
  /\ seen' = [seen EXCEPT ![r] = Nothing]
  /\ disturbed' = disturbed \cup Overtaken(r)
  /\ UNCHANGED <<fixed, version, ttl, wpc, abandoned>>

\* EXPIRE
SetTtl(r) ==
  /\ gpc[r] = "filled"
  /\ ttl' = ttl \cup {asked[r]}
  /\ ReadTo(r, "idle")
  /\ UNCHANGED <<fixed, version, hash, seen, wpc, history>>

\* Redis refuses HSET or EXPIRE (the first may have been done), or the process
\* dies: the call is over, and a hash without a TTL stays behind.
ReadFails(r) ==
  /\ Faults # {}
  /\ gpc[r] \in {"missed", "read", "filled"}
  /\ ReadTo(r, "failed")
  /\ seen' = [seen EXCEPT ![r] = Nothing]
  /\ abandoned' = IF gpc[r] = "filled" THEN abandoned \cup {asked[r]} ELSE abandoned
  /\ disturbed' = disturbed \cup {r}
  /\ UNCHANGED <<fixed, version, hash, ttl, wpc, revived>>

\* An hour is over.
Perish(k) ==
  /\ k \in ttl
  /\ hash' = [hash EXCEPT ![k] = Nothing]
  /\ ttl' = ttl \ {k}
  /\ UNCHANGED <<fixed, version, readVars, wpc, history>>

-----------------------------------------------------------------------------
(* The seat: one reservation, its write-back, and its end.                  *)

ReserveCommit(s) ==
  /\ version[s] = 0 /\ wpc[s] = "idle"
  /\ version' = [version EXCEPT ![s] = 1]
  /\ WriteTo(s, "committed")
  /\ UNCHANGED <<fixed, hash, ttl, readVars, history>>

\* Mutant: written back when setReserved was called, before the transaction.
CheckHashEarly(s) ==
  /\ wpc[s] \in {"idle", "committed"}
  /\ WriteTo(s, IF \E k \in SameId[s] : Exists(k) THEN "exists" ELSE "done")
  /\ UNCHANGED <<fixed, version, hash, ttl, readVars, history>>

\* hsetField: EXISTS schedule:<seatId>:seats, the key of the schedule whose id
\* equals the seat's.
CheckHash(s) ==
  /\ wpc[s] = "committed"
  /\ WriteTo(s, IF \E k \in SameId[s] : Exists(k) THEN "exists" ELSE "done")
  /\ UNCHANGED <<fixed, version, hash, ttl, readVars, history>>

\* HSET of the seat as the handler wants it, RESERVED; 0 new fields is an error
\* and temporaryReserve throws.  If the hash has perished since EXISTS it is
\* created again, with this field only and no TTL.
WriteBack(s) ==
  /\ wpc[s] = "exists"
  /\ \E k \in SameId[s] :
       /\ hash' = [hash EXCEPT ![k] = Merge([t \in {s} |-> 1], @)]
       /\ WriteTo(s, IF s \in DOMAIN hash[k] THEN "failed" ELSE "done")
       /\ revived' = IF Exists(k) THEN revived ELSE revived \cup {k}
  /\ UNCHANGED <<fixed, version, ttl, readVars, disturbed, abandoned>>

WriteBackFails(s) ==
  /\ Faults # {}
  /\ wpc[s] \in {"committed", "exists"}
  /\ WriteTo(s, "failed")
  /\ UNCHANGED <<fixed, version, hash, ttl, readVars, history>>

\* Mutant: a seat that was sold is sold again.
EndHoldTwice(s) ==
  /\ version[s] > 0
  /\ version' = [version EXCEPT ![s] = @ + 1]
  /\ UNCHANGED <<fixed, hash, ttl, readVars, wpc, history>>

\* Confirmed or expired; no other reservation of the seat follows.
EndHold(s) ==
  /\ version[s] = 1
  /\ version' = [version EXCEPT ![s] = 2]
  /\ UNCHANGED <<fixed, hash, ttl, readVars, wpc, history>>

-----------------------------------------------------------------------------
GetSeats(r) == ReadSeats(r) \/ Fill(r) \/ SetTtl(r)
WriteBackSeat(s) == CheckHash(s) \/ WriteBack(s)

Next ==
  \/ \E r \in Readers : LookUp(r) \/ LookUpFails(r) \/ GetSeats(r) \/ ReadFails(r)
  \/ \E s \in Seats :
       ReserveCommit(s) \/ WriteBackSeat(s) \/ WriteBackFails(s) \/ EndHold(s)
  \/ \E k \in Schedules : Perish(k)

Spec == Init /\ [][Next]_vars

\* A call that was made goes on; Redis removes what has expired.
Fairness ==
  /\ \A r \in Readers : WF_vars(GetSeats(r))
  /\ \A s \in Seats : WF_vars(WriteBackSeat(s))
  /\ \A k \in Schedules : WF_vars(Perish(k))

FairSpec == Spec /\ Fairness

-----------------------------------------------------------------------------
\* Nobody is shown a reservation that was never committed: neither the hash nor
\* what a reader is about to write into it is ahead of the database.
NeverAhead ==
  /\ \A k \in Schedules : \A s \in DOMAIN hash[k] : hash[k][s] <= version[s]
  /\ \A r \in Readers : \A s \in DOMAIN seen[r] : seen[r][s] <= version[s]

\* A hash that will not go away by itself is just being filled, or its filler
\* failed between HSET and EXPIRE, or it was created again by a write-back that
\* found it when it asked (hset and hsetField are two commands each).
HashIsPerishable ==
  \A k \in Schedules : Exists(k) =>
    \/ k \in ttl \cup abandoned \cup revived
    \/ \E r \in Readers : gpc[r] = "filled" /\ asked[r] = k

\* A hit shows all seats of the schedule and at most one that is not of it (the
\* write-back's), unless a write-back created the hash again.
HitIsComplete ==
  \A k \in Schedules : Exists(k) /\ k \notin revived =>
    /\ SeatsIn(k) \subseteq DOMAIN hash[k]
    /\ \A s \in DOMAIN hash[k] \ SeatsIn(k) : k \in SameId[s] /\ version[s] > 0

\* When Redis does not fail getSeats throws only if another reader filled the hash
\* in the meantime (of clients that miss together all but one get an error), if a
\* late write-back created it, or if the schedule has no seats.
ThrowsOnlyWhenOvertaken ==
  \A r \in Readers : gpc[r] = "failed" =>
    r \in disturbed \/ asked[r] \in revived \/ SeatsIn(asked[r]) = {}

Stale(k, s) == s \in DOMAIN hash[k] /\ hash[k][s] # version[s]

\* Nothing tells the cache about a confirmation or an expiry, and the reserved
\* seat's own list is not told of the reservation: what is stale goes away with
\* the TTL, unless the hash has none.
StalenessEnds ==
  \A k \in Schedules : \A s \in Seats :
    Stale(k, s) ~> ~Stale(k, s) \/ k \in abandoned \cup revived
=============================================================================
