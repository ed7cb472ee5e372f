--------------------------- MODULE DistributedLock ---------------------------
(***************************************************************************)
(* What withLock (DistributedLockService) does with one key, whoever calls *)
(* it: SET NX EX, the action, DEL.  The key carries no owner.  Attempts    *)
(* that find the key, and calls that give up after the last of them, leave *)
(* no trace here.  UserPoints, SeatReservation and PaymentSaga implement   *)
(* this.                                                                   *)
(***************************************************************************)
CONSTANT Clients     \* calls of withLock for the key

VARIABLES
  key,       \* the key exists
  inside,    \* calls between a successful acquireLock and their releaseLock
  slow       \* calls may outlast the TTL of the key; never changes

vars == <<key, inside, slow>>

TypeOK == key \in BOOLEAN /\ inside \subseteq Clients /\ slow \in BOOLEAN

Init == key = FALSE /\ inside = {} /\ slow \in BOOLEAN

\* SET NX answers OK.
Acquire(c) ==
  /\ c \notin inside
  /\ ~key
  /\ key' = TRUE
  /\ inside' = inside \cup {c}
  /\ UNCHANGED slow

\* SET NX was done but the answer got lost, which acquireLock takes for "not
\* acquired": the key belongs to nobody.
ReplyLost ==
  /\ ~key
  /\ key' = TRUE
  /\ UNCHANGED <<inside, slow>>

\* finally { DEL }, whoever set the key.
Release(c) ==
  /\ c \in inside
  /\ key' = FALSE
  /\ inside' = inside \ {c}
  /\ UNCHANGED slow

\* The process dies, or DEL fails: the key stays.
Abandon(c) ==
  /\ c \in inside
  /\ inside' = inside \ {c}
  /\ UNCHANGED <<key, slow>>

\* The TTL ends.
Expire ==
  /\ key
  /\ slow \/ inside = {}
  /\ key' = FALSE
  /\ UNCHANGED <<inside, slow>>

Next ==
  \/ \E c \in Clients : Acquire(c) \/ Release(c) \/ Abandon(c)
  \/ ReplyLost
  \/ Expire

Spec == Init /\ [][Next]_vars

-----------------------------------------------------------------------------
\* If no call outlasts the TTL at most one is inside, although DEL removes any
\* key and SET NX does not look at who set it.
MutualExclusion == ~slow => \A c, d \in inside : c = d
=============================================================================
