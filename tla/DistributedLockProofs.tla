----------------------- MODULE DistributedLockProofs -----------------------
(***************************************************************************)
(* The Redis key excludes all but one call, for any number of calls, lost  *)
(* answers, crashes and expiries, as long as no call outlasts the TTL.     *)
(* Where calls may outlast it, every second one inside is paid for by an   *)
(* expiry.                                                                 *)
(***************************************************************************)
EXTENDS DistributedLock, Integers, FiniteSets, FiniteSetTheorems, TLAPS

\* Whoever is inside is backed by the key: this is what DEL, which does not ask
\* whose key it deletes, must not break for somebody else.
Backed == ~slow => (inside # {} => key) /\ \A c, d \in inside : c = d

Inv == TypeOK /\ Backed

LEMMA InitInv == Init => Inv
BY DEF Init, Inv, TypeOK, Backed

LEMMA NextInv == Inv /\ [Next]_vars => Inv'
<1> SUFFICES ASSUME Inv, [Next]_vars PROVE Inv'
  OBVIOUS
<1> USE DEF Inv, TypeOK, Backed
<1>1. CASE UNCHANGED vars
  BY <1>1 DEF vars
<1>2. ASSUME NEW c \in Clients, Acquire(c) PROVE Inv'
  BY <1>2 DEF Acquire
<1>3. ASSUME NEW c \in Clients, Release(c) PROVE Inv'
  <2>1. ~slow => inside' = {}
    BY <1>3 DEF Release
  <2> QED
    BY <1>3, <2>1 DEF Release
<1>4. ASSUME NEW c \in Clients, Abandon(c) PROVE Inv'
  BY <1>4 DEF Abandon
<1>5. CASE ReplyLost
  BY <1>5 DEF ReplyLost
<1>6. CASE Expire
  BY <1>6 DEF Expire
<1> QED
  BY <1>1, <1>2, <1>3, <1>4, <1>5, <1>6 DEF Next

\* withLock lets one call in at a time (distributed-lock.service.ts) although
\* the key names no owner, unless a call outlasts the TTL.
THEOREM Exclusive == Spec => []MutualExclusion
<1>1. Inv => MutualExclusion
  BY DEF Inv, Backed, MutualExclusion
<1> QED
  BY <1>1, InitInv, NextInv, PTL DEF Spec

-----------------------------------------------------------------------------
(* Calls that outlast the TTL.  MutualExclusion is silent about them, yet the *)
(* payment lock (3 s around a transaction of up to 10 s) has them.  A history *)
(* variable counts how often the key expired under somebody.                  *)

VARIABLE overruns

Overrun == Expire /\ inside # {}

CountedInit == Init /\ overruns = 0

CountedNext ==
  /\ Next
  /\ overruns' = IF Overrun THEN overruns + 1 ELSE overruns

CountedSpec == CountedInit /\ [][CountedNext]_<<vars, overruns>>

\* Counting changes nothing: the lock takes the same steps.
LEMMA CountedIsLock == CountedSpec => Spec
<1>1. [CountedNext]_<<vars, overruns>> => [Next]_vars
  BY DEF CountedNext
<1> QED
  BY <1>1, PTL DEF CountedSpec, CountedInit, Spec

\* Each call inside is paid for by the key or by an expiry that hit somebody.
Accounted ==
  /\ IsFiniteSet(inside) /\ overruns \in Nat
  /\ Cardinality(inside) <= overruns + (IF key THEN 1 ELSE 0)

LEMMA AccountedNext ==
  TypeOK /\ Accounted /\ [CountedNext]_<<vars, overruns>> => Accounted'
<1> SUFFICES ASSUME TypeOK, Accounted, [CountedNext]_<<vars, overruns>>
             PROVE  Accounted'
  OBVIOUS
<1>1. Cardinality(inside) \in Nat /\ overruns \in Nat /\ key \in BOOLEAN
  BY FS_CardinalityType DEF Accounted, TypeOK
<1>2. CASE UNCHANGED <<vars, overruns>>
  BY <1>2 DEF vars, Accounted
<1>3. ASSUME CountedNext, NEW c \in Clients, Acquire(c) PROVE Accounted'
  <2>1. IsFiniteSet(inside') /\ Cardinality(inside') = Cardinality(inside) + 1
    BY <1>3, FS_AddElement DEF Acquire, Accounted
  <2>2. overruns' = overruns /\ ~key /\ key'
    BY <1>3 DEF CountedNext, Overrun, Acquire, Expire
  <2> QED
    BY <1>1, <2>1, <2>2 DEF Accounted
<1>4. ASSUME CountedNext, NEW c \in Clients, Release(c) \/ Abandon(c)
      PROVE  Accounted'
  <2>1. c \in inside /\ inside' = inside \ {c}
    BY <1>4 DEF Release, Abandon
  <2>2. IsFiniteSet(inside') /\ Cardinality(inside') = Cardinality(inside) - 1
    BY <2>1, FS_RemoveElement DEF Accounted
  <2>3. overruns' = overruns /\ (key' = key \/ key' = FALSE)
    BY <1>4, <2>1 DEF CountedNext, Overrun, Release, Abandon, Expire
  <2> QED
    BY <1>1, <2>2, <2>3 DEF Accounted
<1>5. CASE CountedNext /\ ReplyLost
  <2>1. inside' = inside /\ overruns' = overruns /\ ~key /\ key'
    BY <1>5 DEF CountedNext, Overrun, ReplyLost, Expire
  <2> QED
    BY <1>1, <2>1 DEF Accounted
<1>6. CASE CountedNext /\ Expire
  <2>1. inside' = inside /\ key /\ ~key'
    BY <1>6 DEF Expire
  <2>2. CASE inside = {}
    <3>1. overruns' = overruns /\ Cardinality(inside') = 0
      BY <1>6, <2>1, <2>2, FS_EmptySet DEF CountedNext, Overrun
    <3> QED
      BY <1>1, <2>1, <3>1 DEF Accounted
  <2>3. CASE inside # {}
    <3>1. overruns' = overruns + 1
      BY <1>6, <2>3 DEF CountedNext, Overrun
    <3> QED
      BY <1>1, <2>1, <3>1 DEF Accounted
  <2> QED
    BY <2>2, <2>3
<1> QED
  <2>1. CASE CountedNext
    <3>1. \/ \E c \in Clients : Acquire(c) \/ Release(c) \/ Abandon(c)
          \/ ReplyLost \/ Expire
      BY <2>1 DEF CountedNext, Next
    <3> QED
      BY <1>3, <1>4, <1>5, <1>6, <2>1, <3>1
  <2> QED
    BY <1>2, <2>1

\* However slow the calls, lost answers and crashes: n + 1 calls are inside
\* together only if the key expired under somebody n times.  A DEL that removes
\* somebody else's key lets in no more than the expiry before it paid for.
THEOREM OverlapIsPaidFor == CountedSpec => [](Cardinality(inside) <= overruns + 1)
<1>1. CountedInit => TypeOK /\ Accounted
  <2> SUFFICES ASSUME CountedInit PROVE TypeOK /\ Accounted
    OBVIOUS
  <2>1. inside = {} /\ overruns = 0 /\ key = FALSE /\ slow \in BOOLEAN
    BY DEF CountedInit, Init
  <2>2. IsFiniteSet(inside) /\ Cardinality(inside) = 0
    BY <2>1, FS_EmptySet
  <2>3. TypeOK
    BY <2>1 DEF TypeOK
  <2>4. overruns \in Nat /\ Cardinality(inside) <= overruns + (IF key THEN 1 ELSE 0)
    BY <2>1, <2>2
  <2> QED
    BY <2>2, <2>3, <2>4 DEF Accounted
<1>2. TypeOK /\ [CountedNext]_<<vars, overruns>> => TypeOK'
  BY DEF TypeOK, CountedNext, Next, Acquire, Release, Abandon, ReplyLost, Expire, vars
<1>3. Accounted => Cardinality(inside) <= overruns + 1
  BY FS_CardinalityType DEF Accounted
<1> QED
  BY <1>1, <1>2, <1>3, AccountedNext, PTL DEF CountedSpec
=============================================================================
