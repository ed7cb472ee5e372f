---------------------------- MODULE WaitingQueue ----------------------------
(***************************************************************************)
(* The waiting room in front of reservations: two Redis sorted sets        *)
(* (QueueRankingService) and the calls of temporaryReserve that work on    *)
(* them.  Nobody else promotes anybody: every temporaryReserve first runs  *)
(* updateEntireQueue, a loop of single Redis commands that interleaves     *)
(* with the loops of all other calls, then checks its own token.           *)
(*                                                                         *)
(* The waiting set is ordered by the time of its ZADD and, within a        *)
(* millisecond, by the token itself: tokens are numbers, in that order.    *)
(* Of the active set's scores only "less than three minutes ago" matters.  *)
(***************************************************************************)
EXTENDS Naturals, FiniteSets

CONSTANTS
  Tokens,      \* queue tokens: signed JWTs of user, concert and second
  Callers,     \* calls of temporaryReserve at a time; one that ends can be
               \* made again
  MaxActive,   \* maxActiveUsersCount (10 in the code)
  Cases        \* which token every call comes with (two calls may share one),
               \* and the bounds of a behaviour: whose clients ask for a token
               \* twice in a second, how many crashes and starts there are

ASSUME QueueAssumption ==
  /\ Tokens \subseteq Nat \ {0}
  /\ IsFiniteSet(Callers)
  /\ Cases \subseteq [holder : [Callers -> Tokens], impatient : SUBSET Tokens,
                      budget : Nat]
  /\ MaxActive \in Nat \ {0}

NoToken == 0

VARIABLES
  tokenOf, impatient, budget,      \* one of Cases, chosen by Init
  waiting,   \* members of waitingQueue
  since,     \* [Tokens -> Nat]: their scores, the time of the last ZADD; 0
             \* before the first
  clock,     \* Date.now()
  active,    \* activeQueue
  fresh,     \* its members promoted less than 3 minutes ago
  pc,        \* control state of every temporaryReserve
  head,      \* "token" in its updateEntireQueue
  booting,   \* an initialize() has deleted the first of the two keys
  again,     \* history: tokens that were issued twice
  spent,     \* history: tokens deleted after a successful reservation
  faults     \* history: crashes and starts so far

setting == <<tokenOf, impatient, budget>>
queue   == <<waiting, since, clock>>
session == <<active, fresh>>
queues  == <<queue, session>>
history == <<again, spent>>
vars == <<setting, queues, pc, head, booting, history, faults>>

PC == {"idle", "count_active", "count_waiting", "read_head", "remove_head",
       "add_active", "check_waiting", "check_active", "admitted",
       "delete_waiting", "delete_active"}

TypeOK ==
  /\ tokenOf \in [Callers -> Tokens]
  /\ impatient \in SUBSET Tokens
  /\ budget \in Nat
  /\ waiting \in SUBSET Tokens
  /\ since \in [Tokens -> Nat]
  /\ clock \in Nat \ {0}
  /\ active \in SUBSET Tokens
  /\ fresh \in SUBSET active
  /\ pc \in [Callers -> PC]
  /\ head \in [Callers -> Tokens \cup {NoToken}]
  /\ \A c \in Callers : head[c] # NoToken <=> pc[c] \in {"remove_head", "add_active"}
  /\ booting \in BOOLEAN
  /\ again \in SUBSET Tokens
  /\ spent \in SUBSET Tokens
  /\ faults \in 0 .. budget

Init ==
  /\ \E k \in Cases :
       tokenOf = k.holder /\ impatient = k.impatient /\ budget = k.budget
  /\ waiting = {}
  /\ since = [t \in Tokens |-> 0]
  /\ clock = 1
  /\ active = {}
  /\ fresh = {}
  /\ pc = [c \in Callers |-> "idle"]
  /\ head = [c \in Callers |-> NoToken]
  /\ booting = FALSE
  /\ again = {}
  /\ spent = {}
  /\ faults = 0

Goto(c, state) == pc' = [pc EXCEPT ![c] = state]
Waits(t)  == t \in waiting
Issued(t) == since[t] # 0

\* The order of the sorted set.
Precedes(t, u) == since[t] < since[u] \/ (since[t] = since[u] /\ t < u)
IsFirst(t) == t \in waiting /\ \A u \in waiting \ {t} : Precedes(t, u)

-----------------------------------------------------------------------------
(* Clients and the clock                                                   *)

\* ZADD waitingQueue now token: in the same millisecond as the last, or later.
AddToWaitingQueue(t) ==
  /\ clock' \in {clock, clock + 1}
  /\ waiting' = waiting \cup {t}
  /\ since' = [since EXCEPT ![t] = clock']

\* createToken
CreateToken(t) ==
  /\ ~Issued(t)
  /\ AddToWaitingQueue(t)
  /\ UNCHANGED <<setting, session, pc, head, booting, history, faults>>

\* createToken once more in the same second signs the same payload: the same
\* token, wherever the first one has got to meanwhile.
CreateTokenAgain(t) ==
  /\ Issued(t) /\ t \in impatient \ again
  /\ t \notin active \ fresh
  /\ AddToWaitingQueue(t)
  /\ again' = again \cup {t}
  /\ UNCHANGED <<setting, session, pc, head, booting, spent, faults>>

\* The three minutes of a promoted token run out; it stays in the set.
SessionExpires(t) ==
  /\ t \in fresh
  /\ fresh' = fresh \ {t}
  /\ UNCHANGED <<setting, queue, active, pc, head, booting, history, faults>>

-----------------------------------------------------------------------------
(* updateEntireQueue                                                       *)

BeginReserve(c) ==
  /\ pc[c] = "idle" /\ Issued(tokenOf[c])
  /\ Goto(c, "count_active")
  /\ UNCHANGED <<setting, queues, head, booting, history, faults>>

\* ZCARD activeQueue; the loop ends when the set is full.
CountActive(c) ==
  /\ pc[c] = "count_active"
  /\ Goto(c, IF Cardinality(active) < MaxActive THEN "count_waiting"
                                                ELSE "check_waiting")
  /\ UNCHANGED <<setting, queues, head, booting, history, faults>>

\* Mutant: the last one waiting is not promoted.
CountWaitingButOne(c) ==
  /\ pc[c] = "count_waiting"
  /\ Goto(c, IF Cardinality(waiting) > 1 THEN "read_head" ELSE "check_waiting")
  /\ UNCHANGED <<setting, queues, head, booting, history, faults>>

\* ZCARD waitingQueue
CountWaiting(c) ==
  /\ pc[c] = "count_waiting"
  /\ Goto(c, IF waiting # {} THEN "read_head" ELSE "check_waiting")
  /\ UNCHANGED <<setting, queues, head, booting, history, faults>>

\* Mutant: ZRANGE -1 -1, the youngest first.
ReadTail(c) ==
  /\ pc[c] = "read_head"
  /\ IF waiting = {}
       THEN Goto(c, "idle") /\ UNCHANGED head
       ELSE /\ \E t \in waiting :
                 /\ \A u \in waiting \ {t} : Precedes(u, t)
                 /\ head' = [head EXCEPT ![c] = t]
            /\ Goto(c, "remove_head")
  /\ UNCHANGED <<setting, queues, booting, history, faults>>

\* Mutant: without the log line token.slice(-10) nothing throws for undefined.
ReadHeadUnlogged(c) ==
  /\ pc[c] = "read_head"
  /\ IF waiting = {}
       THEN UNCHANGED head
       ELSE \E t \in waiting : IsFirst(t) /\ head' = [head EXCEPT ![c] = t]
  /\ Goto(c, "remove_head")
  /\ UNCHANGED <<setting, queues, booting, history, faults>>

\* ZRANGE waitingQueue 0 0: if others emptied the set meanwhile, token is
\* undefined and token.slice throws out of temporaryReserve.
ReadHead(c) ==
  /\ pc[c] = "read_head"
  /\ IF waiting = {}
       THEN Goto(c, "idle") /\ UNCHANGED head
       ELSE /\ \E t \in waiting : IsFirst(t) /\ head' = [head EXCEPT ![c] = t]
            /\ Goto(c, "remove_head")
  /\ UNCHANGED <<setting, queues, booting, history, faults>>

\* Mutant: ZPOPMIN, which may pop another token than the one read.
PopHead(c) ==
  /\ pc[c] = "remove_head"
  /\ waiting' = {t \in waiting : ~IsFirst(t)}
  /\ Goto(c, "add_active")
  /\ UNCHANGED <<setting, since, clock, session, head, booting, history, faults>>

\* Mutant: ZADD activeQueue comes first.
AddBeforeRemove(c) ==
  /\ pc[c] = "remove_head"
  /\ active' = active \cup {head[c]}
  /\ fresh' = fresh \cup {head[c]}
  /\ Goto(c, "add_active")
  /\ UNCHANGED <<setting, queue, head, booting, history, faults>>

\* ZREM waitingQueue token: the answer is ignored.
RemoveHead(c) ==
  /\ pc[c] = "remove_head"
  /\ waiting' = waiting \ {head[c]}
  /\ Goto(c, "add_active")
  /\ UNCHANGED <<setting, since, clock, session, head, booting, history, faults>>

\* Mutant: the count is not taken again.
AddActiveNoRecount(c) ==
  /\ pc[c] = "add_active"
  /\ active' = active \cup {head[c]}
  /\ fresh' = fresh \cup {head[c]}
  /\ head' = [head EXCEPT ![c] = NoToken]
  /\ Goto(c, "count_waiting")
  /\ UNCHANGED <<setting, queue, booting, history, faults>>

\* ZADD activeQueue now token, and round again.
AddActive(c) ==
  /\ pc[c] = "add_active"
  /\ active' = active \cup {head[c]}
  /\ fresh' = fresh \cup {head[c]}
  /\ head' = [head EXCEPT ![c] = NoToken]
  /\ Goto(c, "count_active")
  /\ UNCHANGED <<setting, queue, booting, history, faults>>

UpdateEntireQueue(c) ==
  \/ CountActive(c) \/ CountWaiting(c) \/ ReadHead(c) \/ RemoveHead(c)
  \/ AddActive(c)

-----------------------------------------------------------------------------
(* verifyToken(PROCESSING), the reservation, deleteToken                    *)

\* ZSCORE waitingQueue: who still waits has no remaining time.
CheckWaiting(c) ==
  /\ pc[c] = "check_waiting"
  /\ Goto(c, IF Waits(tokenOf[c]) THEN "idle" ELSE "check_active")
  /\ UNCHANGED <<setting, queues, head, booting, history, faults>>

\* ZSCORE activeQueue, not older than three minutes
CheckActive(c) ==
  /\ pc[c] = "check_active"
  /\ Goto(c, IF tokenOf[c] \in fresh THEN "admitted" ELSE "idle")
  /\ UNCHANGED <<setting, queues, head, booting, history, faults>>

\* What SeatReservation models.  If it throws the token stays.
ReserveSeat(c) ==
  /\ pc[c] = "admitted"
  /\ Goto(c, "delete_waiting") \/ Goto(c, "idle")
  /\ UNCHANGED <<setting, queues, head, booting, history, faults>>

DeleteFromWaitingQueue(c) ==
  /\ pc[c] = "delete_waiting"
  /\ waiting' = waiting \ {tokenOf[c]}
  /\ Goto(c, "delete_active")
  /\ UNCHANGED <<setting, since, clock, session, head, booting, history, faults>>

DeleteFromActiveQueue(c) ==
  /\ pc[c] = "delete_active"
  /\ active' = active \ {tokenOf[c]}
  /\ fresh' = fresh \ {tokenOf[c]}
  /\ spent' = spent \cup {tokenOf[c]}
  /\ Goto(c, "idle")
  /\ UNCHANGED <<setting, queue, head, booting, again, faults>>

UseToken(c) ==
  \/ CheckWaiting(c) \/ CheckActive(c) \/ ReserveSeat(c)
  \/ DeleteFromWaitingQueue(c) \/ DeleteFromActiveQueue(c)

-----------------------------------------------------------------------------
(* Faults                                                                  *)

Fault == faults < budget /\ faults' = faults + 1

\* The process that runs the call dies, or a Redis command throws.
Crash(c) ==
  /\ pc[c] # "idle"
  /\ Fault
  /\ Goto(c, "idle")
  /\ head' = [head EXCEPT ![c] = NoToken]
  /\ UNCHANGED <<setting, queues, booting, history>>

\* onModuleInit of any process, while the others go on: DEL waitingQueue ...
InitializeWaiting ==
  /\ ~booting
  /\ Fault
  /\ waiting' = {}
  /\ booting' = TRUE
  /\ UNCHANGED <<setting, since, clock, session, pc, head, history>>

\* ... and DEL activeQueue
InitializeActive ==
  /\ booting
  /\ active' = {}
  /\ fresh' = {}
  /\ booting' = FALSE
  /\ UNCHANGED <<setting, queue, pc, head, history, faults>>

-----------------------------------------------------------------------------
Run(c) == UpdateEntireQueue(c) \/ UseToken(c)

Next ==
  \/ \E t \in Tokens : CreateToken(t) \/ CreateTokenAgain(t) \/ SessionExpires(t)
  \/ \E c \in Callers : BeginReserve(c) \/ Run(c) \/ Crash(c)
  \/ InitializeWaiting
  \/ InitializeActive

Spec == Init /\ [][Next]_vars

\* Calls run on, clocks run on, and a client that waits or has been promoted
\* keeps calling, as long as its token is good for anything.
Fairness ==
  /\ \A t \in Tokens : WF_vars(SessionExpires(t))
  /\ \A c \in Callers :
       /\ WF_vars(Run(c))
       /\ WF_vars(BeginReserve(c) /\ (Waits(tokenOf[c]) \/ tokenOf[c] \in fresh))

FairSpec == Spec /\ Fairness

-----------------------------------------------------------------------------
(* Safety                                                                  *)

Promoting(t) == \E c \in Callers : head[c] = t /\ pc[c] = "add_active"

\* Two loops that promote the same token, a stale ZREM and a late ZADD never
\* leave a token in both sets (checkQueueStatus looks at the waiting set first
\* and would send a promoted client back); only a client that asks for a token
\* twice within a second can bring that about.
NeverInBothQueues == \A t \in active \ again : ~Waits(t)

\* Without a crash or a start of a process no token gets lost: it waits, is
\* promoted, is in the hands of a promoting call or has been used.
NoTokenLost ==
  faults = 0 => \A t \in Tokens :
    Issued(t) => Waits(t) \/ t \in active \/ Promoting(t) \/ t \in spent

\* Promotion is first come, first served however the loops interleave: nobody
\* who is promoted, or about to be, came after somebody who still waits.
FirstComeFirstServed ==
  \A t \in Tokens \ again, u \in Tokens :
    (t \in active \/ Promoting(t)) /\ Waits(u) => since[t] <= since[u]

\* The limit is overshot by concurrent loops, but only by one for every call
\* beyond the first: a loop adds at most one token per count it has taken.
OvershootBounded ==
  Cardinality(active) <= MaxActive + Cardinality(Callers) - 1

(* Liveness                                                                *)

\* Dead entries fill the active set: nothing removes a token that ran out.
Clogged == Cardinality(active \ fresh) >= MaxActive

\* A client that keeps calling is promoted sooner or later, unless dead entries
\* clog the active set.
QueueMoves ==
  \A c \in Callers : Waits(tokenOf[c]) ~> ~Waits(tokenOf[c]) \/ Clogged
=============================================================================
