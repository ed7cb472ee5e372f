------------------------- MODULE WaitingQueueProofs -------------------------
(***************************************************************************)
(* The safety properties of the waiting room, for any number of tokens and *)
(* of concurrent calls, any limit, and any number of crashes and starts.   *)
(***************************************************************************)
EXTENDS WaitingQueue, FiniteSetTheorems, TLAPS

-----------------------------------------------------------------------------
(* Types                                                                   *)

LEMMA InitTypeOK == Init => TypeOK
<1> SUFFICES ASSUME Init PROVE TypeOK
  OBVIOUS
<1>1. /\ tokenOf \in [Callers -> Tokens] /\ impatient \in SUBSET Tokens
      /\ budget \in Nat
  BY QueueAssumption DEF Init
<1>2. pc \in [Callers -> PC] /\ since \in [Tokens -> Nat]
  BY DEF Init, PC
<1>3. /\ head \in [Callers -> Tokens \cup {NoToken}]
      /\ \A c \in Callers :
           head[c] # NoToken <=> pc[c] \in {"remove_head", "add_active"}
  BY DEF Init
<1>4. /\ waiting \in SUBSET Tokens /\ active \in SUBSET Tokens
      /\ fresh \in SUBSET active
      /\ again \in SUBSET Tokens /\ spent \in SUBSET Tokens
  BY DEF Init
<1>5. clock \in Nat \ {0} /\ faults \in 0 .. budget
  BY <1>1 DEF Init
<1>6. booting \in BOOLEAN
  BY DEF Init
<1> QED
  BY <1>1, <1>2, <1>3, <1>4, <1>5, <1>6 DEF TypeOK

LEMMA NextTypeOK ==
  ASSUME TypeOK, [Next]_vars
  PROVE  TypeOK'
<1> USE QueueAssumption
        DEF TypeOK, Goto, PC, NoToken, setting, queues, queue, session, history,
            Fault
<1>1. ASSUME NEW t \in Tokens, CreateToken(t) \/ CreateTokenAgain(t) PROVE TypeOK'
  <2>0. AddToWaitingQueue(t)
    BY <1>1 DEF CreateToken, CreateTokenAgain
  <2>1. clock' \in Nat \ {0}
    BY <2>0 DEF AddToWaitingQueue
  <2>2. since' \in [Tokens -> Nat] /\ waiting' \in SUBSET Tokens
    BY <2>0, <2>1 DEF AddToWaitingQueue
  <2>3. again' \in SUBSET Tokens
    BY <1>1 DEF CreateToken, CreateTokenAgain
  <2>4. UNCHANGED <<setting, session, pc, head, booting, spent, faults>>
    BY <1>1 DEF CreateToken, CreateTokenAgain
  <2> QED
    BY <2>1, <2>2, <2>3, <2>4
<1>2. ASSUME NEW t \in Tokens, SessionExpires(t) PROVE TypeOK'
  BY <1>2 DEF SessionExpires
<1>3. ASSUME NEW c \in Callers, BeginReserve(c) \/ UpdateEntireQueue(c) PROVE TypeOK'
  <2>1. CASE BeginReserve(c) \/ CountActive(c) \/ CountWaiting(c)
    BY <2>1 DEF BeginReserve, CountActive, CountWaiting
  <2>2. CASE ReadHead(c)
    BY <2>2 DEF ReadHead
  <2>3. CASE RemoveHead(c)
    BY <2>3 DEF RemoveHead
  <2>4. CASE AddActive(c)
    <3>1. head[c] \in Tokens
      BY <2>4 DEF AddActive
    <3> QED
      BY <2>4, <3>1 DEF AddActive
  <2> QED
    BY <1>3, <2>1, <2>2, <2>3, <2>4 DEF UpdateEntireQueue
<1>4. ASSUME NEW c \in Callers, UseToken(c) PROVE TypeOK'
  <2>1. CASE CheckWaiting(c) \/ CheckActive(c) \/ ReserveSeat(c)
    BY <2>1 DEF CheckWaiting, CheckActive, ReserveSeat
  <2>2. CASE DeleteFromWaitingQueue(c)
    BY <2>2 DEF DeleteFromWaitingQueue
  <2>3. CASE DeleteFromActiveQueue(c)
    BY <2>3 DEF DeleteFromActiveQueue
  <2> QED
    BY <1>4, <2>1, <2>2, <2>3 DEF UseToken
<1>5. ASSUME NEW c \in Callers, Crash(c) PROVE TypeOK'
  <2>1. faults' \in 0 .. budget
    BY <1>5 DEF Crash
  <2> QED
    BY <1>5, <2>1 DEF Crash
<1>6. CASE InitializeWaiting
  <2>1. faults' \in 0 .. budget
    BY <1>6 DEF InitializeWaiting
  <2>2. waiting' \in SUBSET Tokens /\ booting' \in BOOLEAN
    BY <1>6 DEF InitializeWaiting
  <2> QED
    BY <1>6, <2>1, <2>2 DEF InitializeWaiting
<1>8. CASE InitializeActive
  BY <1>8 DEF InitializeActive
<1>7. CASE UNCHANGED vars
  BY <1>7 DEF vars
<1> QED
  BY <1>1, <1>2, <1>3, <1>4, <1>5, <1>6, <1>7, <1>8 DEF Next, Run

-----------------------------------------------------------------------------
(* Order and separation of the two sets                                    *)

\* What a loop knows of the token in its hands: it was issued, and since it was
\* read nobody who waits can have come earlier, as newcomers come later.
Ordered ==
  /\ \A t \in Tokens : since[t] <= clock
  /\ \A t \in waiting \cup active : Issued(t)
  /\ \A c \in Callers : head[c] # NoToken => Issued(head[c])
  /\ \A c \in Callers : pc[c] = "remove_head" /\ head[c] \notin again =>
       \A u \in waiting : since[head[c]] <= since[u]
  /\ FirstComeFirstServed

\* A token on its way from one set to the other is in neither.
Apart ==
  /\ NeverInBothQueues
  /\ \A c \in Callers :
       pc[c] = "add_active" /\ head[c] \notin again => ~Waits(head[c])

QueueInv == TypeOK /\ Ordered /\ Apart

LEMMA InitQueueInv == Init => QueueInv
<1> SUFFICES ASSUME Init PROVE Ordered /\ Apart
  BY InitTypeOK DEF QueueInv
<1> QED
  BY DEF Init, Ordered, Apart, FirstComeFirstServed, NeverInBothQueues, Waits,
         NoToken, Promoting

\* createToken: the newcomer is behind everybody and in nobody's hands.
LEMMA CreateKeepsOrder ==
  ASSUME QueueInv, NEW t \in Tokens, CreateToken(t) \/ CreateTokenAgain(t)
  PROVE  Ordered' /\ Apart'
<1> USE DEF QueueInv, TypeOK, session
<1>1. /\ clock' \in Nat /\ clock' >= clock
      /\ waiting' = waiting \cup {t}
      /\ since'[t] = clock'
      /\ \A u \in Tokens \ {t} : since'[u] = since[u]
      /\ UNCHANGED <<active, head, pc>>
  BY DEF CreateToken, CreateTokenAgain, AddToWaitingQueue
<1>2. again' \in {again, again \cup {t}}
      /\ (t \in again' \/ (since[t] = 0 /\ again' = again))
  BY DEF CreateToken, CreateTokenAgain, history, Issued
<1>3. \A u \in Tokens : since'[u] \in Nat /\ since'[u] <= clock' /\ (Issued(u) => since'[u] # 0)
  BY <1>1 DEF Ordered, Issued
<1>4. \A c \in Callers : head[c] = t => t \in again' \/ head[c] = NoToken
  BY <1>2 DEF Ordered, Issued
<1>5. t \in active => t \in again'
  BY <1>2 DEF Ordered, Issued
<1>6. \A c \in Callers : pc[c] \in {"remove_head", "add_active"} =>
        head[c] # NoToken /\ head[c] \in Tokens
  OBVIOUS
<1>7. FirstComeFirstServed'
  <2> SUFFICES ASSUME NEW v \in Tokens, v \notin again', NEW u \in Tokens,
                      v \in active \/ Promoting(v), u \in waiting'
               PROVE  since'[v] <= since'[u]
    BY <1>1 DEF FirstComeFirstServed, Promoting, Waits
  <2>1. v # t
    BY <1>4, <1>5, <1>6 DEF Promoting
  <2>2. CASE u = t
    BY <1>1, <1>3, <2>2
  <2>3. CASE u # t
    BY <1>1, <1>2, <2>1, <2>3 DEF Ordered, FirstComeFirstServed, Waits
  <2> QED
    BY <2>2, <2>3
<1>8. Ordered'
  <2>1. \A c \in Callers : pc'[c] = "remove_head" /\ head'[c] \notin again' =>
          \A u \in waiting' : since'[head'[c]] <= since'[u]
    <3> SUFFICES ASSUME NEW c \in Callers, pc[c] = "remove_head",
                        head[c] \notin again', NEW u \in waiting'
                 PROVE  since'[head[c]] <= since'[u]
      BY <1>1
    <3>1. head[c] # t /\ head[c] \in Tokens /\ u \in Tokens
      BY <1>1, <1>4, <1>6
    <3>2. CASE u = t
      BY <1>1, <1>3, <3>1, <3>2
    <3>3. CASE u # t
      BY <1>1, <1>2, <3>1, <3>3 DEF Ordered
    <3> QED
      BY <3>2, <3>3
  <2>2. (\A v \in waiting \cup active : Issued(v))'
    BY <1>1, <1>3 DEF Ordered, Issued
  <2>3. (\A c \in Callers : head[c] # NoToken => Issued(head[c]))'
    BY <1>1, <1>3 DEF Ordered, Issued
  <2> QED
    BY <1>3, <1>7, <2>1, <2>2, <2>3 DEF Ordered
<1>9. Apart'
  BY <1>1, <1>2, <1>4, <1>5, <1>6 DEF Apart, NeverInBothQueues, Waits
<1> QED
  BY <1>8, <1>9

\* A round of the loop: the head is read, leaves one set and joins the other.
LEMMA LoopKeepsOrder ==
  ASSUME QueueInv, NEW c \in Callers, UpdateEntireQueue(c)
  PROVE  Ordered' /\ Apart'
<1> USE DEF QueueInv, TypeOK, queues, queue, session, history, Goto
<1>1. CASE CountActive(c) \/ CountWaiting(c)
  BY <1>1 DEF CountActive, CountWaiting, Ordered, Apart, Issued, Waits,
              FirstComeFirstServed, NeverInBothQueues, Promoting
<1>2. CASE ReadHead(c)
  <2>1. /\ UNCHANGED <<waiting, since, clock, active, again>>
        /\ \A d \in Callers \ {c} : pc'[d] = pc[d] /\ head'[d] = head[d]
    BY <1>2 DEF ReadHead
  <2>2. \/ head'[c] = head[c] /\ pc'[c] = "idle" /\ head[c] = NoToken
        \/ IsFirst(head'[c]) /\ pc'[c] = "remove_head"
    BY <1>2 DEF ReadHead
  <2>3. \A t \in Tokens : IsFirst(t) =>
          Waits(t) /\ \A u \in waiting : since[t] <= since[u]
    BY DEF IsFirst, Precedes, Waits
  <2>4. \A t \in Tokens : Issued(t)' <=> Issued(t)
    BY <2>1 DEF Issued
  <2>5. \A t : Promoting(t)' => Promoting(t)
    BY <2>1, <2>2 DEF Promoting
  <2>6. FirstComeFirstServed'
    BY <2>1, <2>5 DEF Ordered, FirstComeFirstServed, Waits
  <2>7. Ordered'
    <3>1. \A d \in Callers : head'[d] # NoToken => Issued(head'[d])
      BY <2>1, <2>2, <2>3 DEF Ordered, IsFirst, Precedes, Issued
    <3>2. \A d \in Callers : pc'[d] = "remove_head" /\ head'[d] \notin again =>
            \A u \in waiting : since[head'[d]] <= since[u]
      <4>1. ASSUME IsFirst(head'[c]), NEW u \in waiting
            PROVE  since[head'[c]] <= since[u]
        BY <2>3, <4>1 DEF IsFirst
      <4> QED
        BY <2>1, <2>2, <4>1 DEF Ordered
    <3> QED
      BY <2>1, <2>4, <2>6, <3>1, <3>2 DEF Ordered, Issued
  <2>8. Apart'
    BY <2>1, <2>2 DEF Apart, NeverInBothQueues, Waits
  <2> QED
    BY <2>7, <2>8
<1>3. CASE RemoveHead(c)
  BY <1>3 DEF RemoveHead, Ordered, Apart, Issued, Waits,
              FirstComeFirstServed, NeverInBothQueues, Promoting
<1>4. CASE AddActive(c)
  BY <1>4 DEF AddActive, Ordered, Apart, Issued, Waits,
              FirstComeFirstServed, NeverInBothQueues, Promoting
<1> QED
  BY <1>1, <1>2, <1>3, <1>4 DEF UpdateEntireQueue

\* All other steps only take tokens out.
LEMMA OthersKeepOrder ==
  ASSUME QueueInv,
         \/ \E t \in Tokens : SessionExpires(t)
         \/ \E c \in Callers : BeginReserve(c) \/ UseToken(c) \/ Crash(c)
         \/ InitializeWaiting \/ InitializeActive
         \/ UNCHANGED vars
  PROVE  Ordered' /\ Apart'
<1>1. /\ waiting' \subseteq waiting /\ active' \subseteq active
      /\ UNCHANGED <<since, clock, again>>
      /\ \A c \in Callers :
           /\ head'[c] \in {head[c], NoToken}
           /\ pc'[c] \in {"remove_head", "add_active"} =>
                pc'[c] = pc[c] /\ head'[c] = head[c]
  BY DEF QueueInv, TypeOK, vars, queues, queue, session, history, Goto,
         SessionExpires, BeginReserve, UseToken, CheckWaiting, CheckActive,
         ReserveSeat, DeleteFromWaitingQueue, DeleteFromActiveQueue, Crash,
         InitializeWaiting, InitializeActive
<1>2. \A t : Promoting(t)' => Promoting(t)
  BY <1>1 DEF Promoting
<1>3. Apart'
  BY <1>1 DEF QueueInv, Apart, NeverInBothQueues, Waits
<1>4. Ordered'
  BY <1>1, <1>2 DEF QueueInv, Ordered, Issued, FirstComeFirstServed, Waits, NoToken
<1> QED
  BY <1>3, <1>4

LEMMA QueueInvariance == Spec => []QueueInv
<1>1. ASSUME QueueInv, [Next]_vars PROVE QueueInv'
  <2>1. TypeOK'
    BY <1>1, NextTypeOK DEF QueueInv
  <2>2. Ordered' /\ Apart'
    BY <1>1, CreateKeepsOrder, LoopKeepsOrder, OthersKeepOrder DEF Next, Run
  <2> QED
    BY <2>1, <2>2 DEF QueueInv
<1> QED
  BY <1>1, InitQueueInv, PTL DEF Spec

\* Every variable keeps its type; in particular no "undefined" is ever put into
\* the active set (QueueRankingService.updateEntireQueue).
THEOREM TypeCorrect == Spec => []TypeOK
<1>1. QueueInv => TypeOK
  BY DEF QueueInv
<1> QED
  BY <1>1, QueueInvariance, PTL

\* Concurrent promotions serve in the order of arrival, for any number of them.
THEOREM InOrder == Spec => []FirstComeFirstServed
<1>1. QueueInv => FirstComeFirstServed
  BY DEF QueueInv, Ordered
<1> QED
  BY <1>1, QueueInvariance, PTL

\* Nobody who asked once is in both sets.
THEOREM SetsDisjoint == Spec => []NeverInBothQueues
<1>1. QueueInv => NeverInBothQueues
  BY DEF QueueInv, Apart
<1> QED
  BY <1>1, QueueInvariance, PTL

\* Those who are asked before t, but for the order within a millisecond.
Ahead(t) == {u \in waiting : since[u] < since[t]}

\* Nobody gets in front of somebody who waits: not a newcomer, not a client that
\* asks again, not through any interleaving of loops, crashes and starts.  The rank
\* a polling client is shown (zrank) only falls; with a loop that takes the first
\* out of the set this is the progress half of QueueMoves.
THEOREM NobodyOvertakes ==
  Spec => [][\A t \in waiting \cap waiting' :
               since'[t] = since[t] => Ahead(t)' \subseteq Ahead(t)]_vars
<1>1. ASSUME QueueInv, [Next]_vars, NEW t \in waiting, since'[t] = since[t]
      PROVE  Ahead(t)' \subseteq Ahead(t)
  <2>1. /\ t \in Tokens /\ since \in [Tokens -> Nat] /\ waiting \subseteq Tokens
        /\ clock \in Nat /\ since[t] <= clock
    BY <1>1 DEF QueueInv, TypeOK, Ordered
  <2>2. ASSUME NEW u \in Tokens, CreateToken(u) \/ CreateTokenAgain(u)
        PROVE  Ahead(t)' \subseteq Ahead(t)
    <3>1. /\ clock' \in {clock, clock + 1} /\ waiting' = waiting \cup {u}
          /\ since'[u] = clock' /\ \A v \in Tokens \ {u} : since'[v] = since[v]
      BY <2>1, <2>2 DEF CreateToken, CreateTokenAgain, AddToWaitingQueue
    <3>2. ~(since'[u] < since'[t])
      BY <1>1, <2>1, <3>1
    <3> QED
      BY <1>1, <2>1, <3>1, <3>2 DEF Ahead
  <2>3. CASE waiting' \subseteq waiting /\ since' = since
    BY <2>3 DEF Ahead
  <2>4. CASE \/ \E u \in Tokens : SessionExpires(u)
             \/ \E c \in Callers : BeginReserve(c) \/ Run(c) \/ Crash(c)
             \/ InitializeWaiting \/ InitializeActive \/ UNCHANGED vars
    <3>1. waiting' \subseteq waiting /\ since' = since
      BY <2>4 DEF SessionExpires, BeginReserve, Run, UpdateEntireQueue, CountActive,
         CountWaiting, ReadHead, RemoveHead, AddActive, UseToken, CheckWaiting, CheckActive,
         ReserveSeat, DeleteFromWaitingQueue, DeleteFromActiveQueue, Crash,
         InitializeWaiting, InitializeActive, queues, queue, vars
    <3> QED
      BY <2>3, <3>1
  <2> QED
    BY <1>1, <2>2, <2>4 DEF Next
<1>2. QueueInv /\ [Next]_vars =>
        [\A t \in waiting \cap waiting' :
           since'[t] = since[t] => Ahead(t)' \subseteq Ahead(t)]_vars
  BY <1>1
<1> QED
  BY <1>2, QueueInvariance, PTL DEF Spec

-----------------------------------------------------------------------------
(* No token is lost                                                        *)

\* A call that deletes a token was admitted with it; keys are deleted only by a
\* process that starts.
Conserved ==
  /\ booting => faults > 0
  /\ faults = 0 => \A c \in Callers :
       pc[c] \in {"admitted", "delete_waiting", "delete_active"} =>
         tokenOf[c] \in active \cup spent
  /\ NoTokenLost

LEMMA InitConserved == Init => Conserved
BY DEF Init, Conserved, NoTokenLost, Issued

\* Tokens that join the waiting set, and calls that only look.
LEMMA LookingConserves ==
  ASSUME TypeOK, Conserved,
         \/ \E t \in Tokens :
              CreateToken(t) \/ CreateTokenAgain(t) \/ SessionExpires(t)
         \/ \E c \in Callers :
              \/ BeginReserve(c) \/ CountActive(c) \/ CountWaiting(c) \/ ReadHead(c)
              \/ CheckWaiting(c) \/ CheckActive(c) \/ ReserveSeat(c)
         \/ UNCHANGED vars
  PROVE  Conserved'
<1> USE DEF TypeOK, queues, queue, session, history, setting, Goto
<1>1. ASSUME NEW t \in Tokens, CreateToken(t) \/ CreateTokenAgain(t)
      PROVE  Conserved'
  <2>1. /\ waiting' = waiting \cup {t}
        /\ \A u \in Tokens \ {t} : since'[u] = since[u]
        /\ UNCHANGED <<tokenOf, active, pc, head, booting, spent, faults>>
    BY <1>1 DEF CreateToken, CreateTokenAgain, AddToWaitingQueue
  <2> QED
    BY <2>1 DEF Conserved, NoTokenLost, Issued, Waits, Promoting
<1>2. ASSUME NEW c \in Callers,
             BeginReserve(c) \/ CountActive(c) \/ CountWaiting(c) \/ ReadHead(c)
      PROVE  Conserved'
  <2>1. /\ UNCHANGED <<tokenOf, waiting, since, active, booting, spent, faults>>
        /\ \A d \in Callers \ {c} : pc'[d] = pc[d] /\ head'[d] = head[d]
        /\ pc[c] # "add_active"
        /\ pc'[c] \notin {"admitted", "delete_waiting", "delete_active"}
    BY <1>2 DEF BeginReserve, CountActive, CountWaiting, ReadHead
  <2>2. \A t : Promoting(t) => Promoting(t)'
    BY <2>1 DEF Promoting
  <2> QED
    BY <2>1, <2>2 DEF Conserved, NoTokenLost, Issued, Waits
<1>3. ASSUME NEW c \in Callers, CheckWaiting(c) \/ CheckActive(c) \/ ReserveSeat(c)
      PROVE  Conserved'
  <2>1. /\ UNCHANGED <<tokenOf, waiting, since, active, head, booting, spent, faults>>
        /\ \A d \in Callers \ {c} : pc'[d] = pc[d]
        /\ pc[c] # "add_active"
        /\ pc'[c] \in {"admitted", "delete_waiting", "delete_active"} =>
             tokenOf[c] \in active \/ pc[c] = "admitted"
    BY <1>3 DEF CheckWaiting, CheckActive, ReserveSeat
  <2>2. \A t : Promoting(t) => Promoting(t)'
    BY <2>1 DEF Promoting
  <2> QED
    BY <2>1, <2>2 DEF Conserved, NoTokenLost, Issued, Waits
<1>4. ASSUME NEW t \in Tokens, SessionExpires(t) PROVE Conserved'
  BY <1>4 DEF SessionExpires, Conserved, NoTokenLost, Issued, Waits, Promoting
<1>5. CASE UNCHANGED vars
  BY <1>5 DEF vars, Conserved, NoTokenLost, Issued, Waits, Promoting
<1> QED
  BY <1>1, <1>2, <1>3, <1>4, <1>5

\* Tokens that change hands: from a set to a call, from a call to a set.
LEMMA MovingConserves ==
  ASSUME TypeOK, Conserved, NEW c \in Callers,
         \/ RemoveHead(c) \/ AddActive(c)
         \/ DeleteFromWaitingQueue(c) \/ DeleteFromActiveQueue(c)
  PROVE  Conserved'
<1> USE DEF TypeOK, queues, queue, session, history, setting, Goto
<1>1. CASE RemoveHead(c)
  <2>1. /\ UNCHANGED <<tokenOf, since, active, head, booting, spent, faults>>
        /\ waiting' = waiting \ {head[c]}
        /\ pc[c] = "remove_head" /\ pc'[c] = "add_active"
        /\ \A d \in Callers \ {c} : pc'[d] = pc[d]
    BY <1>1 DEF RemoveHead
  <2>2. \A t : Promoting(t) => Promoting(t)'
    BY <2>1 DEF Promoting
  <2>3. Promoting(head[c])'
    BY <2>1 DEF Promoting
  <2> QED
    BY <2>1, <2>2, <2>3 DEF Conserved, NoTokenLost, Issued, Waits
<1>2. CASE AddActive(c)
  <2>1. /\ UNCHANGED <<tokenOf, waiting, since, booting, spent, faults>>
        /\ active' = active \cup {head[c]}
        /\ pc[c] = "add_active" /\ pc'[c] = "count_active"
        /\ \A d \in Callers \ {c} : pc'[d] = pc[d] /\ head'[d] = head[d]
    BY <1>2 DEF AddActive
  <2>2. \A t : Promoting(t) => Promoting(t)' \/ t \in active'
    BY <2>1 DEF Promoting
  <2> QED
    BY <2>1, <2>2 DEF Conserved, NoTokenLost, Issued, Waits
<1>3. CASE DeleteFromWaitingQueue(c)
  <2>1. /\ UNCHANGED <<tokenOf, since, active, head, booting, spent, faults>>
        /\ waiting' = waiting \ {tokenOf[c]}
        /\ pc[c] = "delete_waiting" /\ pc'[c] = "delete_active"
        /\ \A d \in Callers \ {c} : pc'[d] = pc[d]
    BY <1>3 DEF DeleteFromWaitingQueue
  <2>2. \A t : Promoting(t) => Promoting(t)'
    BY <2>1 DEF Promoting
  <2> QED
    BY <2>1, <2>2 DEF Conserved, NoTokenLost, Issued, Waits
<1>4. CASE DeleteFromActiveQueue(c)
  <2>1. /\ UNCHANGED <<tokenOf, since, waiting, head, booting, faults>>
        /\ active' = active \ {tokenOf[c]} /\ spent' = spent \cup {tokenOf[c]}
        /\ pc[c] = "delete_active" /\ pc'[c] = "idle"
        /\ \A d \in Callers \ {c} : pc'[d] = pc[d]
    BY <1>4 DEF DeleteFromActiveQueue
  <2>2. \A t : Promoting(t) => Promoting(t)'
    BY <2>1 DEF Promoting
  <2>3. active \cup spent \subseteq active' \cup spent'
    BY <2>1
  <2> QED
    BY <2>1, <2>2, <2>3 DEF Conserved, NoTokenLost, Issued, Waits
<1> QED
  BY <1>1, <1>2, <1>3, <1>4

\* A fault ends what the property promises, for good.
LEMMA FaultConserves ==
  ASSUME TypeOK, Conserved,
         \/ \E c \in Callers : Crash(c)
         \/ InitializeWaiting \/ InitializeActive
  PROVE  Conserved'
<1>1. faults' \in Nat /\ faults' > 0
  BY DEF TypeOK, Conserved, Crash, InitializeWaiting, InitializeActive, Fault
<1> QED
  BY <1>1 DEF Conserved, NoTokenLost

\* Without a crash or a start of a process every token issued is somewhere.
THEOREM TokensKept == Spec => []NoTokenLost
<1>1. ASSUME TypeOK, Conserved, [Next]_vars PROVE Conserved'
  BY <1>1, LookingConserves, MovingConserves, FaultConserves
  DEF Next, Run, UpdateEntireQueue, UseToken
<1>2. Conserved => NoTokenLost
  BY DEF Conserved
<1> QED
  BY <1>1, <1>2, InitConserved, TypeCorrect, PTL DEF Spec

-----------------------------------------------------------------------------
(* The overshoot                                                           *)

\* Calls that have seen room in the active set and may still add to it.
Adding ==
  {c \in Callers : pc[c] \in {"count_waiting", "read_head", "remove_head", "add_active"}}

\* Every token above the limit was added on a count taken before.
Reserved ==
  /\ IsFiniteSet(active)
  /\ Cardinality(active) + Cardinality(Adding)
       <= MaxActive + Cardinality(Callers) - 1

LEMMA AddingFinite ==
  /\ IsFiniteSet(Adding) /\ Cardinality(Adding) \in Nat
  /\ Cardinality(Callers) \in Nat
  /\ Cardinality(Adding) <= Cardinality(Callers)
<1>1. Adding \in SUBSET Callers
  BY DEF Adding
<1> QED
  BY <1>1, QueueAssumption, FS_Subset, FS_CardinalityType

LEMMA InitReserved == Init => Reserved
<1> SUFFICES ASSUME Init PROVE Reserved
  OBVIOUS
<1>1. active = {} /\ Adding = {}
  BY DEF Init, Adding
<1>2. Cardinality(Callers) \in Nat
  BY AddingFinite
<1> QED
  BY <1>1, <1>2, FS_EmptySet, QueueAssumption DEF Reserved

LEMMA NextReserved ==
  ASSUME TypeOK, Reserved, [Next]_vars
  PROVE  Reserved'
<1> USE DEF Reserved
<1>0. /\ Cardinality(active) \in Nat /\ Cardinality(Adding) \in Nat
      /\ Cardinality(Callers) \in Nat /\ MaxActive \in Nat
      /\ IsFiniteSet(Adding)
  BY AddingFinite, FS_CardinalityType, QueueAssumption
<1>1. ASSUME NEW c \in Callers, CountActive(c) PROVE Reserved'
  <2>1. active' = active
    BY <1>1 DEF CountActive, queues, session
  <2>2. CASE Cardinality(active) < MaxActive
    <3>1. /\ Adding' \in SUBSET Callers
      BY DEF Adding
    <3>2. Cardinality(Adding') \in Nat /\ Cardinality(Adding') <= Cardinality(Callers)
      BY <3>1, QueueAssumption, FS_Subset, FS_CardinalityType
    <3> QED
      BY <1>0, <2>1, <2>2, <3>2
  <2>3. CASE ~(Cardinality(active) < MaxActive)
    <3>1. Adding' = Adding
      BY <1>1, <2>3 DEF CountActive, Adding, TypeOK, Goto
    <3> QED
      BY <2>1, <3>1
  <2> QED
    BY <2>2, <2>3
<1>2. ASSUME NEW c \in Callers, AddActive(c) PROVE Reserved'
  <2>1. active' = active \cup {head[c]}
    BY <1>2 DEF AddActive
  <2>2. Adding' = Adding \ {c} /\ c \in Adding
    BY <1>2 DEF AddActive, Adding, TypeOK, Goto
  <2>3. /\ IsFiniteSet(active') /\ Cardinality(active') \in Nat
        /\ Cardinality(active') <= Cardinality(active) + 1
    <3>1. /\ IsFiniteSet(active')
          /\ Cardinality(active') = IF head[c] \in active THEN Cardinality(active)
                                                         ELSE Cardinality(active) + 1
      BY <2>1, FS_AddElement
    <3> QED
      BY <1>0, <3>1
  <2>4. Cardinality(Adding') = Cardinality(Adding) - 1
    BY <1>0, <2>2, FS_RemoveElement
  <2> QED
    BY <1>0, <2>3, <2>4
<1>3. ASSUME ~(\E c \in Callers : CountActive(c) \/ AddActive(c)) PROVE Reserved'
  <2>4. ASSUME \E c \in Callers : BeginReserve(c) \/ Run(c) \/ Crash(c)
        PROVE  active' \subseteq active /\ Adding' \subseteq Adding
    <3> PICK c \in Callers : BeginReserve(c) \/ Run(c) \/ Crash(c)
      BY <2>4
    <3>1. active' \subseteq active
      BY <1>3 DEF Run, UpdateEntireQueue, UseToken, BeginReserve, CountWaiting,
                  ReadHead, RemoveHead, CheckWaiting, CheckActive, ReserveSeat,
                  DeleteFromWaitingQueue, DeleteFromActiveQueue, Crash, queues,
                  session
    <3>2. /\ \A d \in Callers \ {c} : pc'[d] = pc[d]
          /\ c \in Adding' => c \in Adding
      BY <1>3 DEF Run, UpdateEntireQueue, UseToken, BeginReserve, CountWaiting,
                  ReadHead, RemoveHead, CheckWaiting, CheckActive, ReserveSeat,
                  DeleteFromWaitingQueue, DeleteFromActiveQueue, Crash, Adding,
                  TypeOK, Goto
    <3>3. Adding' \subseteq Adding
      BY <3>2 DEF Adding
    <3> QED
      BY <3>1, <3>3
  <2>5. ASSUME \/ \E t \in Tokens :
                    CreateToken(t) \/ CreateTokenAgain(t) \/ SessionExpires(t)
               \/ InitializeWaiting \/ InitializeActive \/ UNCHANGED vars
        PROVE  active' \subseteq active /\ Adding' \subseteq Adding
    <3>1. pc' = pc /\ active' \subseteq active
      BY <2>5 DEF CreateToken, CreateTokenAgain, SessionExpires, InitializeWaiting,
                  InitializeActive, vars, queues, session
    <3>2. Adding' = Adding
      BY <3>1 DEF Adding
    <3> QED
      BY <3>1, <3>2
  <2>1. active' \subseteq active /\ Adding' \subseteq Adding
    BY <2>4, <2>5 DEF Next
  <2>6. active' \in SUBSET active /\ Adding' \in SUBSET Adding
    BY <2>1
  <2>2. /\ IsFiniteSet(active')
        /\ Cardinality(active') \in Nat /\ Cardinality(active') <= Cardinality(active)
    BY <2>6, FS_Subset, FS_CardinalityType
  <2>3. Cardinality(Adding') \in Nat /\ Cardinality(Adding') <= Cardinality(Adding)
    BY <1>0, <2>6, FS_Subset, FS_CardinalityType
  <2> QED
    BY <1>0, <2>2, <2>3
<1> QED
  BY <1>1, <1>2, <1>3

\* However many loops run at a time, the active set exceeds its limit by at most
\* one token for every call beyond the first.
THEOREM OvershootIsBounded == Spec => []OvershootBounded
<1>1. Reserved => OvershootBounded
  BY AddingFinite, FS_CardinalityType, QueueAssumption DEF Reserved, OvershootBounded
<1>2. TypeOK /\ Reserved /\ [Next]_vars => Reserved'
  BY NextReserved
<1> QED
  BY <1>1, <1>2, InitReserved, TypeCorrect, PTL DEF Spec
=============================================================================
