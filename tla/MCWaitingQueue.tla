--------------------------- MODULE MCWaitingQueue ---------------------------
(* Instances of WaitingQueue for TLC.                                      *)
EXTENDS WaitingQueue, TLC

CONSTANTS c1, c2

Case(holder, twice, faulty) ==
  [holder |-> holder, impatient |-> twice, budget |-> faulty]

\* Two clients while a process dies or starts; two clients of whom one asks
\* twice for its token; one client that calls twice at a time.
TwoClients == c1 :> 1 @@ c2 :> 2
OneTwice   == c1 :> 1 @@ c2 :> 1
AllCases   == {Case(TwoClients, {}, 1), Case(TwoClients, {1}, 0), Case(OneTwice, {}, 0)}
=============================================================================
