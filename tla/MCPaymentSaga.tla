--------------------------- MODULE MCPaymentSaga ---------------------------
(* Instances of PaymentSaga for TLC.                                       *)
EXTENDS PaymentSaga, TLC

CONSTANTS t1, t2, a, b, u, c1, c2

\* One client pays: once, twice for one reservation, or for two reservations.
OneUser     == [t \in Txs |-> u]
ForA        == [t \in Txs |-> a]
ForAAndB    == [t \in Txs |-> IF t = t1 THEN a ELSE b]

Only(kinds, n) == [k \in FaultKinds |-> IF k \in kinds THEN n ELSE 0]

NoFaults   == {Only({}, 0)}
\* One fault, of any kind.
AnyFault   == {Only({k}, 1) : k \in FaultKinds}
Redelivery == {Only({"rebalance"}, 1)}
RedisOnce  == {Only({"redis"}, 1)}

\* Consumer instances are interchangeable, and so are payments of one client
\* for one reservation.
Symmetry == Permutations(Consumers) \cup Permutations(Txs)
=============================================================================
