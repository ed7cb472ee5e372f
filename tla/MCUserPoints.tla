---------------------------- MODULE MCUserPoints ----------------------------
(* Instances of UserPoints for TLC.                                        *)
EXTENDS UserPoints, TLC

CONSTANTS o1, o2, o3

Mix(k1, k2, k3, p) == [kind |-> (o1 :> k1 @@ o2 :> k2 @@ o3 :> k3), pace |-> p]

\* Protected: payments and a refund however slow; top-ups and a payment within
\* the TTL, one of the top-ups (in the second mix) above MaxCharge.
\* Not protected: a refund beside a top-up; a top-up that outlasts its key.
AllMixes == {Mix("use", "use", "cancel", "slow"),
             Mix("use", "charge", "charge", "fast"),
             Mix("charge", "charge", "use", "fast"),
             Mix("use", "charge", "cancel", "fast"),
             Mix("use", "charge", "use", "slow")}

TwoOneOne == (o1 :> 2 @@ o2 :> 1 @@ o3 :> 1)
=============================================================================
