----------------------------- MODULE UserPoints -----------------------------
(***************************************************************************)
(* One user's point balance: charge (HTTP), use (executePayment and the    *)
(* old use endpoint) and cancelPayment (the refund), as the interleaved    *)
(* steps of their transactions.  charge and use run under the Redis lock   *)
(* lock:payment:<user>, cancelPayment does not; use and cancelPayment      *)
(* SELECT ... FOR UPDATE, charge reads without a lock; all three write the *)
(* absolute balance they computed.  Other users' rows are independent.     *)
(***************************************************************************)
EXTENDS Integers

CONSTANTS
  Ops,            \* calls for this user
  Amount,         \* [Ops -> positive amount]; assumed, the request DTOs check
                  \* only that it is a number
  MaxCharge,      \* MAX_CHARGE_AMOUNT
  Funds,          \* bound: largest initial balance
  Mixes           \* which kinds of calls come together, and how slow they are

Kinds == {"charge", "use", "cancel"}

ASSUME OpsAssumption ==
  /\ Mixes \subseteq [kind : [Ops -> Kinds], pace : {"fast", "slow"}]
  /\ Amount \in [Ops -> Nat \ {0}]
  /\ MaxCharge \in Nat
  /\ Funds \in Nat

VARIABLES
  kind,      \* [Ops -> Kinds]: what every call is, fixed by Init
  pace,      \* "slow": a call may outlast the TTL of its lock (3 s; its
             \* transaction may take 10 s); fixed by Init
  row,       \* the user has a row in user_points
  balance,   \* its committed balance
  ledger,    \* sum of the committed point_histories, uses counted negative
  key,       \* the Redis key exists
  pc,        \* control state of every call
  seen       \* the balance the call's domain object was built from

mix  == <<kind, pace>>
vars == <<mix, row, balance, ledger, key, pc, seen>>

\* "begun": in the transaction (and past the lock); "missing": found no row;
\* "created": inserted one; "read": knows the balance; "written": UPDATE done,
\* not committed; "release": the transaction is over.
PC == {"idle", "begun", "missing", "created", "read", "written", "release", "done"}

TypeOK ==
  /\ kind \in [Ops -> Kinds]
  /\ pace \in {"fast", "slow"}
  /\ row \in BOOLEAN
  /\ balance \in Nat
  /\ ledger \in Int
  /\ key \in BOOLEAN
  /\ pc \in [Ops -> PC]
  /\ seen \in [Ops -> Nat]

Init ==
  /\ \E m \in Mixes : kind = m.kind /\ pace = m.pace
  /\ row \in BOOLEAN
  /\ balance \in (IF row THEN 0 .. Funds ELSE {0})
  /\ ledger = balance
  /\ key = FALSE
  /\ pc = [o \in Ops |-> "idle"]
  /\ seen = [o \in Ops |-> 0]

NeedsLock(o) == kind[o] # "cancel"

Goto(o, state) == pc' = [pc EXCEPT ![o] = state]

InTx(o) == pc[o] \in {"begun", "missing", "created", "read", "written"}

\* Between withLock's acquire and its finally clause.
InCritical(o) == NeedsLock(o) /\ (InTx(o) \/ pc[o] = "release")

\* The exclusive row lock: taken by INSERT, UPDATE and SELECT ... FOR UPDATE,
\* given up with the transaction.
HoldsRow(o) ==
  \/ pc[o] \in {"created", "written"}
  \/ pc[o] = "read" /\ kind[o] # "charge"

RowFree(o) == \A p \in Ops \ {o} : ~HoldsRow(p)

\* The transaction ends; under withLock the key is still to be released.
EndTx(o) == Goto(o, IF NeedsLock(o) THEN "release" ELSE "done")

-----------------------------------------------------------------------------
(* withLock                                                                *)

\* Mutant: SET without NX.
AcquireAlways(o) ==
  /\ pc[o] = "idle" /\ NeedsLock(o)
  /\ key' = TRUE
  /\ Goto(o, "begun")
  /\ UNCHANGED <<row, balance, ledger, seen>>

\* SET NX EX 3
Acquire(o) ==
  /\ pc[o] = "idle" /\ NeedsLock(o)
  /\ ~key
  /\ key' = TRUE
  /\ Goto(o, "begun")
  /\ UNCHANGED <<row, balance, ledger, seen>>

\* The SET was done but its answer got lost: acquireLock takes the error for
\* "not acquired", and the key belongs to nobody.
ReplyLost(o) ==
  /\ pc[o] = "idle" /\ NeedsLock(o)
  /\ ~key
  /\ key' = TRUE
  /\ UNCHANGED <<row, balance, ledger, pc, seen>>

\* Ten attempts found the key.
GiveUp(o) ==
  /\ pc[o] = "idle" /\ NeedsLock(o)
  /\ key
  /\ Goto(o, "done")
  /\ UNCHANGED <<row, balance, ledger, key, seen>>

\* finally { DEL }: no owner is checked.
Release(o) ==
  /\ pc[o] = "release"
  /\ key' = FALSE
  /\ Goto(o, "done")
  /\ UNCHANGED <<row, balance, ledger, seen>>

\* The TTL runs out: on a call that still works if it is slow, else only on a
\* dead one.
KeyExpires ==
  /\ key
  /\ pace = "slow" \/ \A o \in Ops : ~InCritical(o)
  /\ key' = FALSE
  /\ UNCHANGED <<row, balance, ledger, pc, seen>>

\* The process dies: rollback, the key stays.
Crash(o) ==
  /\ InTx(o) \/ pc[o] = "release"
  /\ Goto(o, "done")
  /\ UNCHANGED <<row, balance, ledger, key, seen>>

-----------------------------------------------------------------------------
(* _chargeTransaction                                                      *)

\* findOne
ChargeRead(o) ==
  /\ pc[o] = "begun" /\ kind[o] = "charge"
  /\ IF row THEN seen' = [seen EXCEPT ![o] = balance] /\ Goto(o, "read")
            ELSE Goto(o, "missing") /\ UNCHANGED seen
  /\ UNCHANGED <<row, balance, ledger, key>>

\* create with balance 0; UNIQUE(user_id) refuses a second row.
ChargeCreate(o) ==
  /\ pc[o] = "missing" /\ kind[o] = "charge"
  /\ RowFree(o)
  /\ IF row THEN EndTx(o) /\ UNCHANGED seen
            ELSE seen' = [seen EXCEPT ![o] = 0] /\ Goto(o, "created")
  /\ UNCHANGED <<row, balance, ledger, key>>

\* The history row, userPoint.charge and the UPDATE, which waits for the row.
ChargeWrite(o) ==
  /\ pc[o] \in {"read", "created"} /\ kind[o] = "charge"
  /\ IF Amount[o] > MaxCharge THEN EndTx(o)
                              ELSE RowFree(o) /\ Goto(o, "written")
  /\ UNCHANGED <<row, balance, ledger, key, seen>>

-----------------------------------------------------------------------------
(* _useTransaction and cancelPayment                                       *)

CancelBegin(o) ==
  /\ pc[o] = "idle" /\ kind[o] = "cancel"
  /\ Goto(o, "begun")
  /\ UNCHANGED <<row, balance, ledger, key, seen>>

\* Mutant: the balance is read without FOR UPDATE.
PlainRead(o) ==
  /\ pc[o] = "begun" /\ kind[o] # "charge"
  /\ IF row THEN seen' = [seen EXCEPT ![o] = balance] /\ Goto(o, "read")
            ELSE EndTx(o) /\ UNCHANGED seen
  /\ UNCHANGED <<row, balance, ledger, key>>

\* selectForUpdate waits for the row; no row is NOT_FOUND_USER_POINT.
ReadForUpdate(o) ==
  /\ pc[o] = "begun" /\ kind[o] # "charge"
  /\ RowFree(o)
  /\ IF row THEN seen' = [seen EXCEPT ![o] = balance] /\ Goto(o, "read")
            ELSE EndTx(o) /\ UNCHANGED seen
  /\ UNCHANGED <<row, balance, ledger, key>>

\* Mutant: off by one in NOT_ENOUGH_POINT.
EnoughButOne(o) == seen[o] + 1 >= Amount[o]

\* userPoint.use throws NOT_ENOUGH_POINT; refund never throws.
Enough(o) == seen[o] >= Amount[o]

\* The history row, the domain operation and the UPDATE of the locked row.
WriteLocked(o) ==
  /\ pc[o] = "read" /\ kind[o] # "charge"
  /\ IF kind[o] = "use" /\ ~Enough(o) THEN EndTx(o) ELSE Goto(o, "written")
  /\ UNCHANGED <<row, balance, ledger, key, seen>>

-----------------------------------------------------------------------------
\* What the call adds to the account.
Change(o) == IF kind[o] = "use" THEN -Amount[o] ELSE Amount[o]

\* History row and balance commit together.
Commit(o) ==
  /\ pc[o] = "written"
  /\ row' = TRUE
  /\ balance' = seen[o] + Change(o)
  /\ ledger' = ledger + Change(o)
  /\ EndTx(o)
  /\ UNCHANGED <<key, seen>>

Charge(o) == ChargeRead(o) \/ ChargeCreate(o) \/ ChargeWrite(o)
UseOrCancel(o) == CancelBegin(o) \/ ReadForUpdate(o) \/ WriteLocked(o)
WithLock(o) == Acquire(o) \/ ReplyLost(o) \/ GiveUp(o) \/ Release(o)

Step ==
  \/ \E o \in Ops :
       WithLock(o) \/ Charge(o) \/ UseOrCancel(o) \/ Commit(o) \/ Crash(o)
  \/ KeyExpires

Next == Step /\ UNCHANGED mix

Spec == Init /\ [][Next]_vars

-----------------------------------------------------------------------------
\* The balance is what its point histories add up to.
BalanceIsLedger == balance = ledger

Finished(o) == pc[o] \in {"release", "done"}

\* An update is only ever lost where a charge and, if calls finish within the TTL
\* of the key, a refund came together: payments and refunds alone lose nothing
\* however slow they are (row lock), nor do charges and payments that are fast
\* (Redis key).  The charge reads without a row lock, the refund takes no key.
LossHasCause ==
  ~BalanceIsLedger =>
    /\ \E o \in Ops : kind[o] = "charge" /\ Finished(o)
    /\ pace = "slow" \/ \E o \in Ops : kind[o] = "cancel" /\ Finished(o)

\* And it is always the charge that overwrites: a payment or a refund adds to the
\* balance just what it adds to the histories, whatever charges, expired keys and
\* crashes come between (use and cancelPayment keep the row from their read to
\* their COMMIT).
OnlyChargesOverwrite ==
  [][\A o \in Ops : Commit(o) /\ kind[o] # "charge" =>
       balance' - balance = ledger' - ledger]_vars

\* The Redis key is used as DistributedLock says, with the calls that take it.
Lock == INSTANCE DistributedLock WITH
  Clients <- Ops, inside <- {o \in Ops : InCritical(o)}, slow <- pace = "slow"

\* The transactions between acquire and release, their failures and crashes are
\* invisible to the lock: none of them takes or frees the key otherwise.
ImplementsLock == Lock!Spec
=============================================================================
