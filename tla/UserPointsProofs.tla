-------------------------- MODULE UserPointsProofs --------------------------
(***************************************************************************)
(* For any number of calls, amounts and mixes: nobody overspends, the key  *)
(* lets one call in while calls beat its TTL, and payments and refunds     *)
(* overwrite nothing, so that only a charge can lose another call's update *)
(* and only beside a refund or past its TTL.                               *)
(***************************************************************************)
EXTENDS UserPoints, TLAPS

Touched(o) == pc[o] \in {"missing", "created"}

\* While the key's owner is inside withLock nobody else is, as long as no call
\* outlasts the TTL (release deletes the key without asking whose it is).
OnlyOwnerInside ==
  pace = "fast" => \A o, p \in Ops : InCritical(o) /\ InCritical(p) => o = p

\* While handlers beat the TTL, the key stands for whoever is inside.
KeyHeld ==
  /\ pace = "fast" => \A o \in Ops : InCritical(o) => key
  /\ OnlyOwnerInside

\* A call that writes has passed its checks; only charge creates a row, only
\* calls under withLock release it, and a user without a row has no points.
Checked ==
  /\ \A o \in Ops : pc[o] = "written" /\ kind[o] = "use" => Enough(o)
  /\ \A o \in Ops : Touched(o) => kind[o] = "charge"
  /\ \A o \in Ops : pc[o] = "release" => kind[o] # "cancel"
  /\ ~row => balance = 0

\* The row lock: one transaction has it, and who has it since its read, or since
\* it inserted the row, knows the committed balance.  In any mix of calls.
RowLocked ==
  /\ \A o, p \in Ops : HoldsRow(o) /\ HoldsRow(p) => o = p
  /\ \A o \in Ops : HoldsRow(o) /\ (pc[o] = "created" \/ kind[o] # "charge")
       => seen[o] = balance

\* As long as no refund has finished, a charge that is fast knows it too: every
\* other call that could commit needs the key.
ChargesCurrent ==
  pace = "fast" /\ (\A o \in Ops : kind[o] = "cancel" => ~Finished(o)) =>
    \A o \in Ops : kind[o] = "charge" /\ pc[o] \in {"created", "read", "written"}
      => seen[o] = balance

Inv == TypeOK /\ KeyHeld /\ Checked /\ RowLocked /\ ChargesCurrent /\ LossHasCause

-----------------------------------------------------------------------------
LEMMA InitInv == Init => Inv
<1> SUFFICES ASSUME Init PROVE Inv
  OBVIOUS
<1>1. kind \in [Ops -> Kinds] /\ pace \in {"fast", "slow"}
  BY OpsAssumption DEF Init
<1>2. balance \in Nat /\ (~row => balance = 0)
  BY OpsAssumption DEF Init
<1>3. TypeOK /\ BalanceIsLedger
  <2>1. row \in BOOLEAN /\ key \in BOOLEAN
    BY DEF Init
  <2>2. ledger \in Int /\ BalanceIsLedger
    BY <1>2 DEF Init, BalanceIsLedger
  <2>3. pc \in [Ops -> PC] /\ seen \in [Ops -> Nat]
    BY DEF Init, PC
  <2> QED
    BY <1>1, <1>2, <2>1, <2>2, <2>3 DEF TypeOK
<1>4. Checked
  BY <1>2 DEF Init, Checked, Touched
<1>5. KeyHeld /\ RowLocked /\ ChargesCurrent
  BY DEF Init, KeyHeld, OnlyOwnerInside, InCritical, InTx, RowLocked, HoldsRow, ChargesCurrent
<1> QED
  BY <1>3, <1>4, <1>5 DEF Inv, LossHasCause

\* Who has finished stays so; an update that was lost stays lost for a reason.
LEMMA CauseStays ==
  ASSUME Inv, UNCHANGED <<mix, balance, ledger>>,
         \A o \in Ops : Finished(o) => Finished(o)'
  PROVE  LossHasCause'
BY DEF Inv, LossHasCause, BalanceIsLedger, mix

\* withLock
LEMMA LockStep ==
  ASSUME Inv, NEW o \in Ops, WithLock(o) \/ Crash(o), UNCHANGED mix
  PROVE  Inv'
<1> USE OpsAssumption DEF Inv, TypeOK, PC, Goto, mix
<1>1. TypeOK'
  BY DEF WithLock, Acquire, ReplyLost, GiveUp, Release, Crash
<1>2. KeyHeld'
  <2>1. CASE Acquire(o)
    BY <2>1 DEF Acquire, KeyHeld, OnlyOwnerInside, InCritical, InTx, NeedsLock
  <2>2. CASE Release(o)
    <3>1. InCritical(o)
      BY <2>2 DEF Release, InCritical, NeedsLock, Checked
    <3>2. ASSUME pace = "fast", NEW p \in Ops PROVE ~InCritical(p)'
      <4>1. CASE p = o
        BY <2>2, <4>1 DEF Release, InCritical, InTx
      <4>2. CASE p # o
        <5>1. ~InCritical(p)
          BY <3>1, <3>2, <4>2 DEF KeyHeld, OnlyOwnerInside
        <5> QED
          BY <2>2, <4>2, <5>1 DEF Release, InCritical, InTx, NeedsLock
      <4> QED
        BY <4>1, <4>2
    <3> QED
      BY <3>2 DEF KeyHeld, OnlyOwnerInside
  <2>3. CASE ReplyLost(o) \/ GiveUp(o) \/ Crash(o)
    BY <2>3 DEF ReplyLost, GiveUp, Crash, KeyHeld, OnlyOwnerInside, InCritical, InTx, NeedsLock
  <2> QED
    BY <2>1, <2>2, <2>3 DEF WithLock
<1>3. Checked'
  BY DEF WithLock, Acquire, ReplyLost, GiveUp, Release, Crash, Checked, Enough, Touched
<1>4. RowLocked'
  BY DEF WithLock, Acquire, ReplyLost, GiveUp, Release, Crash, RowLocked, HoldsRow
<1>5. ChargesCurrent'
  BY DEF WithLock, Acquire, ReplyLost, GiveUp, Release, Crash, ChargesCurrent, Finished, InTx
<1>6. LossHasCause'
  BY CauseStays DEF WithLock, Acquire, ReplyLost, GiveUp, Release, Crash, Finished, InTx
<1> QED
  BY <1>1, <1>2, <1>3, <1>4, <1>5, <1>6

LEMMA ExpiryStep ==
  ASSUME Inv, KeyExpires, UNCHANGED mix
  PROVE  Inv'
BY DEF Inv, KeyExpires, mix, TypeOK, KeyHeld, OnlyOwnerInside, InCritical, InTx, NeedsLock,
       Checked, Enough, Touched, RowLocked, HoldsRow, ChargesCurrent, Finished,
       LossHasCause, BalanceIsLedger

\* The statements of the transactions: a read, the creation, the UPDATE.
LEMMA StatementStep ==
  ASSUME Inv, NEW o \in Ops, Charge(o) \/ UseOrCancel(o), UNCHANGED mix
  PROVE  Inv'
<1> USE OpsAssumption DEF Inv, TypeOK, PC, Goto, mix, EndTx
<1>1. TypeOK'
  BY DEF Charge, ChargeRead, ChargeCreate, ChargeWrite, UseOrCancel, CancelBegin,
         ReadForUpdate, WriteLocked
<1>2. KeyHeld'
  BY DEF Charge, ChargeRead, ChargeCreate, ChargeWrite, UseOrCancel, CancelBegin,
         ReadForUpdate, WriteLocked, KeyHeld, OnlyOwnerInside, InCritical, InTx,
         NeedsLock
<1>3. Checked'
  BY DEF Charge, ChargeRead, ChargeCreate, ChargeWrite, UseOrCancel, CancelBegin,
         ReadForUpdate, WriteLocked, Checked, Enough, Touched, NeedsLock
<1>4. RowLocked'
  <2>1. CASE ChargeCreate(o) \/ ReadForUpdate(o)
    <3>1. \A p \in Ops \ {o} : ~HoldsRow(p)
      BY <2>1 DEF ChargeCreate, ReadForUpdate, RowFree
    <3> QED
      BY <2>1, <3>1 DEF ChargeCreate, ReadForUpdate, RowLocked, HoldsRow, Checked
  <2>2. CASE ChargeWrite(o)
    BY <2>2 DEF ChargeWrite, RowFree, RowLocked, HoldsRow
  <2>3. CASE ChargeRead(o) \/ CancelBegin(o) \/ WriteLocked(o)
    BY <2>3 DEF ChargeRead, CancelBegin, WriteLocked, RowLocked, HoldsRow
  <2> QED
    BY <2>1, <2>2, <2>3 DEF Charge, UseOrCancel
<1>5. ChargesCurrent'
  BY DEF Charge, ChargeRead, ChargeCreate, ChargeWrite, UseOrCancel, CancelBegin,
         ReadForUpdate, WriteLocked, ChargesCurrent, Finished, Checked
<1>6. LossHasCause'
  BY CauseStays DEF Charge, ChargeRead, ChargeCreate, ChargeWrite, UseOrCancel, CancelBegin,
         ReadForUpdate, WriteLocked, Finished
<1> QED
  BY <1>1, <1>2, <1>3, <1>4, <1>5, <1>6

\* A call that commits holds the row, and knows the balance unless it is a charge.
LEMMA CommitIsCurrent ==
  ASSUME Inv, NEW o \in Ops, Commit(o), kind[o] # "charge"
  PROVE  seen[o] = balance
BY DEF Inv, Commit, RowLocked, HoldsRow

\* COMMIT: the only step that moves money.
LEMMA CommitStep ==
  ASSUME Inv, NEW o \in Ops, Commit(o), UNCHANGED mix
  PROVE  Inv'
<1> USE OpsAssumption DEF Inv, TypeOK, PC, Goto, mix, EndTx, Commit
<1>1. /\ Amount[o] \in Nat /\ seen[o] \in Nat /\ ledger \in Int /\ balance \in Nat
      /\ Change(o) \in Int
  <2>1. Amount[o] \in Nat
    OBVIOUS
  <2>2. Change(o) \in Int
    BY <2>1 DEF Change
  <2> QED
    BY <2>1, <2>2
<1>2. seen[o] + Change(o) \in Nat
  <2>1. CASE kind[o] = "use"
    <3>1. seen[o] >= Amount[o]
      BY <2>1 DEF Checked, Enough
    <3> QED
      BY <1>1, <2>1, <3>1 DEF Change
  <2>2. CASE kind[o] # "use"
    BY <1>1, <2>2 DEF Change
  <2> QED
    BY <2>1, <2>2
<1>3. TypeOK'
  <2>1. balance' \in Nat
    BY <1>2
  <2>2. ledger' \in Int
    BY <1>1
  <2>3. row' \in BOOLEAN /\ pc' \in [Ops -> PC]
    OBVIOUS
  <2> QED
    BY <2>1, <2>2, <2>3
<1>4. KeyHeld'
  BY DEF KeyHeld, OnlyOwnerInside, InCritical, InTx, NeedsLock
<1>5. Checked'
  BY DEF Checked, Enough, Touched, NeedsLock
<1>6. RowLocked'
  <2>1. \A p \in Ops \ {o} : ~HoldsRow(p)
    BY DEF RowLocked, HoldsRow
  <2>2. \A p \in Ops : ~HoldsRow(p)'
    <3>1. \A p \in Ops \ {o} : pc'[p] = pc[p]
      OBVIOUS
    <3>2. pc'[o] \in {"release", "done"}
      OBVIOUS
    <3> QED
      BY <2>1, <3>1, <3>2 DEF HoldsRow
  <2> QED
    BY <2>2 DEF RowLocked
<1>7. Finished(o)' /\ \A p \in Ops : Finished(p) => Finished(p)'
  BY DEF Finished
<1>8. ChargesCurrent'
  <2> SUFFICES ASSUME pace = "fast", kind[o] # "cancel", NEW p \in Ops,
                      kind[p] = "charge", pc'[p] \in {"created", "read", "written"}
               PROVE  FALSE
    BY <1>7 DEF ChargesCurrent
  <2>1. p # o
    OBVIOUS
  <2>2. pc[p] \in {"created", "read", "written"}
    BY <2>1
  <2> QED
    BY <2>1, <2>2 DEF KeyHeld, OnlyOwnerInside, InCritical, InTx, NeedsLock
<1>9. LossHasCause'
  <2>1. CASE seen[o] = balance
    <3>1. BalanceIsLedger' => BalanceIsLedger
      BY <1>1, <2>1 DEF BalanceIsLedger
    <3>2. BalanceIsLedger => BalanceIsLedger'
      BY <1>1, <2>1 DEF BalanceIsLedger
    <3> QED
      BY <1>7, <3>1, <3>2 DEF LossHasCause
  <2>2. CASE seen[o] # balance
    <3>1. kind[o] = "charge"
      BY <2>2, CommitIsCurrent
    <3>2. pace = "slow" \/ \E p \in Ops : kind[p] = "cancel" /\ Finished(p)
      BY <2>2, <3>1 DEF ChargesCurrent
    <3> QED
      BY <1>7, <3>1, <3>2 DEF LossHasCause
  <2> QED
    BY <2>1, <2>2
<1> QED
  BY <1>3, <1>4, <1>5, <1>6, <1>8, <1>9

LEMMA NextInv == Inv /\ [Next]_vars => Inv'
<1>1. CASE UNCHANGED vars
  BY <1>1 DEF vars, mix, Inv, TypeOK, KeyHeld, OnlyOwnerInside, InCritical, InTx, NeedsLock,
              Checked, Enough, Touched, RowLocked, HoldsRow, ChargesCurrent, Finished,
              LossHasCause, BalanceIsLedger
<1>2. CASE Next
  BY <1>2, LockStep, ExpiryStep, StatementStep, CommitStep DEF Next, Step
<1> QED
  BY <1>1, <1>2

-----------------------------------------------------------------------------
LEMMA Invariance == Spec => []Inv
BY InitInv, NextInv, PTL DEF Spec

\* Every value stays in its domain, in any mix of calls: balances never become
\* negative (NOT_ENOUGH_POINT), not even when updates are lost.
THEOREM TypeCorrect == Spec => []TypeOK
<1>1. Inv => TypeOK
  BY DEF Inv
<1> QED
  BY <1>1, Invariance, PTL

\* An update is lost only where a charge met a refund, or outlasted its key
\* (payment.service.ts).
THEOREM LossExplained == Spec => []LossHasCause
<1>1. Inv => LossHasCause
  BY DEF Inv
<1> QED
  BY <1>1, Invariance, PTL

\* The mixes of calls the locks protect: payments and refunds (row lock), or
\* charges and payments that finish within the TTL of the key (Redis lock).
ProtectedMix ==
  \/ \A o \in Ops : kind[o] # "charge"
  \/ pace = "fast" /\ \A o \in Ops : kind[o] # "cancel"

\* There the balance is always the sum of the histories.
THEOREM NoLostUpdate == Spec => [](ProtectedMix => BalanceIsLedger)
<1>1. LossHasCause => (ProtectedMix => BalanceIsLedger)
  BY DEF LossHasCause, ProtectedMix
<1> QED
  BY <1>1, LossExplained, PTL

\* In any mix, payments and refunds overwrite nothing: an update can only be
\* lost to a charge (_chargeTransaction reads without FOR UPDATE).
THEOREM ChargesAlone == Spec => OnlyChargesOverwrite
<1>1. ASSUME Inv, NEW o \in Ops, Commit(o), kind[o] # "charge"
      PROVE  balance' - balance = ledger' - ledger
  <2>1. seen[o] = balance
    BY <1>1, CommitIsCurrent
  <2>2. balance \in Int /\ ledger \in Int /\ Change(o) \in Int
    BY <1>1, OpsAssumption DEF Inv, TypeOK, Change
  <2> QED
    BY <1>1, <2>1, <2>2 DEF Commit
<1>2. Inv /\ [Next]_vars =>
        [\A o \in Ops : Commit(o) /\ kind[o] # "charge" =>
           balance' - balance = ledger' - ledger]_vars
  BY <1>1
<1> QED
  BY Invariance, <1>2, PTL DEF Spec, OnlyChargesOverwrite

\* The lock keeps others out as long as no call outlives the TTL of its key
\* (distributed-lock.service.ts).
THEOREM LockExcludes == Spec => []OnlyOwnerInside
<1>1. Inv => OnlyOwnerInside
  BY DEF Inv, KeyHeld
<1> QED
  BY <1>1, Invariance, PTL

-----------------------------------------------------------------------------
\* What the refinement of the lock rests on, in any mix of calls: only a call
\* that took the key frees it.
LockTypes ==
  /\ key \in BOOLEAN
  /\ DOMAIN pc = Ops
  /\ \A o \in Ops : pc[o] = "release" => NeedsLock(o)

LEMMA LockTypesInductive ==
  /\ Init => LockTypes
  /\ LockTypes /\ [Next]_vars => LockTypes'
<1>1. Init => LockTypes
  BY DEF Init, LockTypes
<1>2. ASSUME LockTypes, [Next]_vars PROVE LockTypes'
  <2> USE <1>2 DEF LockTypes, Goto, EndTx, NeedsLock, mix
  <2>1. CASE UNCHANGED vars
    BY <2>1 DEF vars
  <2>2. ASSUME NEW o \in Ops, WithLock(o) \/ Crash(o), UNCHANGED mix PROVE LockTypes'
    BY <2>2 DEF WithLock, Acquire, ReplyLost, GiveUp, Release, Crash
  <2>3. ASSUME NEW o \in Ops, Charge(o) \/ UseOrCancel(o) \/ Commit(o), UNCHANGED mix
        PROVE  LockTypes'
    BY <2>3 DEF Charge, ChargeRead, ChargeCreate, ChargeWrite, UseOrCancel,
                CancelBegin, ReadForUpdate, WriteLocked, Commit
  <2>4. CASE KeyExpires /\ UNCHANGED mix
    BY <2>4 DEF KeyExpires
  <2> QED
    BY <2>1, <2>2, <2>3, <2>4 DEF Next, Step
<1> QED
  BY <1>1, <1>2

\* Charging and paying use the Redis key as DistributedLock says, whatever
\* calls come together and however slow they are: nothing else takes it, and
\* only whoever took it, or its TTL, frees it.
THEOREM LockRefined == Spec => ImplementsLock
<1> DEFINE Inside == {o \in Ops : InCritical(o)}
<1>1. Init => Lock!Init
  BY OpsAssumption DEF Init, Lock!Init, InCritical, InTx
<1>2. ASSUME LockTypes, [Next]_vars PROVE [Lock!Next]_(Lock!vars)
  <2> USE <1>2 DEF LockTypes, mix, Goto
  <2>1. CASE UNCHANGED vars
    BY <2>1 DEF vars, Lock!vars, InCritical, InTx, NeedsLock
  <2>2. ASSUME NEW o \in Ops, WithLock(o) \/ Crash(o), UNCHANGED mix
        PROVE  [Lock!Next]_(Lock!vars)
    <3>1. CASE Acquire(o)
      <4>1. Inside' = Inside \cup {o} /\ o \notin Inside
        BY <2>2, <3>1 DEF Acquire, InCritical, InTx, NeedsLock
      <4>2. Lock!Acquire(o)
        BY <2>2, <3>1, <4>1 DEF Acquire, Lock!Acquire
      <4> QED
        BY <4>2 DEF Lock!Next
    <3>2. CASE Release(o)
      <4>1. Inside' = Inside \ {o} /\ o \in Inside
        BY <2>2, <3>2 DEF Release, InCritical, InTx, NeedsLock
      <4>2. Lock!Release(o)
        BY <2>2, <3>2, <4>1 DEF Release, Lock!Release
      <4> QED
        BY <4>2 DEF Lock!Next
    <3>3. CASE Crash(o)
      <4>1. Inside' = Inside \ {o}
        BY <2>2, <3>3 DEF Crash, InCritical, InTx, NeedsLock
      <4>2. CASE o \in Inside
        <5>1. Lock!Abandon(o)
          BY <2>2, <3>3, <4>1, <4>2 DEF Crash, Lock!Abandon
        <5> QED
          BY <5>1 DEF Lock!Next
      <4>3. CASE o \notin Inside
        BY <2>2, <3>3, <4>1, <4>3 DEF Crash, Lock!vars
      <4> QED
        BY <4>2, <4>3
    <3>4. CASE ReplyLost(o)
      <4>1. Lock!ReplyLost
        BY <2>2, <3>4 DEF ReplyLost, Lock!ReplyLost, InCritical, InTx, NeedsLock
      <4> QED
        BY <4>1 DEF Lock!Next
    <3>5. CASE GiveUp(o)
      <4>1. Inside' = Inside
        BY <2>2, <3>5 DEF GiveUp, InCritical, InTx, NeedsLock
      <4> QED
        BY <2>2, <3>5, <4>1 DEF GiveUp, Lock!vars
    <3> QED
      BY <2>2, <3>1, <3>2, <3>3, <3>4, <3>5 DEF WithLock
  <2>3. ASSUME NEW o \in Ops, Charge(o) \/ UseOrCancel(o) \/ Commit(o), UNCHANGED mix
        PROVE  UNCHANGED Lock!vars
    <3>1. \A p \in Ops : InCritical(p)' <=> InCritical(p)
      BY <2>3 DEF Charge, ChargeRead, ChargeCreate, ChargeWrite, UseOrCancel,
                  CancelBegin, ReadForUpdate, WriteLocked, Commit, InCritical,
                  InTx, NeedsLock, EndTx
    <3>2. Inside' = Inside
      BY <2>3, <3>1 DEF InCritical, NeedsLock
    <3>3. key' = key
      BY <2>3 DEF Charge, ChargeRead, ChargeCreate, ChargeWrite, UseOrCancel,
                  CancelBegin, ReadForUpdate, WriteLocked, Commit
    <3> QED
      BY <2>3, <3>2, <3>3 DEF Lock!vars
  <2>4. CASE KeyExpires /\ UNCHANGED mix
    <3>1. Lock!Expire
      BY <2>4 DEF KeyExpires, Lock!Expire, InCritical, InTx, NeedsLock
    <3> QED
      BY <3>1 DEF Lock!Next
  <2> QED
    BY <2>1, <2>2, <2>3, <2>4 DEF Next, Step
<1> QED
  BY <1>1, <1>2, LockTypesInductive, PTL DEF Spec, ImplementsLock, Lock!Spec
=============================================================================
