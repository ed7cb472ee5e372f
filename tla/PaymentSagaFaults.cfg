SPECIFICATION Spec
CONSTANTS
  t1 = t1
  t2 = t2
  a = a
  b = b
  u = u
  c1 = c1
  c2 = c2
  NoTx = NoTx
  NoMsg = NoMsg
  Users = {u}
  Reservations = {a}
  Txs = {t1, t2}
  UserOf <- OneUser
  ResvOf <- ForA
  TokenOf <- ForA
  Funds = 2
  Consumers = {c1, c2}
  Budgets <- AnyFault
SYMMETRY Symmetry
INVARIANTS
  NoFreeSeat
  LossNeverChargesTwice
  LossNeverMisleads
PROPERTIES
  StatusOrder
CHECK_DEADLOCK FALSE
