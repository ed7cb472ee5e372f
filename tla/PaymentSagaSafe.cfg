SPECIFICATION FairSpec
CONSTANTS
  t1 = t1
  t2 = t2
  a = a
  b = b
  u = u
  c1 = c1
  c2 = c2
  NoTx = NoTx
  NoMsg = NoMsg
  Users = {u}
  Reservations = {a, b}
  Txs = {t1, t2}
  UserOf <- OneUser
  ResvOf <- ForA
  TokenOf <- ForAAndB
  Funds = 2
  Consumers = {c1, c2}
  Budgets <- NoFaults
INVARIANTS
  TypeOK
  PaidIffOwned
  LosersAreTold
PROPERTIES
  PaymentConcludes
  ImplementsSale
CHECK_DEADLOCK FALSE
