SPECIFICATION Spec
CONSTANTS
  o1 = o1
  o2 = o2
  o3 = o3
  Ops = {o1, o2, o3}
  Amount <- TwoOneOne
  MaxCharge = 1
  Funds = 3
  Mixes <- AllMixes
INVARIANTS
  TypeOK
  LossHasCause
PROPERTIES
  OnlyChargesOverwrite
  ImplementsLock
CHECK_DEADLOCK FALSE
