SPECIFICATION FairSpec
CONSTANTS
  c1 = c1
  c2 = c2
  Tokens = {1, 2, 3}
  Callers = {c1, c2}
  Cases <- AllCases
  MaxActive = 1
INVARIANTS
  TypeOK
  NeverInBothQueues
  NoTokenLost
  FirstComeFirstServed
  OvershootBounded
PROPERTIES
  QueueMoves
CHECK_DEADLOCK FALSE
