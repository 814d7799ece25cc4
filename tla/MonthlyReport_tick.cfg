SPECIFICATION Spec
CONSTANTS
  Admins = {a1, a2}
  Instances = {i1, i2}
  Orders = {o1}
  Amount <- EqualAmounts
  MonthLength = 4
  BangkokOffset = 1
  ServerOffset = 0
  TickOffset = 1
  Start = 94
  End = 101
  MaxFaults = 1
SYMMETRY Symmetry
INVARIANTS TypeOK NobodyForgotten LacksOnlyOpen
PROPERTIES LedgerKept
CHECK_DEADLOCK FALSE
