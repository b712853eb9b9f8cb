CONSTANTS
  u1 = u1
  u2 = u2
  Closers = {u1, u2}
  MaxControls = 2
  MaxFails = 1
SPECIFICATION FairSpec
INVARIANTS OneSession EndIsTold
PROPERTIES ReconnectCount NoDialAfterMark LossRepaired CancelEnds
CHECK_DEADLOCK FALSE
