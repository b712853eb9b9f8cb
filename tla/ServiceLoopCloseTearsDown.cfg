CONSTANTS
  u1 = u1
  u2 = u2
  Closers = {u1, u2}
  MaxControls = 2
  MaxFails = 1
SPECIFICATION Spec
INVARIANT CloseTearsDown
CHECK_DEADLOCK FALSE
