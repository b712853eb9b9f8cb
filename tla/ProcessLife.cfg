SPECIFICATION Spec
CONSTANTS
  s1 = s1
  s2 = s2
  u1 = u1
  u2 = u2
  None = None
  p1 = p1
  p2 = p2
  Pids = {p1, p2}
  Sessions = {s1, s2}
  Discoveries = {s2}
  Updaters = {u1, u2}
  MaxEnds = 2
SYMMETRY Alike
INVARIANTS ChildRecorded OrphanFound ExeWhole
CHECK_DEADLOCK FALSE
