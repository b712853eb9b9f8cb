SPECIFICATION Spec
CONSTANTS
  m1 = m1
  m2 = m2
  m3 = m3
  m4 = m4
  Reqs = {m1, m2, m3, m4}
  Scripts <- SomeScripts
  QueueCap = 1
  Indexes = {0}
INVARIANTS AnswerKept SeesItsPrefix
PROPERTIES ReaderGoesOn TearsDown RunnersEnd
CHECK_DEADLOCK FALSE
