CONSTANTS
  c1 = c1
  c2 = c2
  Hello = Hello
  Callers = {c1, c2}
  ClientID <- SameID
  MaxLines = 3
SPECIFICATION Spec
INVARIANTS AnswerIsOwn SendIsSafe
PROPERTIES ImplementsCallReturn CallEnds
CHECK_DEADLOCK FALSE
