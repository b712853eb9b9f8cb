CONSTANTS
  a1 = a1
  a2 = a2
  c1 = c1
  c2 = c2
  e1 = e1
  NoID = NoID
  EndpointIDs = {e1}
  Payloads <- TwoDeliveries
  Conns = {c1, c2}
  Apps = {a1, a2}
  WantID <- Wants
  AcceptBuffer = 1
  Setups <- WatchedSetup
  MaxMsgs = 3
  MaxLogins = 1
SPECIFICATION Spec
PROPERTIES HookCurrent
CHECK_DEADLOCK FALSE
