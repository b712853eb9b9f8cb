CONSTANTS
  a1 = a1
  a2 = a2
  c1 = c1
  c2 = c2
  e1 = e1
  NoID = NoID
  EndpointIDs = {e1}
  Payloads <- AllDeliveries
  Conns = {c1, c2}
  Apps = {a1, a2}
  WantID <- Wants
  AcceptBuffer = 1
  Setups <- AllSetups
  MaxMsgs = 3
  MaxLogins = 1
SPECIFICATION Spec
INVARIANTS OneOwner CloseDrains ExecInSync
PROPERTIES ConnSettles ListenServed
CHECK_DEADLOCK FALSE
