SPECIFICATION FairSpec
CONSTANTS
  c1 = c1
  c2 = c2
  IsProducer = TRUE
  Callers = {c1, c2}
  Retries = 2
  MaxConnects = 2
INVARIANTS
  OneLiveClient
  
PROPERTIES
  DisconnectSettles
  ConnectSettles
CHECK_DEADLOCK FALSE
