SPECIFICATION FairSpec
CONSTANTS
  c1 = c1
  c2 = c2
  IsProducer = FALSE
  Callers = {c1, c2}
  Retries = 0
  MaxConnects = 1
PROPERTIES
  DisconnectSettles
CHECK_DEADLOCK FALSE
