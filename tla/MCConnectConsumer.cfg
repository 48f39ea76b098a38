SPECIFICATION Spec
CONSTANTS
  c1 = c1
  c2 = c2
  IsProducer = FALSE
  Callers = {c1, c2}
  Retries = 2
  MaxConnects = 2
SYMMETRY Symmetry
INVARIANTS
  TypeOK
  DisconnectedForGood
  SerdesFollowClient
  AttemptsBounded
CHECK_DEADLOCK FALSE
