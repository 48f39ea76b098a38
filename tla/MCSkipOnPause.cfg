SPECIFICATION Spec
CONSTANTS
  p1 = p1
  p2 = p2
  w1 = w1
  w2 = w2
  t1 = t1
  t2 = t2
  t3 = t3
  NoPpc = NoPpc
  Partitions = {p1, p2}
  Workers = {w1, w2}
  Tags = {t1, t2, t3}
  Offsets <- MCOffsets
  LogEnd = 2
  EachBatch = FALSE
  AutoResolve = TRUE
  AutoCommit = FALSE
  Deserializers = FALSE
  Eager = FALSE
  MaxBatchSize = 1
  MaxFetch = 2
  InitAssignment = {p1, p2}
  UserOps = {"pause", "resume"}
  SeekOffsets = {0}
  MaxUserOps = 2
  MaxFailures = 0
  MaxExpiries = 0
  MaxRebalances = 0
  MaxStateErrors = 0
SYMMETRY Symmetry
INVARIANTS
  AtLeastOnce
