SPECIFICATION Spec
CONSTANTS
  p1 = p1
  p2 = p2
  w1 = w1
  w2 = w2
  t1 = t1
  t2 = t2
  t3 = t3
  NoPpc = NoPpc
  Partitions = {p1, p2}
  Workers = {w1, w2}
  Tags = {t1, t2, t3}
  Offsets <- MCOffsets
  LogEnd = 2
  EachBatch = TRUE
  AutoResolve = TRUE
  AutoCommit = TRUE
  Deserializers = FALSE
  Eager = FALSE
  MaxBatchSize <- MCUnbounded
  MaxFetch = 2
  InitAssignment = {p1, p2}
  UserOps = {"seek", "pause", "resume"}
  SeekOffsets = {0, 2}
  MaxUserOps = 1
  MaxFailures = 1
  MaxExpiries = 1
  MaxRebalances = 0
  MaxStateErrors = 1
SYMMETRY Symmetry
INVARIANTS
  NoMessageSkipped
  
