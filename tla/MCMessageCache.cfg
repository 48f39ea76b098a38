SPECIFICATION Spec
CONSTANTS
  p1 = p1
  p2 = p2
  w1 = w1
  w2 = w2
  t1 = t1
  t2 = t2
  t3 = t3
  NoPpc = NoPpc
  Partitions = {p1, p2}
  Workers = {w1, w2}
  Tags = {t1, t2, t3}
  Offsets <- MCOffsets
  BatchSizes <- MCBatchSizes
  MaxFetch = 2
SYMMETRY Symmetry
INVARIANTS
  TypeOK
  ListsMatchMap
  ExclusiveHolder
  SizeIsSum
  GaplessUpToPosition
  NoLostWakeup
