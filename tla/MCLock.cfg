SPECIFICATION FairSpec
CONSTANTS
  s1 = s1
  s2 = s2
  s3 = s3
  f1 = f1
  f2 = f2
  Stacks = {s1, s2, s3}
  Frames = {f1, f2}
  Nested <- SameMode
INVARIANTS
  TypeOK
  Exclusion
  NoLostWakeup

  
CHECK_DEADLOCK FALSE
