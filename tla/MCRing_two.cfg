SPECIFICATION FairSpec
CONSTANTS
  Tasks = {t1, t2}
  Empty = empty
  Payloads = {p1}
  Garbage = garbage
  None = none
  Capacity = 2
  SeqCount = 16
  MaxSeq = 3
  ReadFaults = {{}}
  Nested = TRUE
INVARIANTS
  TypeOK
  RecoveryKeepsLog
  IterationFollowsLog
  MutexHeldOnlyInside
PROPERTIES
  PeeksAreFresh
  EveryCallReturns
