SPECIFICATION Spec
CONSTANTS
  Tasks = {t1}
  Empty = empty
  Payloads = {empty, p1}
  Garbage = garbage
  None = none
  Capacity = 3
  SeqCount = 16
  MaxSeq = 4
  ReadFaults = {{}}
  Nested = FALSE
PROPERTIES
  OverwritesOnlyOldest
  ImplementsLog
