SPECIFICATION Spec
CONSTANTS
  Writers = {w1}
  Readers = {r1}
  Parts = {p1}
  Garbage = garbage
  None = none
  NotFound = notfound
  Failed = failed
  SeqCount = 16
  MaxSeq = 3
  ReadFaults = TRUE
SYMMETRY Symmetry
PROPERTIES
  WritesOlderCopy
