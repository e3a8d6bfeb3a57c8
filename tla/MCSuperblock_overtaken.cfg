SPECIFICATION Spec
CONSTANTS
  Writers = {w1}
  Readers = {r1}
  Parts = {p1}
  Garbage = garbage
  None = none
  NotFound = notfound
  Failed = failed
  SeqCount = 16
  MaxSeq = 4
  ReadFaults = FALSE
SYMMETRY Symmetry
PROPERTIES
  NotFoundMeansNone
