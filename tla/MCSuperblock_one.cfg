SPECIFICATION Spec
CONSTANTS
  Writers = {w1}
  Readers = {r1}
  Parts = {p1, p2}
  Garbage = garbage
  None = none
  NotFound = notfound
  Failed = failed
  SeqCount = 16
  MaxSeq = 4
  ReadFaults = FALSE
SYMMETRY Symmetry
INVARIANTS
  TypeOK
  AckedSurvives
  CopiesConsecutive
PROPERTIES
  WritesOlderCopy
  SeqBumped
  ReadsAreFresh
