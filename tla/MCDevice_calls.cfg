SPECIFICATION Spec
CONSTANTS
  Tasks = {t1, t2}
  Values = {v1}
  Erased = erased
  None = none
  Size = 3
  MaxTransfer = 2
  Threshold = 2
  TotalCount = 3
  Ranges <- SomeRanges
SYMMETRY Symmetry
INVARIANTS
  TypeOK
  HealthTracksStreak
  ErrorsCounted
PROPERTIES
  TransfersAreAtomic
