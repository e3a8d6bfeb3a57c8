SPECIFICATION Spec
CONSTANTS
  Tasks = {t1, t2}
  Values = {v1}
  Erased = erased
  None = none
  Size = 1
  MaxTransfer = 1
  Threshold = 2
  TotalCount = 4
  Ranges <- OneAddress
SYMMETRY Symmetry
INVARIANTS
  HealthAlwaysTracks
