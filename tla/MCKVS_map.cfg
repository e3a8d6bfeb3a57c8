CONSTANTS
  Tasks = {t1, t2}
  Keys = {k1, k2}
  Data = {d1}
  MaxLen = 1
  Size = 8
  Absent = Absent
  None = None
SPECIFICATION Spec
SYMMETRY Symmetry
INVARIANTS TypeOK MutexHeldOnlyInside RestartFindsLog NoSpaceLost OneBadCellHidesOnlyLater
PROPERTY ImplementsMap
