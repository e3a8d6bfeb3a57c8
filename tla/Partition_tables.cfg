CONSTANTS
  Tasks = {t1}
  W = 5
  MaxPart = 2
  Chunk = 2
  None = None
SPECIFICATION Spec
INVARIANTS TypeOK PartitionsDisjoint AccessStaysInside EraseCovers
PROPERTY ReadonlyKeepsContent
