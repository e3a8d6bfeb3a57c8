SPECIFICATION FairSpec
CONSTANTS
  Tasks = {t1, t2}
  Empty = empty
  Payloads = {empty, p1}
  Garbage = garbage
  None = none
  Unknown = unknown
  SlotCount = 2
  VersionMod = 16
  MaxVersion = 3
  ReadFaults = {{}}
  CallsAcrossDeinit = FALSE
INVARIANTS
  TypeOK
  LatestWins
  ActiveSlotIntact
  SurvivesOneBadSlot
  MutexHeldOnlyInside
PROPERTIES
  LoadsAreFresh
  ImplementsCell
  EveryCallReturns
