SPECIFICATION Spec
CONSTANTS
  Tasks = {t1}
  Empty = empty
  Payloads = {p1, p2}
  Garbage = garbage
  None = none
  Unknown = unknown
  SlotCount = 2
  VersionMod = 16
  MaxVersion = 3
  ReadFaults = {{}, {0, 1}}
  CallsAcrossDeinit = FALSE
PROPERTIES
  SaveTakesEffect
