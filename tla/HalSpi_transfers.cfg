CONSTANTS
  ChipSize = 5
  Values = {v1, v2}
  MaxTransfer = 3
  BufMax = 2
  None = None
SPECIFICATION Spec
INVARIANTS TypeOK BusOwnership
PROPERTY TransferStoresPrefix
