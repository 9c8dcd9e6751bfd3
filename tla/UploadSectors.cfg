CONSTANTS
  A = A
  Phone = {p}
  Img = {B, C}
  Total <- MCTotal
  Cells = 3
  ErasedCells = 2
  TxLen = 4
  ScanId = {}
  MaxRequests = 2
  MaxFaults = 0
  MaxResets = 0
SPECIFICATION Spec
INVARIANTS ImageIntegrity
CHECK_DEADLOCK FALSE
