CONSTANTS
  A = A
  Phone = {p, q}
  Img = {A, B}
  Total <- MCTotal
  Cells = 3
  ErasedCells = 3
  TxLen = 4
  ScanId = {}
  MaxRequests = 1
  MaxFaults = 0
  MaxResets = 0
SPECIFICATION Spec
INVARIANTS ImageIntegrity
