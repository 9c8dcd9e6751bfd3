CONSTANTS
  A = A
  Phone = {p}
  Img = {A, B}
  Total <- MCTotal
  Cells = 3
  ErasedCells = 3
  TxLen = 4
  ScanId = {}
  MaxRequests = 2
  MaxFaults = 0
  MaxResets = 0
SPECIFICATION PoliteSpec
PROPERTIES BeginAnswered
CHECK_DEADLOCK FALSE
