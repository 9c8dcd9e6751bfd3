CONSTANTS
  A = A
  Phone = {p}
  Img = {A}
  Total <- MCTotal
  Cells = 3
  ErasedCells = 3
  TxLen = 4
  ScanId = {}
  MaxRequests = 1
  MaxFaults = 1
  MaxResets = 0
SPECIFICATION PoliteSpec
PROPERTIES UploadCompletes
