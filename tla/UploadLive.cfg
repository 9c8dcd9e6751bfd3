CONSTANTS
  A = A
  Phone = {p}
  Img = {A, B}
  Total <- MCTotal
  Cells = 3
  ErasedCells = 3
  TxLen = 4
  ScanId = {2}
  MaxRequests = 3
  MaxFaults = 0
  MaxResets = 2
SPECIFICATION PoliteSpec
PROPERTIES UploadCompletes CommitInstalls
