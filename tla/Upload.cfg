CONSTANTS
  A = A
  Phone = {p}
  Img = {A, B}
  Total <- MCTotal
  Cells = 3
  ErasedCells = 3
  TxLen = 2
  ScanId = {2}
  MaxRequests = 2
  MaxFaults = 1
  MaxResets = 2
SPECIFICATION Spec
INVARIANTS TypeOK ImageIntegrity FlagsHonest OwnSession NeverGarbage InsistsOnMissing
PROPERTIES ImplementsUpdate CommitCarriedOut
