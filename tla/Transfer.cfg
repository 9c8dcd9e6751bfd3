CONSTANTS
  A = A
  B = B
  C = C
  Img = {A, B, C}
  Length <- MCLength
  Package <- MCPackage
  ForeignId <- MCForeignId
  OtherSize = {1}
  MaxTimeouts = 1
  AreaSize = 8
  HeaderSize = 1
  SectorSize = 2
  Block = 4
SPECIFICATION Spec
INVARIANTS TypeOK BytesInPlace MarkedWhole MarkedFits ScratchIsBuffer
