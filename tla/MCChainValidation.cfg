SPECIFICATION FairSpec
CONSTANTS
  b1 = b1
  b2 = b2
  b3 = b3
  f1 = f1
  f2 = f2
  None = None
  Blocks <- MCBlocks
  Folders <- MCFolders
  Ymls <- MCYmls
  MaxPaths = 3
CHECK_DEADLOCK FALSE
INVARIANTS
  TypeOK
  LoopsAreFound
  ChecksMeanValid
PROPERTY
  ChecksEnd
