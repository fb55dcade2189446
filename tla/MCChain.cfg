SPECIFICATION FairSpec
CONSTANTS
  b1 = b1
  b2 = b2
  b3 = b3
  None = None
  Blocks <- MCBlocks
  Ymls <- MCYmls
  MaxElements = 2
CHECK_DEADLOCK FALSE
INVARIANTS
  TypeOK
  OkMeansWholePath
  NoBlockTwice
  DataFlow
  StopsAtFailure
  DebugTrace
PROPERTY
  ChainAnswers
