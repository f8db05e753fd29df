CONSTANTS
  CrcNext <- MCSumNext
  TxDepth = 64
  Requests <- LongRead
  Backlog = 0
  ResetWhileSending = FALSE
  CtsFree = FALSE
SPECIFICATION FairSpec
INVARIANTS NoWriteWhenFull
