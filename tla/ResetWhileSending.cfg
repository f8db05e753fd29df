CONSTANTS
  CrcNext <- MCCrcNext
  TxDepth = 14
  Requests <- MCRequests
  Backlog = 0
  ResetWhileSending = TRUE
  CtsFree = FALSE
SPECIFICATION FairSpec
PROPERTIES FifoSelfDrains
