CONSTANTS
  CrcNext <- MCCrcNext
  TxDepth = 14
  Requests <- MCRequests
  Backlog = 4
  ResetWhileSending = TRUE
  CtsFree = TRUE
SPECIFICATION FairSpec
INVARIANTS ResponseTypeOK NoWriteWhenFull BytesAccountedFor FeedHungIffCut
PROPERTIES HostReadsTheReply LineKeepsMoving
