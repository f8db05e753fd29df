CONSTANTS
  CrcNext <- MCCrcNext
  AxiTimeout = 4
  EarlyBusyThreshold = 1
  AddrSpace = 8
  Commands <- MCCommands
  Cells <- MCCells
  SlaveDepth = 1
SPECIFICATION FairSpec
INVARIANTS MasterTypeOK OkMeansDone WritesStayInside
PROPERTIES PortImplemented AxiEventuallyDone
