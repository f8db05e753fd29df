CONSTANTS
  CrcNext <- MCCrcNext
  HostCrcNext <- MCHostCrcNext
  Addresses <- MCAddresses
  Cleared <- MCCleared
  InitialRegs <- MCInitialRegs
  Ops <- MCOps
  NoiseBytes <- MCNoiseBytes
  MaxCalls = 3
  MaxFaults = 1
  NoOp = NoOp
  NoResult = NoResult
SPECIFICATION FairSpec
PROPERTY ReadReturnsRegister
