CONSTANTS
  CrcNext <- MCCrcNext
  TimeoutLimit = 2
  EnableTimeout = TRUE
  IdleBytes <- MCIdleBytes
  CmdBytes <- MCCmdBytes
  AddrBytes <- MCAddrBytes
  DataBytes <- MCDataBytes
  AxiStatuses <- MCAxiStatuses
  AxiPayloads <- MCAxiPayloads
  LateBytes = FALSE
  CutResets = TRUE
SPECIFICATION FairSpec
PROPERTY TimeoutRecovers
