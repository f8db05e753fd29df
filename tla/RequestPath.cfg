CONSTANTS
  CrcNext <- MCCrcNext
  TimeoutLimit = 2
  EnableTimeout = TRUE
  IdleBytes <- MCIdleBytes
  CmdBytes <- MCCmdBytes
  AddrBytes <- MCAddrBytes
  DataBytes <- MCDataBytes
  AxiStatuses <- MCAxiStatuses
  AxiPayloads <- MCAxiPayloads
  LateBytes = FALSE
  CutResets = FALSE
SPECIFICATION FairSpec
INVARIANTS BridgeTypeOK AxiSeesTheFrame ParserHeldWhileServing BuilderFreeWhenAsked
           ResetCutsNothing OneVerdict
PROPERTIES FrameServiceImplemented ParserEventuallyIdle
