CONSTANTS
  LoopIters = 2
  MaxBytes = 64
  OffsetUpper = 32768
  Jobs <- MCJobs
  Ops <- MCOps
  ChunkBytes = 10
  Changes <- MCChanges
  MaxFaults = 2
SPECIFICATION FairSpec
INVARIANTS ImageTypeOK EncodingIsDecoded LoadedImageIsIntact
PROPERTIES ResultsAreExpected LightsWalk
CHECK_DEADLOCK FALSE
