CONSTANTS
  Cells <- MCCells
  RestartCycles = 2
  BreakCycles = 3
  Scripts = {"led_blink", "c_blink", "computation", "regfile_dump"}
  Programs <- MCPrograms
  Patterns <- MCPatterns
  NumRegs = 2
  OldMemory <- MCOldMemory
  Leftovers <- MCLeftovers
  CallGap = 2
  MaxFaults = 2
SPECIFICATION FairSpec
INVARIANTS SessionTypeOK DumpIsRegisterFile
PROPERTIES RunsWholeProgram RequestsFindEngineFree WordsReadAreInMemory BreakIsOwn
           StopTakesEffect SessionEnds
