SPECIFICATION Spec
CONSTANTS
  Byte <- MCByte
  Gap = {1, 3}
  BlockLen = 2
  ArgLen = 1
  ReadPrep = 2
  CmdWait = 1
  InitClocks = 3
  InitTime = 7
  WriteTime = 3
  ClockMod = 16
  SectorMod = 2
  CheckArg = 255
  PowerArg = {64}
  OcrBusy = 100
  OcrReady = 101
CONSTRAINT ArgBound
VIEW View
INVARIANTS
  TypeOK
  TransferAgrees
  InSector
  FrameContiguous
  OcrTruthful
PROPERTIES
  DeadlineKept
  ImplementsBlockDevice
