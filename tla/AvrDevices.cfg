SPECIFICATION Spec
CONSTANTS
  Eager = FALSE
  Unit = {"spi", "spm", "wd", "eep"}
  ClockMod = 8
  TimerMod = 4
  CompareA = {2}
  Compare = {2}
  WdTime = {5}
  WdTime0 = 3
  SpiTime = {3}
  EepTime = {5}
  SpmTime = 3
  Window = 2
  SpmMode = {"load", "erase"}
  Masks <- MCMasks
  Stall = {0, 1}
VIEW View
INVARIANT EventsCovered
