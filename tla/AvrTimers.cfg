SPECIFICATION Spec
CONSTANTS
  Eager = FALSE
  Unit = {"timer", "usart"}
  ClockMod = 8
  TimerMod = 4
  CompareA = {1, 2}
  Compare = {1, 2, 3}
  WdTime = {3}
  WdTime0 = 3
  SpiTime = {3}
  EepTime = {6}
  SpmTime = 5
  Window = 4
  SpmMode = {"load"}
  Masks <- MCMasks
  Stall = {0}
VIEW View
INVARIANTS
  TypeOK
  PendingNoticed
PROPERTY ImplementsEveryCycle
