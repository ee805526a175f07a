CONSTANTS
  Size = 8
  Fill = 2
  Frame = 3
  OutLen = 2
  Period = 3
  Step <- MCStep
  MaxSent = 15

SPECIFICATION Spec

INVARIANT TypeOK
PROPERTIES
  ImplementsSampleQueue
  WaitingIsHeard
