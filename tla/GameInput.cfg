SPECIFICATION InputSpec
CONSTANTS
  QueueSize = 4
  Width = 2
  Scan <- MCScan
  Extended <- MCExtended
  Order <- MCOrder
  Keys = {"a", "LEFT", "RALT", "F6", "F12"}
  Buttons = {"A"}
  Axes = {"X"}
  Attached <- MCAttached
  Pins <- MCAllPins
  Events = 3
  Clocks = 3
  Scales = 2
INVARIANTS
  InputTypeOK
  NoFalsePress
  NoStuckButtons
  ReadsTheLatch
CHECK_DEADLOCK FALSE
