SPECIFICATION InputSpec
CONSTANTS
  QueueSize = 4
  Width = 2
  Scan <- MCScan
  Extended <- MCExtended
  Keys = {"a", "LCTRL", "F1"}
  Buttons = {}
  Axes = {}
  Attached = {}
  Order <- MCOrder
  Pins <- MCAllPins
  Events = 4
  Clocks = 1
  Scales = 2
PROPERTY
  CtrlF1Leaves
CHECK_DEADLOCK FALSE
