SPECIFICATION Spec
CONSTANTS
  Eep = Eep
  Rom = Rom
  Host = {Eep, Rom}
  Protected = {}
  Value = {0, 1}
  Zero = 0
  NoName = NoName
  Cells = 2
  Erased <- MCErased
  Game <- MCGame
  Buffered = {Eep}
  Writes = 3
  Runs = 2
INVARIANTS
  TypeOK
  SavedOnExit
  KillKeepsDump
PROPERTY
  SavedEventually
CHECK_DEADLOCK FALSE
