CONSTANTS
  Command = {"ATE0", "ATE1", "CIPSTART", "CIPSTART=0", "CIPSTART=1", "CIPSTART=4",
             "CIPSTART=?", "CIPCLOSE=4",
             "CIPCLOSE", "CIPCLOSE=0", "CIPCLOSE=1", "CIPCLOSE=5", "CIPMUX=0",
             "CIPMUX=1", "CIPSEND", "CIPSEND?", "CIPSEND=9", "CIPSEND=0,9",
             "CIPSEND=1,9", "CWQAP", "CWSTARTSMART", "CIPMODE=9", "OK", "ERROR",
             "BAD", "SILENT"}
  Bytes = {"x"}
  Fd = {0, 3}
  Wrap = 6
  Delay = 3
  Rollover = 1
  MaxLine = 3
SPECIFICATION Spec
VIEW View
INVARIANTS ConnectionsOpen TransparentIntact
PROPERTY LossReported
CHECK_DEADLOCK FALSE
