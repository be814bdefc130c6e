SPECIFICATION HandlerFairSpec
CONSTANTS
  MaxCofactors = 4
  MaxLines = 3
INVARIANTS
  LoggersFound
PROPERTIES
  InterruptEnds
  EndsOrWaits
CHECK_DEADLOCK FALSE
