SPECIFICATION PipeSpec
CONSTANTS
  MaxLines = 1
  EarlyExit = TRUE
PROPERTY CallReturns
CHECK_DEADLOCK FALSE
