SPECIFICATION PipeSpec
CONSTANTS
  MaxLines = 3
  EarlyExit = FALSE
INVARIANTS PipeTypeOK OutputForwarded
PROPERTIES NoChildLeftBlocked CallReturns
CHECK_DEADLOCK FALSE
