SPECIFICATION Spec
CONSTANTS
  Iterations = 1
  Restarts = 2
INVARIANTS TypeOK PortNamesADaemon NoPortIsExplained
CHECK_DEADLOCK FALSE
