SPECIFICATION Spec
CONSTANTS
  Window = 2
  Overhead = 1
  Chunks = {1}
  MaxRecovery = 2
  AutoAbandon = TRUE
  Scenarios <- StreamScenarios
  None = None
CHECK_DEADLOCK FALSE
INVARIANT CleanClose
