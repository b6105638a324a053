SPECIFICATION Spec
CONSTANTS
  Window = 2
  Overhead = 1
  Chunks = {1}
  MaxRecovery = 2
  AutoAbandon = TRUE
  Scenarios <- RecoveryScenarios
  None = None
CHECK_DEADLOCK FALSE
PROPERTY ReceiptsNotAbandoned
