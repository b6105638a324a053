SPECIFICATION FairSpec
CONSTANTS
  Window = 2
  Overhead = 1
  Chunks = {1}
  MaxRecovery = 2
  AutoAbandon = TRUE
  Scenarios <- AllScenarios
  None = None
CHECK_DEADLOCK FALSE
INVARIANT TypeOK
INVARIANT TwoWindows
INVARIANT CountsAgree
INVARIANT BilledAsDelivered
INVARIANT PaidInFull
INVARIANT TailOnDisk
PROPERTY ReceiptsKept
PROPERTY StreamEnds
