SPECIFICATION MCChainSpec
CONSTANTS
  None = None
  Peers = {2, 3}
  Commands <- MCCommands
  Lite = {2}
  Opening <- MCOpening
  BaseFee = 1
  MinMult = 1
  MaxMult = 2
  Target = 1
  Denominator = 1
  MaxOps = 2
  MaxUnits = 2
  Window = 2
  Validity = 2
  EpochLength = 2
  Interval = 1
  ChunkSize = 1
  RetainBlocks = 1
  RetainIds = 1
  Gap = 2
  Retention = 2
  Addresses = {1, 2}
  Amounts = {1}
  MaxFees = {1, 2}
  Ahead = 2
  MaxSigned = 2
  MaxHeight = 3
  MaxTime = 3
INVARIANTS ChainTypeOK CheckpointFaithful ChainVerifies LedgerMatchesHistory CatchUpAccepted FinalityAgrees
CHECK_DEADLOCK FALSE
