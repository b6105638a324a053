SPECIFICATION MCNodeSpec
CONSTANTS
  Owners = {1, 2, 3, 4}
  Endpoints = {"e1", "e2", "e3", "e4", "e5"}
  SlotOf <- MCSlotOf
  MaxNodes = 4
  Warmup = 1
  Cooldown = 0
  ServiceUnlock = 1
  DefaultPrice = 1
  None = None
  RequiredService = 2
  MinService = 2
  RequiredGovernance = 1
  Maturity = 1
  GovernanceUnlock = 1
  ProbeValidity = 5
  ValidatorBond = 1
  ValidatorUnlock = 2
  MaxActive = 3
  MaxRotations = 1
  RotationInterval = 1
  MultiNodes = 3
  MinActive = 2
  MinDecentralized = 2
  DirectEnd = 3
  SlotLength = 2
  PrimaryCount = 2
  PrimaryQuorum = 1
  AuditorCount = 1
  AuditQuorum = 1
  MinAudited = 3
  AuditedSlots = {1}
  EpochLength = 4
  Grace = 1
  Budget = 5
  ImmediatePart = 1
  Parts = 4
  VestingTime = 4
  VestingStep = 2
  Quantum = 1
  OfflineSlash = 5
  SingleWeight = 2
  BaseWeight = 1
  Supply = 17
  Balance = 2
  Validity = 4
  MaxTime = 6
  MaxPending = 2
  Prices = {1, 2}
INVARIANT OneNodePerAddress
CHECK_DEADLOCK FALSE
