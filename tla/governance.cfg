SPECIFICATION MCGovernanceSpec
CONSTANTS
  Values <- MCValues
  NoEpoch = NoEpoch
  Nodes = {1, 2, 3, 4}
  Here = {1, 2}
  EligibleSets <- MCEligible
  Committees = {{2, 3}}
  Ballots = {"yes", "no"}
  Age <- MCAge
  Actions <- MCActions
  Kinds = {"standard", "critical"}
  DirectActions <- MCDirect
  DistributedThreshold = 2
  CriticalThreshold = 3
  DirectEnd = 3
  MinValidators = 2
  MatureDays = 3
  ShareFloor = 2900
  ShareUnit = 10000
  Voting <- MCVoting
  Timelock <- MCVoting
  Bond = 5
  Fee = 1
  Funds = 6
  Treasury = 10
  SpendUnit = 10
  SingleSpend = 2
  ShortSpend = 3
  LongSpend = 4
  ShortWindow = 2
  LongWindow = 4
  InitialSettings <- MCSettings
  EpochLength = 2
  Validity = 1
  MaxTime = 4
  MaxProposals = 1
  MaxPending = 2
  Recipient = Recipient
INVARIANTS GovernanceTypeOK GovernanceConserves ExecutedWithMandate QueueStaysApplicable SnapshotCapped
PROPERTY OutcomeStands
CHECK_DEADLOCK FALSE
