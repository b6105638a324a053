SPECIFICATION MCSpec
CONSTANTS
  N = 4
  Height = 1
  MaxRound = 3
  Operations = {a}
  Stamped = {}
  Stamps = {0}
  NilVoters = {3}
  Faulty = {4}
  Dipping = {2}
  SyncRound = 1
  MaxCrashes = 1
  None = None
  Nil = Nil
INVARIANTS TypeOK ValueAgreement LockRespected Certified EvidenceIsTrue
PROPERTY HeightFinalized
CHECK_DEADLOCK FALSE
