SPECIFICATION HonestSpec
CONSTANTS
  N = 4
  Height = 1
  MaxRound = 1
  Operations = {a}
  Stamped = {}
  Stamps = {0}
  NilVoters = {}
  Faulty = {}
  Dipping = {}
  SyncRound = 1
  MaxCrashes = 1
  None = None
  Nil = Nil
INVARIANT BlockAgreement
CHECK_DEADLOCK FALSE
