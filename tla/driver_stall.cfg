SPECIFICATION StoppingSpec
CONSTANTS
  N = 4
  Height = 1
  MaxRound = 1
  Operations = {a}
  Stamped = {}
  Stamps = {0}
  NilVoters = {}
  Faulty = {}
  Dipping = {}
  None = None
  Nil = Nil
  SyncRound = 1
  MaxCrashes = 1
INVARIANT NotStalled
CHECK_DEADLOCK FALSE
