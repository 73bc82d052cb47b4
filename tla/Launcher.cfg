CONSTANTS
  Calls = {s, t}
  MaxAttempts = 2
  MaxLosses = 3
SPECIFICATION FairSpec
INVARIANTS
  BeliefIsWatched
PROPERTIES
  LossIsRetried
