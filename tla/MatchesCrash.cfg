CONSTANTS
  an = an
  binh = binh
  Users = {an, binh}
  Offers <- BothOffers
  InitRating = 1200
  MaxMatches = 1
  MaxMoves = 1
  MaxArchived = 0
  MoveTime = 1
  SweepPeriod = 1
  BatchMax = 2
  MaxBoots = 3
  DbFaults <- NoFaults
SPECIFICATION Spec
INVARIANTS
  RunningMatchesAreListed
PROPERTIES
  RowsOnlyAdvance
  ListedUntilArchived
