CONSTANTS
  an = an
  binh = binh
  Users = {an, binh}
  Offers <- RatedOffers
  InitRating = 1200
  MaxMatches = 2
  MaxMoves = 1
  MaxArchived = 1
  MoveTime = 1
  SweepPeriod = 1
  BatchMax = 2
  MaxBoots = 2
  DbFaults <- NoFaults
SPECIFICATION Spec
INVARIANTS
  RestoredKeepsMoves
