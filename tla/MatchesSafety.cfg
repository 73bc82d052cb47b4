CONSTANTS
  an = an
  binh = binh
  Users = {an, binh}
  Offers <- RatedOffers
  InitRating = 1200
  MaxMatches = 2
  MaxMoves = 2
  MaxArchived = 1
  MoveTime = 2
  SweepPeriod = 1
  BatchMax = 1
  MaxBoots = 1
  DbFaults <- PersistFaults
SPECIFICATION FairSpec
INVARIANTS
  TurnAgreesWithMoves
  EndedByPlayerIsFinal
PROPERTIES
  EndedIsFrozen
  ClockIsHonest
  PaidWithTheEnd
  HandlersConservePoints
  WinnersGainLosersPay
  LapseIsQueued
  EveryMatchEnds
