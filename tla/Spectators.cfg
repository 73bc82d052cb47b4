CONSTANTS
  Names = {an, binh}
  Emails = {a, b}
  Tokens = {t1, t2}
  MaxClients = 2
  Life = 1
  MaxTime = 2
  MaxUsers = 2
  DbFaults = TRUE
  MatchIds = {m1}
  MaxSpectators = 2
SPECIFICATION Spec
INVARIANTS
  StrangersHearNothing
PROPERTIES
  AdmitsTheEntitled
  SeatsAsASet
  OnlyTheHolderMoves
