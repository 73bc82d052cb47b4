CONSTANTS
  Threads = {t1, t2}
  Sizes = {2, 4}
  MaxMessage = 4
  RecvBuffer = 4
  MaxRetries = 1
  MaxSent = 3
  ShortSends = TRUE
SPECIFICATION FairSpec
INVARIANTS
  TypeOK
  LinesAreMessages
PROPERTIES
  KeepsPromise
  EveryMessageArrives
CHECK_DEADLOCK FALSE
