SPECIFICATION FairSpec
CONSTANTS
    None = None
    Mate = 2
    MaxMoves = 2
    Loading = {"black"}
    MaxClicks = 2
    MaxFaults = 1
INVARIANTS TypeOK BoardsAgree NeverAhead TurnsAreKnown MateIsTold
PROPERTIES NobodyMovesBlind EveryCallSettles EveryMoveIsShown EndIsSeen
CHECK_DEADLOCK FALSE
