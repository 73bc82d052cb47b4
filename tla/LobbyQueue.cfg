CONSTANTS
  an = an
  binh = binh
  chi = chi
  Users = {an, binh, chi}
  Nobody = Nobody
  Closed = Closed
  Rating <- Ratings
  Garbage <- None
  Tolerance = 200
  MaxClients = 3
  MaxReady = 3
  MaxRooms = 1
  MaxChallenges = 0
  Faults <- None
  Habits <- None
SPECIFICATION Spec
INVARIANTS
  ReadyOnce
  QueuedAreReady
  WaitersAreApart
  ReadyArePresent
  RoomsOfThePresent
