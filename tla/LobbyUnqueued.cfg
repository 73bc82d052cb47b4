CONSTANTS
  an = an
  binh = binh
  chi = chi
  Users = {an, binh}
  Nobody = Nobody
  Closed = Closed
  Rating <- TwoRatings
  Garbage <- None
  Tolerance = 200
  MaxClients = 2
  MaxReady = 2
  MaxRooms = 0
  MaxChallenges = 0
  Faults <- None
  Habits <- OnlySwitch
SPECIFICATION Spec
INVARIANTS
  QueuedAreReady
