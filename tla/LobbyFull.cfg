CONSTANTS
  an = an
  binh = binh
  chi = chi
  Users = {an, binh}
  Nobody = Nobody
  Closed = Closed
  Rating <- TwoRatings
  Garbage <- None
  Tolerance = 200
  MaxClients = 2
  MaxReady = 1
  MaxRooms = 1
  MaxChallenges = 1
  Faults <- NoUnread
  Habits <- AnyHabit
SPECIFICATION FairSpec
PROPERTIES
  SeatsAreKept
  RoomStartsOnce
  PlacesAreFreed
