CONSTANTS
  Sessions = {a, b, c}
  MaxClients = 2
  MaxEvents = 3
SPECIFICATION FairSpec
INVARIANTS MusicGivesWay BusAtRest
PROPERTIES MusicFollowsAirPlay BusSpec
CHECK_DEADLOCK FALSE
