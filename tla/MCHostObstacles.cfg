\* One car that meets obstacles of every kind.
SPECIFICATION FairSpec
CONSTANTS
  Pairs <- MCPairs
  Coord <- MCCoord
  Home <- MCHomeOne
  Cars = {1}
  Targets = {5, 6}
  Cancels = {1}
  TopoRequests <- NoTopo
  Events = {"FRUIT", "ANIMAL", "HOLE", "REPAIRED"}
  TaskCap = 16
  RouteCap = 10
  PubCap = 32
  Calm = TRUE
  MayLose = FALSE
  MaxRequests = 2
  MaxEvents = 3
  MaxInbox = 1
  MaxCrashes = 0
INVARIANTS OnRoute BansHonoured
PROPERTIES TaskEnds
CHECK_DEADLOCK FALSE
