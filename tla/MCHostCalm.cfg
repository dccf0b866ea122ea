\* Two cars, requests one after the other: does the logic work when nothing overlaps?
SPECIFICATION FairSpec
CONSTANTS
  Pairs <- MCPairs
  Coord <- MCCoord
  Home <- MCHome
  Cars = {1, 2}
  Targets = {6}
  Cancels = {1}
  TopoRequests <- CalmTopo
  Events = {}
  TaskCap = 16
  RouteCap = 10
  PubCap = 32
  Calm = TRUE
  MayLose = FALSE
  MaxRequests = 3
  MaxEvents = 0
  MaxInbox = 1
  MaxCrashes = 0
INVARIANTS OnRoute BansHonoured CancelHolds
PROPERTIES TaskEnds
CHECK_DEADLOCK FALSE
