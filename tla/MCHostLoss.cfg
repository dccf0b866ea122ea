\* Lost messages, full queues, restarts.
SPECIFICATION FairSpec
CONSTANTS
  Pairs <- MCPairs
  Coord <- MCCoord
  Home <- MCHomeOne
  Cars = {1}
  Targets = {5, 6}
  Cancels = {}
  TopoRequests <- NoTopo
  Events = {"HOLE", "FRUIT", "POSITION"}
  TaskCap = 1
  RouteCap = 1
  PubCap = 2
  Calm = FALSE
  MayLose = TRUE
  MaxRequests = 1
  MaxEvents = 1
  MaxInbox = 1
  MaxCrashes = 2
PROPERTIES Settles
CHECK_DEADLOCK FALSE
