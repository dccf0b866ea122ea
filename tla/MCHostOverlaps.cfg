\* Every interleaving of two requests and a car event, on short queues.
SPECIFICATION OverlapSpec
CONSTANTS
  Pairs <- MCPairs
  Coord <- MCCoord
  Home <- MCHome
  Cars = {1}
  Targets = {3}
  Cancels = {1}
  TopoRequests <- MCTopo
  Events = {"HOLE", "POSITION", "AGAIN", "SILENT"}
  TaskCap = 2
  RouteCap = 1
  PubCap = 2
  Calm = FALSE
  MayLose = FALSE
  MaxRequests = 2
  MaxEvents = 1
  MaxInbox = 1
  MaxCrashes = 0
INVARIANTS TypeOK PlanIsWhole OnARoad ClosedRoadsNoted CancelsNoted
CHECK_DEADLOCK FALSE
