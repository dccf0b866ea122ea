\* Every search on the real map with at most one road and one node disturbed.
SPECIFICATION FairSpec
CONSTANTS
  Pairs <- MCPairs
  Coord <- MCCoord
  RoadStates <- MCRoadStates
  NodeStates <- MCNodeStates
  Starts = {1, 8}
  Infinite = 1000
INVARIANTS TypeOK CostsGrow Answer
PROPERTIES Finishes
