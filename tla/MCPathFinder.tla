---------------------------- MODULE MCPathFinder -----------------------------
(* PathFinder on the map of the code (model_manager.cpp, init_map); the      *)
(* coordinates are in units of ten.                                        *)
EXTENDS PathFinder

MCPairs == << <<1, 4>>, <<2, 5>>, <<3, 6>>, <<4, 5>>, <<5, 6>>, <<4, 7>>, <<5, 8>>,
              <<6, 9>>, <<7, 8>>, <<8, 9>>, <<7, 10>>, <<8, 11>>, <<9, 12>>,
              <<10, 11>>, <<11, 12>>, <<10, 13>>, <<11, 14>>, <<12, 15>> >>
MCCoord == [n \in 1..15 |-> <<7 + 19 * ((n - 1) \div 3), 7 + 12 * ((n - 1) % 3)>>]

(* One road, in both directions, in state s.                                 *)
Road(i, s) == [e \in Edges |-> IF e \in {i, i + Half} THEN s ELSE "IDLE"]
MCRoadStates ==
  {[e \in Edges |-> "IDLE"]} \cup
  {Road(i, s) : i \in 1..Half, s \in {"BLOCKED", "FAULT_REPAIR", "FAULT_TEMP"}}
MCNodeStates ==
  {[n \in Nodes |-> IF n = bad THEN "FAULT" ELSE "IDLE"] : bad \in {0, 8}}
=============================================================================
