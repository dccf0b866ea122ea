---------------------------- MODULE MCHostOverlaps ----------------------------
(* HostOverlaps on a small map: a loop, 2 - 3 - 4, and a dead end, 1, where    *)
(* the car starts.  Node 5 is there because the last node takes no part in   *)
(* planning.  Coordinates are (column, row) of a grid.                       *)
EXTENDS HostOverlaps, TLC

MCPairs == << <<1, 2>>, <<2, 3>>, <<2, 4>>, <<3, 4>>, <<4, 5>> >>
MCCoord == << <<0, 0>>, <<1, 0>>, <<2, 0>>, <<1, 1>>, <<0, 1>> >>
MCHome == 1 :> <<1, 2>>

Ban(edges, nodes) == [act |-> "ban", edges |-> edges, nodes |-> nodes]
MCTopo == {Ban(<<3>>, <<4>>)}
==============================================================================
