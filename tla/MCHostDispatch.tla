---------------------------- MODULE MCHostDispatch ----------------------------
(* HostDispatch on a map with one loop, 3 - 4 - 6 - 5, and two dead ends, 1   *)
(* and 2, where the cars start.  Node 7 is there because the last node takes *)
(* no part in planning.  Coordinates are (column, row) of a grid.           *)
EXTENDS HostDispatch, TLC

MCPairs == << <<1, 3>>, <<2, 4>>, <<3, 4>>, <<3, 5>>, <<4, 6>>, <<5, 6>>, <<6, 7>> >>
MCCoord == << <<0, 0>>, <<0, 1>>, <<1, 0>>, <<1, 1>>, <<2, 0>>, <<2, 1>>, <<3, 1>> >>
MCHome == 1 :> <<1, 3>> @@ 2 :> <<2, 4>>
MCHomeOne == 1 :> <<1, 3>>

Ban(edges, nodes) == [act |-> "ban", edges |-> edges, nodes |-> nodes]
Access(edges, nodes) == [act |-> "access", edges |-> edges, nodes |-> nodes]
Repair(edges) == [act |-> "repair", edges |-> edges, nodes |-> <<>>]

NoTopo == {}
CalmTopo == {Ban(<<4>>, <<>>), Ban(<<5, 3>>, <<>>), Ban(<<>>, <<6>>),
             Access(<<3>>, <<6>>), Repair(<<6>>)}
==============================================================================
