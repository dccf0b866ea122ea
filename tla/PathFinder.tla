----------------------------- MODULE PathFinder ------------------------------
(***************************************************************************)
(* planner::find_path: the A* search over the snapshot of the map that      *)
(* handle_task took.  One step takes one entry off the priority queue.      *)
(* HostDispatch lets the planner answer with any of AgvMap's Routes; here   *)
(* the search itself is seen to give one of them.                          *)
(* Costs and distances are in units of ten: a road weighs 1 (weight 10).    *)
(***************************************************************************)
EXTENDS AgvMap, FiniteSetsExt

CONSTANTS
  RoadStates,   \* the edge statuses a search may meet
  NodeStates,   \* the node statuses it may meet
  Starts,       \* the start nodes asked for
  Infinite      \* numeric_limits<float>::max(), above every cost

Weight == 1
Penalty == 10   \* SOFT_OBSTACLE_PENALTY

EdgeStatus == {"IDLE", "OCCUPIED", "BLOCKED", "FAULT_TEMP", "FAULT_REPAIR"}
NodeStatus == {"IDLE", "OCCUPIED", "FAULT"}

ASSUME SearchAssumption ==
  /\ RoadStates \subseteq [Edges -> EdgeStatus]
  /\ NodeStates \subseteq [Nodes -> NodeStatus]
  /\ Starts \subseteq Nodes
  /\ Infinite \in Nat /\ Infinite > NodeCount * (Weight + Penalty)

VARIABLES
  est, nst,     \* the snapshot: statuses of edges and nodes
  start, target,
  g,            \* g_cost
  from,         \* came_edge, 0 for none; came_from is where that edge starts
  closed,
  open,         \* open_set: [id, g], the g_cost at the push
  answer        \* what is returned, Pending until then

vars == <<est, nst, start, target, g, from, closed, open, answer>>
asked == <<est, nst, start, target>>

Pending == <<0>>

Init ==
  /\ est \in RoadStates /\ nst \in NodeStates
  /\ start \in Starts /\ target \in Nodes
  /\ g = [n \in Nodes |-> IF n = start THEN 0 ELSE Infinite]
  /\ from = [n \in Nodes |-> 0]
  /\ closed = {}
  /\ open = {[id |-> start, g |-> 0]}
  /\ answer = Pending

-----------------------------------------------------------------------------
Square(x) == x * x

(* The squared distance from n to the node whose record the heuristic of the *)
(* expansion reads, nodes_[target]: the one after the target.               *)
Off(n) == Square(X(n) - X(target + 1)) + Square(Y(n) - Y(target + 1))

(* a's f_cost is not above b's: a.g + sqrt(Off) <= b.g + sqrt(Off), exactly.  *)
NoWorse(a, b) ==
  LET k == b.g - a.g
      up == Off(a.id) - Off(b.id) - k * k
  IN IF k >= 0 THEN up <= 0 \/ Square(up) <= 4 * k * k * Off(b.id)
     ELSE LET down == Off(b.id) - Off(a.id) - k * k
          IN down >= 0 /\ 4 * k * k * Off(a.id) <= Square(down)

(* top(): an entry with the least f_cost; which of equal ones is not said.    *)
Top(e) == e \in open /\ \A o \in open : NoWorse(e, o)

-----------------------------------------------------------------------------
MutOpenRoad(e) ==
  /\ e < EdgeCount /\ Plannable(To(e))
  /\ est[e] # "BLOCKED" /\ nst[To(e)] # "FAULT"

(* An edge the loop over the neighbours does not skip.                       *)
OpenRoad(e) ==
  /\ e < EdgeCount /\ Plannable(To(e))
  /\ est[e] \notin {"BLOCKED", "FAULT_REPAIR"}
  /\ nst[To(e)] # "FAULT"

EdgeCost(e) ==
  Weight + IF est[e] \in {"OCCUPIED", "FAULT_TEMP"} \/ nst[To(e)] = "OCCUPIED"
           THEN Penalty ELSE 0
CostVia(e) == g[From(e)] + EdgeCost(e)

MutReopens(e) == OpenRoad(e) /\ from[To(e)] # Other(e)

(* new_g < g_cost[next]: closed nodes are not left out.                      *)
Improves(e) == OpenRoad(e) /\ CostVia(e) < g[To(e)]

Better(n) == {e \in OutEdges(n) : Improves(e)}
EdgesTo(edges, n) == {d \in edges : To(d) = n}

(* The edges by which came_from leads from n back to the start, reversed.    *)
Trail[n \in Nodes] ==
  IF from[n] = 0 THEN <<>> ELSE Append(Trail[From(from[n])], from[n])

-----------------------------------------------------------------------------
Searching == answer = Pending
InRange == Plannable(start) /\ Plannable(target)

(* Ids that are not below node_count_.                                       *)
Reject ==
  /\ Searching /\ ~InRange
  /\ answer' = <<>>
  /\ UNCHANGED <<asked, g, from, closed, open>>

MutSkip(e) ==
  /\ e.id \in closed
  /\ UNCHANGED <<asked, g, from, closed, open, answer>>

(* The node was closed by an earlier entry.                                  *)
Skip(e) ==
  /\ e.id \in closed
  /\ open' = open \ {e}
  /\ UNCHANGED <<asked, g, from, closed, answer>>

Arrive(e) ==
  /\ e.id \notin closed /\ e.id = target
  /\ closed' = closed \cup {target}
  /\ open' = open \ {e}
  /\ answer' = Trail[target]
  /\ UNCHANGED <<asked, g, from>>

(* The better ones of its edges are taken: the nodes they lead to get a new cost and   *)
(* are pushed, also those that are in the queue already.                    *)
Expand(e, better) ==
  /\ e.id \notin closed /\ e.id # target
  /\ closed' = closed \cup {e.id}
  /\ g' = [n \in Nodes |-> IF EdgesTo(better, n) = {} THEN g[n]
                           ELSE Min({CostVia(d) : d \in EdgesTo(better, n)})]
  /\ from' = [n \in Nodes |-> IF EdgesTo(better, n) = {} THEN from[n]
                              ELSE CHOOSE d \in EdgesTo(better, n) : CostVia(d) = g'[n]]
  /\ open' = (open \ {e}) \cup {[id |-> To(d), g |-> CostVia(d)] : d \in better}
  /\ UNCHANGED <<asked, answer>>

(* The queue ran empty.                                                      *)
Fail ==
  /\ Searching /\ open = {}
  /\ answer' = <<>>
  /\ UNCHANGED <<asked, g, from, closed, open>>

Pop ==
  /\ Searching /\ InRange
  /\ \E e \in open :
       /\ Top(e)
       /\ \/ Skip(e)
          \/ Arrive(e)
          \/ \E better \in {Better(e.id)} : Expand(e, better)

Done == ~Searching /\ UNCHANGED vars

Next == Reject \/ Pop \/ Fail \/ Done

Spec == Init /\ [][Next]_vars

(* The loop runs to its end within one call of handle_task.                  *)
FairSpec == Spec /\ WF_vars(Reject \/ Pop \/ Fail)

-----------------------------------------------------------------------------
Costs == 0..Infinite

(* Every variable has its type; a cost never rises above that of an entry.   *)
TypeOK ==
  /\ est \in [Edges -> EdgeStatus] /\ nst \in [Nodes -> NodeStatus]
  /\ start \in Nodes /\ target \in Nodes
  /\ g \in [Nodes -> Costs]
  /\ from \in [Nodes -> Edges \cup {0}]
  /\ closed \subseteq Nodes
  /\ open \subseteq [id : Nodes, g : Costs]
  /\ \A o \in open : g[o.id] <= o.g

(* came_from never runs in a circle, although a closed node may get a new    *)
(* predecessor: the cost strictly grows along it, and it ends at the start.  *)
(* Otherwise the loop that collects the path would not end (planner.h 217). *)
CostsGrow ==
  \A n \in Nodes :
    IF from[n] = 0 THEN g[n] = IF n = start THEN 0 ELSE Infinite
    ELSE To(from[n]) = n /\ OpenRoad(from[n]) /\ g[From(from[n])] < g[n]

(* The search answers with one of the routes HostDispatch lets the planner   *)
(* choose from, and with none only if there is none.                        *)
Answer ==
  ~Searching =>
    LET routes == Routes(est, nst, start, target)
    IN IF routes = {} THEN answer = <<>> ELSE answer \in routes

(* Every search ends.                                                        *)
Finishes == <>~Searching
=============================================================================
