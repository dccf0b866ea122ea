------------------------------- MODULE AgvMap --------------------------------
(***************************************************************************)
(* The road map the host keeps in shared memory (model_manager's init_map,  *)
(* bipath_pair in shm_layout.h) and the pure functions planner and router   *)
(* compute on it: legal routes, turns, and the test for a reversal.         *)
(***************************************************************************)
EXTENDS Integers, Sequences, FiniteSets

CONSTANTS
  Pairs,   \* Pairs[i] = <<a, b>>: the i-th bipath_pair, between nodes a and b
  Coord    \* Coord[n] = <<x, y>>: where node n is

ASSUME MapAssumption ==
  /\ Coord \in Seq(Int \X Int)
  /\ Pairs \in Seq((1..Len(Coord)) \X (1..Len(Coord)))

(* Node and edge ids start at 1; the two directions of pair i are the edges  *)
(* i and i + Half.                                                         *)
Half == Len(Pairs)
NodeCount == Len(Coord)
EdgeCount == 2 * Half
Nodes == 1..NodeCount
Edges == 1..EdgeCount

From(e) == IF e <= Half THEN Pairs[e][1] ELSE Pairs[e - Half][2]
To(e) == IF e <= Half THEN Pairs[e][2] ELSE Pairs[e - Half][1]
Other(e) == IF e <= Half THEN e + Half ELSE e - Half
OutEdges(n) == {e \in Edges : From(e) = n}

(* The edge from a to b; a set, since the two need not be neighbours.        *)
EdgeBetween(a, b) == {e \in OutEdges(a) : To(e) = b}

-----------------------------------------------------------------------------
X(n) == Coord[n][1]
Y(n) == Coord[n][2]

(* The cross product and the dot product of the ways l -> c and c -> n.      *)
CrossLeft(l, c, n) == (X(c) - X(l)) * (Y(n) - Y(l))
CrossRight(l, c, n) == (Y(c) - Y(l)) * (X(n) - X(l))
Dot(l, c, n) == (X(n) - X(c)) * (X(c) - X(l)) + (Y(n) - Y(c)) * (Y(c) - Y(l))

GenerateTurn(l, c, n) ==
  IF CrossLeft(l, c, n) = CrossRight(l, c, n)
  THEN IF Dot(l, c, n) > 0 THEN "STRAIGHT" ELSE "UTURN"
  ELSE IF CrossLeft(l, c, n) > CrossRight(l, c, n) THEN "RIGHT" ELSE "LEFT"

(* jud_rev: does l -> n lead away from c?                                   *)
Reverses(l, c, n) ==
  CrossLeft(l, c, n) = CrossRight(l, c, n) /\ Dot(l, c, n) <= 0

-----------------------------------------------------------------------------
(* find_path gives up on ids that are not below the counts, although the ids *)
(* start at 1: the last node and the last edge take no part in planning.   *)
Plannable(n) == n < NodeCount
HardBlocked == {"BLOCKED", "FAULT_REPAIR"}

MutUsable(est, nst, e) == e < EdgeCount /\ Plannable(To(e))

Usable(est, nst, e) ==
  /\ e < EdgeCount
  /\ Plannable(To(e))
  /\ est[e] \notin HardBlocked
  /\ nst[To(e)] # "FAULT"

NodesOf(s, p) == {s} \cup {To(p[i]) : i \in 1..Len(p)}
EndOf(s, p) == IF p = <<>> THEN s ELSE To(p[Len(p)])

(* The walks from s over usable edges that visit no node twice: those one    *)
(* edge longer than p, those of each length, and all of them.               *)
Longer(est, nst, s, p) ==
  {Append(p, e) : e \in {d \in OutEdges(EndOf(s, p)) :
                            Usable(est, nst, d) /\ To(d) \notin NodesOf(s, p)}}
Walks(est, nst, s) ==
  LET W[k \in Nat] == IF k = 0 THEN {<<>>}
                      ELSE UNION {Longer(est, nst, s, p) : p \in W[k - 1]}
  IN W
SimpleWalks(est, nst, s) == UNION {Walks(est, nst, s)[k] : k \in 0..NodeCount}

(* What find_path may return for s and t: a walk as above that ends in t;    *)
(* which of them depends on weights and heuristic.  The empty vector stands *)
(* for failure, also when s and t are the same node.                        *)
Routes(est, nst, s, t) ==
  IF s = t \/ ~Plannable(s) \/ ~Plannable(t) THEN {}
  ELSE {p \in SimpleWalks(est, nst, s) : EndOf(s, p) = t}

IsChain(p) == \A i \in 1..(Len(p) - 1) : To(p[i]) = From(p[i + 1])
=============================================================================
