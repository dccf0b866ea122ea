--------------------------- MODULE PathFinderProofs ---------------------------
(***************************************************************************)
(* What the search of find_path computes on every map, proved with TLAPS.    *)
(***************************************************************************)
EXTENDS PathFinder, AgvMapProofs, FiniteSetTheorems

-----------------------------------------------------------------------------
(* The types.                                                                *)
AskedInv ==
  /\ est \in [Edges -> EdgeStatus] /\ nst \in [Nodes -> NodeStatus]
  /\ start \in Nodes /\ target \in Nodes
TypeInv ==
  /\ AskedInv
  /\ g \in [Nodes -> Costs]
  /\ from \in [Nodes -> Edges \cup {0}]
  /\ closed \subseteq Nodes
  /\ open \subseteq [id : Nodes, g : Costs]
  /\ \A o \in open : g[o.id] <= o.g

(* Limits.                                                                   *)
LEMMA Numbers ==
  /\ Infinite \in Nat /\ Infinite > 0 /\ NodeCount \in Nat
  /\ Infinite > 11 * NodeCount
  /\ \A x \in Costs : x \in Nat /\ x <= Infinite
  /\ \A x \in Nat : x <= Infinite => x \in Costs
<1>1. NodeCount \in Nat
  BY MapTypes
<1>2. Infinite \in Nat /\ Infinite > NodeCount * 11
  BY SearchAssumption DEF Weight, Penalty
<1> QED  BY <1>1, <1>2 DEF Costs

(* A road costs something, and no more than weight and penalty.              *)
LEMMA RoadCost == \A e : EdgeCost(e) \in {1, 11}
BY DEF EdgeCost, Weight, Penalty

(* What expanding a node does to the costs.                                  *)
LEMMA Expanded ==
  ASSUME TypeInv, NEW m \in Nodes,
         g' = [n \in Nodes |-> IF EdgesTo(Better(m), n) = {} THEN g[n]
                               ELSE Min({CostVia(d) : d \in EdgesTo(Better(m), n)})],
         from' = [n \in Nodes |-> IF EdgesTo(Better(m), n) = {} THEN from[n]
                               ELSE CHOOSE d \in EdgesTo(Better(m), n) : CostVia(d) = g'[n]]
  PROVE  \A n \in Nodes :
           \/ /\ EdgesTo(Better(m), n) = {} /\ g'[n] = g[n] /\ from'[n] = from[n]
           \/ /\ from'[n] \in Edges /\ From(from'[n]) = m /\ To(from'[n]) = n
              /\ OpenRoad(from'[n]) /\ g'[n] = g[m] + EdgeCost(from'[n])
              /\ g'[n] \in Nat /\ g[m] \in Nat
              /\ g[m] < g'[n] /\ g'[n] < g[n] /\ g'[n] <= g[m] + 11
              /\ from'[n] \in Better(m)
              /\ \A d \in EdgesTo(Better(m), n) : g'[n] <= CostVia(d)
<1> SUFFICES ASSUME NEW n \in Nodes, EdgesTo(Better(m), n) # {}
             PROVE  /\ from'[n] \in Edges /\ From(from'[n]) = m /\ To(from'[n]) = n
                    /\ OpenRoad(from'[n]) /\ g'[n] = g[m] + EdgeCost(from'[n])
                    /\ g'[n] \in Nat /\ g[m] \in Nat
                    /\ g[m] < g'[n] /\ g'[n] < g[n] /\ g'[n] <= g[m] + 11
                    /\ from'[n] \in Better(m)
                    /\ \A d \in EdgesTo(Better(m), n) : g'[n] <= CostVia(d)
  OBVIOUS
<1>0. g \in [Nodes -> Costs] /\ g[m] \in Nat /\ g[n] \in Nat
  BY Numbers DEF TypeInv
<1> DEFINE E == EdgesTo(Better(m), n)
           V == {CostVia(d) : d \in E}
<1>1. \A d \in E : /\ d \in Edges /\ d \in Better(m) /\ From(d) = m /\ To(d) = n /\ OpenRoad(d)
                   /\ CostVia(d) < g[n] /\ CostVia(d) = g[m] + EdgeCost(d)
  BY DEF EdgesTo, Better, OutEdges, Improves, CostVia
<1>2. \A d \in E : CostVia(d) \in Nat /\ g[m] < CostVia(d) /\ CostVia(d) <= g[m] + 11
  <2> SUFFICES ASSUME NEW d \in E PROVE CostVia(d) \in Nat /\ g[m] < CostVia(d) /\ CostVia(d) <= g[m] + 11
    OBVIOUS
  <2>1. CostVia(d) = g[m] + EdgeCost(d) /\ EdgeCost(d) \in {1, 11}
    BY <1>1, RoadCost
  <2> QED  BY <2>1, <1>0
<1>3. g'[n] = Min(V) /\ from'[n] = CHOOSE d \in E : CostVia(d) = g'[n]
  OBVIOUS
<1>4. V \in SUBSET Nat /\ V # {}
  BY <1>2
<1> HIDE DEF E
<1>5. Min(V) \in V /\ \A v \in V : Min(V) <= v
  <2> HIDE DEF V
  <2>1. \E x \in V : \A y \in V : x <= y
    BY <1>4, Least
  <2> QED  BY <2>1 DEF Min
<1>6. \E d \in E : CostVia(d) = g'[n]
  BY <1>3, <1>5
<1>7. from'[n] \in E /\ CostVia(from'[n]) = g'[n]
  BY <1>3, <1>6
<1>8. \A d \in E : g'[n] <= CostVia(d)
  BY <1>3, <1>5
<1>9. /\ from'[n] \in Edges /\ From(from'[n]) = m /\ To(from'[n]) = n
      /\ OpenRoad(from'[n]) /\ from'[n] \in Better(m)
      /\ g'[n] = g[m] + EdgeCost(from'[n]) /\ g'[n] < g[n]
  BY <1>1, <1>7
<1>10. g'[n] \in Nat /\ g[m] < g'[n] /\ g'[n] <= g[m] + 11
  BY <1>2, <1>7
<1> QED  BY <1>0, <1>8, <1>9, <1>10 DEF E

(* The types hold at first,                                                  *)
LEMMA TypeInit == Init => TypeInv
<1> SUFFICES ASSUME Init PROVE TypeInv
  OBVIOUS
<1>1. AskedInv
  BY SearchAssumption DEF Init, AskedInv
<1>2. 0 \in Costs /\ Infinite \in Costs
  BY Numbers
<1> QED  BY <1>1, <1>2 DEF Init, TypeInv, AskedInv

(* A step takes an entry off the queue, or answers.                          *)
LEMMA Steps ==
  ASSUME TypeInv, [Next]_vars
  PROVE  /\ UNCHANGED asked
         /\ \/ UNCHANGED <<g, from, closed, open>>
            \/ \E e \in open : Skip(e) /\ answer = Pending
            \/ \E e \in open : Arrive(e) /\ answer = Pending /\ InRange
            \/ \E e \in open : Expand(e, Better(e.id)) /\ answer = Pending
<1>1. CASE Pop
  <2>1. PICK e \in open : Skip(e) \/ Arrive(e) \/ Expand(e, Better(e.id))
    BY <1>1 DEF Pop
  <2>2. answer = Pending /\ InRange
    BY <1>1 DEF Pop, Searching
  <2> QED  BY <2>1, <2>2 DEF Skip, Arrive, Expand
<1>2. CASE Reject \/ Fail
  BY <1>2 DEF Reject, Fail
<1>3. CASE Done \/ UNCHANGED vars
  BY <1>3 DEF Done, vars, asked
<1> QED  BY <1>1, <1>2, <1>3 DEF Next

(* and every step keeps them.                                                *)
LEMMA TypeStep == TypeInv /\ [Next]_vars => TypeInv'
<1> SUFFICES ASSUME TypeInv, [Next]_vars PROVE TypeInv'
  OBVIOUS
<1>0. AskedInv'
  BY Steps DEF AskedInv, asked, TypeInv
<1>1. CASE UNCHANGED <<g, from, closed, open>>
  BY <1>0, <1>1 DEF TypeInv
<1>2. CASE \E e \in open : Skip(e)
  BY <1>0, <1>2 DEF TypeInv, Skip
<1>3. CASE \E e \in open : Arrive(e)
  BY <1>0, <1>3 DEF TypeInv, Arrive, AskedInv
<1>4. CASE \E e \in open : Expand(e, Better(e.id))
  <2>1. PICK e \in open : Expand(e, Better(e.id))
    BY <1>4
  <2> DEFINE m == e.id
  <2>2. m \in Nodes /\ closed' = closed \cup {m}
    BY <2>1 DEF TypeInv, Expand
  <2>3. /\ g' = [n \in Nodes |-> IF EdgesTo(Better(m), n) = {} THEN g[n]
                               ELSE Min({CostVia(d) : d \in EdgesTo(Better(m), n)})]
        /\ from' = [n \in Nodes |-> IF EdgesTo(Better(m), n) = {} THEN from[n]
                               ELSE CHOOSE d \in EdgesTo(Better(m), n) : CostVia(d) = g'[n]]
        /\ open' = (open \ {e}) \cup {[id |-> To(d), g |-> CostVia(d)] : d \in Better(m)}
    BY <2>1 DEF Expand
  <2> HIDE DEF m
  <2>4. \A n \in Nodes : g'[n] <= g[n] /\ g'[n] \in Costs /\ from'[n] \in Edges \cup {0}
    <3> SUFFICES ASSUME NEW n \in Nodes
                 PROVE  g'[n] <= g[n] /\ g'[n] \in Costs /\ from'[n] \in Edges \cup {0}
      OBVIOUS
    <3>1. g[n] \in Costs /\ g[n] \in Nat /\ g[n] <= Infinite /\ from[n] \in Edges \cup {0} /\ Infinite \in Nat
      BY Numbers DEF TypeInv
    <3>2. CASE g'[n] = g[n] /\ from'[n] = from[n]
      BY <3>1, <3>2
    <3>3. CASE from'[n] \in Edges /\ g'[n] \in Nat /\ g'[n] < g[n]
      BY <3>1, <3>3 DEF Costs
    <3> QED  BY <3>2, <3>3, <2>2, <2>3, Expanded
  <2>5. g' \in [Nodes -> Costs] /\ from' \in [Nodes -> Edges \cup {0}]
    BY <2>3, <2>4
  <2>6. \A o \in open' : o \in [id : Nodes, g : Costs] /\ g'[o.id] <= o.g
    <3> SUFFICES ASSUME NEW o \in open' PROVE o \in [id : Nodes, g : Costs] /\ g'[o.id] <= o.g
      OBVIOUS
    <3>1. CASE o \in open
      <4>1. o \in [id : Nodes, g : Costs] /\ g[o.id] <= o.g /\ o.id \in Nodes /\ o.g \in Costs
        BY <3>1 DEF TypeInv
      <4>2. g'[o.id] <= g[o.id] /\ g'[o.id] \in Nat /\ g[o.id] \in Nat /\ o.g \in Nat
        BY <4>1, <2>4, Numbers DEF TypeInv
      <4> QED  BY <4>1, <4>2
    <3>2. CASE \E d \in Better(m) : o = [id |-> To(d), g |-> CostVia(d)]
      <4>1. PICK d \in Better(m) : o = [id |-> To(d), g |-> CostVia(d)]
        BY <3>2
      <4>2. d \in Edges /\ From(d) = m /\ CostVia(d) < g[To(d)] /\ To(d) \in Nodes
        BY MapTypes DEF Better, OutEdges, Improves
      <4>3. d \in EdgesTo(Better(m), To(d))
        BY DEF EdgesTo
      <4>4. g'[To(d)] <= CostVia(d)
        BY <4>2, <4>3, <2>2, <2>3, Expanded
      <4>5. CostVia(d) \in Costs
        <5>1. CostVia(d) = g[m] + EdgeCost(d) /\ EdgeCost(d) \in {1, 11}
          BY <4>2, RoadCost DEF CostVia
        <5>2. g[m] \in Nat /\ g[To(d)] \in Nat /\ g[To(d)] <= Infinite /\ Infinite \in Nat
          BY <2>2, <4>2, Numbers DEF TypeInv
        <5> QED  BY <5>1, <5>2, <4>2 DEF Costs
      <4> QED  BY <4>1, <4>2, <4>4, <4>5
    <3> QED  BY <3>1, <3>2, <2>3
  <2>7. open' \subseteq [id : Nodes, g : Costs] /\ \A o \in open' : g'[o.id] <= o.g
    BY <2>6
  <2> QED  BY <1>0, <2>2, <2>5, <2>7 DEF TypeInv
<1> QED  BY <1>1, <1>2, <1>3, <1>4, Steps

(* Every variable has its type, on every map.                                *)
THEOREM TypeCorrect == Spec => []TypeOK
<1>1. TypeInv => TypeOK
  BY DEF TypeInv, AskedInv, TypeOK
<1> QED  BY <1>1, TypeInit, TypeStep, PTL DEF Spec
-----------------------------------------------------------------------------
(* The loop skips what Usable leaves out.                                    *)
LEMMA OpenIsUsable == \A e : OpenRoad(e) <=> Usable(est, nst, e)
BY DEF OpenRoad, Usable, HardBlocked

(* No cost rises, and a node is given a predecessor together with its cost.   *)
LEMMA GrowInit == Init => CostsGrow
BY DEF Init, CostsGrow

(* Every step keeps the costs growing along the predecessors.                *)
LEMMA GrowStep ==
  ASSUME TypeInv, CostsGrow, [Next]_vars
  PROVE  CostsGrow'
<1>0. est' = est /\ nst' = nst /\ start' = start
  BY Steps DEF asked
<1>1. CASE UNCHANGED <<g, from>>
  BY <1>0, <1>1 DEF CostsGrow, OpenRoad
<1>2. CASE \E e \in open : Expand(e, Better(e.id))
  <2>1. PICK e \in open : Expand(e, Better(e.id))
    BY <1>2
  <2> DEFINE m == e.id
  <2>2. m \in Nodes
    BY <2>1 DEF TypeInv
  <2>3. /\ g' = [n \in Nodes |-> IF EdgesTo(Better(m), n) = {} THEN g[n]
                               ELSE Min({CostVia(d) : d \in EdgesTo(Better(m), n)})]
        /\ from' = [n \in Nodes |-> IF EdgesTo(Better(m), n) = {} THEN from[n]
                               ELSE CHOOSE d \in EdgesTo(Better(m), n) : CostVia(d) = g'[n]]
    BY <2>1 DEF Expand
  <2> HIDE DEF m
  <2>4. \A n \in Nodes : g'[n] \in Nat /\ g[n] \in Nat /\ g'[n] <= g[n]
    <3> SUFFICES ASSUME NEW n \in Nodes PROVE g'[n] \in Nat /\ g[n] \in Nat /\ g'[n] <= g[n]
      OBVIOUS
    <3>1. g[n] \in Nat
      BY Numbers DEF TypeInv
    <3>2. CASE g'[n] = g[n]
      BY <3>1, <3>2
    <3>3. CASE g'[n] \in Nat /\ g'[n] < g[n]
      BY <3>1, <3>3
    <3> QED  BY <3>2, <3>3, <2>2, <2>3, Expanded
  <2> SUFFICES ASSUME NEW n \in Nodes
               PROVE  IF from'[n] = 0 THEN g'[n] = IF n = start THEN 0 ELSE Infinite
                      ELSE /\ To(from'[n]) = n /\ Usable(est, nst, from'[n])
                           /\ g'[From(from'[n])] < g'[n]
    BY <1>0 DEF CostsGrow, OpenRoad, Usable, HardBlocked
  <2>6. CASE g'[n] = g[n] /\ from'[n] = from[n]
    <3>1. CASE from[n] = 0
      BY <3>1, <2>6 DEF CostsGrow
    <3>2. CASE from[n] # 0
      <4>1. To(from[n]) = n /\ OpenRoad(from[n]) /\ g[From(from[n])] < g[n]
        BY <3>2 DEF CostsGrow
      <4>2. from[n] \in Edges /\ From(from[n]) \in Nodes
        BY <3>2, MapTypes DEF TypeInv
      <4> QED  BY <3>2, <4>1, <4>2, <2>4, <2>6, OpenIsUsable
    <3> QED  BY <3>1, <3>2
  <2>7. CASE /\ from'[n] \in Edges /\ From(from'[n]) = m /\ To(from'[n]) = n
             /\ OpenRoad(from'[n]) /\ g[m] < g'[n]
    <3>1. from'[n] # 0
      BY <2>7 DEF Edges
    <3>2. g'[m] < g'[n]
      BY <2>2, <2>4, <2>7
    <3> QED  BY <3>1, <3>2, <2>7, OpenIsUsable
  <2> QED  BY <2>2, <2>3, <2>6, <2>7, Expanded
<1> QED  BY <1>1, <1>2, Steps DEF Skip, Arrive

(* came_from never runs in a circle, on any map (planner.h 217).             *)
THEOREM CostsAlwaysGrow == Spec => []CostsGrow
<1>1. TypeInv /\ CostsGrow /\ [Next]_vars => (TypeInv /\ CostsGrow)'
  BY TypeStep, GrowStep
<1> QED  BY <1>1, TypeInit, GrowInit, PTL DEF Spec
-----------------------------------------------------------------------------
(* The start has no predecessor.                                             *)
StartsAlone == from[start] = 0

(* So the start costs nothing,                                               *)
LEMMA StartCosts == ASSUME TypeInv, CostsGrow, StartsAlone PROVE g[start] = 0
BY DEF StartsAlone, CostsGrow, TypeInv, AskedInv

(* and no step gives it a predecessor.                                       *)
LEMMA StartStep ==
  ASSUME TypeInv, CostsGrow, StartsAlone, [Next]_vars
  PROVE  StartsAlone'
<1>0. start' = start /\ start \in Nodes /\ g[start] = 0
  BY Steps, StartCosts DEF asked, TypeInv, AskedInv
<1>1. CASE UNCHANGED <<g, from>>
  BY <1>0, <1>1 DEF StartsAlone
<1>2. CASE \E e \in open : Expand(e, Better(e.id))
  <2>1. PICK e \in open : Expand(e, Better(e.id))
    BY <1>2
  <2> DEFINE m == e.id
  <2>2. m \in Nodes
    BY <2>1 DEF TypeInv
  <2>3. /\ g' = [n \in Nodes |-> IF EdgesTo(Better(m), n) = {} THEN g[n]
                               ELSE Min({CostVia(d) : d \in EdgesTo(Better(m), n)})]
        /\ from' = [n \in Nodes |-> IF EdgesTo(Better(m), n) = {} THEN from[n]
                               ELSE CHOOSE d \in EdgesTo(Better(m), n) : CostVia(d) = g'[n]]
    BY <2>1 DEF Expand
  <2> HIDE DEF m
  <2>4. ~(g'[start] \in Nat /\ g'[start] < g[start])
    BY <1>0
  <2>5. from'[start] = from[start]
    BY <1>0, <2>2, <2>3, <2>4, Expanded
  <2> QED  BY <1>0, <2>5 DEF StartsAlone
<1> QED  BY <1>1, <1>2, Steps DEF Skip, Arrive

-----------------------------------------------------------------------------
(* The recursion that Trail is defined by has a solution, since the costs      *)
(* grow: sweeping over all nodes as often as a node costs settles it.        *)
LEMMA TrailStep ==
  ASSUME TypeInv, CostsGrow
  PROVE  \A n \in Nodes :
           Trail[n] = IF from[n] = 0 THEN <<>> ELSE Append(Trail[From(from[n])], from[n])
<1> DEFINE S == [Nodes -> Seq(Edges)]
           sweep(h) == [n \in Nodes |-> IF from[n] = 0 THEN <<>>
                                        ELSE Append(h[From(from[n])], from[n])]
           f == [h \in S |-> sweep(h)]
           none == [n \in Nodes |-> <<>>]
<1>1. \A n \in Nodes : from[n] # 0 =>
        /\ from[n] \in Edges /\ From(from[n]) \in Nodes
        /\ g[From(from[n])] < g[n]
  BY MapTypes DEF TypeInv, CostsGrow
<1>2. \A n \in Nodes : g[n] \in Nat
  BY Numbers DEF TypeInv
<1>3. f \in [S -> S] /\ none \in S
  <2>1. none \in S
    OBVIOUS
  <2>2. ASSUME NEW h \in S PROVE sweep(h) \in S
    <3>1. ASSUME NEW n \in Nodes
          PROVE  (IF from[n] = 0 THEN <<>> ELSE Append(h[From(from[n])], from[n])) \in Seq(Edges)
      <4>1. CASE from[n] # 0
        <5>1. h[From(from[n])] \in Seq(Edges) /\ from[n] \in Edges
          BY <4>1, <1>1
        <5> QED  BY <4>1, <5>1
      <4> QED  BY <4>1
    <3> QED  BY <3>1
  <2> HIDE DEF S, sweep
  <2> QED  BY <2>1, <2>2
<1>4. \E w \in [Nat -> S] : w[0] = none /\ \A k \in Nat : k # 0 => w[k] = f[w[k - 1]]
  <2> HIDE DEF S, f, none
  <2>1. \A h \in [S -> S] : \A a \in S :
          \E w \in [Nat -> S] : w[0] = a /\ \A k \in Nat : k # 0 => w[k] = h[w[k - 1]]
    BY Iterates
  <2> QED  BY <1>3, <2>1
<1> PICK w \in [Nat -> S] : w[0] = none /\ \A k \in Nat : k # 0 => w[k] = f[w[k - 1]]
  BY <1>4
<1>5. \A k \in Nat : k # 0 =>
        \A n \in Nodes : w[k][n] = IF from[n] = 0 THEN <<>>
                                   ELSE Append(w[k - 1][From(from[n])], from[n])
  <2> SUFFICES ASSUME NEW k \in Nat, k # 0, NEW n \in Nodes
               PROVE  w[k][n] = IF from[n] = 0 THEN <<>>
                                ELSE Append(w[k - 1][From(from[n])], from[n])
    OBVIOUS
  <2>1. w[k - 1] \in S
    <3> HIDE DEF S
    <3> QED  BY <1>4
  <2>2. w[k] = f[w[k - 1]]
    BY <1>4
  <2>3. w[k] = sweep(w[k - 1])
    BY <2>1, <2>2
  <2> QED  BY <2>3
<1> HIDE DEF S, f, none
<1>6. \A k \in Nat : \A n \in Nodes : g[n] < k => w[k][n] = w[g[n] + 1][n]
  <2> DEFINE Bad == {k \in Nat : \E n \in Nodes : g[n] < k /\ w[k][n] # w[g[n] + 1][n]}
  <2>1. Bad = {}
    <3> SUFFICES ASSUME Bad # {} PROVE FALSE
      OBVIOUS
    <3>1. PICK k \in Bad : \A j \in Bad : k <= j
      BY Least
    <3>2. PICK n \in Nodes : g[n] < k /\ w[k][n] # w[g[n] + 1][n]
      BY <3>1
    <3>3. k \in Nat /\ k # 0 /\ k - 1 \in Nat /\ g[n] \in Nat /\ g[n] + 1 # 0 /\ g[n] + 1 \in Nat
          /\ (g[n] + 1) - 1 = g[n]
      BY <3>1, <3>2, <1>2
    <3>4. from[n] # 0
      BY <1>5, <3>2, <3>3
    <3> DEFINE m == From(from[n])
    <3>5. m \in Nodes /\ g[m] \in Nat /\ g[m] < g[n] /\ g[m] < k - 1
      BY <1>1, <1>2, <3>2, <3>3, <3>4
    <3>6. w[k][n] = Append(w[k - 1][m], from[n])
      BY <1>5, <3>3, <3>4
    <3>7. w[g[n] + 1][n] = Append(w[g[n]][m], from[n])
      BY <1>5, <3>3, <3>4
    <3>8. k - 1 \notin Bad /\ g[n] \notin Bad
      BY <3>1, <3>2, <3>3
    <3> HIDE DEF m
    <3>9. w[k - 1][m] = w[g[m] + 1][m] /\ w[g[n]][m] = w[g[m] + 1][m]
      BY <3>3, <3>5, <3>8
    <3> QED  BY <3>2, <3>6, <3>7, <3>9
  <2> QED  BY <2>1
<1> DEFINE T == [n \in Nodes |-> w[g[n] + 1][n]]
<1>7. T = [n \in Nodes |-> IF from[n] = 0 THEN <<>> ELSE Append(T[From(from[n])], from[n])]
  <2> SUFFICES ASSUME NEW n \in Nodes
               PROVE  T[n] = IF from[n] = 0 THEN <<>> ELSE Append(T[From(from[n])], from[n])
    OBVIOUS
  <2>1. g[n] \in Nat /\ g[n] + 1 \in Nat /\ g[n] + 1 # 0 /\ (g[n] + 1) - 1 = g[n]
    BY <1>2
  <2>2. CASE from[n] = 0
    BY <2>1, <2>2, <1>5
  <2>3. CASE from[n] # 0
    <3> DEFINE m == From(from[n])
    <3>1. m \in Nodes /\ g[m] < g[n]
      BY <1>1, <2>3
    <3>2. w[g[n] + 1][n] = Append(w[g[n]][m], from[n])
      BY <1>5, <2>1, <2>3
    <3>3. w[g[n]][m] = w[g[m] + 1][m]
      BY <1>6, <2>1, <3>1
    <3> QED  BY <3>1, <3>2, <3>3, <2>3
  <2> QED  BY <2>2, <2>3
<1> HIDE DEF T
<1> DEFINE R == Trail
<1>8. R = [n \in Nodes |-> IF from[n] = 0 THEN <<>> ELSE Append(R[From(from[n])], from[n])]
  BY <1>7, Zenon DEF Trail
<1> HIDE DEF R
<1>9. \A n \in Nodes : R[n] = IF from[n] = 0 THEN <<>> ELSE Append(R[From(from[n])], from[n])
  BY <1>8
<1> QED  BY <1>9 DEF R

(* What is collected for a node that has been reached is a walk from the       *)
(* start to it, over nodes that cost less.                                  *)
Leads(n) ==
  /\ Trail[n] \in Seq(Edges)
  /\ Trail[n] \in Walks(est, nst, start)[Len(Trail[n])]
  /\ EndOf(start, Trail[n]) = n
  /\ \A x \in NodesOf(start, Trail[n]) : x \in Nodes /\ g[x] <= g[n]

(* Every node with a cost has such a walk: the cheapest without one would have one.*)
LEMMA TrailLeads ==
  ASSUME TypeInv, CostsGrow, StartsAlone
  PROVE  \A n \in Nodes : g[n] # Infinite => Leads(n)
<1>1. /\ \A n \in Nodes : g[n] \in Nat /\ g[n] <= Infinite
      /\ Infinite \in Nat /\ start \in Nodes /\ g[start] = 0
  BY Numbers, StartCosts DEF TypeInv, AskedInv
<1>2. /\ Walks(est, nst, start)[0] = {<<>>}
      /\ \A k \in Nat : \A p \in Walks(est, nst, start)[k] :
           Longer(est, nst, start, p) \subseteq Walks(est, nst, start)[k + 1]
  <2>1. Walks(est, nst, start)[0] = {<<>>}
    BY WalksByLength
  <2>2. ASSUME NEW k \in Nat, NEW p \in Walks(est, nst, start)[k]
        PROVE  Longer(est, nst, start, p) \subseteq Walks(est, nst, start)[k + 1]
    <3>1. k + 1 \in Nat /\ k + 1 # 0 /\ (k + 1) - 1 = k
      OBVIOUS
    <3>2. Walks(est, nst, start)[k + 1] =
            UNION {Longer(est, nst, start, q) : q \in Walks(est, nst, start)[(k + 1) - 1]}
      BY <3>1, WalksByLength
    <3> QED  BY <3>1, <3>2
  <2> QED  BY <2>1, <2>2
<1> DEFINE Bad == {n \in Nodes : g[n] # Infinite /\ ~Leads(n)}
           Costly == {g[n] : n \in Bad}
<1> SUFFICES ASSUME Bad # {} PROVE FALSE
  OBVIOUS
<1>3. PICK n \in Bad : \A o \in Bad : g[n] <= g[o]
  <2>1. Costly \in SUBSET Nat /\ Costly # {}
    BY <1>1
  <2>2. PICK c \in Costly : \A d \in Costly : c <= d
    <3> HIDE DEF Costly
    <3> QED  BY <2>1, Least
  <2> QED  BY <2>2
<1>4. n \in Nodes /\ g[n] # Infinite /\ ~Leads(n)
  BY <1>3
<1>5. CASE from[n] = 0
  <2>1. n = start
    BY <1>4, <1>5 DEF CostsGrow
  <2>2. Trail[n] = <<>>
    BY <1>4, <1>5, TrailStep
  <2>3. Len(<<>>) = 0 /\ <<>> \in Seq(Edges) /\ 1..0 = {}
    OBVIOUS
  <2>4. EndOf(start, <<>>) = start
    BY DEF EndOf
  <2>5. NodesOf(start, <<>>) = {start}
    BY <2>3 DEF NodesOf
  <2>6. Leads(n)
    BY <2>1, <2>2, <2>3, <2>4, <2>5, <1>1, <1>2 DEF Leads
  <2> QED  BY <2>6, <1>4
<1>6. CASE from[n] # 0
  <2> DEFINE e == from[n]
             m == From(e)
             p == Trail[m]
  <2>1. /\ e \in Edges /\ m \in Nodes /\ To(e) = n /\ Usable(est, nst, e) /\ g[m] < g[n]
    BY <1>4, <1>6, MapTypes, OpenIsUsable DEF CostsGrow, TypeInv
  <2>2. Trail[n] = Append(p, e)
    BY <1>4, <1>6, TrailStep
  <2> HIDE DEF e
  <2>3. g[m] # Infinite /\ m \notin Bad
    BY <1>1, <1>3, <1>4, <2>1
  <2>4. Leads(m)
    BY <2>1, <2>3
  <2>5. /\ p \in Seq(Edges) /\ p \in Walks(est, nst, start)[Len(p)] /\ EndOf(start, p) = m
        /\ \A x \in NodesOf(start, p) : x \in Nodes /\ g[x] <= g[m]
    BY <2>4 DEF Leads
  <2> HIDE DEF p
  <2> DEFINE q == Append(p, e)
  <2>6. /\ q \in Seq(Edges) /\ Len(q) = Len(p) + 1 /\ Len(p) \in Nat
        /\ q[Len(p) + 1] = e /\ \A i \in 1..Len(p) : q[i] = p[i]
    BY <2>1, <2>5
  <2>7. n \notin NodesOf(start, p)
    BY <2>1, <2>5, <1>1, <1>4
  <2>8. q \in Longer(est, nst, start, p)
    BY <2>1, <2>5, <2>7 DEF Longer, OutEdges
  <2> HIDE DEF q
  <2>9. q \in Walks(est, nst, start)[Len(q)]
    BY <2>5, <2>6, <2>8, <1>2
  <2>10. EndOf(start, q) = n
    BY <2>1, <2>6 DEF EndOf
  <2>11. \A x \in NodesOf(start, q) : x \in Nodes /\ g[x] <= g[n]
    <3> SUFFICES ASSUME NEW x \in NodesOf(start, q) PROVE x \in Nodes /\ g[x] <= g[n]
      OBVIOUS
    <3>1. x = n \/ x \in NodesOf(start, p)
      BY <2>1, <2>6 DEF NodesOf
    <3> QED  BY <3>1, <2>1, <2>5, <1>1, <1>4
  <2>12. Leads(n)
    BY <2>2, <2>6, <2>9, <2>10, <2>11 DEF Leads, q
  <2> QED  BY <2>12, <1>4
<1> QED  BY <1>5, <1>6

(* A walk visits no node twice, so it is no longer than there are nodes.      *)
LEMMA WalksAreShort ==
  ASSUME NEW s, NEW k \in Nat, NEW p \in Walks(est, nst, s)[k]
  PROVE  k \in 0..NodeCount
<1>1. /\ p \in Seq(Edges) /\ Len(p) = k
      /\ \A i, j \in 1..Len(p) : To(p[i]) = To(p[j]) => i = j
  BY WalksAreWalks DEF IsWalk
<1> DEFINE h == [i \in 1..k |-> To(p[i])]
<1>2. \A i \in 1..k : To(p[i]) \in Nodes
  BY <1>1, MapTypes
<1>3. h \in Injection(1..k, Nodes)
  <2>1. h \in [1..k -> Nodes]
    BY <1>2
  <2>2. \A i, j \in 1..k : h[i] = h[j] => i = j
    BY <1>1
  <2> HIDE DEF h
  <2>3. DOMAIN h = 1..k
    BY <2>1
  <2>4. h \in {f \in [1..k -> Nodes] : \A i, j \in DOMAIN f : f[i] = f[j] => i = j}
    BY <2>1, <2>2, <2>3
  <2> QED  BY <2>4 DEF Injection, IsInjective
<1>4. NodeCount \in Nat
  BY MapTypes
<1>5. IsFiniteSet(Nodes) /\ Cardinality(Nodes) = NodeCount
  BY <1>4, FS_Interval DEF Nodes
<1>6. Cardinality(1..k) <= Cardinality(Nodes)
  <2> HIDE DEF h
  <2> QED  BY <1>3, <1>5, FS_Injection
<1>7. Cardinality(1..k) = k
  <2>1. \A i, j \in Int : Cardinality(i..j) = IF i > j THEN 0 ELSE j - i + 1
    BY FS_Interval
  <2>2. Cardinality(1..k) = IF 1 > k THEN 0 ELSE k - 1 + 1
    BY <2>1
  <2> QED  BY <2>2
<1> QED  BY <1>4, <1>5, <1>6, <1>7

(* So what Arrive answers is a route, or nothing where the two nodes are one. *)
LEMMA ArriveAnswers ==
  ASSUME TypeInv, CostsGrow, StartsAlone, InRange, g[target] # Infinite
  PROVE  /\ Trail[target] \in Seq(Edges)
         /\ IF start = target THEN Trail[target] = <<>>
            ELSE Trail[target] \in Routes(est, nst, start, target)
<1>1. target \in Nodes /\ start \in Nodes
  BY DEF TypeInv, AskedInv
<1>2. Leads(target)
  BY <1>1, TrailLeads
<1> DEFINE p == Trail[target]
<1>3. /\ p \in Seq(Edges) /\ p \in Walks(est, nst, start)[Len(p)] /\ EndOf(start, p) = target
  BY <1>2 DEF Leads
<1>4. start = target => p = <<>>
  BY <1>1, TrailStep DEF StartsAlone
<1> HIDE DEF p
<1>5. Len(p) \in 0..NodeCount
  BY <1>3, WalksAreShort
<1>6. p \in SimpleWalks(est, nst, start)
  BY <1>3, <1>5 DEF SimpleWalks
<1>7. start # target => p \in Routes(est, nst, start, target)
  BY <1>3, <1>6 DEF Routes, InRange
<1> QED  BY <1>3, <1>4, <1>7 DEF p
-----------------------------------------------------------------------------
(* What the search knows when the queue runs empty.  An entry is for a node    *)
(* that has a cost; each closed node adds one road at most to the costs, so   *)
(* that they stay below Infinite; a node with a cost is closed or waits in    *)
(* the queue; and what an expanded node leads to has a cost.                 *)
OpenInv == \A o \in open : o.g < Infinite
BoundInv ==
  /\ IsFiniteSet(closed)
  /\ \A n \in Nodes : g[n] # Infinite => g[n] <= 11 * Cardinality(closed)
Reached == \A n \in Nodes : g[n] # Infinite => n \in closed \/ \E o \in open : o.id = n
Spread ==
  \A n \in closed \ {target} : \A d \in OutEdges(n) : OpenRoad(d) => g[To(d)] # Infinite
Untouched == Searching => target \notin closed

SearchInv ==
  /\ TypeInv /\ CostsGrow /\ StartsAlone
  /\ OpenInv /\ BoundInv /\ Reached /\ Spread /\ Untouched

(* The first step of an expansion: the entry is for a node that has a cost.   *)
LEMMA EntriesCount ==
  ASSUME TypeInv, OpenInv, NEW e \in open
  PROVE  e.id \in Nodes /\ g[e.id] \in Nat /\ g[e.id] # Infinite
<1>1. e.id \in Nodes /\ e.g \in Costs /\ g[e.id] <= e.g /\ e.g < Infinite
  BY DEF TypeInv, OpenInv
<1>2. g[e.id] \in Nat /\ e.g \in Nat /\ Infinite \in Nat
  BY <1>1, Numbers DEF TypeInv
<1> QED  BY <1>1, <1>2

(* No cost rises in an expansion, and a lower one came with an entry.        *)
LEMMA ExpansionStep ==
  ASSUME TypeInv, OpenInv, NEW e \in open, Expand(e, Better(e.id))
  PROVE  /\ e.id \in Nodes /\ e.id \notin closed /\ e.id # target
         /\ g[e.id] \in Nat /\ g[e.id] # Infinite
         /\ closed' = closed \cup {e.id}
         /\ open' = (open \ {e}) \cup {[id |-> To(d), g |-> CostVia(d)] : d \in Better(e.id)}
         /\ \A n \in Nodes :
              \/ EdgesTo(Better(e.id), n) = {} /\ g'[n] = g[n]
              \/ /\ g'[n] \in Nat /\ g'[n] < g[n] /\ g'[n] <= g[e.id] + 11
                 /\ \E d \in Better(e.id) : To(d) = n
<1> DEFINE m == e.id
<1>1. m \in Nodes /\ g[m] \in Nat /\ g[m] # Infinite
  BY EntriesCount
<1>2. /\ g' = [n \in Nodes |-> IF EdgesTo(Better(m), n) = {} THEN g[n]
                             ELSE Min({CostVia(d) : d \in EdgesTo(Better(m), n)})]
      /\ from' = [n \in Nodes |-> IF EdgesTo(Better(m), n) = {} THEN from[n]
                             ELSE CHOOSE d \in EdgesTo(Better(m), n) : CostVia(d) = g'[n]]
  BY DEF Expand
<1>3. /\ m \notin closed /\ m # target /\ closed' = closed \cup {m}
      /\ open' = (open \ {e}) \cup {[id |-> To(d), g |-> CostVia(d)] : d \in Better(m)}
  BY DEF Expand
<1> HIDE DEF m
<1>4. ASSUME NEW n \in Nodes
      PROVE  \/ EdgesTo(Better(m), n) = {} /\ g'[n] = g[n]
             \/ /\ g'[n] \in Nat /\ g'[n] < g[n] /\ g'[n] <= g[m] + 11
                /\ \E d \in Better(m) : To(d) = n
  <2>1. CASE EdgesTo(Better(m), n) = {} /\ g'[n] = g[n]
    BY <2>1
  <2>2. CASE /\ g'[n] \in Nat /\ g'[n] < g[n] /\ g'[n] <= g[m] + 11
             /\ from'[n] \in Better(m) /\ To(from'[n]) = n
    BY <2>2
  <2> QED  BY <1>1, <1>2, <2>1, <2>2, Expanded
<1> QED  BY <1>1, <1>3, <1>4 DEF m

(* There are as many closed nodes as nodes, at most.                         *)
LEMMA ClosedNodes ==
  ASSUME NEW S \in SUBSET Nodes
  PROVE  IsFiniteSet(S) /\ Cardinality(S) \in Nat /\ Cardinality(S) <= NodeCount
<1>1. NodeCount \in Nat
  BY MapTypes
<1>2. IsFiniteSet(Nodes) /\ Cardinality(Nodes) = NodeCount
  BY <1>1, FS_Interval DEF Nodes
<1>3. IsFiniteSet(S) /\ Cardinality(S) <= Cardinality(Nodes)
  BY <1>2, FS_Subset
<1> QED  BY <1>2, <1>3, FS_CardinalityType

(* The search starts so,                                                     *)
LEMMA SearchInit == Init => SearchInv
<1> SUFFICES ASSUME Init PROVE SearchInv
  OBVIOUS
<1>1. TypeInv /\ CostsGrow
  BY TypeInit, GrowInit
<1>2. start \in Nodes /\ StartsAlone
  BY <1>1 DEF Init, StartsAlone, TypeInv, AskedInv
<1>3. Infinite \in Nat /\ Infinite > 0
  BY Numbers
<1>4. closed = {} /\ open = {[id |-> start, g |-> 0]}
  BY DEF Init
<1>5. \A n \in Nodes : g[n] # Infinite => n = start /\ g[n] = 0
  BY DEF Init
<1>6. OpenInv /\ Reached /\ Spread /\ Untouched
  BY <1>3, <1>4, <1>5 DEF OpenInv, Reached, Spread, Untouched
<1>7. BoundInv
  <2>1. IsFiniteSet(closed) /\ Cardinality(closed) = 0
    BY <1>4, FS_EmptySet
  <2> QED  BY <2>1, <1>5 DEF BoundInv
<1> QED  BY <1>1, <1>2, <1>6, <1>7 DEF SearchInv

(* Expanding a node keeps all of them.                                       *)
LEMMA SpreadStep ==
  ASSUME SearchInv, NEW e \in open, Expand(e, Better(e.id)),
         est' = est, nst' = nst, start' = start, target' = target
  PROVE  (OpenInv /\ BoundInv /\ Reached /\ Spread)'
<1> DEFINE m == e.id
<1>0. TypeInv /\ OpenInv /\ BoundInv /\ Reached /\ Spread
  BY DEF SearchInv
<1>1. /\ m \in Nodes /\ m \notin closed /\ m # target
      /\ g[m] \in Nat /\ g[m] # Infinite
      /\ closed' = closed \cup {m}
      /\ open' = (open \ {e}) \cup {[id |-> To(d), g |-> CostVia(d)] : d \in Better(m)}
  BY <1>0, ExpansionStep
<1>2. \A n \in Nodes : \/ EdgesTo(Better(m), n) = {} /\ g'[n] = g[n]
                       \/ /\ g'[n] \in Nat /\ g'[n] < g[n] /\ g'[n] <= g[m] + 11
                          /\ \E d \in Better(m) : To(d) = n
  BY <1>0, ExpansionStep
<1>3. e.id = m
  OBVIOUS
<1> HIDE DEF m
<1>4. /\ Infinite \in Nat /\ NodeCount \in Nat /\ Infinite > 11 * NodeCount
      /\ \A n \in Nodes : g[n] \in Nat /\ g[n] <= Infinite
  BY <1>0, Numbers DEF TypeInv
<1>5. \A d \in OutEdges(m) : /\ d \in Edges /\ From(d) = m /\ To(d) \in Nodes
                             /\ CostVia(d) = g[m] + EdgeCost(d) /\ EdgeCost(d) \in {1, 11}
  BY MapTypes, RoadCost DEF OutEdges, CostVia
<1>6. OpenInv'
  <2> SUFFICES ASSUME NEW o \in open' PROVE o.g < Infinite
    BY DEF OpenInv
  <2>1. CASE o \in open
    BY <2>1, <1>0 DEF OpenInv
  <2>2. CASE \E d \in Better(m) : o = [id |-> To(d), g |-> CostVia(d)]
    <3>1. PICK d \in Better(m) : o = [id |-> To(d), g |-> CostVia(d)]
      BY <2>2
    <3>2. CostVia(d) < g[To(d)] /\ d \in OutEdges(m)
      BY DEF Better, Improves
    <3>3. CostVia(d) \in Nat /\ To(d) \in Nodes
      BY <3>2, <1>1, <1>5
    <3> QED  BY <3>1, <3>2, <3>3, <1>4
  <2> QED  BY <2>1, <2>2, <1>1
<1>7. closed \in SUBSET Nodes /\ closed' \in SUBSET Nodes
  BY <1>0, <1>1 DEF TypeInv
<1> DEFINE c == Cardinality(closed)
<1>8. /\ IsFiniteSet(closed') /\ Cardinality(closed') = c + 1 /\ c \in Nat /\ c + 1 <= NodeCount
  <2>1. IsFiniteSet(closed) /\ c \in Nat
    BY <1>7, ClosedNodes
  <2>2. IsFiniteSet(closed \cup {m}) /\ Cardinality(closed \cup {m}) = c + 1
    BY <2>1, <1>1, FS_AddElement
  <2>3. Cardinality(closed') <= NodeCount
    BY <1>7, ClosedNodes
  <2> QED  BY <2>1, <2>2, <2>3, <1>1
<1>9. g[m] <= 11 * c
  BY <1>0, <1>1 DEF BoundInv
<1>10. \A n \in Nodes : g[n] # Infinite => g[n] <= 11 * c
  BY <1>0 DEF BoundInv
<1> HIDE DEF c
<1>11. BoundInv'
  <2> SUFFICES ASSUME NEW n \in Nodes, g'[n] # Infinite PROVE g'[n] <= 11 * (c + 1)
    BY <1>8 DEF BoundInv
  <2>1. CASE g'[n] = g[n]
    BY <2>1, <1>4, <1>8, <1>10
  <2>2. CASE g'[n] \in Nat /\ g'[n] <= g[m] + 11
    BY <2>2, <1>1, <1>8, <1>9
  <2> QED  BY <2>1, <2>2, <1>2
<1>12. Reached'
  <2> SUFFICES ASSUME NEW n \in Nodes, g'[n] # Infinite
               PROVE  n \in closed' \/ \E o \in open' : o.id = n
    BY DEF Reached
  <2>1. CASE g'[n] = g[n]
    <3>1. n \in closed \/ \E o \in open : o.id = n
      BY <2>1, <1>0 DEF Reached
    <3> QED  BY <3>1, <1>1, <1>3
  <2>2. CASE \E d \in Better(m) : To(d) = n
    <3>1. PICK d \in Better(m) : To(d) = n
      BY <2>2
    <3>2. [id |-> To(d), g |-> CostVia(d)] \in open'
      BY <1>1
    <3>3. [id |-> To(d), g |-> CostVia(d)].id = n
      BY <3>1
    <3> QED  BY <3>2, <3>3
  <2> QED  BY <2>1, <2>2, <1>2
<1>13. \A n \in Nodes : g[n] # Infinite => g'[n] # Infinite
  BY <1>2, <1>4
<1>14. Spread'
  <2> SUFFICES ASSUME NEW n \in closed' \ {target}, NEW d \in OutEdges(n), OpenRoad(d)
               PROVE  g'[To(d)] # Infinite
    <3>1. \A d : OpenRoad(d)' <=> OpenRoad(d)
      BY DEF OpenRoad
    <3> QED  BY <3>1 DEF Spread
  <2>1. To(d) \in Nodes
    BY MapTypes DEF OutEdges
  <2>2. CASE n \in closed
    BY <2>1, <2>2, <1>0, <1>13 DEF Spread
  <2>3. CASE n = m
    <3>1. CostVia(d) \in Nat /\ CostVia(d) <= g[m] + 11
      BY <2>3, <1>1, <1>5
    <3>2. CASE CostVia(d) < g[To(d)]
      <4>1. d \in EdgesTo(Better(m), To(d))
        BY <2>3, <3>2 DEF EdgesTo, Better, Improves
      <4>2. g'[To(d)] \in Nat /\ g'[To(d)] < g[To(d)]
        BY <4>1, <2>1, <1>2
      <4> QED  BY <4>2, <2>1, <1>4
    <3>3. CASE ~(CostVia(d) < g[To(d)])
      <4>1. g[To(d)] <= 11 * (c + 1)
        BY <3>1, <3>3, <2>1, <1>1, <1>4, <1>8, <1>9
      <4>2. g[To(d)] # Infinite
        BY <4>1, <2>1, <1>4, <1>8
      <4> QED  BY <4>2, <2>1, <1>13
    <3> QED  BY <3>2, <3>3
  <2> QED  BY <2>2, <2>3, <1>1
<1> QED  BY <1>6, <1>11, <1>12, <1>14

(* A route is never taken for Pending.                                       *)
LEMMA RoutesAreAnswers == \A p \in Seq(Edges) : p # Pending
<1> SUFFICES ASSUME Pending \in Seq(Edges) PROVE FALSE
  OBVIOUS
<1>1. Pending[1] \in Edges
  BY DEF Pending
<1>2. Pending[1] = 0
  BY DEF Pending
<1> QED  BY <1>1, <1>2 DEF Edges

(* and every step keeps it.                                                  *)
LEMMA SearchStep ==
  ASSUME SearchInv, [Next]_vars
  PROVE  SearchInv'
<1>0. TypeInv /\ CostsGrow /\ StartsAlone /\ OpenInv /\ BoundInv /\ Reached /\ Spread /\ Untouched
  BY DEF SearchInv
<1>1. (TypeInv /\ CostsGrow /\ StartsAlone)'
  BY <1>0, TypeStep, GrowStep, StartStep
<1>2. est' = est /\ nst' = nst /\ start' = start /\ target' = target
  BY <1>0, Steps DEF asked
<1>3. \A d : OpenRoad(d)' <=> OpenRoad(d)
  BY <1>2 DEF OpenRoad
<1>4. CASE UNCHANGED <<g, from, closed, open>>
  <2>1. (OpenInv /\ BoundInv /\ Reached /\ Spread)'
    BY <1>0, <1>2, <1>3, <1>4 DEF OpenInv, BoundInv, Reached, Spread
  <2>2. answer' = Pending => answer = Pending
    <3>1. CASE Reject \/ Fail
      BY <3>1 DEF Reject, Fail, Searching
    <3>2. CASE Pop
      BY <3>2 DEF Pop, Searching
    <3>3. CASE Done \/ UNCHANGED vars
      BY <3>3 DEF Done, vars
    <3> QED  BY <3>1, <3>2, <3>3 DEF Next
  <2>3. Untouched'
    BY <2>2, <1>0, <1>2, <1>4 DEF Untouched, Searching
  <2> QED  BY <2>1, <2>3, <1>1 DEF SearchInv
<1>5. CASE \E e \in open : Skip(e) /\ answer = Pending
  <2>1. PICK e \in open : Skip(e) /\ answer = Pending
    BY <1>5
  <2>2. /\ e.id \in closed /\ open' = open \ {e} /\ g' = g /\ closed' = closed /\ answer' = answer
    BY <2>1 DEF Skip
  <2>3. (OpenInv /\ BoundInv /\ Reached /\ Spread /\ Untouched)'
    BY <1>0, <1>2, <1>3, <2>2 DEF OpenInv, BoundInv, Reached, Spread, Untouched, Searching
  <2> QED  BY <2>3, <1>1 DEF SearchInv
<1>6. CASE \E e \in open : Arrive(e) /\ answer = Pending /\ InRange
  <2>1. PICK e \in open : Arrive(e) /\ answer = Pending /\ InRange
    BY <1>6
  <2>2. /\ e.id = target /\ open' = open \ {e} /\ g' = g /\ closed' = closed \cup {target}
        /\ target \notin closed /\ answer' = Trail[target]
    BY <2>1 DEF Arrive
  <2>3. g[target] # Infinite /\ target \in Nodes
    BY <2>2, <1>0, EntriesCount
  <2>4. answer' # Pending
    BY <2>1, <2>2, <2>3, <1>0, ArriveAnswers, RoutesAreAnswers
  <2>5. (OpenInv /\ Reached /\ Spread /\ Untouched)'
    BY <1>0, <1>2, <1>3, <2>2, <2>4 DEF OpenInv, Reached, Spread, Untouched, Searching
  <2>6. closed \in SUBSET Nodes
    BY <1>0 DEF TypeInv
  <2> DEFINE c == Cardinality(closed)
  <2>7. IsFiniteSet(closed') /\ Cardinality(closed') = c + 1 /\ c \in Nat
    <3>1. IsFiniteSet(closed) /\ c \in Nat
      BY <2>6, ClosedNodes
    <3> QED  BY <3>1, <2>2, FS_AddElement
  <2>8. \A n \in Nodes : g[n] # Infinite => g[n] <= 11 * c
    BY <1>0 DEF BoundInv
  <2>9. \A n \in Nodes : g[n] \in Nat
    BY <1>0, Numbers DEF TypeInv
  <2> HIDE DEF c
  <2>10. BoundInv'
    <3> SUFFICES ASSUME NEW n \in Nodes, g[n] # Infinite PROVE g[n] <= 11 * (c + 1)
      BY <2>2, <2>7 DEF BoundInv
    <3> QED  BY <2>7, <2>8, <2>9
  <2> QED  BY <2>5, <2>10, <1>1 DEF SearchInv
<1>7. CASE \E e \in open : Expand(e, Better(e.id)) /\ answer = Pending
  <2>1. PICK e \in open : Expand(e, Better(e.id)) /\ answer = Pending
    BY <1>7
  <2>2. (OpenInv /\ BoundInv /\ Reached /\ Spread)'
    BY <2>1, <1>2, SpreadStep
  <2>3. Untouched'
    BY <2>1, <1>0, <1>2 DEF Expand, Untouched, Searching
  <2> QED  BY <2>2, <2>3, <1>1 DEF SearchInv
<1> QED  BY <1>0, <1>4, <1>5, <1>6, <1>7, Steps

(* When the queue is empty, there is no route.                               *)
LEMMA EmptyMeansNone ==
  ASSUME SearchInv, Searching, open = {}
  PROVE  Routes(est, nst, start, target) = {}
<1>0. /\ TypeInv /\ CostsGrow /\ StartsAlone /\ Reached /\ Spread
      /\ target \notin closed /\ start \in Nodes /\ target \in Nodes
  BY DEF SearchInv, Untouched, TypeInv, AskedInv
<1> SUFFICES ASSUME NEW p \in Routes(est, nst, start, target) PROVE FALSE
  OBVIOUS
<1>1. /\ IsWalk(est, nst, start, p) /\ Len(p) \in 1..NodeCount
      /\ From(p[1]) = start /\ To(p[Len(p)]) = target
  BY <1>0, RoutesLead
<1>2. /\ Len(p) \in Nat /\ NodeCount \in Nat
      /\ \A i \in 1..Len(p) : p[i] \in Edges /\ OpenRoad(p[i])
      /\ \A i \in 1..(Len(p) - 1) : To(p[i]) = From(p[i + 1])
  BY <1>1, MapTypes, OpenIsUsable DEF IsWalk, IsChain
<1>3. \A n \in Nodes : g[n] # Infinite => n \in closed \ {target}
  BY <1>0 DEF Reached
<1> DEFINE Bad == {i \in 1..Len(p) : g[To(p[i])] = Infinite}
<1>4. Bad = {}
  <2> SUFFICES ASSUME Bad # {} PROVE FALSE
    OBVIOUS
  <2>1. PICK i \in Bad : \A j \in Bad : i <= j
    <3>1. Bad \in SUBSET Nat
      OBVIOUS
    <3> HIDE DEF Bad
    <3> QED  BY <3>1, Least
  <2>2. i \in 1..Len(p) /\ p[i] \in Edges /\ OpenRoad(p[i]) /\ From(p[i]) \in Nodes
    BY <2>1, <1>2, MapTypes
  <2>3. g[From(p[i])] # Infinite
    <3>1. CASE i = 1
      BY <3>1, <1>0, <1>1, StartCosts, Numbers
    <3>2. CASE i # 1
      <4>1. i - 1 \in 1..(Len(p) - 1) /\ (i - 1) + 1 = i /\ i - 1 \in 1..Len(p) /\ ~(i <= i - 1)
        BY <3>2, <2>2, <1>2
      <4>2. i - 1 \notin Bad
        BY <4>1, <2>1
      <4>3. From(p[i]) = To(p[i - 1])
        BY <4>1, <1>2
      <4> QED  BY <4>1, <4>2, <4>3
    <3> QED  BY <3>1, <3>2
  <2>4. From(p[i]) \in closed \ {target} /\ p[i] \in OutEdges(From(p[i]))
    BY <2>2, <2>3, <1>3 DEF OutEdges
  <2>5. g[To(p[i])] # Infinite
    BY <2>2, <2>4, <1>0 DEF Spread
  <2> QED  BY <2>1, <2>5
<1>5. Len(p) \in 1..Len(p)
  BY <1>1, <1>2
<1>6. g[target] # Infinite
  BY <1>1, <1>4, <1>5
<1> QED  BY <1>0, <1>3, <1>6

(* The search answers with one of the routes HostDispatch lets the planner   *)
(* choose from, and with none only if there is none: what find_path's loop  *)
(* computes on every map, for every status of its nodes and edges.          *)
THEOREM SearchAnswers == Spec => []Answer
<1>1. Init => SearchInv /\ Answer
  BY SearchInit DEF Init, Answer, Searching
<1>2. SearchInv /\ Answer /\ [Next]_vars => (SearchInv /\ Answer)'
  <2> SUFFICES ASSUME SearchInv, Answer, [Next]_vars PROVE Answer'
    BY SearchStep
  <2>0. TypeInv /\ CostsGrow /\ StartsAlone /\ OpenInv
    BY DEF SearchInv
  <2>1. est' = est /\ nst' = nst /\ start' = start /\ target' = target
    BY <2>0, Steps DEF asked
  <2> DEFINE routes == Routes(est, nst, start, target)
  <2> SUFFICES ASSUME answer' # Pending
               PROVE  IF routes = {} THEN answer' = <<>> ELSE answer' \in routes
    BY <2>1 DEF Answer, Searching
  <2>2. CASE Reject
    <3>1. answer' = <<>> /\ ~InRange
      BY <2>2 DEF Reject
    <3> QED  BY <3>1 DEF InRange, Routes
  <2>3. CASE Fail
    <3>1. answer' = <<>> /\ Searching /\ open = {}
      BY <2>3 DEF Fail
    <3> QED  BY <3>1, EmptyMeansNone
  <2>4. CASE answer' = answer
    BY <2>4 DEF Answer, Searching
  <2>5. CASE Pop
    <3>1. PICK e \in open : Skip(e) \/ Arrive(e) \/ Expand(e, Better(e.id))
      BY <2>5 DEF Pop
    <3>2. InRange
      BY <2>5 DEF Pop
    <3>3. CASE Skip(e) \/ Expand(e, Better(e.id))
      BY <3>3, <2>4 DEF Skip, Expand
    <3>4. CASE Arrive(e)
      <4>1. e.id = target /\ answer' = Trail[target]
        BY <3>4 DEF Arrive
      <4>2. g[target] # Infinite
        BY <4>1, <2>0, EntriesCount
      <4>3. IF start = target THEN Trail[target] = <<>> ELSE Trail[target] \in routes
        BY <4>2, <3>2, <2>0, ArriveAnswers
      <4>4. start = target => routes = {}
        BY DEF Routes
      <4> QED  BY <4>1, <4>3, <4>4
    <3> QED  BY <3>1, <3>3, <3>4
  <2>6. CASE Done \/ UNCHANGED vars
    BY <2>4, <2>6 DEF Done, vars
  <2> QED  BY <2>2, <2>3, <2>5, <2>6 DEF Next
<1> QED  BY <1>1, <1>2, PTL DEF Spec
===============================================================================
