----------------------------- MODULE AgvMapProofs -----------------------------
(***************************************************************************)
(* What AgvMap.tla computes on every map: the two directions of a road, and  *)
(* the routes find_path may answer with.  The walks are a recursive function *)
(* of their length; the lemmas on least numbers and on iteration take the   *)
(* place of induction.                                                     *)
(***************************************************************************)
EXTENDS AgvMap, WellFoundedInduction, TLAPS

-----------------------------------------------------------------------------
(* A set of natural numbers with an element has a least one.                 *)
LEMMA Least ==
  ASSUME NEW T \in SUBSET Nat, T # {}
  PROVE  \E m \in T : \A k \in T : m <= k
<1> DEFINE R == OpToRel(<, Nat)
<1>1. IsWellFoundedOn(R, Nat)
  BY NatLessThanWellFounded
<1>2. PICK m \in T : \A k \in T : <<k, m>> \notin R
  <2> HIDE DEF R
  <2> QED  BY <1>1, WFMin
<1>3. \A k \in T : ~(k < m)
  BY <1>2 DEF OpToRel
<1> QED  BY <1>3

(* One that is bounded has a greatest: what is left to the bound is least.    *)
LEMMA Greatest ==
  ASSUME NEW n \in Nat, NEW T \in SUBSET (0..n), T # {}
  PROVE  \E m \in T : \A k \in T : k <= m
<1> DEFINE D == {n - k : k \in T}
<1>1. D \in SUBSET Nat /\ D # {}
  <2>1. \A k \in T : n - k \in Nat /\ n - k \in D
    OBVIOUS
  <2> QED  BY <2>1
<1>2. PICK d \in D : \A e \in D : d <= e
  <2> HIDE DEF D
  <2> QED  BY <1>1, Least
<1>3. PICK m \in T : d = n - m
  BY <1>2
<1>4. ASSUME NEW k \in T PROVE k <= m
  <2>1. d <= n - k
    BY <1>2
  <2> QED  BY <2>1, <1>3
<1> QED  BY <1>4

(* A function of a set into itself may be iterated from any element: there    *)
(* is a sequence of its values.  Each of its initial parts is, and they agree. *)
LEMMA Iterates ==
  ASSUME NEW S, NEW f \in [S -> S], NEW a \in S
  PROVE  \E w \in [Nat -> S] : w[0] = a /\ \A k \in Nat : k # 0 => w[k] = f[w[k - 1]]
<1> DEFINE Upto(n) == {g \in [0..n -> S] : g[0] = a /\ \A k \in 1..n : g[k] = f[g[k - 1]]}
<1>1. \A n \in Nat : Upto(n) # {}
  <2> SUFFICES ASSUME {n \in Nat : Upto(n) = {}} # {} PROVE FALSE
    OBVIOUS
  <2>1. PICK m \in Nat : Upto(m) = {} /\ \A k \in Nat : Upto(k) = {} => m <= k
    <3> HIDE DEF Upto
    <3> QED  BY Least
  <2>2. CASE m = 0
    <3>1. [k \in 0..0 |-> a] \in Upto(0)
      OBVIOUS
    <3> QED  BY <3>1, <2>1, <2>2
  <2>3. CASE m # 0
    <3>1. PICK g : g \in Upto(m - 1)
      <4> HIDE DEF Upto
      <4> QED  BY <2>1, <2>3
    <3>2. [k \in 0..m |-> IF k = m THEN f[g[m - 1]] ELSE g[k]] \in Upto(m)
      BY <3>1, <2>3
    <3> QED  BY <3>2, <2>1
  <2> QED  BY <2>2, <2>3
<1>2. \A n, m \in Nat : \A g \in Upto(n), h \in Upto(m) : \A k \in 0..n : k <= m => g[k] = h[k]
  <2> SUFFICES ASSUME NEW n \in Nat, NEW m \in Nat, NEW g \in Upto(n), NEW h \in Upto(m),
                      NEW i \in 0..n, i <= m, g[i] # h[i]
               PROVE  FALSE
    OBVIOUS
  <2>1. PICK k \in 0..n : k <= m /\ g[k] # h[k] /\ \A j \in 0..n : j <= m /\ g[j] # h[j] => k <= j
    <3> HIDE DEF Upto
    <3> DEFINE T == {k \in 0..n : k <= m /\ g[k] # h[k]}
    <3>1. i \in T
      OBVIOUS
    <3>2. T \in SUBSET Nat /\ T # {}
      BY <3>1
    <3>3. PICK k \in T : \A j \in T : k <= j
      <4> HIDE DEF T
      <4> QED  BY <3>2, Least
    <3>4. \A j \in 0..n : j <= m /\ g[j] # h[j] => k <= j
      BY <3>3
    <3> QED  BY <3>3, <3>4
  <2>2. k # 0
    BY <2>1
  <2>3. g[k - 1] = h[k - 1]
    BY <2>1, <2>2
  <2> QED  BY <2>1, <2>2, <2>3
<1> DEFINE G(n) == CHOOSE g : g \in Upto(n)
           w == [k \in Nat |-> G(k)[k]]
<1>3. \A n \in Nat : G(n) \in Upto(n)
  <2> HIDE DEF Upto
  <2> QED  BY <1>1
<1>4. w \in [Nat -> S] /\ w[0] = a
  <2> HIDE DEF G
  <2> QED  BY <1>3
<1>5. ASSUME NEW k \in Nat, k # 0 PROVE w[k] = f[w[k - 1]]
  <2> HIDE DEF G
  <2>1. G(k) \in Upto(k) /\ G(k - 1) \in Upto(k - 1)
    BY <1>3, <1>5
  <2>2. G(k)[k - 1] = G(k - 1)[k - 1]
    <3> HIDE DEF Upto
    <3> QED  BY <2>1, <1>2, <1>5
  <2> QED  BY <2>1, <2>2, <1>5
<1> HIDE DEF w
<1> QED  BY <1>4, <1>5

-----------------------------------------------------------------------------
(* Counts and ends of edges, and the other direction of a road.              *)
LEMMA MapTypes ==
  /\ NodeCount \in Nat /\ Half \in Nat /\ EdgeCount \in Nat
  /\ \A e \in Edges : From(e) \in Nodes /\ To(e) \in Nodes
<1>1. NodeCount \in Nat /\ Half \in Nat /\ EdgeCount = Half + Half
  BY MapAssumption DEF NodeCount, Half, EdgeCount
<1>2. \A i \in 1..Half : Pairs[i][1] \in Nodes /\ Pairs[i][2] \in Nodes
  <2>1. \A i \in 1..Len(Pairs) : Pairs[i] \in (1..Len(Coord)) \X (1..Len(Coord))
    BY MapAssumption
  <2> QED  BY <2>1 DEF Half, Nodes, NodeCount
<1>3. \A e \in Edges : e \in 1..Half \/ (~(e <= Half) /\ e - Half \in 1..Half)
  BY <1>1 DEF Edges
<1> QED  BY <1>1, <1>2, <1>3 DEF From, To

(* The other direction is an edge that leads back.                           *)
LEMMA OtherDirection ==
  \A e \in Edges : Other(e) \in Edges /\ From(Other(e)) = To(e) /\ To(Other(e)) = From(e)
<1>1. Half \in Nat /\ Edges = 1..(Half + Half)
  BY MapTypes DEF Edges, EdgeCount
<1> SUFFICES ASSUME NEW e \in Edges
             PROVE  Other(e) \in Edges /\ From(Other(e)) = To(e) /\ To(Other(e)) = From(e)
  OBVIOUS
<1>2. CASE e <= Half
  <2>1. Other(e) = e + Half /\ Other(e) \in Edges /\ ~(e + Half <= Half) /\ (e + Half) - Half = e
    BY <1>1, <1>2 DEF Other
  <2> QED  BY <2>1, <1>2 DEF From, To
<1>3. CASE ~(e <= Half)
  <2>1. Other(e) = e - Half /\ Other(e) \in Edges /\ e - Half <= Half
    BY <1>1, <1>3 DEF Other
  <2> QED  BY <2>1, <1>3 DEF From, To
<1> QED  BY <1>2, <1>3

(* A road between two nodes is one in both directions.                       *)
LEMMA RoadsGoBothWays ==
  ASSUME NEW a, NEW b, EdgeBetween(a, b) # {}
  PROVE  EdgeBetween(b, a) # {}
BY OtherDirection DEF EdgeBetween, OutEdges

-----------------------------------------------------------------------------
(* What a walk is.                                                           *)
IsWalk(est, nst, s, p) ==
  /\ p \in Seq(Edges)
  /\ p # <<>> => From(p[1]) = s
  /\ IsChain(p)
  /\ \A i \in 1..Len(p) : Usable(est, nst, p[i]) /\ To(p[i]) # s
  /\ \A i, j \in 1..Len(p) : To(p[i]) = To(p[j]) => i = j

(* One edge more makes a walk of a walk.                                     *)
LEMMA LongerWalks ==
  ASSUME NEW est, NEW nst, NEW s, NEW p, IsWalk(est, nst, s, p),
         NEW q \in Longer(est, nst, s, p)
  PROVE  IsWalk(est, nst, s, q) /\ Len(q) = Len(p) + 1
<1>1. PICK e \in Edges : /\ q = Append(p, e) /\ From(e) = EndOf(s, p)
                         /\ Usable(est, nst, e) /\ To(e) \notin NodesOf(s, p)
  BY DEF Longer, OutEdges
<1>2. p \in Seq(Edges) /\ q \in Seq(Edges) /\ Len(q) = Len(p) + 1
  BY <1>1 DEF IsWalk
<1>3. /\ q[Len(p) + 1] = e
      /\ \A i \in 1..Len(p) : q[i] = p[i]
  BY <1>1, <1>2
<1>4. To(e) # s /\ \A i \in 1..Len(p) : To(p[i]) # To(e)
  BY <1>1 DEF NodesOf
<1>5. From(q[1]) = s
  BY <1>1, <1>2, <1>3 DEF IsWalk, EndOf
<1>6. ASSUME NEW i \in 1..(Len(q) - 1) PROVE To(q[i]) = From(q[i + 1])
  <2>1. CASE i = Len(p)
    BY <2>1, <1>1, <1>2, <1>3 DEF EndOf
  <2>2. CASE i # Len(p)
    BY <2>2, <1>2, <1>3 DEF IsWalk, IsChain
  <2> QED  BY <2>1, <2>2
<1>7. \A i \in 1..Len(q) : Usable(est, nst, q[i]) /\ To(q[i]) # s
  BY <1>1, <1>2, <1>3, <1>4 DEF IsWalk
<1>8. \A i, j \in 1..Len(q) : To(q[i]) = To(q[j]) => i = j
  <2>1. \A i, j \in 1..Len(p) : To(p[i]) = To(p[j]) => i = j
    BY DEF IsWalk
  <2> QED  BY <2>1, <1>2, <1>3, <1>4
<1> QED  BY <1>2, <1>5, <1>6, <1>7, <1>8 DEF IsWalk, IsChain

(* The recursion that Walks is defined by has a solution, so Walks is one.    *)
LEMMA WalksByLength ==
  ASSUME NEW est, NEW nst, NEW s
  PROVE  /\ Walks(est, nst, s)[0] = {<<>>}
         /\ \A k \in Nat : k # 0 =>
              Walks(est, nst, s)[k] =
                UNION {Longer(est, nst, s, p) : p \in Walks(est, nst, s)[k - 1]}
<1> DEFINE All == SUBSET Seq(Edges)
           f == [P \in All |-> UNION {Longer(est, nst, s, p) : p \in P}]
           none == {<<>>}
<1>1. f \in [All -> All] /\ none \in All
  BY DEF Longer, OutEdges
<1>2. \E w \in [Nat -> All] : w[0] = none /\ \A k \in Nat : k # 0 => w[k] = f[w[k - 1]]
  <2> HIDE DEF All, f, none
  <2>1. \A g \in [All -> All] : \A a \in All :
          \E w \in [Nat -> All] : w[0] = a /\ \A k \in Nat : k # 0 => w[k] = g[w[k - 1]]
    BY Iterates
  <2> QED  BY <1>1, <2>1
<1> PICK w \in [Nat -> All] : w[0] = none /\ \A k \in Nat : k # 0 => w[k] = f[w[k - 1]]
  BY <1>2
<1>3. \A k \in Nat : k # 0 => w[k] = UNION {Longer(est, nst, s, p) : p \in w[k - 1]}
  <2> SUFFICES ASSUME NEW k \in Nat, k # 0
               PROVE  w[k] = UNION {Longer(est, nst, s, p) : p \in w[k - 1]}
    OBVIOUS
  <2>1. w[k - 1] \in All
    <3> HIDE DEF All
    <3> QED  BY <1>2
  <2>2. w[k] = f[w[k - 1]]
    BY <1>2
  <2> QED  BY <2>1, <2>2
<1> HIDE DEF f
<1>4. w = [k \in Nat |-> IF k = 0 THEN {<<>>}
                        ELSE UNION {Longer(est, nst, s, p) : p \in w[k - 1]}]
  BY <1>2, <1>3
<1> DEFINE W == Walks(est, nst, s)
<1>5. W = [k \in Nat |-> IF k = 0 THEN {<<>>}
                        ELSE UNION {Longer(est, nst, s, p) : p \in W[k - 1]}]
  BY <1>4, Zenon DEF Walks
<1> HIDE DEF W
<1>6. W[0] = {<<>>} /\ \A k \in Nat : k # 0 => W[k] = UNION {Longer(est, nst, s, p) : p \in W[k - 1]}
  BY <1>5
<1> QED  BY <1>6 DEF W

(* The walks of a length are walks, of that length.                          *)
LEMMA WalksAreWalks ==
  ASSUME NEW est, NEW nst, NEW s
  PROVE  \A k \in Nat : \A p \in Walks(est, nst, s)[k] : IsWalk(est, nst, s, p) /\ Len(p) = k
<1> DEFINE Good(k) == \A p \in Walks(est, nst, s)[k] : IsWalk(est, nst, s, p) /\ Len(p) = k
           Bad == {k \in Nat : ~Good(k)}
<1>1. Good(0)
  <2>1. Walks(est, nst, s)[0] = {<<>>}
    BY WalksByLength
  <2>2. Len(<<>>) = 0 /\ <<>> \in Seq(Edges) /\ 1..0 = {}
    OBVIOUS
  <2>3. IsWalk(est, nst, s, <<>>)
    BY <2>2 DEF IsWalk, IsChain
  <2> QED  BY <2>1, <2>2, <2>3
<1>2. ASSUME NEW k \in Nat, k # 0, Good(k - 1) PROVE Good(k)
  <2> SUFFICES ASSUME NEW q \in Walks(est, nst, s)[k]
               PROVE  IsWalk(est, nst, s, q) /\ Len(q) = k
    OBVIOUS
  <2>1. PICK p \in Walks(est, nst, s)[k - 1] : q \in Longer(est, nst, s, p)
    BY <1>2, WalksByLength
  <2>2. IsWalk(est, nst, s, p) /\ Len(p) = k - 1
    BY <2>1, <1>2
  <2>3. IsWalk(est, nst, s, q) /\ Len(q) = Len(p) + 1
    BY <2>1, <2>2, LongerWalks
  <2> QED  BY <2>2, <2>3
<1> HIDE DEF Good
<1>3. Bad = {}
  <2> SUFFICES ASSUME Bad # {} PROVE FALSE
    OBVIOUS
  <2>1. PICK k \in Bad : \A j \in Bad : k <= j
    BY Least
  <2>2. k # 0 /\ k - 1 \in Nat
    BY <1>1, <2>1
  <2>3. Good(k - 1)
    BY <2>1, <2>2
  <2> QED  BY <1>2, <2>1, <2>2, <2>3
<1>4. \A k \in Nat : Good(k)
  BY <1>3
<1> QED  BY <1>4 DEF Good

(* Every answer find_path may give leads from s to t over usable edges, is as *)
(* short as there are nodes, and leaves no node twice.                      *)
LEMMA RoutesLead ==
  ASSUME NEW est, NEW nst, NEW s \in Nodes, NEW t, NEW p \in Routes(est, nst, s, t)
  PROVE  /\ IsWalk(est, nst, s, p)
         /\ p # <<>> /\ Len(p) \in 1..NodeCount
         /\ From(p[1]) = s /\ To(p[Len(p)]) = t
         /\ \A i, j \in 1..Len(p) : From(p[i]) = From(p[j]) => i = j
<1>1. s # t /\ p \in SimpleWalks(est, nst, s) /\ EndOf(s, p) = t
  BY DEF Routes
<1>2. PICK k \in 0..NodeCount : p \in Walks(est, nst, s)[k]
  BY <1>1 DEF SimpleWalks
<1>3. k \in Nat /\ NodeCount \in Nat
  BY MapTypes
<1>4. IsWalk(est, nst, s, p) /\ Len(p) = k
  BY <1>2, <1>3, WalksAreWalks
<1>5. p \in Seq(Edges) /\ p # <<>> /\ From(p[1]) = s /\ To(p[Len(p)]) = t
  BY <1>1, <1>4 DEF IsWalk, EndOf
<1>6. Len(p) \in 1..NodeCount
  BY <1>3, <1>4, <1>5
<1>7. \A i \in 1..Len(p) : i # 1 => From(p[i]) = To(p[i - 1])
  <2> SUFFICES ASSUME NEW i \in 1..Len(p), i # 1 PROVE From(p[i]) = To(p[i - 1])
    OBVIOUS
  <2>1. i - 1 \in 1..(Len(p) - 1) /\ (i - 1) + 1 = i
    BY <1>5
  <2> QED  BY <2>1, <1>4 DEF IsWalk, IsChain
<1>8. ASSUME NEW i \in 1..Len(p), NEW j \in 1..Len(p), From(p[i]) = From(p[j])
      PROVE  i = j
  <2>1. CASE i = 1
    BY <2>1, <1>4, <1>5, <1>7, <1>8 DEF IsWalk
  <2>2. CASE j = 1
    BY <2>2, <1>4, <1>5, <1>7, <1>8 DEF IsWalk
  <2>3. CASE i # 1 /\ j # 1
    <3>1. i - 1 \in 1..Len(p) /\ j - 1 \in 1..Len(p)
      BY <2>3, <1>5
    <3>2. To(p[i - 1]) = To(p[j - 1])
      BY <2>3, <1>7, <1>8
    <3>3. i - 1 = j - 1
      BY <3>1, <3>2, <1>4 DEF IsWalk
    <3> QED  BY <3>3, <1>5
  <2> QED  BY <2>1, <2>2, <2>3
<1> QED  BY <1>4, <1>5, <1>6, <1>8
=============================================================================
