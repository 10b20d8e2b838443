-------------------------- MODULE ShortestPathProofs --------------------------
(***************************************************************************)
(* Theorems about ShortestPath: the distances that are computed, and the   *)
(* paths that are found by walking back, are those that the graph defines, *)
(* for every graph and however messages of equal cost are ordered.         *)
(***************************************************************************)
EXTENDS ShortestPath, FiniteSetTheorems, SequenceTheorems, NaturalsInduction, WellFoundedInduction, TLAPS

(* Induction, over a set of numbers and not over a formula: every set of   *)
(* numbers has a least one.                                                *)
LEMMA LeastNumber ==
    ASSUME NEW T, T \subseteq Nat, T # {}
    PROVE  \E n \in T : \A m \in T : n <= m
<1> DEFINE R == {ss \in Nat \X Nat : ss[1] < ss[2]}
<1>1. IsWellFoundedOn(R, Nat)
  BY NatLessThanWellFounded DEF OpToRel
<1> HIDE DEF R
<1>2. PICK x \in T : \A y \in T : ~ (<<y, x>> \in R)
  BY <1>1, WFMin
<1>3. ASSUME NEW y \in T PROVE x <= y
  <2>1. ~(<<y, x>> \in R)
    BY <1>2
  <2>2. <<y, x>> \in Nat \X Nat /\ <<y, x>>[1] = y /\ <<y, x>>[2] = x
    OBVIOUS
  <2>3. ~(y < x)
    BY <2>1, <2>2 DEF R
  <2> QED BY <2>3
<1> QED BY <1>3

(* A set with 0 and with the successor of each of its numbers has all.     *)
LEMMA Induction ==
    ASSUME NEW T, 0 \in T, \A n \in Nat : n \in T => n + 1 \in T
    PROVE  Nat \subseteq T
<1> SUFFICES ASSUME Nat \ T # {} PROVE FALSE
  OBVIOUS
<1>1. PICK n \in Nat \ T : \A m \in Nat \ T : n <= m
  BY LeastNumber
<1>2. n # 0
  OBVIOUS
<1>3. n - 1 \in Nat /\ n = (n - 1) + 1 /\ ~(n <= n - 1)
  BY <1>2
<1>4. n - 1 \in T
  BY <1>1, <1>3
<1> QED BY <1>3, <1>4

LEMMA MinIsLeast ==
    ASSUME NEW T, T \subseteq Nat, T # {}
    PROVE  Min(T) \in T /\ \A m \in T : Min(T) <= m
BY LeastNumber DEF Min

(* A sum that fits is not wrapped.                                         *)
LEMMA PlusFits ==
    ASSUME NEW a \in Nat, NEW b \in Nat, a + b < MaxInt
    PROVE  Plus(a, b) = a + b
<1>1. MaxInt \in Nat
  BY PathAssumption
<1> DEFINE x == a + b + MaxInt + 1
           n == 2 * (MaxInt + 1)
<1>2. x \in Nat /\ n \in Nat \ {0} /\ x < n /\ x - (MaxInt + 1) = a + b
  BY <1>1
<1> HIDE DEF x, n
<1>3. x % n = x
  BY <1>2
<1>4. Plus(a, b) = (x % n) - (MaxInt + 1)
  BY DEF Plus, x, n
<1> QED BY <1>2, <1>3, <1>4
-----------------------------------------------------------------------------
(* The graph is finite and has no negative costs.                          *)
GraphOK ==
    /\ edges \in [Vertices -> Seq(Edge)]
    /\ Vertices \subseteq ID
    /\ IsFiniteSet(Vertices)

LEMMA EdgeAt ==
    ASSUME GraphOK, NEW u \in Vertices
    PROVE  /\ Len(edges[u]) \in Nat /\ DOMAIN edges[u] = 1..Len(edges[u])
           /\ \A k \in DOMAIN edges[u] :
                 edges[u][k].dstID \in ID /\ edges[u][k].cost \in Nat
<1>1. edges[u] \in Seq(Edge)
  BY DEF GraphOK
<1>2. Len(edges[u]) \in Nat /\ DOMAIN edges[u] = 1..Len(edges[u])
      /\ \A k \in DOMAIN edges[u] : edges[u][k] \in Edge
  BY <1>1, ElementOfSeq, LenProperties
<1> QED BY <1>2 DEF Edge

(* There is an edge from u to v.                                           *)
Hop(u, v) == \E k \in DOMAIN edges[u] : edges[u][k].dstID = v

LEMMA HopIsLeast ==
    ASSUME GraphOK, NEW u \in Vertices, NEW v, Hop(u, v)
    PROVE  /\ HopCost(u, v) \in Nat
           /\ \E k \in DOMAIN edges[u] : edges[u][k].dstID = v /\ edges[u][k].cost = HopCost(u, v)
           /\ \A k \in DOMAIN edges[u] : edges[u][k].dstID = v => HopCost(u, v) <= edges[u][k].cost
<1> DEFINE T == {edges[u][k].cost : k \in {k \in DOMAIN edges[u] : edges[u][k].dstID = v}}
<1>1. T \subseteq Nat
  BY EdgeAt
<1>2. T # {}
  BY DEF Hop
<1>3. HopCost(u, v) = Min(T)
  BY DEF HopCost
<1>4. \A c : c \in T <=> \E k \in DOMAIN edges[u] : edges[u][k].dstID = v /\ c = edges[u][k].cost
  OBVIOUS
<1> HIDE DEF T
<1>5. HopCost(u, v) \in T /\ \A c \in T : HopCost(u, v) <= c
  BY <1>1, <1>2, <1>3, MinIsLeast
<1> QED BY <1>1, <1>4, <1>5
-----------------------------------------------------------------------------
(* The costs of the first n vertices of p are f.                           *)
Upto(p, n, f) == f = [i \in 1..n |-> IF i = 1 THEN 0 ELSE f[i - 1] + HopCost(p[i - 1], p[i])]

LEMMA UptoExists == ASSUME NEW p PROVE \A n \in Nat : \E f : Upto(p, n, f)
<1> DEFINE T == {n \in Nat : \E f : Upto(p, n, f)}
           V(x, i) == x + HopCost(p[i - 1], p[i])
<1> HIDE DEF V
<1>0. \A n, f : Upto(p, n, f) <=> f = [i \in 1..n |-> IF i = 1 THEN 0 ELSE V(f[i - 1], i)]
  BY DEF Upto, V
<1>1. 0 \in T
  <2>1. PICK f : f = [i \in 1..0 |-> 0]
    OBVIOUS
  <2>2. f = [i \in 1..0 |-> IF i = 1 THEN 0 ELSE V(f[i - 1], i)]
    BY <2>1
  <2>3. Upto(p, 0, f)
    BY <1>0, <2>2
  <2> QED BY <2>3
<1>2. ASSUME NEW n \in Nat, n \in T PROVE n + 1 \in T
  <2>1. PICK f : f = [i \in 1..n |-> IF i = 1 THEN 0 ELSE V(f[i - 1], i)]
    BY <1>0, <1>2
  <2> DEFINE h == [i \in 1..(n + 1) |-> IF i = n + 1 THEN (IF i = 1 THEN 0 ELSE V(f[n], i)) ELSE f[i]]
  <2>2. ASSUME NEW i \in 1..(n + 1)
        PROVE  h[i] = IF i = 1 THEN 0 ELSE V(h[i - 1], i)
    <3>1. CASE i = 1
      BY <2>1, <3>1
    <3>2. CASE i \in 2..n
      <4>1. /\ i \in 1..n /\ i - 1 \in 1..n /\ i - 1 \in 1..(n + 1)
            /\ i # n + 1 /\ i - 1 # n + 1 /\ i # 1
        BY <3>2
      <4>2. h[i] = f[i] /\ h[i - 1] = f[i - 1]
        BY <4>1
      <4>3. f[i] = V(f[i - 1], i)
        BY <2>1, <4>1
      <4> HIDE DEF h
      <4> QED BY <4>1, <4>2, <4>3
    <3>3. CASE i = n + 1 /\ i # 1
      <4>1. /\ i \in 1..(n + 1) /\ i - 1 = n /\ n \in 1..(n + 1) /\ n # n + 1 /\ i # 1
        BY <3>3
      <4>2. h[i] = V(f[n], i) /\ h[n] = f[n]
        BY <3>3, <4>1
      <4> HIDE DEF h
      <4> QED BY <4>1, <4>2
    <3> QED BY <3>1, <3>2, <3>3
  <2>3. h = [i \in 1..(n + 1) |-> IF i = 1 THEN 0 ELSE V(h[i - 1], i)]
    <3>1. h = [i \in 1..(n + 1) |-> h[i]]
      OBVIOUS
    <3> HIDE DEF h
    <3> QED BY <2>2, <3>1
  <2> HIDE DEF h
  <2>4. Upto(p, n + 1, h)
    BY <1>0, <2>3
  <2> QED BY <2>4
<1> HIDE DEF T
<1>3. \A n \in Nat : n \in T
  BY <1>1, <1>2, Induction
<1> QED BY <1>3 DEF T

LEMMA UpToSame ==
    ASSUME NEW a \in Nat, NEW b \in Nat, 1..a = 1..b
    PROVE  a = b
<1>1. \A i \in Nat : (1 <= i /\ i <= a) <=> (1 <= i /\ i <= b)
  <2>1. \A i \in Nat : i \in 1..a <=> i \in 1..b
    OBVIOUS
  <2>2. \A i \in Nat : (i \in 1..a <=> (1 <= i /\ i <= a)) /\ (i \in 1..b <=> (1 <= i /\ i <= b))
    OBVIOUS
  <2> QED BY <2>1, <2>2
<1>2. ((1 <= a /\ a <= a) <=> (1 <= a /\ a <= b)) /\ ((1 <= b /\ b <= a) <=> (1 <= b /\ b <= b))
  BY <1>1
<1> QED BY <1>2

(* What a path is.                                                         *)
IsPath(p) ==
    /\ p \in Seq(Vertices) /\ Len(p) \in Nat \ {0} /\ DOMAIN p = 1..Len(p)
    /\ \A i \in 1..Len(p) : p[i] \in Vertices
    /\ \A i, j \in 1..Len(p) : i # j => p[i] # p[j]
    /\ \A i \in 2..Len(p) : Hop(p[i - 1], p[i])

LEMMA PathIs ==
    ASSUME GraphOK, NEW p \in Paths
    PROVE  IsPath(p)
<1>1. Cardinality(Vertices) \in Nat
  BY FS_CardinalityType DEF GraphOK
<1>2. PICK n \in 1..Cardinality(Vertices) : p \in [1..n -> Vertices]
  BY DEF Paths
<1>3. n \in Nat \ {0}
  BY <1>1
<1>7. p \in Seq(Vertices)
  BY <1>2, <1>3, SeqDef
<1>4. p \in Seq(Vertices) /\ Len(p) = n
  <2>1. DOMAIN p = 1..Len(p) /\ Len(p) \in Nat /\ DOMAIN p = 1..n
    BY <1>2, <1>7, LenProperties
  <2> QED BY <1>3, <1>7, <2>1, UpToSame
<1>5. \A i, j \in DOMAIN p : i # j => p[i] # p[j]
  BY DEF Paths
<1>6. \A i \in 2..Len(p) : Hop(p[i - 1], p[i])
  BY DEF Paths, Hop
<1> QED BY <1>2, <1>3, <1>4, <1>5, <1>6 DEF IsPath

(* No path is longer than there are vertices.                              *)
LEMMA FewVertices ==
    ASSUME GraphOK, NEW n \in Nat, NEW f \in [1..n -> Vertices],
           \A i, j \in 1..n : i # j => f[i] # f[j]
    PROVE  n <= Cardinality(Vertices)
<1>1. Cardinality(Vertices) \in Nat /\ IsFiniteSet(Vertices)
  BY FS_CardinalityType DEF GraphOK
<1>2. IsFiniteSet(1..n) /\ Cardinality(1..n) = n
  BY FS_Interval
<1> SUFFICES ASSUME Cardinality(Vertices) < Cardinality(1..n) PROVE FALSE
  BY <1>1, <1>2
<1> QED BY <1>1, <1>2, FS_PigeonHole

LEMMA IsAPath ==
    ASSUME GraphOK, NEW p, IsPath(p)
    PROVE  p \in Paths
<1>1. Cardinality(Vertices) \in Nat
  BY FS_CardinalityType DEF GraphOK
<1>2. p \in [1..Len(p) -> Vertices] /\ Len(p) \in Nat \ {0}
  BY DEF IsPath
<1>3. Len(p) <= Cardinality(Vertices)
  BY <1>2, FewVertices DEF IsPath
<1>4. Len(p) \in 1..Cardinality(Vertices)
  BY <1>1, <1>2, <1>3
<1>5. p \in UNION {[1..n -> Vertices] : n \in 1..Cardinality(Vertices)}
  BY <1>2, <1>4
<1>6. \A i, j \in DOMAIN p : i # j => p[i] # p[j]
  BY DEF IsPath
<1>7. \A i \in 2..Len(p) : \E k \in DOMAIN edges[p[i - 1]] : edges[p[i - 1]][k].dstID = p[i]
  BY DEF IsPath, Hop
<1> QED BY <1>5, <1>6, <1>7 DEF Paths
-----------------------------------------------------------------------------
(* The costs along a path add up.                                          *)
LEMMA CostLoop ==
    ASSUME GraphOK, NEW p, IsPath(p)
    PROVE  /\ CostUpTo(p) \in [1..Len(p) -> Nat]
           /\ CostUpTo(p)[1] = 0
           /\ \A i \in 2..Len(p) : CostUpTo(p)[i] = CostUpTo(p)[i - 1] + HopCost(p[i - 1], p[i])
           /\ PathCost(p) \in Nat /\ PathCost(p) = CostUpTo(p)[Len(p)]
<1> DEFINE n == Len(p)
           f == CHOOSE f : Upto(p, n, f)
<1>1. n \in Nat \ {0}
  BY DEF IsPath
<1>2. Upto(p, n, f)
  BY <1>1, UptoExists
<1>3. f = CostUpTo(p)
  BY DEF CostUpTo, Upto
<1> HIDE DEF f
<1>4. f = [i \in 1..n |-> IF i = 1 THEN 0 ELSE f[i - 1] + HopCost(p[i - 1], p[i])]
  BY <1>2 DEF Upto
<1>5. 1 \in 1..n /\ f[1] = 0
  <2>1. 1 \in 1..n
    BY <1>1
  <2> QED BY <1>4, <2>1
<1>6. ASSUME NEW i \in 2..n
      PROVE  f[i] = f[i - 1] + HopCost(p[i - 1], p[i])
  <2>1. i \in 1..n /\ i # 1
    BY <1>1
  <2> QED BY <1>4, <2>1
<1> DEFINE T == {m \in Nat : \A i \in 1..n : i <= m => f[i] \in Nat}
<1>7. 0 \in T
  BY <1>1
<1>8. ASSUME NEW m \in Nat, m \in T PROVE m + 1 \in T
  <2> SUFFICES ASSUME NEW i \in 1..n, i <= m + 1 PROVE f[i] \in Nat
    OBVIOUS
  <2>1. CASE i = 1
    BY <2>1, <1>5
  <2>2. CASE i # 1
    <3>1. i \in 2..n /\ i - 1 \in 1..n /\ i - 1 <= m
      BY <1>1, <2>2
    <3>2. f[i - 1] \in Nat
      BY <1>8, <3>1
    <3>3. p[i - 1] \in Vertices /\ Hop(p[i - 1], p[i])
      BY <3>1 DEF IsPath
    <3>4. HopCost(p[i - 1], p[i]) \in Nat
      BY <3>3, HopIsLeast
    <3> QED BY <1>6, <3>1, <3>2, <3>4
  <2> QED BY <2>1, <2>2
<1>9. \A i \in 1..n : f[i] \in Nat
  <2> HIDE DEF T
  <2>1. n \in T
    BY <1>1, <1>7, <1>8, Induction
  <2> QED BY <1>1, <2>1 DEF T
<1>10. f \in [1..n -> Nat]
  BY <1>4, <1>9
<1>11. PathCost(p) = f[n] /\ f[n] \in Nat
  BY <1>1, <1>3, <1>9 DEF PathCost
<1> HIDE DEF n
<1> QED BY <1>3, <1>5, <1>6, <1>10, <1>11 DEF n

LEMMA OneVertex ==
    ASSUME GraphOK, NEW v \in Vertices
    PROVE  <<v>> \in PathsTo(v, v) /\ PathCost(<<v>>) = 0 /\ CostUpTo(<<v>>)[1] = 0
<1>1. <<v>> \in Seq(Vertices) /\ Len(<<v>>) = 1 /\ <<v>>[1] = v
  OBVIOUS
<1>2. IsPath(<<v>>)
  BY <1>1 DEF IsPath
<1> QED BY <1>1, <1>2, IsAPath, CostLoop DEF PathsTo, PathCost

(* A path and an edge that leaves it.                                      *)
LEMMA OneMore ==
    ASSUME GraphOK, NEW s, NEW u, NEW p \in PathsTo(s, u), NEW v \in Vertices, Hop(u, v),
           \A i \in 1..Len(p) : p[i] # v
    PROVE  LET q == Append(p, v)
           IN  /\ IsPath(q) /\ q \in PathsTo(s, v)
               /\ Len(q) = Len(p) + 1 /\ q[Len(q)] = v
               /\ \A i \in 1..Len(p) : q[i] = p[i]
               /\ PathCost(q) = PathCost(p) + HopCost(u, v)
<1>1. IsPath(p) /\ p[1] = s /\ p[Len(p)] = u
  BY PathIs DEF PathsTo
<1>2. PICK n \in Nat \ {0} : n = Len(p)
  BY <1>1 DEF IsPath
<1>3. PICK q \in Seq(Vertices) : q = Append(p, v)
  BY <1>1, AppendProperties DEF IsPath
<1>4. Len(q) = n + 1 /\ q[n + 1] = v /\ \A i \in 1..n : q[i] = p[i]
  BY <1>1, <1>2, <1>3, AppendProperties DEF IsPath
<1>5. IsPath(q)
  <2>1. DOMAIN q = 1..Len(q) /\ \A i \in 1..Len(q) : q[i] \in Vertices
    BY LenProperties, ElementOfSeq
  <2>2. ASSUME NEW i \in 1..Len(q), NEW j \in 1..Len(q), i # j
        PROVE  q[i] # q[j]
    <3>1. \A k \in 1..Len(q) : k \in 1..n \/ k = n + 1
      BY <1>4
    <3>2. \A k, l \in 1..n : k # l => p[k] # p[l]
      BY <1>1, <1>2 DEF IsPath
    <3>3. \A k \in 1..n : p[k] # v
      BY <1>2
    <3> QED BY <1>4, <2>2, <3>1, <3>2, <3>3
  <2>3. ASSUME NEW i \in 2..Len(q)
        PROVE  Hop(q[i - 1], q[i])
    <3>1. CASE i = n + 1
      <4>1. i - 1 = n /\ n \in 1..n
        BY <3>1
      <4>2. q[i - 1] = u /\ q[i] = v
        BY <1>1, <1>2, <1>4, <3>1, <4>1
      <4> QED BY <4>2
    <3>2. CASE i # n + 1
      <4>1. i \in 2..n /\ i - 1 \in 1..n /\ i \in 1..n
        BY <1>4, <3>2
      <4>2. q[i - 1] = p[i - 1] /\ q[i] = p[i]
        BY <1>4, <4>1
      <4> QED BY <1>1, <1>2, <4>1, <4>2 DEF IsPath
    <3> QED BY <3>1, <3>2
  <2>4. Len(q) \in Nat \ {0}
    BY <1>4
  <2> QED BY <2>1, <2>2, <2>3, <2>4 DEF IsPath
<1>6. q \in PathsTo(s, v)
  <2>1. 1 \in 1..n /\ q[1] = p[1] /\ q[Len(q)] = v
    BY <1>4
  <2> QED BY <1>1, <1>5, <2>1, IsAPath DEF PathsTo
<1> DEFINE T == {m \in Nat : \A i \in 1..n : i <= m => CostUpTo(q)[i] = CostUpTo(p)[i]}
<1>7. 0 \in T
  OBVIOUS
<1>8. ASSUME NEW m \in Nat, m \in T PROVE m + 1 \in T
  <2> SUFFICES ASSUME NEW i \in 1..n, i <= m + 1 PROVE CostUpTo(q)[i] = CostUpTo(p)[i]
    OBVIOUS
  <2>1. CASE i = 1
    BY <2>1, <1>1, <1>5, CostLoop
  <2>2. CASE i # 1
    <3>1. i \in 2..n /\ i - 1 \in 1..n /\ i - 1 <= m /\ i \in 2..Len(q)
      BY <1>4, <2>2
    <3>2. CostUpTo(q)[i - 1] = CostUpTo(p)[i - 1]
      BY <1>8, <3>1
    <3>3. q[i - 1] = p[i - 1] /\ q[i] = p[i]
      BY <1>4, <3>1
    <3>4. CostUpTo(q)[i] = CostUpTo(q)[i - 1] + HopCost(q[i - 1], q[i])
      BY <1>5, <3>1, CostLoop
    <3>5. CostUpTo(p)[i] = CostUpTo(p)[i - 1] + HopCost(p[i - 1], p[i])
      BY <1>1, <1>2, <3>1, CostLoop
    <3> QED BY <3>2, <3>3, <3>4, <3>5
  <2> QED BY <2>1, <2>2
<1>9. \A i \in 1..n : CostUpTo(q)[i] = CostUpTo(p)[i]
  <2> HIDE DEF T
  <2>1. n \in T
    BY <1>7, <1>8, Induction
  <2> QED BY <2>1 DEF T
<1>10. PathCost(q) = PathCost(p) + HopCost(u, v)
  <2>1. n + 1 \in 2..Len(q) /\ (n + 1) - 1 = n /\ n \in 1..n
    BY <1>4
  <2>2. CostUpTo(q)[n + 1] = CostUpTo(q)[n] + HopCost(q[n], q[n + 1])
    BY <1>5, <2>1, CostLoop
  <2>3. q[n] = u /\ q[n + 1] = v
    BY <1>1, <1>2, <1>4, <2>1
  <2> QED BY <1>2, <1>4, <1>9, <2>1, <2>2, <2>3 DEF PathCost
<1> HIDE DEF T
<1> QED BY <1>2, <1>3, <1>4, <1>5, <1>6, <1>9, <1>10
-----------------------------------------------------------------------------
First == sources[1]
Dist(v) == value[v].minDist
Prev(v) == value[v].prevInPath

NoMessages(b) == \A v \in Vertices : queue[b][v] = {}

(* There is a way back from each vertex that is reached but the source.    *)
ValuesOK ==
    /\ value \in [Vertices -> [minDist : 0..MaxInt, prevInPath : Vertices \union {None}]]
    /\ First \in Vertices => value[First] = [minDist |-> 0, prevInPath |-> None]
    /\ \A v \in Vertices : v # First => (Dist(v) < MaxInt <=> Prev(v) # None)

(* Going back, the distance is less by what the edge costs, or by more if  *)
(* a message is on its way.                                                *)
Backwards ==
    \A v \in Vertices : Prev(v) # None =>
        Hop(Prev(v), v) /\ Dist(Prev(v)) + HopCost(Prev(v), v) <= Dist(v)

(* No way back is a cycle: the vertices have ranks that decrease along it. *)
RanksIn(val, M, r) ==
    /\ r \in [Vertices -> 0..M]
    /\ \A v \in Vertices : val[v].prevInPath # None => r[val[v].prevInPath] < r[v]
Ranked == \E M \in Nat : \E r : RanksIn(value, M, r)

(* A distance is the cost of a path from the source to vertices no farther *)
(* away.  So a message from its end to one of them does not improve it.    *)
Supports(p, v) ==
    /\ p \in PathsTo(First, v)
    /\ PathCost(p) = Dist(v)
    /\ \A i \in 1..Len(p) : Dist(p[i]) <= Dist(v)
Supported == \A v \in Vertices : Dist(v) < MaxInt => \E p : Supports(p, v)

(* What is left to do for edge k of v is in a message.                     *)
Pending(v, k) ==
    [from |-> v, cost |-> Dist(v) + edges[v][k].cost] \in queue[Buffer][edges[v][k].dstID]
Relaxed ==
    \A v \in Vertices : Dist(v) < MaxInt => \A k \in DOMAIN edges[v] :
        /\ edges[v][k].dstID \in Vertices
        /\ Dist(edges[v][k].dstID) <= Dist(v) + edges[v][k].cost \/ Pending(v, k)

(* A message says what its sender has for its edge.                        *)
Says(m, v) ==
    /\ m.from \in Vertices /\ Dist(m.from) < MaxInt
    /\ \E k \in DOMAIN edges[m.from] :
          edges[m.from][k].dstID = v /\ m.cost = Dist(m.from) + edges[m.from][k].cost
Messages == \A v \in Vertices : \A m \in queue[Buffer][v] : Says(m, v)

Good == ValuesOK /\ Backwards /\ Ranked /\ Supported /\ Relaxed /\ Messages

TypeOK ==
    /\ GraphOK
    /\ superstep \in 0..2 /\ phase \in {"idle", "running", "crashed"}
    /\ tainted \in BOOLEAN /\ sources \in Seq(ID)
    /\ sources # <<>> => srcID \in ID
    /\ Len(sources) = 1 => srcID = First

(* The first superstep of the first calculation is yet to come.            *)
Starting == Len(sources) = 1 /\ phase = "running" /\ superstep = 0

Unstarted ==
    /\ sources = <<>> => phase = "idle" /\ ~tainted
    /\ sources = <<>> \/ (Starting /\ ~tainted) =>
          active = Vertices /\ queue = [b \in 0..1 |-> [v \in Vertices |-> {}]]

(* After it, only who gets a message is computed.  When a calculation ends *)
(* there are no messages, and then the next has nothing to do.             *)
Started ==
    sources # <<>> /\ ~Starting /\ ~tainted /\ phase # "crashed" =>
        /\ active = {} /\ queue = [b \in 0..1 |-> queue[b]]
        /\ NoMessages(1 - Buffer)
        /\ phase = "idle" \/ Len(sources) > 1 => NoMessages(Buffer)
        /\ Fits => Good

(* What was asked for last would be answered in the same way.              *)
AnswerOK ==
    answer # None => phase = "idle" /\ \E v \in Vertices : answer = Answer(v)

IInv == TypeOK /\ Unstarted /\ Started /\ AnswerOK
-----------------------------------------------------------------------------
LEMMA ValueAt ==
    ASSUME ValuesOK, NEW v \in Vertices
    PROVE  /\ Dist(v) \in Nat /\ Dist(v) <= MaxInt /\ Prev(v) \in Vertices \union {None}
           /\ value[v] = [minDist |-> Dist(v), prevInPath |-> Prev(v)]
BY PathAssumption DEF ValuesOK, Dist, Prev

LEMMA FitsAt ==
    ASSUME GraphOK, Fits, NEW s, NEW u, NEW p \in PathsTo(s, u), NEW k \in DOMAIN edges[u]
    PROVE  PathCost(p) + edges[u][k].cost < MaxInt
BY DEF Fits, PathsTo

LEMMA Farther ==
    ASSUME NEW max \in Nat, NEW start \in Nat, NEW du \in Nat, NEW dw \in Nat,
           NEW hop \in Nat, NEW cu \in Nat, NEW cw \in Nat,
           dw <= du + hop, du + hop < max, cw = cu + hop, du <= start + cu
    PROVE  dw < max /\ dw <= start + cw
OBVIOUS

(* When there are no messages, no path is shorter than the distances say.  *)
LEMMA NoShorter ==
    ASSUME GraphOK, Fits, Good, NoMessages(Buffer),
           NEW p, IsPath(p), Dist(p[1]) < MaxInt
    PROVE  Dist(p[Len(p)]) < MaxInt /\ Dist(p[Len(p)]) <= Dist(p[1]) + PathCost(p)
<1>1. ValuesOK /\ Supported /\ Relaxed
  BY DEF Good
<1>2. PICK n \in Nat \ {0} : n = Len(p)
  BY DEF IsPath
<1>3. PICK c \in [1..n -> Nat] : c = CostUpTo(p)
  BY <1>2, CostLoop
<1>4. \A i \in 1..n : p[i] \in Vertices
  BY <1>2 DEF IsPath
<1> DEFINE OK(i) == Dist(p[i]) < MaxInt /\ Dist(p[i]) <= Dist(p[1]) + c[i]
           T == {m \in Nat : \A i \in 1..n : i <= m => OK(i)}
<1>5. 0 \in T
  OBVIOUS
<1>6. ASSUME NEW m \in Nat, m \in T PROVE m + 1 \in T
  <2> SUFFICES ASSUME NEW i \in 1..n, i <= m + 1 PROVE OK(i)
    OBVIOUS
  <2>1. CASE i = 1
    <3>1. c[1] = 0 /\ p[1] \in Vertices
      BY <1>2, <1>3, <1>4, CostLoop
    <3>2. Dist(p[1]) \in Nat
      BY <3>1, <1>1, ValueAt
    <3> QED BY <2>1, <3>1, <3>2
  <2>2. CASE i # 1
    <3>1. i \in 2..n /\ i - 1 \in 1..n /\ i - 1 <= m /\ 1 \in 1..n
      BY <2>2
    <3>2. OK(i - 1)
      BY <1>6, <3>1
    <3>3. PICK u \in Vertices, w \in Vertices : u = p[i - 1] /\ w = p[i]
      BY <1>4, <3>1
    <3>4. Hop(u, w)
      BY <1>2, <3>1, <3>3 DEF IsPath
    <3>5. PICK k \in DOMAIN edges[u] : edges[u][k].dstID = w /\ edges[u][k].cost = HopCost(u, w)
      BY <3>4, HopIsLeast
    <3>6. Dist(w) <= Dist(u) + HopCost(u, w)
      BY <1>1, <3>2, <3>3, <3>5 DEF Relaxed, Pending, NoMessages
    <3>7. PICK q : Supports(q, u)
      BY <1>1, <3>2, <3>3 DEF Supported
    <3>8. Dist(u) + HopCost(u, w) < MaxInt
      BY <3>5, <3>7, FitsAt DEF Supports
    <3>9. c[i] = c[i - 1] + HopCost(u, w)
      BY <1>2, <1>3, <3>1, <3>3, CostLoop
    <3>10. /\ Dist(u) \in Nat /\ Dist(w) \in Nat /\ Dist(p[1]) \in Nat /\ HopCost(u, w) \in Nat
           /\ c[i - 1] \in Nat /\ c[i] \in Nat /\ MaxInt \in Nat
      BY <1>1, <1>4, <3>1, <3>4, ValueAt, HopIsLeast, PathAssumption
    <3>11. Dist(u) <= Dist(p[1]) + c[i - 1]
      BY <3>2, <3>3
    <3>12. Dist(w) < MaxInt /\ Dist(w) <= Dist(p[1]) + c[i]
      BY ONLY <3>6, <3>8, <3>9, <3>10, <3>11, Farther
    <3> QED BY <3>3, <3>12
  <2> QED BY <2>1, <2>2
<1>7. OK(n)
  <2> HIDE DEF T, OK
  <2>1. n \in T
    BY <1>5, <1>6, Induction
  <2> QED BY <2>1 DEF T
<1> QED BY <1>2, <1>3, <1>7 DEF PathCost

LEMMA DistIsDistance ==
    ASSUME GraphOK, Fits, Good, NoMessages(Buffer), NEW v \in Vertices
    PROVE  Dist(v) = Distance(First, v)
<1> DEFINE S == {PathCost(p) : p \in PathsTo(First, v)} \union {MaxInt}
<1>1. ValuesOK /\ Supported
  BY DEF Good
<1>2. Dist(v) \in Nat /\ Dist(v) <= MaxInt /\ MaxInt \in Nat
  BY <1>1, ValueAt, PathAssumption
<1>3. ASSUME NEW p \in PathsTo(First, v)
      PROVE  PathCost(p) \in Nat /\ Dist(v) <= PathCost(p) /\ Dist(v) < MaxInt
  <2>1. p \in Paths /\ p[1] = First /\ p[Len(p)] = v
    BY DEF PathsTo
  <2>2. IsPath(p)
    BY <2>1, PathIs
  <2>3. First \in Vertices
    BY <2>1, <2>2 DEF IsPath
  <2>4. Dist(First) = 0 /\ Dist(First) < MaxInt
    BY <1>1, <2>3, PathAssumption DEF ValuesOK, Dist
  <2> QED BY <2>1, <2>2, <2>4, NoShorter, CostLoop
<1>4. S \subseteq Nat /\ S # {} /\ \A c \in S : Dist(v) <= c
  BY <1>2, <1>3
<1>5. Dist(v) \in S
  <2>1. CASE Dist(v) < MaxInt
    BY <1>1, <2>1 DEF Supported, Supports
  <2> QED BY <1>2, <2>1
<1> HIDE DEF S
<1>6. Min(S) \in S /\ Min(S) <= Dist(v)
  BY <1>4, <1>5, MinIsLeast
<1>7. Distance(First, v) = Min(S)
  BY DEF Distance, S
<1>8. Dist(v) <= Min(S) /\ Min(S) \in Nat
  BY <1>4, <1>6
<1>9. Dist(v) = Min(S)
  <2>1. PICK a \in Nat, b \in Nat : a = Dist(v) /\ b = Min(S)
    BY <1>2, <1>8
  <2> QED BY <2>1, <1>6, <1>8
<1> QED BY <1>7, <1>9
-----------------------------------------------------------------------------
(* What depends on the graph alone stays when the graph does.              *)
SameGraph ==
    /\ Vertices' = Vertices /\ Paths' = Paths
    /\ \A s, v : PathsTo(s, v)' = PathsTo(s, v)
    /\ \A p : PathCost(p)' = PathCost(p)
    /\ \A u, v : HopCost(u, v)' = HopCost(u, v)
    /\ \A u, v : Hop(u, v)' <=> Hop(u, v)
    /\ Fits' <=> Fits
    /\ GraphOK' <=> GraphOK

LEMMA GraphStays ==
    ASSUME UNCHANGED edges
    PROVE  SameGraph
<1>1. Vertices' = Vertices
  BY DEF Vertices
<1>2. \A u, v : HopCost(u, v)' = HopCost(u, v)
  BY DEF HopCost
<1>3. \A u, v : Hop(u, v)' <=> Hop(u, v)
  BY DEF Hop
<1>4. Paths' = Paths
  BY <1>1 DEF Paths
<1>5. \A s, v : PathsTo(s, v)' = PathsTo(s, v)
  BY <1>4 DEF PathsTo
<1>6. \A p : PathCost(p)' = PathCost(p)
  <2>1. \A p : CostUpTo(p)' = CostUpTo(p)
    BY DEF CostUpTo, HopCost
  <2> QED BY <2>1 DEF PathCost
<1>7. Fits' <=> Fits
  BY <1>4, <1>6 DEF Fits
<1>8. GraphOK' <=> GraphOK
  BY <1>1 DEF GraphOK
<1> QED BY <1>1, <1>2, <1>3, <1>4, <1>5, <1>6, <1>7, <1>8 DEF SameGraph

(* What is good stays so if no distance and no message changes.            *)
LEMMA GoodStays ==
    ASSUME Good, UNCHANGED <<edges, value, First>>,
           \A u \in Vertices : queue'[Buffer'][u] = queue[Buffer][u]
    PROVE  Good'
<1>1. SameGraph
  BY GraphStays
<1>2. (\A v : Dist(v)' = Dist(v)) /\ (\A v : Prev(v)' = Prev(v))
  BY DEF Dist, Prev
<1>3. ValuesOK'
  BY <1>1, <1>2 DEF Good, ValuesOK, SameGraph
<1>4. Backwards'
  BY <1>1, <1>2 DEF Good, Backwards, SameGraph
<1>5. Ranked'
  BY <1>1 DEF Good, Ranked, RanksIn, SameGraph
<1>6. Supported'
  BY <1>1, <1>2 DEF Good, Supported, Supports, SameGraph
<1>7. Relaxed'
  BY <1>1, <1>2 DEF Good, Relaxed, Pending, SameGraph
<1>8. Messages'
  BY <1>1, <1>2 DEF Good, Messages, Says, SameGraph
<1> QED BY <1>3, <1>4, <1>5, <1>6, <1>7, <1>8 DEF Good
-----------------------------------------------------------------------------
(* A superstep after the first, as vertex v sees it: it learns from a      *)
(* message with the least cost, or has nothing to learn.                   *)
Learns(v, m) ==
    /\ m \in queue[Buffer][v] /\ m.cost < Dist(v)
    /\ \A o \in queue[Buffer][v] : m.cost <= o.cost
    /\ value'[v] = [minDist |-> m.cost, prevInPath |-> m.from]
Moved(v) == \E m : Learns(v, m)
Keeps(v) ==
    /\ value'[v] = value[v]
    /\ \A m \in queue[Buffer][v] : Dist(v) <= m.cost

(* Message m is the one that v sends along its edge k.                     *)
SentAlong(m, v, k) == m = [from |-> v, cost |-> Plus(value'[v].minDist, edges[v][k].cost)]

Superstepped ==
    /\ UNCHANGED <<edges, First>>
    /\ value' = [v \in Vertices |-> value'[v]]
    /\ \A v \in Vertices : Moved(v) \/ Keeps(v)
    /\ \A v \in Vertices : Moved(v) => \A k \in DOMAIN edges[v] : edges[v][k].dstID \in Vertices
    /\ \A u \in Vertices : \A m : m \in queue'[Buffer'][u] <=>
          \E v \in Vertices : Moved(v) /\ \E k \in DOMAIN edges[v] :
             edges[v][k].dstID = u /\ SentAlong(m, v, k)

(* Of v that learns from m: who sent it, and along which edge.             *)
LEMMA LearnsFrom ==
    ASSUME GraphOK, Good, NEW v \in Vertices, NEW m, Learns(v, m)
    PROVE  /\ m.from \in Vertices /\ Dist(m.from) < MaxInt /\ Hop(m.from, v)
           /\ m.cost \in Nat /\ m.cost < MaxInt
           /\ m.cost = Dist(m.from) + HopCost(m.from, v)
           /\ value'[v].minDist = m.cost /\ value'[v].prevInPath = m.from
<1> DEFINE u == m.from
<1>1. Says(m, v)
  BY DEF Good, Messages, Learns
<1>2. u \in Vertices /\ Dist(u) < MaxInt
  BY <1>1 DEF Says
<1>3. PICK k \in DOMAIN edges[u] : edges[u][k].dstID = v /\ m.cost = Dist(u) + edges[u][k].cost
  BY <1>1 DEF Says
<1>4. Hop(u, v)
  BY <1>3 DEF Hop
<1>5. Dist(u) \in Nat /\ Dist(v) \in Nat /\ Dist(v) <= MaxInt /\ MaxInt \in Nat
      /\ edges[u][k].cost \in Nat
  BY <1>2, <1>3, ValueAt, EdgeAt, PathAssumption DEF Good
<1>6. PICK j \in DOMAIN edges[u] : edges[u][j].dstID = v /\ edges[u][j].cost = HopCost(u, v)
  BY <1>2, <1>4, HopIsLeast
<1>7. HopCost(u, v) \in Nat /\ HopCost(u, v) <= edges[u][k].cost
  BY <1>2, <1>3, <1>4, HopIsLeast
<1>8. m.cost < Dist(v)
  BY DEF Learns
<1>9. Dist(v) <= Dist(u) + HopCost(u, v) \/ m.cost <= Dist(u) + HopCost(u, v)
  <2>1. Dist(v) <= Dist(u) + edges[u][j].cost \/ Pending(u, j)
    BY <1>2, <1>6 DEF Good, Relaxed
  <2>2. CASE Pending(u, j)
    <3>1. [from |-> u, cost |-> Dist(u) + edges[u][j].cost] \in queue[Buffer][v]
      BY <1>6, <2>2 DEF Pending
    <3>2. m.cost <= [from |-> u, cost |-> Dist(u) + edges[u][j].cost].cost
      BY <3>1 DEF Learns
    <3> QED BY <1>6, <3>2
  <2> QED BY <1>6, <2>1, <2>2
<1>10. m.cost = Dist(u) + HopCost(u, v) /\ m.cost \in Nat /\ m.cost < MaxInt
  BY <1>3, <1>5, <1>7, <1>8, <1>9
<1>11. value'[v].minDist = m.cost /\ value'[v].prevInPath = m.from
  BY DEF Learns
<1> QED BY <1>2, <1>4, <1>10, <1>11

LEMMA NotMore ==
    ASSUME GraphOK, Good, Superstepped, NEW v \in Vertices
    PROVE  /\ Dist(v)' \in Nat /\ Dist(v)' <= Dist(v) /\ Dist(v) \in Nat
           /\ Keeps(v) => Dist(v)' = Dist(v) /\ Prev(v)' = Prev(v)
           /\ \A m : Learns(v, m) => Dist(v)' = m.cost /\ Prev(v)' = m.from
<1>1. Dist(v) \in Nat
  BY ValueAt DEF Good
<1>2. Keeps(v) => Dist(v)' = Dist(v) /\ Prev(v)' = Prev(v)
  BY DEF Keeps, Dist, Prev
<1>3. ASSUME NEW m, Learns(v, m)
      PROVE  Dist(v)' = m.cost /\ Prev(v)' = m.from /\ m.cost \in Nat /\ m.cost < Dist(v)
  BY <1>3, LearnsFrom DEF Dist, Prev, Learns
<1>4. Keeps(v) \/ \E m : Learns(v, m)
  BY DEF Superstepped, Moved
<1> QED BY <1>1, <1>2, <1>3, <1>4
LEMMA ValuesNext ==
    ASSUME GraphOK, Good, Superstepped
    PROVE  ValuesOK'
<1>1. Vertices' = Vertices /\ First' = First
  BY GraphStays DEF Superstepped, SameGraph
<1>2. ValuesOK /\ MaxInt \in Nat \ {0} /\ None \notin Vertices
  BY PathAssumption DEF Good, GraphOK
<1>3. ASSUME NEW v \in Vertices
      PROVE  /\ value'[v] \in [minDist : 0..MaxInt, prevInPath : Vertices \union {None}]
             /\ v = First => value'[v] = [minDist |-> 0, prevInPath |-> None]
             /\ v # First => (Dist(v)' < MaxInt <=> Prev(v)' # None)
  <2>1. CASE Keeps(v)
    <3>1. value'[v] = value[v]
      BY <2>1 DEF Keeps
    <3>2. /\ value[v] \in [minDist : 0..MaxInt, prevInPath : Vertices \union {None}]
          /\ v = First => value[v] = [minDist |-> 0, prevInPath |-> None]
          /\ v # First => (Dist(v) < MaxInt <=> Prev(v) # None)
      BY <1>2 DEF ValuesOK
    <3> QED BY <3>1, <3>2, <2>1, NotMore
  <2>2. ASSUME NEW m, Learns(v, m)
        PROVE  /\ value'[v] \in [minDist : 0..MaxInt, prevInPath : Vertices \union {None}]
               /\ v # First /\ Dist(v)' < MaxInt /\ Prev(v)' # None
    <3>1. m.from \in Vertices /\ m.cost \in Nat /\ m.cost < MaxInt /\ m.cost < Dist(v)
      BY <2>2, LearnsFrom DEF Learns
    <3>2. value'[v] = [minDist |-> m.cost, prevInPath |-> m.from]
      BY <2>2 DEF Learns
    <3>3. v # First
      <4>1. SUFFICES ASSUME v = First PROVE FALSE
        OBVIOUS
      <4>2. Dist(v) = 0
        BY <1>2, <4>1 DEF ValuesOK, Dist
      <4> QED BY <3>1, <4>2
    <3>4. m.cost \in 0..MaxInt
      BY <1>2, <3>1
    <3>5. value'[v] \in [minDist : 0..MaxInt, prevInPath : Vertices \union {None}]
      BY <3>1, <3>2, <3>4
    <3> QED BY <1>2, <2>2, <3>1, <3>3, <3>5, NotMore
  <2>3. Keeps(v) \/ \E m : Learns(v, m)
    BY DEF Superstepped, Moved
  <2> QED BY <2>1, <2>2, <2>3
<1>4. value' \in [Vertices -> [minDist : 0..MaxInt, prevInPath : Vertices \union {None}]]
  BY <1>3 DEF Superstepped
<1> QED BY <1>1, <1>3, <1>4 DEF ValuesOK

LEMMA BackwardsNext ==
    ASSUME GraphOK, Good, Superstepped
    PROVE  Backwards'
<1>1. SameGraph
  BY GraphStays DEF Superstepped
<1> SUFFICES ASSUME NEW v \in Vertices, Prev(v)' # None
             PROVE  Hop(Prev(v)', v) /\ Dist(Prev(v))' + HopCost(Prev(v)', v) <= Dist(v)'
  <2>1. \A u, w : HopCost(u, w)' = HopCost(u, w) /\ (Hop(u, w)' <=> Hop(u, w))
    BY <1>1 DEF SameGraph
  <2>2. Vertices' = Vertices
    BY <1>1 DEF SameGraph
  <2>3. \A w : Hop(Prev(w), w)' <=> Hop(Prev(w)', w)
    BY DEF Hop, Superstepped
  <2>4. \A w : HopCost(Prev(w), w)' = HopCost(Prev(w)', w)
    BY DEF HopCost, Superstepped
  <2> QED BY <2>2, <2>3, <2>4 DEF Backwards
<1>2. PICK u : u = Prev(v)'
  OBVIOUS
<1>3. Dist(Prev(v))' = Dist(u)'
  BY <1>2 DEF Dist
<1>4. u \in Vertices /\ Hop(u, v) /\ Dist(u) + HopCost(u, v) <= Dist(v)'
  <2>1. CASE Keeps(v)
    <3>1. u = Prev(v) /\ Dist(v)' = Dist(v)
      BY <1>2, <2>1, NotMore
    <3>2. u \in Vertices
      BY <1>2, <3>1, ValueAt DEF Good
    <3> QED BY <1>2, <3>1, <3>2 DEF Good, Backwards
  <2>2. ASSUME NEW m, Learns(v, m) PROVE u \in Vertices /\ Hop(u, v) /\ Dist(u) + HopCost(u, v) <= Dist(v)'
    <3>1. u = m.from /\ Dist(v)' = m.cost
      BY <1>2, <2>2, NotMore
    <3> QED BY <2>2, <3>1, LearnsFrom
  <2> QED BY <2>1, <2>2 DEF Superstepped, Moved
<1>5. Dist(u)' \in Nat /\ Dist(u)' <= Dist(u) /\ Dist(u) \in Nat /\ Dist(v)' \in Nat /\ HopCost(u, v) \in Nat
  BY <1>4, NotMore, HopIsLeast
<1> QED BY <1>2, <1>3, <1>4, <1>5

(* Distances first, and old ranks among equal ones, are ranks again.       *)
LEMMA Lexicographic ==
    ASSUME NEW M \in Nat, NEW a \in Nat, NEW b \in Nat, NEW x \in 0..M, NEW y \in 0..M,
           a < b \/ (a <= b /\ x < y)
    PROVE  a * (M + 1) + x < b * (M + 1) + y
<1>1. CASE a < b
  <2>1. PICK d \in Nat : b = a + 1 + d
    <3>1. b - (a + 1) \in Nat /\ b = a + 1 + (b - (a + 1))
      BY <1>1
    <3> QED BY <3>1
  <2>2. b * (M + 1) = a * (M + 1) + (M + 1) + d * (M + 1)
    BY <2>1
  <2>3. d * (M + 1) \in Nat /\ a * (M + 1) \in Nat
    OBVIOUS
  <2> QED BY <2>2, <2>3
<1>2. CASE a = b /\ x < y
  <2>1. a * (M + 1) \in Nat
    OBVIOUS
  <2> QED BY <1>2, <2>1
<1> QED BY <1>1, <1>2

LEMMA RankedNext ==
    ASSUME GraphOK, Good, Superstepped
    PROVE  Ranked'
<1>1. Vertices' = Vertices /\ MaxInt \in Nat
  BY GraphStays, PathAssumption DEF Superstepped, SameGraph
<1>2. PICK M \in Nat : \E r : RanksIn(value, M, r)
  BY DEF Good, Ranked
<1>3. PICK r : RanksIn(value, M, r)
  BY <1>2
<1> DEFINE q == [v \in Vertices |-> Dist(v) * (M + 1) + r[v]]
           N == MaxInt * (M + 1) + M
<1>4. ASSUME NEW v \in Vertices
      PROVE  /\ r[v] \in 0..M /\ Dist(v) \in Nat /\ Dist(v) <= MaxInt
             /\ q[v] \in 0..N
  <2>1. r[v] \in 0..M /\ Dist(v) \in Nat /\ Dist(v) <= MaxInt
    BY <1>3, ValueAt DEF RanksIn, Good
  <2>2. PICK d \in Nat : MaxInt = Dist(v) + d
    <3>1. MaxInt - Dist(v) \in Nat /\ MaxInt = Dist(v) + (MaxInt - Dist(v))
      BY <1>1, <2>1
    <3> QED BY <3>1
  <2>3. N = Dist(v) * (M + 1) + d * (M + 1) + M /\ d * (M + 1) \in Nat /\ Dist(v) * (M + 1) \in Nat
    BY <2>1, <2>2
  <2>4. q[v] = Dist(v) * (M + 1) + r[v]
    OBVIOUS
  <2> HIDE DEF N, q
  <2>5. r[v] \in Nat /\ r[v] <= M
    BY <2>1
  <2>6. PICK e \in Nat, f \in Nat : e = Dist(v) * (M + 1) /\ f = d * (M + 1)
    BY <2>3
  <2>7. q[v] = e + r[v] /\ N = e + f + M
    BY <2>3, <2>4, <2>6
  <2> QED BY <2>1, <2>5, <2>7
<1>5. N \in Nat
  BY <1>1
<1>6. ASSUME NEW v \in Vertices, value'[v].prevInPath # None
      PROVE  q[value'[v].prevInPath] < q[v]
  <2>1. PICK u : u = value'[v].prevInPath
    OBVIOUS
  <2>2. u \in Vertices /\ (Dist(u) < Dist(v) \/ (Dist(u) <= Dist(v) /\ r[u] < r[v]))
    <3>1. CASE Keeps(v)
      <4>1. u = value[v].prevInPath /\ u = Prev(v) /\ u # None
        BY <1>6, <2>1, <3>1 DEF Keeps, Prev
      <4>2. u \in Vertices
        BY <4>1, ValueAt DEF Good
      <4>3. Hop(u, v) /\ Dist(u) + HopCost(u, v) <= Dist(v)
        BY <4>1 DEF Good, Backwards
      <4>4. HopCost(u, v) \in Nat
        BY <4>2, <4>3, HopIsLeast
      <4>5. Dist(u) <= Dist(v)
        BY <1>4, <4>2, <4>3, <4>4
      <4>6. r[u] < r[v]
        BY <1>3, <4>1 DEF RanksIn
      <4> QED BY <4>2, <4>5, <4>6
    <3>2. ASSUME NEW m, Learns(v, m) PROVE u \in Vertices /\ Dist(u) < Dist(v)
      <4>1. u = m.from /\ m.cost < Dist(v)
        BY <2>1, <3>2, LearnsFrom DEF Learns
      <4>2. u \in Vertices /\ Hop(u, v) /\ m.cost = Dist(u) + HopCost(u, v)
        BY <3>2, <4>1, LearnsFrom
      <4>3. HopCost(u, v) \in Nat
        BY <4>2, HopIsLeast
      <4> QED BY <1>4, <4>1, <4>2, <4>3
    <3> QED BY <3>1, <3>2 DEF Superstepped, Moved
  <2>3. Dist(u) * (M + 1) + r[u] < Dist(v) * (M + 1) + r[v]
    BY <1>4, <2>2, Lexicographic
  <2> QED BY <2>1, <2>2, <2>3
<1>7. q \in [Vertices -> 0..N]
  BY <1>4
<1> HIDE DEF q, N
<1>8. PICK K, s : K \in Nat /\ K = N /\ s = q
  BY <1>5
<1>9. RanksIn(value, K, s)'
  <2>1. s \in [Vertices' -> 0..K]
    BY <1>1, <1>7, <1>8
  <2>2. \A v \in Vertices' : value'[v].prevInPath # None => s[value'[v].prevInPath] < s[v]
    BY <1>1, <1>6, <1>8
  <2> QED BY <2>1, <2>2 DEF RanksIn
<1> QED BY <1>8, <1>9 DEF Ranked

LEMMA SupportedNext ==
    ASSUME GraphOK, Good, Superstepped
    PROVE  Supported'
<1>1. SameGraph /\ First' = First
  BY GraphStays DEF Superstepped
<1> SUFFICES ASSUME NEW v \in Vertices, Dist(v)' < MaxInt
             PROVE  \E p : Supports(p, v)'
  BY <1>1 DEF Supported, SameGraph
<1>2. ASSUME NEW p, p \in PathsTo(First, v), PathCost(p) = Dist(v)',
             \A i \in 1..Len(p) : value'[p[i]].minDist <= Dist(v)'
      PROVE  Supports(p, v)'
  <2>1. p \in PathsTo(First, v)'
    BY <1>1, <1>2 DEF SameGraph, PathsTo
  <2>2. PathCost(p)' = Dist(v)'
    BY <1>1, <1>2 DEF SameGraph
  <2>3. (\A i \in 1..Len(p) : Dist(p[i]) <= Dist(v))'
    BY <1>2 DEF Dist
  <2> QED BY <2>1, <2>2, <2>3 DEF Supports
<1>3. \A u \in Vertices : value'[u].minDist \in Nat /\ value'[u].minDist <= Dist(u) /\ Dist(u) \in Nat
  BY NotMore DEF Dist
<1>4. CASE Keeps(v)
  <2>1. Dist(v)' = Dist(v)
    BY <1>4, NotMore
  <2>2. PICK p : Supports(p, v)
    BY <2>1 DEF Good, Supported
  <2>3. IsPath(p)
    BY <2>2, PathIs DEF Supports, PathsTo
  <2>4. ASSUME NEW i \in 1..Len(p) PROVE value'[p[i]].minDist <= Dist(v)'
    <3>1. p[i] \in Vertices /\ Dist(p[i]) <= Dist(v)
      BY <2>2, <2>3 DEF Supports, IsPath
    <3> QED BY <1>3, <2>1, <3>1
  <2> QED BY <1>2, <2>1, <2>2, <2>4 DEF Supports
<1>5. ASSUME NEW m, Learns(v, m) PROVE \E p : Supports(p, v)'
  <2>1. PICK u \in Vertices : u = m.from
    BY <1>5, LearnsFrom
  <2>2. /\ Dist(u) < MaxInt /\ Hop(u, v) /\ m.cost \in Nat /\ m.cost < Dist(v)
        /\ m.cost = Dist(u) + HopCost(u, v)
    BY <1>5, <2>1, LearnsFrom DEF Learns
  <2>3. HopCost(u, v) \in Nat
    BY <2>1, <2>2, HopIsLeast
  <2>4. Dist(v)' = m.cost
    BY <1>5, NotMore
  <2>5. PICK p : Supports(p, u)
    BY <2>1, <2>2 DEF Good, Supported
  <2>6. p \in PathsTo(First, u) /\ PathCost(p) = Dist(u) /\ IsPath(p)
    BY <2>5, PathIs DEF Supports, PathsTo
  <2>7. \A i \in 1..Len(p) : p[i] \in Vertices /\ Dist(p[i]) <= Dist(u)
    BY <2>5, <2>6 DEF Supports, IsPath
  <2>8. \A i \in 1..Len(p) : p[i] # v
    BY <1>3, <2>1, <2>2, <2>3, <2>7
  <2>9. PICK q : q = Append(p, v)
    OBVIOUS
  <2>10. /\ q \in PathsTo(First, v) /\ Len(q) = Len(p) + 1 /\ q[Len(q)] = v
         /\ \A i \in 1..Len(p) : q[i] = p[i]
         /\ PathCost(q) = PathCost(p) + HopCost(u, v)
    BY <2>2, <2>6, <2>8, <2>9, OneMore
  <2>11. ASSUME NEW i \in 1..Len(q) PROVE value'[q[i]].minDist <= Dist(v)'
    <3>1. Len(p) \in Nat
      BY <2>6 DEF IsPath
    <3>2. CASE i = Len(q)
      <4>1. value'[q[i]].minDist = Dist(v)'
        BY <2>10, <3>2 DEF Dist
      <4> QED BY <1>3, <2>4, <4>1, <2>2
    <3>3. CASE i \in 1..Len(p)
      <4>1. q[i] = p[i] /\ p[i] \in Vertices /\ Dist(p[i]) <= Dist(u)
        BY <2>7, <2>10, <3>3
      <4> QED BY <1>3, <2>1, <2>2, <2>3, <2>4, <4>1
    <3> QED BY <2>10, <3>1, <3>2, <3>3
  <2> QED BY <1>2, <2>2, <2>4, <2>6, <2>10, <2>11
<1> QED BY <1>4, <1>5 DEF Superstepped, Moved

(* What is sent next is what the sender has now.                           *)
LEMMA SentIs ==
    ASSUME GraphOK, Fits, Good, Superstepped, NEW v \in Vertices, Moved(v), NEW k \in DOMAIN edges[v], NEW m
    PROVE  /\ Dist(v)' < MaxInt
           /\ SentAlong(m, v, k) <=> m = [from |-> v, cost |-> Dist(v)' + edges[v][k].cost]
<1>1. SameGraph /\ First' = First
  BY GraphStays DEF Superstepped
<1>2. PICK o : Learns(v, o)
  BY DEF Moved
<1>3. Dist(v)' = o.cost /\ o.cost < MaxInt /\ Dist(v)' \in Nat
  BY <1>2, NotMore, LearnsFrom
<1>4. Supported'
  BY SupportedNext
<1>5. PICK p : Supports(p, v)'
  BY <1>1, <1>3, <1>4 DEF Supported, SameGraph
<1>6. p \in PathsTo(First, v) /\ PathCost(p) = Dist(v)'
  BY <1>1, <1>5 DEF Supports, SameGraph, PathsTo
<1>7. PathCost(p) + edges[v][k].cost < MaxInt
  BY <1>6, FitsAt
<1>8. edges[v][k].cost \in Nat
  BY EdgeAt
<1>9. Plus(Dist(v)', edges[v][k].cost) = Dist(v)' + edges[v][k].cost
  BY <1>3, <1>6, <1>7, <1>8, PlusFits
<1>10. Dist(v)' = value'[v].minDist
  BY DEF Dist
<1> QED BY <1>3, <1>9, <1>10 DEF SentAlong

LEMMA RelaxedNext ==
    ASSUME GraphOK, Fits, Good, Superstepped
    PROVE  Relaxed'
<1>1. Vertices' = Vertices /\ edges' = edges
  BY GraphStays DEF Superstepped, SameGraph
<1>2. ASSUME NEW v \in Vertices, Dist(v)' < MaxInt, NEW k \in DOMAIN edges[v]
      PROVE  /\ edges[v][k].dstID \in Vertices
             /\ \/ Dist(edges[v][k].dstID)' <= Dist(v)' + edges[v][k].cost
                \/ Pending(v, k)'
  <2>1. PICK u : u = edges[v][k].dstID
    OBVIOUS
  <2>2. PICK c \in Nat : c = edges[v][k].cost
    BY EdgeAt
  <2>3. CASE Moved(v)
    <3>1. u \in Vertices
      BY <2>1, <2>3 DEF Superstepped
    <3>2. PICK m : m = [from |-> v, cost |-> Dist(v)' + c]
      OBVIOUS
    <3>3. SentAlong(m, v, k)
      BY <2>2, <2>3, <3>2, SentIs
    <3>4. m \in queue'[Buffer'][u]
      BY <2>1, <2>3, <3>1, <3>3 DEF Superstepped
    <3>5. Pending(v, k)'
      BY <1>1, <2>1, <2>2, <3>2, <3>4 DEF Pending
    <3> QED BY <2>1, <3>1, <3>5
  <2>4. CASE Keeps(v)
    <3>1. Dist(v)' = Dist(v)
      BY <2>4, NotMore
    <3>2. u \in Vertices /\ (Dist(u) <= Dist(v) + c \/ Pending(v, k))
      BY <1>2, <2>1, <2>2, <3>1 DEF Good, Relaxed
    <3>3. /\ Dist(u)' \in Nat /\ Dist(u)' <= Dist(u) /\ Dist(u) \in Nat /\ Dist(v) \in Nat
          /\ Dist(edges[v][k].dstID)' = Dist(u)'
      BY <1>1, <2>1, <3>2, NotMore DEF Dist
    <3>4. CASE Pending(v, k)
      <4>1. PICK m \in queue[Buffer][u] : m = [from |-> v, cost |-> Dist(v) + c]
        BY <2>1, <2>2, <3>4 DEF Pending
      <4>2. m.cost = Dist(v) + c
        BY <4>1
      <4>3. CASE Keeps(u)
        <5>1. Dist(u) <= m.cost
          BY <4>1, <4>3 DEF Keeps
        <5> QED BY <2>1, <2>2, <3>1, <3>2, <3>3, <4>2, <5>1
      <4>4. ASSUME NEW o, Learns(u, o) PROVE Dist(u)' <= m.cost
        <5>1. o.cost <= m.cost
          BY <4>1, <4>4 DEF Learns
        <5>2. Dist(u)' = o.cost
          BY <3>2, <4>4, NotMore
        <5> QED BY <5>1, <5>2
      <4>5. Keeps(u) \/ \E o : Learns(u, o)
        BY <3>2 DEF Superstepped, Moved
      <4> QED BY <2>1, <2>2, <3>1, <3>2, <3>3, <4>2, <4>3, <4>4, <4>5
    <3> QED BY <2>1, <2>2, <3>1, <3>2, <3>3, <3>4
  <2> QED BY <2>3, <2>4 DEF Superstepped
<1> QED BY <1>1, <1>2 DEF Relaxed

LEMMA MessagesNext ==
    ASSUME GraphOK, Fits, Good, Superstepped
    PROVE  Messages'
<1>1. Vertices' = Vertices /\ edges' = edges
  BY GraphStays DEF Superstepped, SameGraph
<1>2. ASSUME NEW u \in Vertices, NEW m \in queue'[Buffer'][u]
      PROVE  Says(m, u)'
  <2>5. PICK v \in Vertices :
           Moved(v) /\ \E k \in DOMAIN edges[v] : edges[v][k].dstID = u /\ SentAlong(m, v, k)
    BY <1>2 DEF Superstepped
  <2>1. PICK k \in DOMAIN edges[v] : Moved(v) /\ edges[v][k].dstID = u /\ SentAlong(m, v, k)
    BY <2>5
  <2>2. Dist(v)' < MaxInt /\ m = [from |-> v, cost |-> Dist(v)' + edges[v][k].cost]
    BY <2>1, SentIs
  <2>3. m.from = v /\ m.cost = Dist(v)' + edges[v][k].cost
    BY <2>2
  <2>4. Dist(m.from)' = Dist(v)'
    BY <2>3 DEF Dist
  <2> QED BY <1>1, <2>1, <2>2, <2>3, <2>4 DEF Says
<1> QED BY <1>1, <1>2 DEF Messages

LEMMA GoodNext ==
    ASSUME GraphOK, Fits, Good, Superstepped
    PROVE  Good'
BY ValuesNext, BackwardsNext, RankedNext, SupportedNext, RelaxedNext, MessagesNext DEF Good
-----------------------------------------------------------------------------
(* The first superstep of the first calculation: only the source learns.   *)
FirstStepped ==
    /\ UNCHANGED <<edges, First>>
    /\ value' = [v \in Vertices |-> IF v = First THEN [minDist |-> 0, prevInPath |-> None] ELSE Fresh]
    /\ First \in Vertices => \A k \in DOMAIN edges[First] : edges[First][k].dstID \in Vertices
    /\ \A u \in Vertices : \A m : m \in queue'[Buffer'][u] <=>
          /\ First \in Vertices
          /\ \E k \in DOMAIN edges[First] : edges[First][k].dstID = u /\ SentAlong(m, First, k)

LEMMA GoodFirst ==
    ASSUME GraphOK, Fits, FirstStepped
    PROVE  Good'
<1>1. SameGraph /\ First' = First /\ edges' = edges
  BY GraphStays DEF FirstStepped
<1>2. Vertices' = Vertices /\ MaxInt \in Nat \ {0} /\ None \notin Vertices
  BY <1>1, PathAssumption DEF SameGraph, GraphOK
<1>3. ASSUME NEW v \in Vertices
      PROVE  /\ v = First => /\ value'[v] = [minDist |-> 0, prevInPath |-> None]
                              /\ value'[v].minDist = 0 /\ Dist(v)' = 0
             /\ v # First => /\ value'[v] = [minDist |-> MaxInt, prevInPath |-> None]
                              /\ value'[v].minDist = MaxInt /\ Dist(v)' = MaxInt
             /\ value'[v].prevInPath = None /\ Prev(v)' = None
  <2>1. CASE v = First
    <3>1. value'[v] = [minDist |-> 0, prevInPath |-> None]
      BY <2>1 DEF FirstStepped
    <3> QED BY <2>1, <3>1 DEF Dist, Prev
  <2>2. CASE v # First
    <3>1. value'[v] = [minDist |-> MaxInt, prevInPath |-> None]
      BY <2>2 DEF FirstStepped, Fresh
    <3> QED BY <2>2, <3>1 DEF Dist, Prev
  <2> QED BY <2>1, <2>2
<1>4. ValuesOK'
  <2>1. ASSUME NEW v \in Vertices
        PROVE  value'[v] \in [minDist : 0..MaxInt, prevInPath : Vertices \union {None}]
    <3>1. 0 \in 0..MaxInt /\ MaxInt \in 0..MaxInt
      BY <1>2
    <3>2. \/ value'[v] = [minDist |-> 0, prevInPath |-> None]
          \/ value'[v] = [minDist |-> MaxInt, prevInPath |-> None]
      BY <1>3
    <3> QED BY <3>1, <3>2
  <2>2. value' \in [Vertices -> [minDist : 0..MaxInt, prevInPath : Vertices \union {None}]]
    BY <2>1 DEF FirstStepped
  <2>3. \A v \in Vertices : v # First => (Dist(v)' < MaxInt <=> Prev(v)' # None)
    BY <1>2, <1>3
  <2>4. First \in Vertices => value'[First] = [minDist |-> 0, prevInPath |-> None]
    BY <1>3
  <2> QED BY <1>1, <1>2, <2>2, <2>3, <2>4 DEF ValuesOK
<1>5. Backwards'
  BY <1>2, <1>3 DEF Backwards
<1>6. Ranked'
  <2>1. PICK r : r = [v \in Vertices |-> 0]
    OBVIOUS
  <2>2. r \in [Vertices -> 0..0]
    BY <2>1
  <2>3. RanksIn(value, 0, r)'
    BY <1>2, <1>3, <2>2 DEF RanksIn
  <2> QED BY <2>3 DEF Ranked
<1>7. Supported'
  <2> SUFFICES ASSUME NEW v \in Vertices, Dist(v)' < MaxInt
               PROVE  \E p : Supports(p, v)'
    BY <1>2 DEF Supported
  <2>1. v = First /\ Dist(v)' = 0
    BY <1>2, <1>3
  <2>2. PICK p : p = <<v>>
    OBVIOUS
  <2>3. p \in PathsTo(v, v) /\ PathCost(p) = 0 /\ Len(p) = 1 /\ p[1] = v
    BY <2>2, OneVertex
  <2>4. p \in PathsTo(First, v)'
    BY <1>1, <2>1, <2>3 DEF SameGraph, PathsTo
  <2>5. PathCost(p)' = Dist(v)'
    BY <1>1, <2>1, <2>3 DEF SameGraph
  <2>6. (\A i \in 1..Len(p) : Dist(p[i]) <= Dist(v))'
    <3>1. \A i \in 1..Len(p) : p[i] = v
      BY <2>3
    <3> QED BY <2>1, <3>1 DEF Dist
  <2> QED BY <2>4, <2>5, <2>6 DEF Supports
<1>8. ASSUME First \in Vertices, NEW k \in DOMAIN edges[First], NEW m
      PROVE  SentAlong(m, First, k) <=> m = [from |-> First, cost |-> value'[First].minDist + edges[First][k].cost]
  <2>1. PICK s \in Vertices : s = First
    BY <1>8
  <2>2. <<s>> \in PathsTo(s, s) /\ PathCost(<<s>>) = 0
    BY OneVertex
  <2>3. edges[s][k].cost \in Nat
    BY <1>8, <2>1, EdgeAt
  <2>4. 0 + edges[s][k].cost < MaxInt
    BY <1>8, <2>1, <2>2, FitsAt
  <2>5. Plus(0, edges[s][k].cost) = 0 + edges[s][k].cost
    BY <2>3, <2>4, PlusFits
  <2>6. value'[First].minDist = 0
    BY <1>3, <1>8
  <2> QED BY <2>1, <2>5, <2>6 DEF SentAlong
<1>9. Relaxed'
  <2> SUFFICES ASSUME NEW v \in Vertices, Dist(v)' < MaxInt, NEW k \in DOMAIN edges[v]
               PROVE  /\ edges[v][k].dstID \in Vertices
                      /\ Pending(v, k)'
    BY <1>1, <1>2 DEF Relaxed
  <2>1. v = First
    BY <1>2, <1>3
  <2>2. edges[v][k].dstID \in Vertices
    BY <2>1 DEF FirstStepped
  <2>3. PICK u \in Vertices : u = edges[v][k].dstID
    BY <2>2
  <2>4. PICK m : m = [from |-> v, cost |-> value'[v].minDist + edges[v][k].cost]
    OBVIOUS
  <2>5. SentAlong(m, v, k)
    BY <1>8, <2>1, <2>4
  <2>6. m \in queue'[Buffer'][u]
    BY <2>1, <2>3, <2>5 DEF FirstStepped
  <2>7. Pending(v, k)'
    BY <1>1, <2>3, <2>4, <2>6 DEF Pending, Dist
  <2> QED BY <2>2, <2>7
<1>10. Messages'
  <2> SUFFICES ASSUME NEW u \in Vertices, NEW m \in queue'[Buffer'][u]
               PROVE  Says(m, u)'
    BY <1>2 DEF Messages
  <2>1. First \in Vertices
    BY DEF FirstStepped
  <2>2. PICK k \in DOMAIN edges[First] : edges[First][k].dstID = u /\ SentAlong(m, First, k)
    BY DEF FirstStepped
  <2>3. m = [from |-> First, cost |-> value'[First].minDist + edges[First][k].cost]
    BY <1>8, <2>1, <2>2
  <2>4. m.from = First /\ m.cost = value'[First].minDist + edges[First][k].cost
    BY <2>3
  <2>5. value'[First].minDist < MaxInt
    BY <1>2, <1>3, <2>1
  <2> QED BY <1>1, <1>2, <2>1, <2>2, <2>4, <2>5 DEF Says, Dist
<1> QED BY <1>4, <1>5, <1>6, <1>7, <1>9, <1>10 DEF Good
-----------------------------------------------------------------------------
LEMMA BufferIs ==
    ASSUME superstep \in 0..2
    PROVE  Buffer \in 0..1 /\ 1 - Buffer \in 0..1 /\ Buffer # 1 - Buffer
BY DEF Buffer

LEMMA QueueNext ==
    ASSUME superstep \in 0..2, queue = [b \in 0..1 |-> queue[b]], Step
    PROVE  /\ queue' = [b \in 0..1 |-> queue'[b]]
           /\ \A u \in Vertices : queue'[Buffer][u] = {}
           /\ \A u \in Vertices : queue'[1 - Buffer][u] = queue[1 - Buffer][u] \union Sent(u)
<1>1. PICK b \in 0..1, c \in 0..1 : b = Buffer /\ c = 1 - Buffer /\ b # c
  BY BufferIs
<1>2. queue' = [queue EXCEPT ![b] = [v \in Vertices |-> {}],
                             ![c] = [u \in Vertices |-> @[u] \union Sent(u)]]
  BY <1>1 DEF Step
<1>3. queue'[b] = [v \in Vertices |-> {}] /\ queue'[c] = [u \in Vertices |-> queue[c][u] \union Sent(u)]
  BY <1>1, <1>2
<1>4. queue' = [d \in 0..1 |-> queue'[d]]
  BY <1>1, <1>2
<1> QED BY <1>1, <1>3, <1>4

(* A message is one that some vertex sends along an edge.                  *)
LEMMA SentBy ==
    ASSUME NEW u, NEW m
    PROVE  m \in Sent(u) <=>
              \E v \in Computed : \E k \in Reached(v) :
                 edges[v][k].dstID = u /\ m = [from |-> v, cost |-> Plus(Best(v), edges[v][k].cost)]
BY DEF Sent

(* The number that a computation compares with what it has is the least    *)
(* that it is offered, if these are no negative ones.                      *)
LEMMA BestIsLeast ==
    ASSUME NEW v \in Vertices, \A m \in queue[Buffer][v] : m.cost \in Nat
    PROVE  /\ Best(v) \in Nat /\ Best(v) <= Own(v) /\ Own(v) \in Nat
           /\ \A m \in queue[Buffer][v] : Best(v) <= m.cost
           /\ Best(v) = Own(v) \/ \E m \in queue[Buffer][v] : Best(v) = m.cost
<1> DEFINE T == {Own(v)} \union Offered(v)
<1>1. Own(v) \in Nat
  BY PathAssumption DEF Own
<1>2. T \subseteq Nat /\ T # {}
  BY <1>1 DEF Offered
<1>3. Best(v) = Min(T)
  BY DEF Best
<1>4. Own(v) \in T /\ \A m \in queue[Buffer][v] : m.cost \in T
  BY DEF Offered
<1>5. \A c \in T : c = Own(v) \/ \E m \in queue[Buffer][v] : c = m.cost
  BY DEF Offered
<1> HIDE DEF T
<1>6. Best(v) \in T /\ \A c \in T : Best(v) <= c
  BY <1>2, <1>3, MinIsLeast
<1> QED BY <1>1, <1>2, <1>4, <1>5, <1>6

(* What a superstep that fails nowhere does to the values.                 *)
LEMMA ValueNext ==
    ASSUME Step, \A v \in Computed : ~Fails(v)
    PROVE  /\ value' = [v \in Vertices |-> value'[v]]
           /\ \A v \in Vertices : v \notin Computed => value'[v] = value[v]
           /\ \A v \in Computed : ~Improved(v) => value'[v] = State(v)
           /\ \A v \in Computed : Improved(v) =>
                 /\ \E w \in Via(v) : value'[v] = [minDist |-> Best(v), prevInPath |-> w]
                 /\ Bad(v) = {} /\ Reached(v) = DOMAIN edges[v]
           /\ \A v \in Computed : ~Improved(v) => Reached(v) = {}
<1>1. PICK via : /\ \A v \in Computed : via[v] \in Via(v)
                 /\ value' = [v \in Vertices |->
                       IF v \notin Computed THEN value[v]
                       ELSE IF Improved(v) THEN [minDist |-> Best(v), prevInPath |-> via[v]]
                       ELSE State(v)]
  BY DEF Step
<1>2. Computed \subseteq Vertices
  BY DEF Computed
<1>3. \A v \in Computed : Improved(v) => Bad(v) = {}
  BY DEF Fails
<1>4. \A v \in Computed : (Improved(v) => Reached(v) = DOMAIN edges[v]) /\ (~Improved(v) => Reached(v) = {})
  BY <1>3 DEF Reached
<1> HIDE DEF Step
<1>5. \A v \in Computed : Improved(v) => value'[v] = [minDist |-> Best(v), prevInPath |-> via[v]]
  BY <1>1, <1>2
<1>6. \A v \in Computed : ~Improved(v) => value'[v] = State(v)
  BY <1>1, <1>2
<1>7. \A v \in Vertices : v \notin Computed => value'[v] = value[v]
  BY <1>1
<1>8. value' = [v \in Vertices |-> value'[v]]
  BY <1>1
<1> QED BY <1>1, <1>3, <1>4, <1>5, <1>6, <1>7, <1>8

LEMMA FollowingStep ==
    ASSUME GraphOK, Good, Step, \A v \in Computed : ~Fails(v),
           active = {}, superstep \in 1..2, srcID = First, NoMessages(1 - Buffer),
           queue = [b \in 0..1 |-> queue[b]], Buffer' = 1 - Buffer
    PROVE  Superstepped
<1>1. /\ edges' = edges /\ First' = First
      /\ \A v : v \in Computed <=> v \in Vertices /\ queue[Buffer][v] # {}
      /\ \A v \in Vertices : State(v) = value[v]
  BY DEF Step, First, Computed, State
<1>2. MaxInt \in Nat \ {0}
  BY PathAssumption
<1>3. ASSUME NEW v \in Vertices
      PROVE  /\ Moved(v) \/ Keeps(v)
             /\ Moved(v) => v \in Computed /\ Improved(v)
             /\ v \in Computed /\ Improved(v) => Moved(v)
             /\ Moved(v) => Best(v) = value'[v].minDist /\ Bad(v) = {}
  <2>1. Dist(v) \in Nat /\ Dist(v) <= MaxInt /\ value[v].minDist = Dist(v)
    BY ValueAt DEF Good, Dist
  <2>2. \A m \in queue[Buffer][v] : m.cost \in Nat
    <3>1. SUFFICES ASSUME NEW m \in queue[Buffer][v] PROVE m.cost \in Nat
      OBVIOUS
    <3>2. Says(m, v)
      BY DEF Good, Messages
    <3>3. m.from \in Vertices
      BY <3>2 DEF Says
    <3>4. Dist(m.from) \in Nat
      BY <3>3, ValueAt DEF Good
    <3> QED BY <3>2, <3>3, <3>4, EdgeAt DEF Says
  <2>3. /\ Best(v) \in Nat /\ Best(v) <= Own(v) /\ Own(v) \in Nat
        /\ \A m \in queue[Buffer][v] : Best(v) <= m.cost
        /\ Best(v) = Own(v) \/ \E m \in queue[Buffer][v] : Best(v) = m.cost
    BY <2>2, BestIsLeast
  <2>4. Improved(v) <=> Best(v) < Dist(v)
    BY <1>1, <2>1 DEF Improved
  <2>5. CASE v \notin Computed
    <3>1. value'[v] = value[v]
      BY <2>5, ValueNext
    <3>2. queue[Buffer][v] = {}
      BY <1>1, <2>5
    <3> QED BY <2>5, <3>1, <3>2 DEF Moved, Keeps, Learns
  <2>6. CASE v \in Computed /\ ~Improved(v)
    <3>1. value'[v] = value[v]
      BY <1>1, <2>6, ValueNext
    <3>2. \A m \in queue[Buffer][v] : Dist(v) <= m.cost
      BY <2>1, <2>2, <2>3, <2>4, <2>6
    <3>3. ~Moved(v)
      <4>1. SUFFICES ASSUME NEW m, Learns(v, m) PROVE FALSE
        BY DEF Moved
      <4>2. m \in queue[Buffer][v] /\ m.cost < Dist(v)
        BY <4>1 DEF Learns
      <4> QED BY <2>1, <2>2, <3>2, <4>2
    <3> QED BY <2>6, <3>1, <3>2, <3>3 DEF Keeps
  <2>7. CASE v \in Computed /\ Improved(v)
    <3>1. PICK w \in Via(v) : value'[v] = [minDist |-> Best(v), prevInPath |-> w]
      BY <2>7, ValueNext
    <3>2. Best(v) < Dist(v) /\ Bad(v) = {}
      BY <2>4, <2>7, ValueNext
    <3>3. v # First
      <4>1. SUFFICES ASSUME v = First PROVE FALSE
        OBVIOUS
      <4>2. Dist(v) = 0
        BY <4>1 DEF Good, ValuesOK, Dist
      <4> QED BY <2>3, <3>2, <4>2
    <3>4. Own(v) = MaxInt
      BY <3>3 DEF Own
    <3>5. Best(v) # Own(v)
      BY <2>1, <2>3, <3>2, <3>4, <1>2
    <3>6. PICK m \in queue[Buffer][v] : m.cost = Best(v) /\ m.from = w
      BY <3>1, <3>5 DEF Via
    <3>7. Learns(v, m)
      BY <2>3, <3>1, <3>2, <3>6 DEF Learns
    <3>8. value'[v].minDist = Best(v)
      BY <3>1
    <3> QED BY <2>7, <3>2, <3>7, <3>8 DEF Moved
  <2> QED BY <2>5, <2>6, <2>7
<1>4. ASSUME NEW v \in Vertices, Moved(v), NEW k \in DOMAIN edges[v]
      PROVE  edges[v][k].dstID \in Vertices
  BY <1>3, <1>4 DEF Bad
<1>5. ASSUME NEW u \in Vertices, NEW m
      PROVE  m \in queue'[Buffer'][u] <=>
                \E v \in Vertices : Moved(v) /\ \E k \in DOMAIN edges[v] :
                   edges[v][k].dstID = u /\ SentAlong(m, v, k)
  <2>1. superstep \in 0..2
    OBVIOUS
  <2>2. queue'[1 - Buffer][u] = queue[1 - Buffer][u] \union Sent(u)
    BY <2>1, QueueNext
  <2>3. queue'[Buffer'][u] = Sent(u)
    BY <2>2 DEF NoMessages
  <2>4. \A v \in Vertices : Moved(v) => \A k : SentAlong(m, v, k) <=>
              m = [from |-> v, cost |-> Plus(Best(v), edges[v][k].cost)]
    BY <1>3 DEF SentAlong
  <2>5. \A v : v \in Vertices /\ Moved(v) <=> v \in Computed /\ Improved(v)
    BY <1>1, <1>3
  <2>6. \A v \in Computed : Improved(v) => Reached(v) = DOMAIN edges[v]
    BY ValueNext
  <2>7. \A v \in Computed : ~Improved(v) => Reached(v) = {}
    BY ValueNext
  <2>8. m \in Sent(u) <=> \E v \in Vertices : Moved(v) /\ \E k \in DOMAIN edges[v] :
              edges[v][k].dstID = u /\ m = [from |-> v, cost |-> Plus(Best(v), edges[v][k].cost)]
    BY <2>5, <2>6, <2>7, SentBy
  <2> QED BY <2>3, <2>4, <2>8
<1>6. value' = [v \in Vertices |-> value'[v]]
  BY ValueNext
<1> QED BY <1>1, <1>3, <1>4, <1>5, <1>6 DEF Superstepped

LEMMA StartingStep ==
    ASSUME GraphOK, Step, \A v \in Computed : ~Fails(v),
           active = Vertices, superstep = 0, srcID = First,
           queue = [b \in 0..1 |-> [v \in Vertices |-> {}]], Vertices # {} => Buffer' = 1 - Buffer
    PROVE  FirstStepped
<1>1. /\ edges' = edges /\ First' = First
      /\ Computed = Vertices
      /\ \A v \in Vertices : State(v) = [minDist |-> MaxInt, prevInPath |-> None]
      /\ Buffer \in 0..1
  BY DEF Step, First, Computed, State, Fresh, Buffer
<1>2. MaxInt \in Nat \ {0}
  BY PathAssumption
<1>3. \A b \in 0..1, v \in Vertices : queue[b][v] = {}
  OBVIOUS
<1>4. ASSUME NEW v \in Vertices
      PROVE  /\ v = First => Best(v) = 0 /\ Improved(v)
                             /\ value'[v] = [minDist |-> 0, prevInPath |-> None]
             /\ v # First => ~Improved(v) /\ value'[v] = Fresh
  <2>1. queue[Buffer][v] = {}
    BY <1>1, <1>3
  <2>2. Best(v) = Own(v) /\ Own(v) \in Nat
    BY <2>1, BestIsLeast
  <2>3. Own(v) = IF v = First THEN 0 ELSE MaxInt
    BY DEF Own
  <2>4. State(v).minDist = MaxInt
    BY <1>1
  <2>5. Improved(v) <=> Best(v) < MaxInt
    BY <2>4 DEF Improved
  <2>6. CASE v = First
    <3>1. Best(v) = 0 /\ Improved(v)
      BY <1>2, <2>2, <2>3, <2>5, <2>6
    <3>2. Via(v) = {None}
      BY <2>2 DEF Via
    <3>3. \E w \in Via(v) : value'[v] = [minDist |-> Best(v), prevInPath |-> w]
      BY <1>1, <3>1, ValueNext
    <3> QED BY <2>6, <3>1, <3>2, <3>3
  <2>7. CASE v # First
    <3>1. ~Improved(v)
      BY <1>2, <2>2, <2>3, <2>5, <2>7
    <3>2. value'[v] = State(v)
      BY <1>1, <3>1, ValueNext
    <3> QED BY <1>1, <2>7, <3>1, <3>2 DEF Fresh
  <2> QED BY <2>6, <2>7
<1>5. value' = [v \in Vertices |-> IF v = First THEN [minDist |-> 0, prevInPath |-> None] ELSE Fresh]
  <2>1. value' = [v \in Vertices |-> value'[v]]
    BY ValueNext
  <2>2. \A v \in Vertices : value'[v] = IF v = First THEN [minDist |-> 0, prevInPath |-> None] ELSE Fresh
    BY <1>4
  <2> QED BY <2>1, <2>2
<1>6. ASSUME First \in Vertices, NEW k \in DOMAIN edges[First]
      PROVE  edges[First][k].dstID \in Vertices
  <2>1. Bad(First) = {}
    BY <1>1, <1>4, <1>6, ValueNext
  <2> QED BY <1>6, <2>1 DEF Bad
<1>7. ASSUME NEW u \in Vertices, NEW m
      PROVE  m \in queue'[Buffer'][u] <=>
                /\ First \in Vertices
                /\ \E k \in DOMAIN edges[First] : edges[First][k].dstID = u /\ SentAlong(m, First, k)
  <2>1. superstep \in 0..2 /\ queue = [b \in 0..1 |-> queue[b]] /\ Buffer' = 1 - Buffer
    OBVIOUS
  <2>2. queue'[1 - Buffer][u] = queue[1 - Buffer][u] \union Sent(u)
    BY <2>1, QueueNext
  <2>3. queue[1 - Buffer][u] = {}
    BY <1>3, <2>1, BufferIs
  <2>4. queue'[Buffer'][u] = Sent(u)
    BY <2>1, <2>2, <2>3
  <2>5. \A v \in Computed : v # First => Reached(v) = {}
    BY <1>1, <1>4, ValueNext
  <2>6. First \in Vertices => Reached(First) = DOMAIN edges[First]
    BY <1>1, <1>4, ValueNext
  <2>7. m \in Sent(u) <=>
           /\ First \in Vertices
           /\ \E k \in DOMAIN edges[First] :
                 edges[First][k].dstID = u /\ m = [from |-> First, cost |-> Plus(Best(First), edges[First][k].cost)]
    BY <1>1, <2>5, <2>6, SentBy
  <2>8. First \in Vertices => Best(First) = value'[First].minDist
    BY <1>4
  <2> QED BY <2>4, <2>7, <2>8 DEF SentAlong
<1> QED BY <1>1, <1>5, <1>6, <1>7 DEF FirstStepped
-----------------------------------------------------------------------------
(* The invariant is inductive.                                             *)
InvParts == TypeOK /\ Unstarted /\ Started

LEMMA AnswerStays ==
    ASSUME UNCHANGED <<edges, value, srcID>>
    PROVE  \A v : Answer(v)' = Answer(v)
BY DEF Answer, Walk, Back, Reversed, Vertices

LEMMA InitIInv == Init => IInv
<1> SUFFICES ASSUME Init PROVE IInv
  OBVIOUS
<1>1. PICK g \in Graphs : edges = g
  BY DEF Init
<1>2. DOMAIN g \subseteq ID /\ IsFiniteSet(DOMAIN g) /\ g \in [DOMAIN g -> Seq(Edge)]
  BY PathAssumption
<1>5. GraphOK
  BY <1>1, <1>2 DEF GraphOK, Vertices
<1>6. TypeOK
  <2>1. sources = <<>> /\ sources \in Seq(ID) /\ Len(sources) = 0
    BY EmptySeq DEF Init
  <2>2. superstep = 0 /\ phase = "idle" /\ tainted = FALSE
    BY DEF Init
  <2>3. superstep \in 0..2
    BY <2>2
  <2>4. Len(sources) # 1
    BY <2>1
  <2> QED BY <1>5, <2>1, <2>2, <2>3, <2>4 DEF TypeOK
<1>7. Unstarted /\ Started /\ AnswerOK
  BY DEF Init, Unstarted, Started, AnswerOK, Starting
<1> QED BY <1>6, <1>7 DEF IInv

(* Nothing but the answer changes.                                         *)
LEMMA PartsStay ==
    ASSUME InvParts, UNCHANGED <<edges, active, value, queue, srcID, superstep, phase, sources, tainted>>
    PROVE  InvParts'
<1>1. SameGraph /\ Vertices' = Vertices /\ First' = First /\ Buffer' = Buffer
  BY GraphStays DEF SameGraph, First, Buffer
<1>2. TypeOK'
  BY <1>1 DEF InvParts, TypeOK, SameGraph
<1>3. Unstarted'
  BY <1>1 DEF InvParts, Unstarted, Starting
<1>4. Good => Good'
  BY <1>1, GoodStays
<1>5. Started'
  BY <1>1, <1>4 DEF InvParts, Started, Starting, NoMessages, SameGraph
<1> QED BY <1>2, <1>3, <1>5 DEF InvParts

LEMMA AddKeeps ==
    ASSUME InvParts, NEW v \in ID, NEW u \in ID, NEW c,
           AddVertex(v) \/ (c \in Costs /\ AddEdge(v, u, c))
    PROVE  InvParts'
<1>1. Adds
  BY DEF AddVertex, AddEdge
<1>2. /\ phase = "idle" /\ phase' = "idle" /\ superstep' = superstep /\ srcID' = srcID /\ sources' = sources
      /\ tainted' = (tainted \/ sources # <<>>)
  BY <1>1 DEF Adds
<1>3. GraphOK' /\ (Vertices' = Vertices \/ AddVertex(v))
  <2>1. CASE UNCHANGED edges
    BY <2>1, GraphStays DEF InvParts, TypeOK, SameGraph
  <2>2. CASE v \notin Vertices /\ edges' = Extended(edges, v, <<>>) /\ AddVertex(v)
    <3>1. Vertices' = Vertices \union {v}
      BY <2>2 DEF Vertices, Extended
    <3>2. edges' = [w \in Vertices \union {v} |-> IF w = v THEN <<>> ELSE edges[w]]
      BY <2>2 DEF Vertices, Extended
    <3>3. \A w \in Vertices : edges[w] \in Seq(Edge)
      BY DEF InvParts, TypeOK, GraphOK
    <3>4. <<>> \in Seq(Edge)
      BY EmptySeq
    <3>5. edges' \in [Vertices \union {v} -> Seq(Edge)]
      BY <3>2, <3>3, <3>4
    <3>6. IsFiniteSet(Vertices \union {v}) /\ Vertices \union {v} \subseteq ID
      BY FS_AddElement DEF InvParts, TypeOK, GraphOK
    <3> QED BY <2>2, <3>1, <3>5, <3>6 DEF GraphOK
  <2>3. CASE c \in Costs /\ c >= 0 /\ v \in Vertices /\ edges' = [edges EXCEPT ![v] = Append(@, [dstID |-> u, cost |-> c])]
    <3>1. Vertices' = Vertices
      BY <2>3 DEF Vertices
    <3>2. c \in Nat
      BY <2>3, PathAssumption
    <3>3. [dstID |-> u, cost |-> c] \in Edge
      BY <3>2 DEF Edge
    <3>4. edges \in [Vertices -> Seq(Edge)]
      BY DEF InvParts, TypeOK, GraphOK
    <3>5. Append(edges[v], [dstID |-> u, cost |-> c]) \in Seq(Edge)
      BY <2>3, <3>3, <3>4, AppendProperties
    <3>6. edges' \in [Vertices -> Seq(Edge)]
      BY <2>3, <3>4, <3>5
    <3> QED BY <3>1, <3>6 DEF GraphOK, InvParts, TypeOK
  <2> QED BY <2>1, <2>2, <2>3 DEF AddVertex, AddEdge
<1>4. TypeOK'
  BY <1>2, <1>3 DEF InvParts, TypeOK, First
<1>5. Unstarted'
  <2>1. ~Starting' /\ (sources' = <<>> => phase' = "idle" /\ ~tainted')
    BY <1>2 DEF InvParts, Unstarted, Starting
  <2>2. ASSUME sources' = <<>>
        PROVE  active' = Vertices' /\ queue' = [b \in 0..1 |-> [w \in Vertices' |-> {}]]
    <3>1. active = Vertices /\ queue = [b \in 0..1 |-> [w \in Vertices |-> {}]]
      BY <1>2, <2>2 DEF InvParts, Unstarted
    <3>2. CASE Vertices' = Vertices /\ UNCHANGED <<active, queue>>
      BY <3>1, <3>2
    <3>3. CASE /\ edges' = Extended(edges, v, <<>>) /\ active' = active \union {v}
               /\ queue' = [b \in 0..1 |-> Extended(queue[b], v, {})]
      <4>1. Vertices' = Vertices \union {v}
        BY <3>3 DEF Vertices, Extended
      <4>2. \A b \in 0..1 : Extended(queue[b], v, {}) = [w \in Vertices \union {v} |-> {}]
        BY <3>1 DEF Extended
      <4> QED BY <3>1, <3>3, <4>1, <4>2
    <3>4. \/ Vertices' = Vertices /\ UNCHANGED <<active, queue>>
          \/ /\ edges' = Extended(edges, v, <<>>) /\ active' = active \union {v}
             /\ queue' = [b \in 0..1 |-> Extended(queue[b], v, {})]
      BY DEF AddVertex, AddEdge, Vertices
    <3> QED BY <3>2, <3>3, <3>4
  <2> QED BY <2>1, <2>2 DEF Unstarted
<1>6. Started'
  BY <1>2 DEF Started
<1> QED BY <1>4, <1>5, <1>6 DEF InvParts

LEMMA CalculateKeeps ==
    ASSUME InvParts, NEW s \in ID, Calculate(s)
    PROVE  InvParts'
<1>1. /\ phase = "idle" /\ phase' = "running" /\ superstep' = 0 /\ srcID' = s /\ sources' = Append(sources, s)
      /\ UNCHANGED <<edges, active, value, queue, tainted>>
  BY DEF Calculate
<1>2. sources \in Seq(ID) /\ GraphOK /\ superstep \in 0..2
  BY DEF InvParts, TypeOK
<1>3. /\ sources' \in Seq(ID) /\ Len(sources') = Len(sources) + 1 /\ Len(sources) \in Nat
      /\ sources' # <<>>
      /\ sources # <<>> => First' = First /\ Len(sources) # 0
      /\ sources = <<>> => First' = s /\ Len(sources) = 0
  <2>1. sources' \in Seq(ID) /\ Len(sources') = Len(sources) + 1 /\ Len(sources) \in Nat
        /\ sources'[Len(sources) + 1] = s /\ \A i \in 1..Len(sources) : sources'[i] = sources[i]
    BY <1>1, <1>2, AppendProperties, LenProperties
  <2>2. sources # <<>> => Len(sources) \in Nat \ {0}
    BY <1>2, EmptySeq
  <2>3. sources = <<>> => Len(sources) = 0
    OBVIOUS
  <2> QED BY <2>1, <2>2, <2>3 DEF First
<1>4. SameGraph /\ Vertices' = Vertices
  BY <1>1, GraphStays DEF SameGraph
<1>5. TypeOK'
  <2>1. Len(sources') = 1 => srcID' = First'
    BY <1>1, <1>3
  <2> QED BY <1>1, <1>2, <1>3, <1>4, <2>1 DEF TypeOK, InvParts, SameGraph
<1>6. Unstarted'
  <2>1. Starting' => sources = <<>>
    <3>1. SUFFICES ASSUME Len(sources') = 1 PROVE sources = <<>>
      BY DEF Starting
    <3>2. PICK n \in Nat : n = Len(sources)
      BY <1>3
    <3>3. n + 1 = 1
      BY <1>3, <3>1, <3>2
    <3>4. n = 0
      BY <3>3
    <3> QED BY <1>3, <3>2, <3>4
  <2> QED BY <1>1, <1>3, <1>4, <2>1 DEF InvParts, Unstarted
<1>7. Started'
  <2> SUFFICES ASSUME ~Starting', ~tainted
               PROVE  /\ active = {} /\ queue = [b \in 0..1 |-> queue[b]]
                      /\ NoMessages(1 - Buffer)' /\ NoMessages(Buffer)'
                      /\ Fits => Good'
    BY <1>1, <1>4 DEF Started, SameGraph
  <2>1. sources # <<>>
    BY <1>1, <1>3 DEF Starting
  <2>2. ~Starting
    BY <1>1 DEF Starting
  <2>3. /\ active = {} /\ queue = [b \in 0..1 |-> queue[b]]
        /\ NoMessages(1 - Buffer) /\ NoMessages(Buffer)
        /\ Fits => Good
    BY <1>1, <2>1, <2>2 DEF InvParts, Started
  <2>4. \A b \in 0..1 : \A u \in Vertices : queue[b][u] = {}
    <3>1. Buffer \in 0..1 /\ \A b \in 0..1 : b = Buffer \/ b = 1 - Buffer
      BY <1>2, BufferIs
    <3> QED BY <2>3, <3>1 DEF NoMessages
  <2>5. Buffer' \in 0..1 /\ (1 - Buffer)' \in 0..1 /\ Buffer \in 0..1
    BY <1>1, <1>2, BufferIs DEF Buffer
  <2>6. NoMessages(1 - Buffer)' /\ NoMessages(Buffer)'
    BY <1>1, <1>4, <2>4, <2>5 DEF NoMessages
  <2>7. \A u \in Vertices : queue'[Buffer'][u] = queue[Buffer][u]
    BY <1>1, <2>4, <2>5
  <2>8. Good => Good'
    BY <1>1, <1>3, <2>1, <2>7, GoodStays
  <2> QED BY <2>3, <2>6, <2>8
<1> QED BY <1>5, <1>6, <1>7 DEF InvParts

LEMMA StepKeeps ==
    ASSUME InvParts, Step
    PROVE  InvParts'
<1>1. /\ phase = "running" /\ UNCHANGED <<edges, srcID, sources>>
      /\ active' = {v \in Computed : Fails(v)}
      /\ \/ /\ active' = {} /\ Computed # {}
            /\ superstep' = IF superstep = 1 THEN 2 ELSE 1
            /\ UNCHANGED <<phase, tainted>>
         \/ /\ active' # {} \/ Computed = {}
            /\ phase' = "idle"
            /\ tainted' = (tainted \/ active' # {})
            /\ UNCHANGED superstep
  BY DEF Step
<1>2. GraphOK /\ superstep \in 0..2 /\ superstep' \in 0..2
  BY <1>1 DEF InvParts, TypeOK
<1>3. SameGraph /\ Vertices' = Vertices /\ First' = First
  BY <1>1, GraphStays DEF SameGraph, First
<1>4. TypeOK'
  BY <1>1, <1>2, <1>3 DEF TypeOK, InvParts, SameGraph
<1>5. sources # <<>>
  BY <1>1 DEF InvParts, Unstarted
<1>6. Unstarted'
  <2>1. ~Starting'
    BY <1>1 DEF Starting
  <2> QED BY <1>1, <1>5, <2>1 DEF Unstarted
<1>7. Started'
  <2> SUFFICES ASSUME ~tainted, ~tainted'
               PROVE  /\ active' = {} /\ queue' = [b \in 0..1 |-> queue'[b]]
                      /\ NoMessages(1 - Buffer)'
                      /\ phase' = "idle" \/ Len(sources) > 1 => NoMessages(Buffer)'
                      /\ Fits => Good'
    <3>1. tainted => tainted'
      BY <1>1
    <3> QED BY <1>1, <1>3, <3>1 DEF Started, SameGraph
  <2>1. active' = {}
    BY <1>1
  <2>2. \A v \in Computed : ~Fails(v)
    BY <1>1, <2>1
  <2>3. Buffer \in 0..1 /\ 1 - Buffer \in 0..1 /\ Buffer # 1 - Buffer
    BY <1>2, BufferIs
  <2>4. Computed # {} => Buffer' = 1 - Buffer /\ (1 - Buffer)' = Buffer /\ phase' = "running"
    <3>1. SUFFICES ASSUME Computed # {}
                   PROVE  Buffer' = 1 - Buffer /\ (1 - Buffer)' = Buffer /\ phase' = "running"
      OBVIOUS
    <3>2. superstep' = (IF superstep = 1 THEN 2 ELSE 1) /\ phase' = "running"
      BY <1>1, <2>1, <3>1
    <3> QED BY <1>2, <3>2 DEF Buffer
  <2>5. Computed = {} => Buffer' = Buffer /\ (1 - Buffer)' = 1 - Buffer
    BY <1>1 DEF Buffer
  <2>6. CASE Starting
    <3>1. active = Vertices /\ queue = [b \in 0..1 |-> [v \in Vertices |-> {}]]
      BY <2>6 DEF InvParts, Unstarted
    <3>2. queue = [b \in 0..1 |-> queue[b]] /\ Computed = Vertices
      BY <3>1 DEF Computed
    <3>3. queue' = [b \in 0..1 |-> queue'[b]] /\ \A u \in Vertices : queue'[Buffer][u] = {}
      BY <1>2, <3>2, QueueNext
    <3>4. NoMessages(1 - Buffer)'
      BY <1>3, <2>4, <3>2, <3>3 DEF NoMessages
    <3>5. phase' = "idle" \/ Len(sources) > 1 => NoMessages(Buffer)'
      <4>1. Len(sources) = 1
        BY <2>6 DEF Starting
      <4>2. phase' = "idle" => Vertices = {}
        BY <2>4, <3>2
      <4> QED BY <1>3, <4>1, <4>2 DEF NoMessages
    <3>6. srcID = First /\ superstep = 0
      BY <2>6 DEF InvParts, TypeOK, Starting
    <3>7. FirstStepped
      BY <1>2, <2>2, <2>4, <3>1, <3>2, <3>6, StartingStep
    <3>8. Fits => Good'
      BY <1>2, <3>7, GoodFirst
    <3> QED BY <2>1, <3>3, <3>4, <3>5, <3>8
  <2>7. CASE ~Starting
    <3>1. /\ active = {} /\ queue = [b \in 0..1 |-> queue[b]]
          /\ NoMessages(1 - Buffer)
          /\ Len(sources) > 1 => NoMessages(Buffer)
          /\ Fits => Good
      BY <1>1, <1>5, <2>7 DEF InvParts, Started
    <3>2. /\ queue' = [b \in 0..1 |-> queue'[b]] /\ \A u \in Vertices : queue'[Buffer][u] = {}
          /\ \A u \in Vertices : queue'[1 - Buffer][u] = Sent(u)
      BY <1>2, <3>1, QueueNext DEF NoMessages
    <3>3. CASE Computed = {}
      <4>1. \A u \in Vertices : Sent(u) = {} /\ queue[Buffer][u] = {}
        BY <3>3 DEF Sent, Computed
      <4>2. NoMessages(1 - Buffer)' /\ NoMessages(Buffer)'
        BY <1>3, <2>5, <3>2, <3>3, <4>1 DEF NoMessages
      <4>3. ASSUME Good PROVE Good'
        <5>1. value' = [v \in Vertices |-> value'[v]] /\ \A v \in Vertices : value'[v] = value[v]
          BY <2>2, <3>3, ValueNext
        <5>2. value = [v \in Vertices |-> value[v]]
          BY <4>3 DEF Good, ValuesOK
        <5>3. value' = value
          BY <5>1, <5>2
        <5>4. \A u \in Vertices : queue'[Buffer'][u] = queue[Buffer][u]
          BY <2>5, <3>2, <3>3, <4>1
        <5> QED BY <1>1, <1>3, <4>3, <5>3, <5>4, GoodStays
      <4> QED BY <2>1, <3>1, <3>2, <4>2, <4>3
    <3>4. CASE Computed # {}
      <4>1. NoMessages(1 - Buffer)'
        BY <1>3, <2>4, <3>2, <3>4 DEF NoMessages
      <4>2. ~NoMessages(Buffer)
        BY <3>1, <3>4 DEF Computed, NoMessages
      <4>3. Len(sources) = 1
        <5>1. Len(sources) \in Nat /\ Len(sources) # 0
          BY <1>5, EmptySeq DEF InvParts, TypeOK
        <5> QED BY <3>1, <4>2, <5>1
      <4>4. srcID = First /\ superstep \in 1..2
        <5>1. superstep # 0
          BY <1>1, <2>7, <4>3 DEF Starting
        <5> QED BY <1>2, <4>3, <5>1 DEF InvParts, TypeOK
      <4>5. Fits => Good'
        BY <1>2, <2>2, <2>4, <3>1, <3>4, <4>4, FollowingStep, GoodNext
      <4> QED BY <2>1, <2>4, <3>2, <3>4, <4>1, <4>3, <4>5
    <3> QED BY <3>3, <3>4
  <2> QED BY <2>6, <2>7
<1> QED BY <1>4, <1>6, <1>7 DEF InvParts

LEMMA CrashKeeps ==
    ASSUME InvParts, Crash
    PROVE  InvParts'
<1>1. /\ phase = "running" /\ phase' = "crashed"
      /\ UNCHANGED <<edges, active, queue, srcID, superstep, sources, tainted>>
  BY DEF Crash
<1>2. SameGraph /\ First' = First
  BY <1>1, GraphStays DEF First
<1>3. sources # <<>>
  BY <1>1 DEF InvParts, Unstarted
<1>4. TypeOK'
  BY <1>1, <1>2 DEF InvParts, TypeOK, SameGraph
<1>5. Unstarted' /\ Started'
  BY <1>1, <1>3 DEF Unstarted, Started, Starting
<1> QED BY <1>4, <1>5 DEF InvParts

LEMMA NextIInv == IInv /\ [Next]_vars => IInv'
<1> SUFFICES ASSUME IInv, [Next]_vars PROVE IInv'
  OBVIOUS
<1>1. InvParts /\ AnswerOK
  BY DEF IInv, InvParts
<1>2. ASSUME NEW v \in ID, AddVertex(v) PROVE IInv'
  <2>1. InvParts'
    BY <1>1, <1>2, AddKeeps
  <2>2. answer' = None
    BY <1>2 DEF AddVertex, Adds
  <2> QED BY <2>1, <2>2 DEF IInv, InvParts, AnswerOK
<1>3. ASSUME NEW v \in ID, NEW u \in ID, NEW c \in Costs, AddEdge(v, u, c) PROVE IInv'
  <2>1. InvParts'
    BY <1>1, <1>3, AddKeeps
  <2>2. answer' = None
    BY <1>3 DEF AddEdge, Adds
  <2> QED BY <2>1, <2>2 DEF IInv, InvParts, AnswerOK
<1>4. ASSUME NEW s \in ID, Calculate(s) PROVE IInv'
  <2>1. InvParts'
    BY <1>1, <1>4, CalculateKeeps
  <2>2. answer' = None
    BY <1>4 DEF Calculate
  <2> QED BY <2>1, <2>2 DEF IInv, InvParts, AnswerOK
<1>5. ASSUME NEW v \in ID, ShortestPathTo(v) PROVE IInv'
  <2>1. InvParts'
    BY <1>1, <1>5, PartsStay DEF ShortestPathTo
  <2>2. phase' = "idle" /\ v \in Vertices' /\ answer' = Answer(v)
    BY <1>5 DEF ShortestPathTo, Vertices
  <2>3. Answer(v)' = Answer(v)
    BY <1>5, AnswerStays DEF ShortestPathTo
  <2>4. AnswerOK'
    BY <2>2, <2>3 DEF AnswerOK
  <2> QED BY <2>1, <2>4 DEF IInv, InvParts
<1>6. CASE Step \/ Crash
  <2>1. InvParts'
    BY <1>1, <1>6, StepKeeps, CrashKeeps
  <2>2. answer' = answer /\ phase = "running"
    BY <1>6 DEF Step, Crash
  <2>3. answer' = None
    BY <1>1, <2>2 DEF AnswerOK
  <2> QED BY <2>1, <2>3 DEF IInv, InvParts, AnswerOK
<1>7. CASE UNCHANGED vars
  <2>1. InvParts'
    BY <1>1, <1>7, PartsStay DEF vars
  <2>2. UNCHANGED <<edges, value, srcID, answer, phase>>
    BY <1>7 DEF vars
  <2>3. Vertices' = Vertices /\ \A v : Answer(v)' = Answer(v)
    BY <2>2, AnswerStays DEF Vertices
  <2>4. AnswerOK'
    BY <1>1, <2>2, <2>3 DEF AnswerOK
  <2> QED BY <2>1, <2>4 DEF IInv, InvParts
<1> QED BY <1>2, <1>3, <1>4, <1>5, <1>6, <1>7 DEF Next

(* Between supersteps of calculateShortestPaths, the distances and ways     *)
(* back that the vertices have, with the messages on their way, are those   *)
(* of paths, and no message that could improve one is missing.              *)
THEOREM PathsInvariant == Spec => []IInv
BY InitIInv, NextIInv, PTL DEF Spec
-----------------------------------------------------------------------------
(* The walk back, when a calculation has ended.                            *)
WalkUpto(v, n, f) == f = [i \in 0..n |-> IF i = 0 THEN v ELSE Back(f[i - 1])]

LEMMA WalkExists == ASSUME NEW v PROVE \A n \in Nat : \E f : WalkUpto(v, n, f)
<1> DEFINE T == {n \in Nat : \E f : WalkUpto(v, n, f)}
<1>0. \A n, f : WalkUpto(v, n, f) <=> f = [i \in 0..n |-> IF i = 0 THEN v ELSE Back(f[i - 1])]
  BY DEF WalkUpto
<1>1. 0 \in T
  <2>1. PICK f : f = [i \in 0..0 |-> v]
    OBVIOUS
  <2>2. f = [i \in 0..0 |-> IF i = 0 THEN v ELSE Back(f[i - 1])]
    BY <2>1
  <2>3. WalkUpto(v, 0, f)
    BY <1>0, <2>2
  <2> QED BY <2>3
<1>2. ASSUME NEW n \in Nat, n \in T PROVE n + 1 \in T
  <2>1. PICK f : f = [i \in 0..n |-> IF i = 0 THEN v ELSE Back(f[i - 1])]
    BY <1>0, <1>2
  <2> DEFINE h == [i \in 0..(n + 1) |-> IF i = n + 1 THEN Back(f[n]) ELSE f[i]]
  <2>2. ASSUME NEW i \in 0..(n + 1)
        PROVE  h[i] = IF i = 0 THEN v ELSE Back(h[i - 1])
    <3>1. CASE i = 0
      BY <2>1, <3>1
    <3>2. CASE i \in 1..n
      <4>1. /\ i \in 0..n /\ i - 1 \in 0..n /\ i - 1 \in 0..(n + 1)
            /\ i # n + 1 /\ i - 1 # n + 1 /\ i # 0
        BY <3>2
      <4>2. h[i] = f[i] /\ h[i - 1] = f[i - 1]
        BY <4>1
      <4>3. f[i] = Back(f[i - 1])
        BY <2>1, <4>1
      <4> HIDE DEF h
      <4> QED BY <4>1, <4>2, <4>3
    <3>3. CASE i = n + 1
      <4>1. /\ i \in 0..(n + 1) /\ i - 1 = n /\ n \in 0..(n + 1) /\ n # n + 1 /\ i # 0
        BY <3>3
      <4>2. h[i] = Back(f[n]) /\ h[n] = f[n]
        BY <3>3, <4>1
      <4> HIDE DEF h
      <4> QED BY <4>1, <4>2
    <3> QED BY <3>1, <3>2, <3>3
  <2>3. h = [i \in 0..(n + 1) |-> IF i = 0 THEN v ELSE Back(h[i - 1])]
    <3>1. h = [i \in 0..(n + 1) |-> h[i]]
      OBVIOUS
    <3> HIDE DEF h
    <3> QED BY <2>2, <3>1
  <2> HIDE DEF h
  <2>4. WalkUpto(v, n + 1, h)
    BY <1>0, <2>3
  <2> QED BY <2>4
<1> HIDE DEF T
<1>3. \A n \in Nat : n \in T
  BY <1>1, <1>2, Induction
<1> QED BY <1>3 DEF T

LEMMA WalkLoop ==
    ASSUME GraphOK, NEW v
    PROVE  LET N == Cardinality(Vertices)
           IN  /\ N \in Nat /\ DOMAIN Walk(v) = 0..N
               /\ Walk(v)[0] = v
               /\ \A i \in 1..N : Walk(v)[i] = Back(Walk(v)[i - 1])
<1> DEFINE N == Cardinality(Vertices)
           f == CHOOSE f : WalkUpto(v, N, f)
<1>1. N \in Nat
  BY FS_CardinalityType DEF GraphOK
<1>2. WalkUpto(v, N, f)
  BY <1>1, WalkExists
<1>3. f = Walk(v)
  BY DEF Walk, WalkUpto
<1> HIDE DEF f, N
<1>4. f = [i \in 0..N |-> IF i = 0 THEN v ELSE Back(f[i - 1])]
  BY <1>2 DEF WalkUpto
<1>5. \A i \in 0..N : f[i] = IF i = 0 THEN v ELSE Back(f[i - 1])
  BY <1>4
<1>6. 0 \in 0..N /\ \A i \in 1..N : i \in 0..N /\ i # 0
  BY <1>1
<1>7. f[0] = v /\ \A i \in 1..N : f[i] = Back(f[i - 1])
  BY <1>5, <1>6
<1>8. DOMAIN f = 0..N
  BY <1>4
<1> QED BY <1>1, <1>3, <1>7, <1>8 DEF N

(* A calculation has ended, and all went well.                             *)
Settled == GraphOK /\ Fits /\ Good /\ NoMessages(Buffer) /\ srcID # None

LEMMA StepBack ==
    ASSUME Settled, NEW w \in Vertices, Prev(w) # None
    PROVE  /\ Prev(w) \in Vertices /\ Hop(Prev(w), w)
           /\ Dist(w) = Dist(Prev(w)) + HopCost(Prev(w), w)
           /\ Dist(w) < MaxInt /\ Dist(Prev(w)) < MaxInt
<1>1. GraphOK /\ ValuesOK /\ Backwards /\ Relaxed /\ NoMessages(Buffer)
  BY DEF Settled, Good
<1>2. PICK u \in Vertices : u = Prev(w)
  BY <1>1, ValueAt
<1>3. Hop(u, w) /\ Dist(u) + HopCost(u, w) <= Dist(w)
  BY <1>1, <1>2 DEF Backwards
<1>4. Dist(w) < MaxInt
  <2>1. w # First
    BY <1>1 DEF ValuesOK, Prev
  <2> QED BY <1>1, <2>1 DEF ValuesOK
<1>5. PICK k \in DOMAIN edges[u] : edges[u][k].dstID = w /\ edges[u][k].cost = HopCost(u, w)
  BY <1>1, <1>3, HopIsLeast
<1>6. Dist(u) \in Nat /\ Dist(w) \in Nat /\ MaxInt \in Nat /\ HopCost(u, w) \in Nat
  BY <1>1, <1>3, ValueAt, HopIsLeast, PathAssumption
<1>7. Dist(u) < MaxInt
  BY <1>3, <1>4, <1>6
<1>8. Dist(w) <= Dist(u) + HopCost(u, w)
  BY <1>1, <1>5, <1>7 DEF Relaxed, Pending, NoMessages
<1>9. Dist(w) = Dist(u) + HopCost(u, w)
  BY <1>3, <1>6, <1>8
<1> QED BY <1>2, <1>3, <1>4, <1>7, <1>9

LEMMA BackIs ==
    ASSUME Settled, NEW w \in Vertices, w # srcID
    PROVE  Back(w) = Prev(w) /\ value[w] # None
<1>1. value[w] \in [minDist : 0..MaxInt, prevInPath : Vertices \union {None}]
  BY DEF Settled, Good, ValuesOK
<1>2. value[w] \in [minDist : Int, prevInPath : ID \union {None}] /\ w # None
  BY <1>1, PathAssumption DEF Settled, GraphOK
<1>3. value[w] # None
  BY <1>2, PathAssumption
<1> QED BY <1>2, <1>3 DEF Back, Prev

(* As long as the walk has not ended it goes from vertex to vertex, and    *)
(* comes to none twice.                                                    *)
LEMMA WalkDown ==
    ASSUME Settled, NEW v \in Vertices, NEW at, at = Walk(v),
           NEW n \in 0..Cardinality(Vertices),
           \A i \in 0..n : at[i] # None,
           \A i \in 0..n : i # n => at[i] # srcID
    PROVE  /\ \A i \in 0..n : at[i] \in Vertices
           /\ \A i \in 1..n : at[i] = Prev(at[i - 1]) /\ Prev(at[i - 1]) # None
           /\ \A i, j \in 0..n : i # j => at[i] # at[j]
<1> DEFINE N == Cardinality(Vertices)
<1>1. N \in Nat /\ at[0] = v /\ \A i \in 1..N : at[i] = Back(at[i - 1])
  BY WalkLoop DEF Settled
<1> HIDE DEF N
<1>2. n \in Nat /\ N \in Nat /\ n <= N
  BY <1>1 DEF N
<1> DEFINE T == {m \in Nat : m <= n => at[m] \in Vertices}
<1>3. 0 \in T
  BY <1>1
<1>4. ASSUME NEW m \in Nat, m \in T PROVE m + 1 \in T
  <2> SUFFICES ASSUME m + 1 <= n PROVE at[m + 1] \in Vertices
    OBVIOUS
  <2>1. m \in 0..n /\ m + 1 \in 0..n /\ m # n /\ m + 1 \in 1..N /\ (m + 1) - 1 = m
    BY <1>2
  <2>2. at[m] \in Vertices /\ at[m] # srcID
    BY <1>4, <2>1
  <2>3. at[m + 1] = Prev(at[m])
    BY <1>1, <2>1, <2>2, BackIs
  <2>4. at[m + 1] # None
    BY <2>1
  <2> QED BY <2>2, <2>3, <2>4, StepBack
<1>5. \A i \in 0..n : at[i] \in Vertices
  <2> HIDE DEF T
  <2>1. \A m \in Nat : m \in T
    BY <1>3, <1>4, Induction
  <2> QED BY <1>2, <2>1 DEF T
<1>6. ASSUME NEW i \in 1..n PROVE at[i] = Prev(at[i - 1]) /\ Prev(at[i - 1]) # None
  <2>1. i - 1 \in 0..n /\ i - 1 # n /\ i \in 1..N /\ i \in 0..n
    BY <1>2
  <2>2. at[i - 1] \in Vertices /\ at[i - 1] # srcID
    BY <1>5, <2>1
  <2>3. at[i] = Prev(at[i - 1])
    BY <1>1, <2>1, <2>2, BackIs
  <2> QED BY <2>1, <2>3
<1>7. PICK M \in Nat : \E r : RanksIn(value, M, r)
  BY DEF Settled, Good, Ranked
<1>8. PICK r : RanksIn(value, M, r)
  BY <1>7
<1>9. \A w \in Vertices : r[w] \in Nat /\ (Prev(w) # None => r[Prev(w)] < r[w])
  BY <1>8 DEF RanksIn, Prev
<1> DEFINE U == {m \in Nat : \A i, j \in 0..n : j = i + (m + 1) => r[at[j]] < r[at[i]]}
<1>10. 0 \in U
  <2> SUFFICES ASSUME NEW i \in 0..n, NEW j \in 0..n, j = i + (0 + 1) PROVE r[at[j]] < r[at[i]]
    OBVIOUS
  <2>1. j \in 1..n /\ j - 1 = i
    BY <1>2
  <2>2. at[i] \in Vertices /\ at[j] = Prev(at[i]) /\ Prev(at[i]) # None
    BY <1>5, <1>6, <2>1
  <2> QED BY <1>9, <2>2
<1>11. ASSUME NEW m \in Nat, m \in U PROVE m + 1 \in U
  <2> SUFFICES ASSUME NEW i \in 0..n, NEW k \in 0..n, k = i + ((m + 1) + 1) PROVE r[at[k]] < r[at[i]]
    OBVIOUS
  <2>1. PICK j \in 0..n : j = i + (m + 1) /\ k - 1 = j /\ k \in 1..n
    <3>1. i + (m + 1) \in 0..n /\ k - 1 = i + (m + 1) /\ k \in 1..n
      BY <1>2
    <3> QED BY <3>1
  <2>2. r[at[j]] < r[at[i]]
    BY <1>11, <2>1
  <2>3. at[j] \in Vertices /\ at[k] = Prev(at[j]) /\ Prev(at[j]) # None /\ at[i] \in Vertices /\ at[k] \in Vertices
    BY <1>5, <1>6, <2>1
  <2>4. r[at[k]] < r[at[j]]
    BY <1>9, <2>3
  <2>5. r[at[k]] \in Nat /\ r[at[j]] \in Nat /\ r[at[i]] \in Nat
    BY <1>9, <2>3
  <2> QED BY <2>2, <2>4, <2>5
<1>12. ASSUME NEW i \in 0..n, NEW j \in 0..n, i < j PROVE at[i] # at[j]
  <2> HIDE DEF U
  <2>1. \A m \in Nat : m \in U
    BY <1>10, <1>11, Induction
  <2>2. PICK m \in Nat : m = j - i - 1
    BY <1>2, <1>12
  <2>3. j = i + (m + 1)
    BY <1>2, <2>2
  <2>4. r[at[j]] < r[at[i]]
    BY <2>1, <2>3 DEF U
  <2>5. r[at[j]] \in Nat /\ r[at[i]] \in Nat
    BY <1>5, <1>9
  <2> QED BY <2>4, <2>5
<1>13. \A i, j \in 0..n : i # j => at[i] # at[j]
  <2>1. \A i, j \in 0..n : i # j => i < j \/ j < i
    BY <1>2
  <2> QED BY <1>12, <2>1
<1> QED BY <1>5, <1>6, <1>13

(* Read from its end, the walk to the source is a path, and as long as the *)
(* distances at both ends differ.                                          *)
LEMMA WalkIsPath ==
    ASSUME Settled, NEW v \in Vertices, NEW at, at = Walk(v),
           NEW n \in 0..Cardinality(Vertices), at[n] = srcID,
           \A i \in 0..n : at[i] # None,
           \A i \in 0..n : i # n => at[i] # srcID,
           NEW q, q = Reversed(at, n)
    PROVE  /\ q \in PathsTo(srcID, v) /\ srcID \in Vertices
           /\ n = 0 => PathCost(q) = 0
           /\ n # 0 => Dist(v) = Dist(srcID) + PathCost(q) /\ Dist(v) < MaxInt /\ Dist(srcID) < MaxInt
<1> DEFINE N == Cardinality(Vertices)
<1>1. N \in Nat /\ at[0] = v /\ GraphOK
  BY WalkLoop DEF Settled
<1>2. n \in Nat /\ n + 1 \in Nat \ {0} /\ n \in 0..n /\ 0 \in 0..n
  BY <1>1
<1>3. /\ \A i \in 0..n : at[i] \in Vertices
      /\ \A i \in 1..n : at[i] = Prev(at[i - 1]) /\ Prev(at[i - 1]) # None
      /\ \A i, j \in 0..n : i # j => at[i] # at[j]
  BY WalkDown
<1>4. q = [i \in 1..(n + 1) |-> at[n + 1 - i]]
  BY DEF Reversed
<1>6. \A i \in 1..(n + 1) : n + 1 - i \in 0..n /\ q[i] = at[n + 1 - i]
  BY <1>2, <1>4
<1>7. q \in [1..(n + 1) -> Vertices]
  BY <1>3, <1>4, <1>6
<1>8. q \in Seq(Vertices) /\ Len(q) = n + 1 /\ DOMAIN q = 1..(n + 1)
  <2>1. q \in Seq(Vertices)
    BY <1>2, <1>7, SeqDef
  <2>2. Len(q) \in Nat /\ 1..Len(q) = 1..(n + 1)
    BY <1>7, <2>1, LenProperties
  <2>3. Len(q) = n + 1
    BY <1>2, <2>2, UpToSame
  <2> QED BY <1>7, <2>1, <2>3
<1>9. q[1] = srcID /\ q[n + 1] = v
  <2>1. 1 \in 1..(n + 1) /\ n + 1 \in 1..(n + 1) /\ n + 1 - 1 = n /\ n + 1 - (n + 1) = 0
    BY <1>2
  <2> QED BY <1>1, <1>6, <2>1
<1>10. ASSUME NEW i \in 2..(n + 1)
       PROVE  /\ q[i] \in Vertices /\ q[i - 1] \in Vertices /\ Hop(q[i - 1], q[i])
              /\ Dist(q[i]) = Dist(q[i - 1]) + HopCost(q[i - 1], q[i])
              /\ Dist(q[i]) < MaxInt /\ Dist(q[i - 1]) < MaxInt
  <2>1. PICK j \in 0..n, k \in 1..n : j = n + 1 - i /\ k = n + 1 - (i - 1) /\ k - 1 = j
    <3>1. n + 1 - i \in 0..n /\ n + 1 - (i - 1) \in 1..n /\ (n + 1 - (i - 1)) - 1 = n + 1 - i
      BY <1>2
    <3> QED BY <3>1
  <2>2. i \in 1..(n + 1) /\ i - 1 \in 1..(n + 1)
    BY <1>2
  <2>3. q[i] = at[j] /\ q[i - 1] = at[k]
    BY <1>6, <2>1, <2>2
  <2>4. at[j] \in Vertices /\ at[k] = Prev(at[j]) /\ Prev(at[j]) # None
    BY <1>3, <2>1
  <2> QED BY <2>3, <2>4, StepBack
<1>11. IsPath(q)
  <2>1. ASSUME NEW i \in 1..(n + 1), NEW j \in 1..(n + 1), i # j
        PROVE  q[i] # q[j]
    <3>1. n + 1 - i \in 0..n /\ n + 1 - j \in 0..n /\ n + 1 - i # n + 1 - j
      BY <1>2, <2>1
    <3> QED BY <1>3, <1>6, <3>1
  <2>2. \A i \in 1..(n + 1) : q[i] \in Vertices
    BY <1>3, <1>6
  <2> QED BY <1>2, <1>8, <1>10, <2>1, <2>2 DEF IsPath
<1>12. q \in PathsTo(srcID, v)
  BY <1>1, <1>8, <1>9, <1>11, IsAPath DEF PathsTo
<1>13. PICK c \in [1..(n + 1) -> Nat] : c = CostUpTo(q)
  BY <1>1, <1>8, <1>11, CostLoop
<1>14. PathCost(q) = c[n + 1] /\ c[1] = 0
       /\ \A i \in 2..(n + 1) : c[i] = c[i - 1] + HopCost(q[i - 1], q[i])
  BY <1>1, <1>8, <1>11, <1>13, CostLoop
<1>15. \A w \in Vertices : Dist(w) \in Nat
  BY ValueAt DEF Settled, Good
<1> DEFINE OK(i) == Dist(q[i]) = Dist(q[1]) + c[i]
           T == {m \in Nat : m + 1 \in 1..(n + 1) => OK(m + 1)}
<1>16. 0 \in T
  <2>1. q[1] \in Vertices /\ 1 \in 1..(n + 1)
    BY <1>2, <1>3, <1>6
  <2> QED BY <1>14, <1>15, <2>1
<1>17. ASSUME NEW m \in Nat, m \in T PROVE m + 1 \in T
  <2> SUFFICES ASSUME (m + 1) + 1 \in 1..(n + 1) PROVE OK((m + 1) + 1)
    OBVIOUS
  <2>1. PICK i \in 2..(n + 1) : i = (m + 1) + 1 /\ i - 1 = m + 1 /\ m + 1 \in 1..(n + 1) /\ 1 \in 1..(n + 1)
    <3>1. /\ (m + 1) + 1 \in 2..(n + 1) /\ ((m + 1) + 1) - 1 = m + 1
          /\ m + 1 \in 1..(n + 1) /\ 1 \in 1..(n + 1)
      BY <1>2
    <3> QED BY <3>1
  <2>2. Dist(q[i - 1]) = Dist(q[1]) + c[i - 1]
    BY <1>17, <2>1
  <2>3. Dist(q[i]) = Dist(q[i - 1]) + HopCost(q[i - 1], q[i]) /\ c[i] = c[i - 1] + HopCost(q[i - 1], q[i])
    BY <1>10, <1>14, <2>1
  <2>4. /\ Dist(q[i - 1]) \in Nat /\ Dist(q[1]) \in Nat /\ c[i - 1] \in Nat
        /\ HopCost(q[i - 1], q[i]) \in Nat
    <3>1. q[1] \in Vertices
      BY <1>3, <1>6, <2>1
    <3> QED BY <1>1, <1>10, <1>15, <2>1, <3>1, HopIsLeast
  <2>5. Dist(q[i]) = Dist(q[1]) + c[i]
    BY <2>2, <2>3, <2>4
  <2> QED BY <2>1, <2>5
<1>18. OK(n + 1)
  <2> HIDE DEF T, OK
  <2>1. n \in T
    BY <1>2, <1>16, <1>17, Induction
  <2> QED BY <1>2, <2>1 DEF T
<1>19. n = 0 => PathCost(q) = 0
  BY <1>14
<1>20. n # 0 => Dist(v) = Dist(srcID) + PathCost(q) /\ Dist(v) < MaxInt /\ Dist(srcID) < MaxInt
  <2> SUFFICES ASSUME n # 0
               PROVE  Dist(v) = Dist(srcID) + PathCost(q) /\ Dist(v) < MaxInt /\ Dist(srcID) < MaxInt
    OBVIOUS
  <2>1. n + 1 \in 2..(n + 1) /\ 2 \in 2..(n + 1) /\ 2 - 1 = 1
    BY <1>2
  <2>2. Dist(v) < MaxInt /\ Dist(srcID) < MaxInt
    BY <1>9, <1>10, <2>1
  <2> QED BY <1>9, <1>14, <1>18, <2>2
<1>21. srcID \in Vertices
  BY <1>2, <1>3
<1> QED BY <1>12, <1>19, <1>20, <1>21

LEMMA WalkEnds ==
    ASSUME Settled, NEW v \in Vertices, NEW at, at = Walk(v),
           \A i \in 0..Cardinality(Vertices) : at[i] # None /\ at[i] # srcID
    PROVE  FALSE
<1> DEFINE N == Cardinality(Vertices)
<1>1. N \in Nat /\ GraphOK
  BY WalkLoop DEF Settled
<1>2. N \in 0..N
  BY <1>1
<1>3. (\A i \in 0..N : at[i] \in Vertices) /\ \A i, j \in 0..N : i # j => at[i] # at[j]
  BY <1>2, WalkDown
<1> HIDE DEF N
<1>4. PICK f : f = [i \in 1..(N + 1) |-> at[i - 1]]
  OBVIOUS
<1>5. \A i \in 1..(N + 1) : i - 1 \in 0..N /\ f[i] = at[i - 1]
  BY <1>1, <1>4
<1>6. f \in [1..(N + 1) -> Vertices]
  BY <1>3, <1>4, <1>5
<1>7. ASSUME NEW i \in 1..(N + 1), NEW j \in 1..(N + 1), i # j PROVE f[i] # f[j]
  <2>1. i - 1 \in 0..N /\ j - 1 \in 0..N /\ i - 1 # j - 1
    BY <1>1, <1>7
  <2> QED BY <1>3, <1>5, <2>1
<1>8. N + 1 <= N
  BY <1>1, <1>6, <1>7, FewVertices DEF N
<1> QED BY <1>1, <1>8

(* How the walk back ends.                                                 *)
LEMMA AnswerIs ==
    ASSUME Settled, NEW v \in Vertices, NEW at, at = Walk(v), NEW a, a = Answer(v)
    PROVE  /\ a.outcome # "endless"
           /\ a.outcome = "path" => \E n \in 0..Cardinality(Vertices) :
                 /\ a.path = Reversed(at, n) /\ at[n] = srcID
                 /\ \A i \in 0..n : at[i] # None
                 /\ \A i \in 0..n : i # n => at[i] # srcID
           /\ a.outcome = "panic" => \E i \in 0..Cardinality(Vertices) : at[i] = None
<1> DEFINE N == Cardinality(Vertices)
           L == {n \in DOMAIN at : at[n] = srcID}
           nil == value[v] = None \/ None \in {at[n] : n \in DOMAIN at}
<1>1. N \in Nat /\ DOMAIN at = 0..N
  BY WalkLoop DEF Settled
<1>2. value[v] # None
  <2>1. value[v] \in [minDist : 0..MaxInt, prevInPath : Vertices \union {None}]
    BY DEF Settled, Good, ValuesOK
  <2>2. value[v] \in [minDist : Int, prevInPath : ID \union {None}]
    BY <2>1 DEF Settled, GraphOK
  <2> QED BY <2>2, PathAssumption
<1>3. nil <=> \E i \in 0..N : at[i] = None
  BY <1>1, <1>2
<1>4. L \subseteq Nat /\ L \subseteq 0..N /\ \A n : n \in L <=> n \in 0..N /\ at[n] = srcID
  BY <1>1
<1>5. ~nil => L # {}
  BY <1>3, <1>4, WalkEnds
<1>6. a.outcome = (IF nil THEN "panic" ELSE IF L = {} THEN "endless" ELSE "path")
  BY DEF Answer
<1>7. a.path = IF a.outcome = "path" THEN Reversed(at, Min(L)) ELSE <<>>
  BY DEF Answer
<1> HIDE DEF nil, L, N
<1>8. CASE nil
  BY <1>3, <1>6, <1>8 DEF N
<1>9. CASE ~nil
  <2>1. L # {} /\ a.outcome = "path"
    BY <1>5, <1>6, <1>9
  <2>2. PICK n \in L : n = Min(L) /\ \A m \in L : n <= m
    BY <1>4, <2>1, MinIsLeast
  <2>3. n \in 0..N /\ at[n] = srcID /\ a.path = Reversed(at, n)
    BY <1>4, <1>7, <2>1, <2>2
  <2>4. \A i \in 0..n : i \in 0..N /\ (i # n => ~(n <= i))
    BY <1>1, <2>3
  <2>5. \A i \in 0..n : at[i] # None /\ (i # n => at[i] # srcID)
    BY <1>3, <1>4, <1>9, <2>2, <2>4
  <2> QED BY <2>1, <2>3, <2>5 DEF N
<1> QED BY <1>8, <1>9

(* From a vertex that is reached, the walk does not miss the source.       *)
LEMMA WalkFromReached ==
    ASSUME Settled, srcID = First, NEW v \in Vertices, NEW at, at = Walk(v), Dist(v) < MaxInt
    PROVE  \A i \in 0..Cardinality(Vertices) : at[i] # None
<1> DEFINE N == Cardinality(Vertices)
<1>1. N \in Nat /\ at[0] = v /\ \A i \in 1..N : at[i] = Back(at[i - 1])
  BY WalkLoop DEF Settled
<1> HIDE DEF N
<1> DEFINE OK(i) == at[i] \in Vertices /\ Dist(at[i]) < MaxInt
           T == {m \in Nat : m \in 0..N => OK(m)}
<1>2. 0 \in T
  BY <1>1
<1>3. ASSUME NEW m \in Nat, m \in T PROVE m + 1 \in T
  <2> SUFFICES ASSUME m + 1 \in 0..N PROVE OK(m + 1)
    OBVIOUS
  <2>1. m \in 0..N /\ m + 1 \in 1..N /\ (m + 1) - 1 = m
    BY <1>1
  <2>2. PICK w \in Vertices : w = at[m] /\ Dist(w) < MaxInt
    BY <1>3, <2>1
  <2>3. at[m + 1] = Back(w)
    BY <1>1, <2>1, <2>2
  <2>4. CASE w = srcID
    <3>1. Back(w) = w
      BY <2>4 DEF Back
    <3> QED BY <2>2, <2>3, <3>1
  <2>5. CASE w # srcID
    <3>1. Prev(w) # None
      BY <2>2, <2>5 DEF Settled, Good, ValuesOK
    <3>2. Back(w) = Prev(w)
      BY <2>5, BackIs
    <3>3. Prev(w) \in Vertices /\ Dist(Prev(w)) < MaxInt
      BY <3>1, StepBack
    <3> QED BY <2>3, <3>2, <3>3
  <2> QED BY <2>4, <2>5
<1>4. \A i \in 0..N : OK(i)
  <2> HIDE DEF T, OK
  <2>1. \A m \in Nat : m \in T
    BY <1>2, <1>3, Induction
  <2>2. \A i \in 0..N : i \in Nat
    BY <1>1
  <2> QED BY <2>1, <2>2 DEF T
<1>5. None \notin Vertices
  BY PathAssumption DEF Settled, GraphOK
<1> QED BY <1>4, <1>5 DEF N

LEMMA CleanIsSettled ==
    ASSUME IInv, Clean
    PROVE  Settled
<1>1. sources # <<>> /\ phase = "idle" /\ ~tainted /\ Fits
  BY DEF Clean
<1>2. GraphOK /\ srcID \in ID
  BY <1>1 DEF IInv, TypeOK
<1>3. Good /\ NoMessages(Buffer)
  BY <1>1 DEF IInv, Started, Starting
<1> QED BY <1>1, <1>2, <1>3, PathAssumption DEF Settled

LEMMA DistancesFollow == IInv => DistancesAreCosts
<1> SUFFICES ASSUME IInv, Clean, srcID = sources[1], NEW v \in Vertices
             PROVE  value[v].minDist = Distance(srcID, v)
  BY DEF DistancesAreCosts
<1>1. Settled
  BY CleanIsSettled
<1> QED BY <1>1, DistIsDistance DEF Settled, Dist, First

LEMMA PathCostIsDistance ==
    ASSUME Settled, NEW v \in Vertices, srcID \in Vertices, NEW q \in PathsTo(srcID, v),
           v = srcID => PathCost(q) = 0,
           v # srcID => Dist(v) = Dist(srcID) + PathCost(q) /\ Dist(v) < MaxInt /\ Dist(srcID) < MaxInt
    PROVE  PathCost(q) = Distance(srcID, v)
<1> DEFINE S == {PathCost(p) : p \in PathsTo(srcID, v)} \union {MaxInt}
<1>1. GraphOK /\ MaxInt \in Nat /\ Dist(v) \in Nat /\ Dist(srcID) \in Nat
  BY ValueAt, PathAssumption DEF Settled, Good
<1>2. ASSUME NEW p \in PathsTo(srcID, v)
      PROVE  PathCost(p) \in Nat /\ IsPath(p) /\ p[1] = srcID /\ p[Len(p)] = v
  BY <1>1, PathIs, CostLoop DEF PathsTo
<1>3. PathCost(q) \in Nat /\ PathCost(q) <= MaxInt
  BY <1>1, <1>2
<1>4. ASSUME NEW p \in PathsTo(srcID, v) PROVE PathCost(q) <= PathCost(p)
  <2>1. CASE v = srcID
    BY <1>2, <2>1
  <2>2. CASE v # srcID
    <3>1. Dist(v) <= Dist(srcID) + PathCost(p)
      BY <1>1, <1>2, <2>2, NoShorter DEF Settled
    <3> QED BY <1>1, <1>2, <1>3, <2>2, <3>1
  <2> QED BY <2>1, <2>2
<1>5. S \subseteq Nat /\ S # {} /\ PathCost(q) \in S /\ \A c \in S : PathCost(q) <= c
  BY <1>1, <1>2, <1>3, <1>4
<1>6. Distance(srcID, v) = Min(S)
  BY DEF Distance
<1> HIDE DEF S
<1>7. Min(S) \in S /\ Min(S) <= PathCost(q)
  BY <1>5, MinIsLeast
<1>8. PathCost(q) <= Min(S) /\ Min(S) \in Nat
  BY <1>5, <1>7
<1>9. PathCost(q) = Min(S)
  <2>1. PICK a \in Nat, b \in Nat : a = PathCost(q) /\ b = Min(S)
    BY <1>3, <1>8
  <2> QED BY <1>7, <1>8, <2>1
<1> QED BY <1>6, <1>9

LEMMA PathFollows == IInv => PathIsShortest
<1> SUFFICES ASSUME IInv, Clean, answer # None
             PROVE  /\ answer.outcome # "endless"
                    /\ answer.outcome = "path" =>
                          /\ answer.path \in PathsTo(srcID, answer.to)
                          /\ PathCost(answer.path) = Distance(srcID, answer.to)
                    /\ srcID = sources[1] =>
                          /\ answer.outcome = "path" => answer.cost = PathCost(answer.path)
                          /\ answer.outcome = "panic" => PathsTo(srcID, answer.to) = {}
  BY DEF PathIsShortest
<1>1. Settled
  BY CleanIsSettled
<1>0. PICK v \in Vertices : answer = Answer(v)
  BY DEF IInv, AnswerOK
<1>2. PICK at, a : v = answer.to /\ at = Walk(v) /\ a = answer /\ a = Answer(v)
  BY <1>0 DEF Answer
<1>3. a.outcome # "endless"
  BY <1>1, <1>2, AnswerIs
<1>4. ASSUME a.outcome = "path"
      PROVE  a.path \in PathsTo(srcID, v) /\ PathCost(a.path) = Distance(srcID, v)
  <2>1. PICK n \in 0..Cardinality(Vertices) :
           /\ a.path = Reversed(at, n) /\ at[n] = srcID
           /\ \A i \in 0..n : at[i] # None
           /\ \A i \in 0..n : i # n => at[i] # srcID
    BY <1>1, <1>2, <1>4, AnswerIs
  <2>2. PICK q : q = a.path
    OBVIOUS
  <2>3. /\ q \in PathsTo(srcID, v) /\ srcID \in Vertices
        /\ n = 0 => PathCost(q) = 0
        /\ n # 0 => Dist(v) = Dist(srcID) + PathCost(q) /\ Dist(v) < MaxInt /\ Dist(srcID) < MaxInt
    <3>1. q = Reversed(at, n) /\ at = Walk(v)
      BY <1>2, <2>1, <2>2
    <3>2. at[n] = srcID /\ (\A i \in 0..n : at[i] # None) /\ \A i \in 0..n : i # n => at[i] # srcID
      BY <2>1
    <3> QED BY ONLY <1>1, <3>1, <3>2, v \in Vertices, n \in 0..Cardinality(Vertices), WalkIsPath
  <2>4. at[0] = v /\ Cardinality(Vertices) \in Nat
    BY <1>1, <1>2, WalkLoop DEF Settled
  <2>5. n = 0 <=> v = srcID
    <3>1. n # 0 => 0 \in 0..n /\ 0 # n
      BY <2>4
    <3> QED BY <2>1, <2>4, <3>1
  <2>6. PathCost(q) = Distance(srcID, v)
    BY <1>1, <2>3, <2>5, PathCostIsDistance
  <2> QED BY <2>2, <2>3, <2>6
<1>5. ASSUME a.outcome = "panic", srcID = First, NEW p \in PathsTo(srcID, v)
      PROVE  FALSE
  <2>1. PICK i \in 0..Cardinality(Vertices) : at[i] = None
    BY <1>1, <1>2, <1>5, AnswerIs
  <2>2. IsPath(p) /\ p[1] = First /\ p[Len(p)] = v
    BY <1>1, <1>5, PathIs DEF PathsTo, Settled
  <2>3. First \in Vertices
    BY <2>2 DEF IsPath
  <2>4. Dist(First) < MaxInt
    BY <1>1, <2>3, PathAssumption DEF Settled, Good, ValuesOK, Dist
  <2>5. Dist(v) < MaxInt
    BY <1>1, <2>2, <2>4, NoShorter DEF Settled
  <2> QED BY <1>1, <1>2, <1>5, <2>1, <2>5, WalkFromReached
<1>6. srcID = sources[1] <=> srcID = First
  BY DEF First
<1>7. ASSUME a.outcome = "path", srcID = First PROVE a.cost = PathCost(a.path)
  <2>1. a.cost = IF value[v] = None THEN 0 ELSE value[v].minDist
    BY <1>2 DEF Answer
  <2>2. value[v] # None
    <3>1. value[v] \in [minDist : 0..MaxInt, prevInPath : Vertices \union {None}]
      BY <1>1 DEF Settled, Good, ValuesOK
    <3>2. value[v] \in [minDist : Int, prevInPath : ID \union {None}]
      BY <1>1, <3>1 DEF Settled, GraphOK
    <3> QED BY <3>2, PathAssumption
  <2>3. value[v].minDist = Distance(srcID, v)
    BY <1>1, <1>7, DistIsDistance DEF Settled, Dist, First
  <2> QED BY <1>4, <1>7, <2>1, <2>2, <2>3
<1> QED BY <1>2, <1>3, <1>4, <1>5, <1>6, <1>7
-----------------------------------------------------------------------------
(* However messages of equal cost are ordered, and whatever other calls    *)
(* there are, calculations that end leave each vertex with its distance    *)
(* from the source, or with MaxInt if no path leads to it: provided that   *)
(* the source is that of the first calculation.                            *)
THEOREM DistancesAreRight == Spec => []DistancesAreCosts
BY PathsInvariant, DistancesFollow, PTL

(* ShortestPathTo ends, and a path that it returns is a shortest one from  *)
(* the source that was asked for last.  If that is the first that was, the *)
(* cost is that of the path, and it fails only if there is no path.        *)
THEOREM PathsAreShortest == Spec => []PathIsShortest
BY PathsInvariant, PathFollows, PTL
=============================================================================
