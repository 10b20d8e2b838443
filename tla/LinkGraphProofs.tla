--------------------------- MODULE LinkGraphProofs ---------------------------
(***************************************************************************)
(* Theorems about InMemoryGraph and RemoteGraph: the maps of the link      *)
(* graph agree with each other and behave as the tables of LinkStore do,   *)
(* and what their readers are given, for all sets of links and edges.      *)
(***************************************************************************)
EXTENDS RemoteGraph, SequenceTheorems, FiniteSetTheorems, WellFoundedInduction, TLAPS

(* Induction, over a set of numbers and not over a formula: every set of   *)
(* numbers has a least one.                                                *)
LEMMA LeastNumber ==
    ASSUME NEW T, T \subseteq Nat, T # {}
    PROVE  \E n \in T : \A m \in T : n <= m
<1> DEFINE R == {ss \in Nat \X Nat : ss[1] < ss[2]}
<1>1. IsWellFoundedOn(R, Nat)
  BY NatLessThanWellFounded DEF OpToRel
<1> HIDE DEF R
<1>2. PICK x \in T : \A y \in T : ~ (<<y, x>> \in R)
  BY <1>1, WFMin
<1>3. ASSUME NEW y \in T PROVE x <= y
  <2>1. ~(<<y, x>> \in R)
    BY <1>2
  <2>2. <<y, x>> \in Nat \X Nat /\ <<y, x>>[1] = y /\ <<y, x>>[2] = x
    OBVIOUS
  <2>3. ~(y < x)
    BY <2>1, <2>2 DEF R
  <2> QED BY <2>3
<1> QED BY <1>3

(* A set with 0 and with the successor of each of its numbers has all.     *)
LEMMA Induction ==
    ASSUME NEW T, 0 \in T, \A n \in Nat : n \in T => n + 1 \in T
    PROVE  Nat \subseteq T
<1> SUFFICES ASSUME Nat \ T # {} PROVE FALSE
  OBVIOUS
<1>1. PICK n \in Nat \ T : \A m \in Nat \ T : n <= m
  BY LeastNumber
<1>2. n # 0
  OBVIOUS
<1>3. n - 1 \in Nat /\ n = (n - 1) + 1 /\ ~(n <= n - 1)
  BY <1>2
<1>4. n - 1 \in T
  BY <1>1, <1>3
<1> QED BY <1>3, <1>4

(* A function on the numbers may be given by its first value and by each   *)
(* value in terms of the one before.                                       *)
Iterates(f, base, Step) == f[0] = base /\ \A n \in Nat : f[n + 1] = Step[<<n, f[n]>>]

LEMMA Recursion ==
    ASSUME NEW S, NEW base \in S, NEW Step \in [Nat \X S -> S]
    PROVE  \E f \in [Nat -> S] : Iterates(f, base, Step)
<1> DEFINE Upto(n, g) == /\ g \in [0..n -> S]
                         /\ g[0] = base
                         /\ \A i \in 0..n : i < n => g[i + 1] = Step[<<i, g[i]>>]
           T == {n \in Nat : \E g \in [0..n -> S] : Upto(n, g)}
<1>1. 0 \in T
  <2>1. Upto(0, [i \in 0..0 |-> base])
    OBVIOUS
  <2> QED BY <2>1
<1>2. ASSUME NEW n \in Nat, n \in T PROVE n + 1 \in T
  <2>1. PICK g \in [0..n -> S] : Upto(n, g)
    BY <1>2
  <2> DEFINE h == [i \in 0..(n + 1) |-> IF i = n + 1 THEN Step[<<n, g[n]>>] ELSE g[i]]
  <2>2. h \in [0..(n+1) -> S]
    BY <2>1
  <2>3. h[0] = base
    BY <2>1
  <2>4. ASSUME NEW i \in 0..(n + 1), i < n + 1 PROVE h[i + 1] = Step[<<i, h[i]>>]
    <3>1. CASE i < n
      <4>1. i \in 0..n /\ i + 1 \in 0..n /\ i # n + 1 /\ i + 1 # n + 1 /\ i + 1 \in 0..(n + 1)
        BY <3>1
      <4> QED BY <2>1, <3>1, <4>1
    <3>2. CASE i = n
      <4>1. n \in 0..(n + 1) /\ n + 1 \in 0..(n + 1) /\ n # n + 1
        OBVIOUS
      <4>2. h[n] = g[n]
        BY <4>1
      <4>3. h[n + 1] = Step[<<n, g[n]>>]
        BY <4>1
      <4> HIDE DEF h
      <4> QED BY <3>2, <4>2, <4>3
    <3> QED BY <2>4, <3>1, <3>2
  <2> HIDE DEF h
  <2>5. Upto(n + 1, h)
    BY <2>2, <2>3, <2>4
  <2> QED BY <2>2, <2>5
<1> HIDE DEF T
<1>3. \A n \in Nat : n \in T
  BY <1>1, <1>2, Induction
<1>4. ASSUME NEW n \in Nat, NEW m \in Nat, n <= m, NEW g, NEW h, Upto(n, g), Upto(m, h)
      PROVE  \A i \in 0..n : g[i] = h[i]
  <2> DEFINE Q == {i \in Nat : i <= n => g[i] = h[i]}
  <2>1. 0 \in Q
    BY <1>4
  <2>2. ASSUME NEW i \in Nat, i \in Q PROVE i + 1 \in Q
    <3> SUFFICES ASSUME i + 1 <= n PROVE g[i + 1] = h[i + 1]
      OBVIOUS
    <3>1. i \in 0..n /\ i \in 0..m /\ i < n /\ i < m /\ g[i] = h[i]
      BY <1>4, <2>2
    <3> QED BY <1>4, <3>1
  <2> HIDE DEF Q
  <2>3. \A i \in Nat : i \in Q
    BY <2>1, <2>2, Induction
  <2> QED BY <2>3 DEF Q
<1> DEFINE G(n) == CHOOSE g \in [0..n -> S] : Upto(n, g)
           f == [n \in Nat |-> G(n)[n]]
<1>5. \A n \in Nat : G(n) \in [0..n -> S] /\ Upto(n, G(n))
  BY <1>3 DEF T
<1> HIDE DEF G, Upto
<1>6. \A n \in Nat : f[n] = G(n)[n] /\ f[n] \in S
  BY <1>5
<1>7. f[0] = base
  BY <1>5, <1>6 DEF Upto
<1>8. ASSUME NEW n \in Nat PROVE f[n + 1] = Step[<<n, f[n]>>]
  <2>1. n + 1 \in Nat /\ n <= n + 1 /\ n \in 0..n /\ n \in 0..(n + 1) /\ n < n + 1
    OBVIOUS
  <2>2. G(n + 1)[n] = G(n)[n]
    BY <1>4, <1>5, <2>1
  <2>3. G(n + 1)[n + 1] = Step[<<n, G(n + 1)[n]>>]
    BY <1>5, <2>1 DEF Upto
  <2> QED BY <1>6, <2>1, <2>2, <2>3
<1>9. f \in [Nat -> S]
  BY <1>6
<1> HIDE DEF f
<1> QED BY <1>7, <1>8, <1>9 DEF Iterates
-----------------------------------------------------------------------------
(* The edge list that RemoveStaleEdges makes: the edges of the old one     *)
(* that are not stale, and none of them twice.                             *)
LEMMA KeptLoop ==
    ASSUME NEW src, NEW before, linkEdgeMap[src] \in Seq(EdgeID)
    PROVE  \E kept \in [0..Len(linkEdgeMap[src]) -> Seq(EdgeID)] :
              /\ kept[0] = <<>>
              /\ \A n \in 1..Len(linkEdgeMap[src]) :
                    kept[n] = IF IsStale(linkEdgeMap[src][n], before) THEN kept[n - 1]
                              ELSE Append(kept[n - 1], linkEdgeMap[src][n])
              /\ EdgesKept(src, before) = kept[Len(linkEdgeMap[src])]
<1> DEFINE ids == linkEdgeMap[src]
           stale(n) == IsStale(ids[n], before)
           step == [p \in Nat \X Seq(EdgeID) |->
                       IF p[1] + 1 \in 1..Len(ids)
                       THEN IF stale(p[1] + 1) THEN p[2] ELSE Append(p[2], ids[p[1] + 1])
                       ELSE p[2]]
           body(k) == [n \in 0..Len(ids) |->
                          IF n = 0 THEN <<>>
                          ELSE IF stale(n) THEN k[n - 1] ELSE Append(k[n - 1], ids[n])]
<1>1. Len(ids) \in Nat /\ \A n \in 1..Len(ids) : ids[n] \in EdgeID
  BY ElementOfSeq, LenProperties
<1> HIDE DEF ids, stale
<1>2. step \in [Nat \X Seq(EdgeID) -> Seq(EdgeID)]
  <2>1. ASSUME NEW p \in Nat \X Seq(EdgeID)
        PROVE  (IF p[1] + 1 \in 1..Len(ids)
                THEN IF stale(p[1] + 1) THEN p[2] ELSE Append(p[2], ids[p[1] + 1])
                ELSE p[2]) \in Seq(EdgeID)
    BY <1>1
  <2> QED BY <2>1
<1>3. <<>> \in Seq(EdgeID)
  OBVIOUS
<1>12. ASSUME NEW n \in Nat, NEW s \in Seq(EdgeID), n + 1 \in 1..Len(ids)
       PROVE  step[<<n, s>>] = IF stale(n + 1) THEN s ELSE Append(s, ids[n + 1])
  BY <1>12
<1> HIDE DEF step
<1>4. PICK f \in [Nat -> Seq(EdgeID)] :
          f[0] = <<>> /\ \A n \in Nat : f[n + 1] = step[<<n, f[n]>>]
  <2>1. \E f \in [Nat -> Seq(EdgeID)] : Iterates(f, <<>>, step)
    BY <1>2, <1>3, Recursion
  <2> QED BY <2>1 DEF Iterates
<1>5. \A n \in 1..Len(ids) : f[n] = IF stale(n) THEN f[n - 1] ELSE Append(f[n - 1], ids[n])
  <2> TAKE n \in 1..Len(ids)
  <2>1. n - 1 \in Nat /\ (n - 1) + 1 = n /\ f[n - 1] \in Seq(EdgeID)
    BY <1>1
  <2>2. f[n] = step[<<n - 1, f[n - 1]>>]
    BY <1>4, <2>1
  <2> QED BY <1>12, <2>1, <2>2
<1> DEFINE g == [n \in 0..Len(ids) |-> f[n]]
<1>6. g = body(g)
  <2>1. ASSUME NEW n \in 0..Len(ids) PROVE g[n] = body(g)[n]
    <3>1. CASE n = 0
      BY <1>4, <3>1
    <3>2. CASE n # 0
      <4>1. n \in 1..Len(ids) /\ n - 1 \in 0..Len(ids)
        BY <1>1, <3>2
      <4> QED BY <1>5, <3>2, <4>1
    <3> QED BY <3>1, <3>2
  <2> QED BY <2>1
<1> HIDE DEF g
<1> DEFINE kept == CHOOSE k : k = body(k)
<1>7. kept = body(kept)
  BY <1>6
<1>8. EdgesKept(src, before) = kept[Len(ids)]
  BY DEF EdgesKept, ids, stale
<1> HIDE DEF kept
<1>9. kept[0] = <<>> /\ \A n \in 1..Len(ids) :
          kept[n] = IF stale(n) THEN kept[n - 1] ELSE Append(kept[n - 1], ids[n])
  <2>1. \A n \in 0..Len(ids) : kept[n] = body(kept)[n]
    BY <1>7
  <2>2. 0 \in 0..Len(ids) /\ \A n \in 1..Len(ids) : n \in 0..Len(ids) /\ n # 0
    BY <1>1
  <2> QED BY <2>1, <2>2
<1>10. \A n \in 0..Len(ids) : kept[n] \in Seq(EdgeID)
  <2> DEFINE T == {n \in Nat : n <= Len(ids) => kept[n] \in Seq(EdgeID)}
  <2>1. 0 \in T
    BY <1>3, <1>9
  <2>2. ASSUME NEW n \in Nat, n \in T PROVE n + 1 \in T
    <3> SUFFICES ASSUME n + 1 <= Len(ids) PROVE kept[n + 1] \in Seq(EdgeID)
      OBVIOUS
    <3>1. n + 1 \in 1..Len(ids) /\ (n + 1) - 1 = n /\ n <= Len(ids)
      BY <1>1
    <3>2. kept[n] \in Seq(EdgeID) /\ ids[n + 1] \in EdgeID
      BY <1>1, <2>2, <3>1
    <3>3. Append(kept[n], ids[n + 1]) \in Seq(EdgeID)
      BY <3>2
    <3> QED BY <1>9, <3>1, <3>2, <3>3
  <2> HIDE DEF T
  <2>3. Nat \subseteq T
    BY <2>1, <2>2, Induction
  <2> QED BY <1>1, <2>3 DEF T
<1>11. kept \in [0..Len(ids) -> Seq(EdgeID)]
  BY <1>7, <1>10
<1> QED BY <1>8, <1>9, <1>11 DEF ids, stale
-----------------------------------------------------------------------------
Members(s) == {s[i] : i \in DOMAIN s}
NoRepeats(s) == \A i, j \in DOMAIN s : s[i] = s[j] => i = j

LEMMA AppendMember ==
    ASSUME NEW S, NEW s \in Seq(S), NEW e \in S
    PROVE  /\ Append(s, e) \in Seq(S)
           /\ Members(Append(s, e)) = Members(s) \union {e}
           /\ NoRepeats(s) /\ e \notin Members(s) => NoRepeats(Append(s, e))
<1>1. /\ Append(s, e) \in Seq(S)
      /\ DOMAIN s = 1..Len(s) /\ Len(s) \in Nat
      /\ DOMAIN Append(s, e) = 1..(Len(s) + 1)
      /\ \A i \in 1..Len(s) : Append(s, e)[i] = s[i]
      /\ Append(s, e)[Len(s) + 1] = e
  BY AppendProperties, LenProperties
<1> DEFINE t == Append(s, e)
<1> HIDE DEF t
<1>2. Members(t) = Members(s) \union {e}
  <2>1. \A x \in Members(t) : x \in Members(s) \union {e}
    BY <1>1 DEF Members, t
  <2>2. \A x \in Members(s) \union {e} : x \in Members(t)
    <3>1. ASSUME NEW i \in 1..Len(s) PROVE i \in 1..(Len(s) + 1) /\ t[i] = s[i]
      BY <1>1 DEF t
    <3>2. Len(s) + 1 \in 1..(Len(s) + 1) /\ t[Len(s) + 1] = e
      BY <1>1 DEF t
    <3>3. DOMAIN t = 1..(Len(s) + 1)
      BY <1>1 DEF t
    <3>4. ASSUME NEW x \in Members(s) PROVE x \in Members(t)
      BY <1>1, <3>1, <3>3 DEF Members
    <3>5. e \in Members(t)
      BY <3>2, <3>3 DEF Members
    <3> QED BY <3>4, <3>5
  <2> QED BY <2>1, <2>2
<1>3. ASSUME NoRepeats(s), e \notin Members(s) PROVE NoRepeats(t)
  <2> SUFFICES ASSUME NEW i \in 1..(Len(s) + 1), NEW j \in 1..(Len(s) + 1), t[i] = t[j]
               PROVE  i = j
    BY <1>1 DEF NoRepeats, t
  <2>1. \A k \in 1..Len(s) : s[k] # e
    BY <1>1, <1>3 DEF Members
  <2>2. \A k \in 1..(Len(s) + 1) : (k \in 1..Len(s) /\ t[k] = s[k]) \/ (k = Len(s) + 1 /\ t[k] = e)
    BY <1>1 DEF t
  <2>3. CASE i \in 1..Len(s) /\ j \in 1..Len(s)
    BY <1>1, <1>3, <2>2, <2>3 DEF NoRepeats
  <2>4. CASE i = Len(s) + 1 \/ j = Len(s) + 1
    BY <1>1, <2>1, <2>2, <2>4
  <2> QED BY <1>1, <2>3, <2>4
<1> QED BY <1>1, <1>2, <1>3 DEF t

LEMMA KeptEdges ==
    ASSUME NEW src, NEW before, linkEdgeMap[src] \in Seq(EdgeID), NoRepeats(linkEdgeMap[src])
    PROVE  /\ EdgesKept(src, before) \in Seq(EdgeID)
           /\ NoRepeats(EdgesKept(src, before))
           /\ Members(EdgesKept(src, before))
                  = {id \in Members(linkEdgeMap[src]) : ~IsStale(id, before)}
<1> DEFINE ids == linkEdgeMap[src]
           fresh(n) == {id \in {ids[i] : i \in 1..n} : ~IsStale(id, before)}
<1>1. PICK kept \in [0..Len(ids) -> Seq(EdgeID)] :
          /\ kept[0] = <<>>
          /\ \A n \in 1..Len(ids) :
                kept[n] = IF IsStale(ids[n], before) THEN kept[n - 1]
                          ELSE Append(kept[n - 1], ids[n])
          /\ EdgesKept(src, before) = kept[Len(ids)]
  BY KeptLoop
<1>2. Len(ids) \in Nat /\ DOMAIN ids = 1..Len(ids) /\ \A n \in 1..Len(ids) : ids[n] \in EdgeID
  BY ElementOfSeq, LenProperties
<1>3. \A i, j \in 1..Len(ids) : ids[i] = ids[j] => i = j
  BY <1>2 DEF NoRepeats
<1> HIDE DEF ids
<1> DEFINE T == {n \in Nat : n <= Len(ids) => NoRepeats(kept[n]) /\ Members(kept[n]) = fresh(n)}
<1>4. 0 \in T
  <2>1. Members(<<>>) = {} /\ NoRepeats(<<>>)
    BY DEF Members, NoRepeats
  <2>2. fresh(0) = {}
    OBVIOUS
  <2> HIDE DEF fresh
  <2> QED BY <1>1, <2>1, <2>2
<1>5. ASSUME NEW n \in Nat, n \in T PROVE n + 1 \in T
  <2> SUFFICES ASSUME n + 1 <= Len(ids)
               PROVE  NoRepeats(kept[n + 1]) /\ Members(kept[n + 1]) = fresh(n + 1)
    OBVIOUS
  <2>1. n + 1 \in 1..Len(ids) /\ (n + 1) - 1 = n /\ n <= Len(ids) /\ n \in 0..Len(ids)
    BY <1>2
  <2>2. /\ NoRepeats(kept[n]) /\ Members(kept[n]) = fresh(n)
        /\ kept[n] \in Seq(EdgeID) /\ ids[n + 1] \in EdgeID
    BY <1>1, <1>2, <1>5, <2>1
  <2>3. {ids[i] : i \in 1..(n + 1)} = {ids[i] : i \in 1..n} \union {ids[n + 1]}
    BY <1>2, <2>1
  <2>4. ids[n + 1] \notin {ids[i] : i \in 1..n}
    <3>1. ASSUME NEW i \in 1..n PROVE ids[i] # ids[n + 1]
      <4>1. i \in 1..Len(ids) /\ i # n + 1
        BY <1>2, <2>1
      <4> QED BY <1>3, <2>1, <4>1
    <3> QED BY <3>1
  <2>5. CASE IsStale(ids[n + 1], before)
    <3>1. kept[n + 1] = kept[n]
      BY <1>1, <2>1, <2>5
    <3>2. fresh(n + 1) = fresh(n)
      BY <2>3, <2>5
    <3> HIDE DEF fresh
    <3> QED BY <2>2, <3>1, <3>2
  <2>6. CASE ~IsStale(ids[n + 1], before)
    <3>1. kept[n + 1] = Append(kept[n], ids[n + 1])
      BY <1>1, <2>1, <2>6
    <3>2. fresh(n + 1) = fresh(n) \union {ids[n + 1]} /\ ids[n + 1] \notin fresh(n)
      BY <2>3, <2>4, <2>6
    <3> HIDE DEF fresh
    <3>3. /\ Members(Append(kept[n], ids[n + 1])) = Members(kept[n]) \union {ids[n + 1]}
          /\ ids[n + 1] \notin Members(kept[n]) => NoRepeats(Append(kept[n], ids[n + 1]))
      BY <2>2, AppendMember
    <3> QED BY <2>2, <3>1, <3>2, <3>3
  <2> QED BY <2>5, <2>6
<1> HIDE DEF T
<1>6. Len(ids) \in T
  BY <1>2, <1>4, <1>5, Induction
<1>7. NoRepeats(kept[Len(ids)]) /\ Members(kept[Len(ids)]) = fresh(Len(ids))
  <2> HIDE DEF fresh
  <2> QED BY <1>2, <1>6 DEF T
<1>8. fresh(Len(ids)) = {id \in Members(ids) : ~IsStale(id, before)}
  BY <1>2 DEF Members
<1> HIDE DEF fresh
<1> QED BY <1>1, <1>2, <1>7, <1>8 DEF ids
-----------------------------------------------------------------------------
LiveLinks == {id \in LinkID : links[id] # NoLink}
LiveEdges == {id \in EdgeID : edges[id] # NoEdge}
LeavingEdges(src) == {id \in LiveEdges : edges[id].src = src}

TypeOKMaps ==
    /\ links \in [LinkID -> Link \union {NoLink}]
    /\ edges \in [EdgeID -> Edge \union {NoEdge}]
    /\ linkURLIndex \in [URL -> LinkID \union {Nil}]
    /\ linkEdgeMap \in [LinkID -> Seq(EdgeID)]
    /\ now \in Nat

(* The two halves of IndexesAgree: the index of the links, and the edge    *)
(* lists.                                                                  *)
IndexAgrees ==
    \A url \in URL, id \in LinkID :
        linkURLIndex[url] = id <=> id \in LiveLinks /\ links[id].url = url

ListAgrees(src) ==
    NoRepeats(linkEdgeMap[src]) /\ Members(linkEdgeMap[src]) = LeavingEdges(src)

(* Clocks do not go back, and a map holds finitely many objects.           *)
Stamped == \A id \in EdgeID : edges[id].updated <= now
FewObjects == IsFiniteSet(LiveLinks) /\ IsFiniteSet(LiveEdges)

MapsInv ==
    /\ TypeOKMaps
    /\ IndexAgrees
    /\ \A src \in LinkID : ListAgrees(src)
    /\ Stamped
    /\ FewObjects

LEMMA MapsAgree == ASSUME MapsInv PROVE IndexesAgree
<1>1. \A src \in LinkID, id \in EdgeID :
          (\E i \in DOMAIN linkEdgeMap[src] : linkEdgeMap[src][i] = id)
              <=> edges[id] # NoEdge /\ edges[id].src = src
  BY DEF MapsInv, ListAgrees, Members, LeavingEdges, LiveEdges
<1>2. \A src \in LinkID : \A i, j \in DOMAIN linkEdgeMap[src] :
          linkEdgeMap[src][i] = linkEdgeMap[src][j] => i = j
  BY DEF MapsInv, ListAgrees, NoRepeats
<1> QED BY <1>1, <1>2 DEF MapsInv, IndexAgrees, LiveLinks, IndexesAgree

(* NoLink and NoEdge are no objects.                                       *)
LEMMA NoObjects ==
    /\ \A x \in Link : x # NoLink /\ x.url \in URL /\ x.retrieved \in Nat
    /\ \A x \in Edge : x # NoEdge /\ x.src \in LinkID /\ x.dst \in LinkID /\ x.updated \in Nat
    /\ NoLink.retrieved = 0 /\ NoEdge.updated = 0
BY NilAssumption DEF Link, Edge, NoLink, NoEdge
-----------------------------------------------------------------------------
(* What an operation does to one object.                                   *)
LinkUpserted(id, url, t) ==
    /\ \A x \in LinkID : x # id => links'[x] = links[x]
    /\ links'[id] \in Link /\ links'[id].url = url
    /\ \/ /\ links[id] = NoLink /\ linkURLIndex[url] = Nil
          /\ links'[id].retrieved = t
          /\ linkURLIndex' = [linkURLIndex EXCEPT ![url] = id]
       \/ /\ links[id] \in Link /\ links[id].url = url
          /\ links'[id].retrieved = KeptTimestamp(links[id].retrieved, t)
          /\ linkURLIndex' = linkURLIndex

LEMMA UpsertLinkEffect ==
    ASSUME MapsInv, NEW url \in URL, NEW t \in Nat, UpsertLink(url, t)
    PROVE  /\ \E id \in LinkID : LinkUpserted(id, url, t)
           /\ links' \in [LinkID -> Link \union {NoLink}]
           /\ UNCHANGED <<edges, linkEdgeMap, now>>
<1>1. links \in [LinkID -> Link \union {NoLink}] /\ linkURLIndex \in [URL -> LinkID \union {Nil}]
      /\ IndexAgrees
  BY DEF MapsInv, TypeOKMaps
<1>2. UNCHANGED <<edges, linkEdgeMap, now>>
  BY DEF UpsertLink
<1>3. CASE /\ linkURLIndex[url] # Nil
           /\ links' = [links EXCEPT ![linkURLIndex[url]].retrieved = KeptTimestamp(@, t)]
           /\ UNCHANGED linkURLIndex
  <2> DEFINE id == linkURLIndex[url]
  <2>1. id \in LinkID /\ links[id] # NoLink /\ links[id].url = url
    BY <1>1, <1>3 DEF IndexAgrees, LiveLinks
  <2>2. links[id] \in Link
    BY <1>1, <2>1
  <2>3. links' = [links EXCEPT ![id].retrieved = KeptTimestamp(@, t)] /\ linkURLIndex' = linkURLIndex
    BY <1>3
  <2> HIDE DEF id
  <2>4. KeptTimestamp(links[id].retrieved, t) \in Nat
    BY <2>2, NoObjects DEF KeptTimestamp
  <2>5. links'[id] = [links[id] EXCEPT !.retrieved = KeptTimestamp(links[id].retrieved, t)]
        /\ \A x \in LinkID : x # id => links'[x] = links[x]
    BY <1>1, <2>1, <2>3
  <2>6. links'[id] \in Link /\ links'[id].url = url
        /\ links'[id].retrieved = KeptTimestamp(links[id].retrieved, t)
    BY <2>1, <2>2, <2>4, <2>5 DEF Link
  <2>7. links' \in [LinkID -> Link \union {NoLink}]
    BY <1>1, <2>1, <2>3, <2>5, <2>6
  <2> QED BY <1>2, <2>1, <2>2, <2>3, <2>5, <2>6, <2>7 DEF LinkUpserted
<1>4. CASE /\ linkURLIndex[url] = Nil
           /\ \E id \in LinkID :
                 /\ links[id] = NoLink
                 /\ links' = [links EXCEPT ![id] = [url |-> url, retrieved |-> t]]
                 /\ linkURLIndex' = [linkURLIndex EXCEPT ![url] = id]
  <2>1. PICK id \in LinkID :
            /\ links[id] = NoLink
            /\ links' = [links EXCEPT ![id] = [url |-> url, retrieved |-> t]]
            /\ linkURLIndex' = [linkURLIndex EXCEPT ![url] = id]
    BY <1>4
  <2>2. [url |-> url, retrieved |-> t] \in Link
    BY DEF Link
  <2>3. links'[id] = [url |-> url, retrieved |-> t] /\ \A x \in LinkID : x # id => links'[x] = links[x]
    BY <1>1, <2>1
  <2>4. links' \in [LinkID -> Link \union {NoLink}]
    BY <1>1, <2>1, <2>2
  <2> QED BY <1>2, <1>4, <2>1, <2>2, <2>3, <2>4 DEF LinkUpserted
<1> QED BY <1>3, <1>4 DEF UpsertLink

LEMMA UpsertLinkInv ==
    ASSUME MapsInv, NEW url \in URL, NEW t \in Nat, UpsertLink(url, t)
    PROVE  MapsInv'
<1>1. PICK id \in LinkID : LinkUpserted(id, url, t)
  BY UpsertLinkEffect
<1>2. links' \in [LinkID -> Link \union {NoLink}] /\ UNCHANGED <<edges, linkEdgeMap, now>>
  BY UpsertLinkEffect
<1>3. TypeOKMaps'
  BY <1>1, <1>2 DEF LinkUpserted, MapsInv, TypeOKMaps
<1>4. LiveLinks' = LiveLinks \union {id}
  BY <1>1, <1>2, NoObjects DEF LinkUpserted, LiveLinks
<1>5. IndexAgrees'
  <2>1. \A x \in LinkID : x # id => links'[x].url = links[x].url
    BY <1>1 DEF LinkUpserted
  <2>2. links'[id].url = url
    BY <1>1 DEF LinkUpserted
  <2>3. \A u \in URL : linkURLIndex'[u] = IF u = url THEN id ELSE linkURLIndex[u]
    BY <1>1, NoObjects DEF LinkUpserted, MapsInv, TypeOKMaps, IndexAgrees, LiveLinks
  <2>4. \A u \in URL : linkURLIndex[u] = id => u = url
    BY <1>1, NoObjects DEF LinkUpserted, MapsInv, IndexAgrees, LiveLinks
  <2>5. ASSUME NEW u \in URL, NEW x \in LinkID
        PROVE  linkURLIndex'[u] = x <=> x \in LiveLinks' /\ links'[x].url = u
    <3>1. CASE x = id
      BY <1>4, <2>2, <2>3, <2>4, <3>1
    <3>2. CASE x # id /\ u # url
      BY <1>4, <2>1, <2>3, <3>2 DEF MapsInv, IndexAgrees
    <3>3. CASE x # id /\ u = url
      <4>1. linkURLIndex[url] = Nil \/ linkURLIndex[url] = id
        BY <1>1, NoObjects DEF LinkUpserted, MapsInv, IndexAgrees, LiveLinks
      <4> QED BY <1>4, <2>1, <2>3, <3>3, <4>1, NilAssumption DEF MapsInv, IndexAgrees
    <3> QED BY <3>1, <3>2, <3>3
  <2> QED BY <2>5 DEF IndexAgrees
<1>6. \A src \in LinkID : ListAgrees(src)'
  BY <1>2 DEF MapsInv, ListAgrees, LeavingEdges, LiveEdges
<1>7. Stamped' /\ LiveEdges' = LiveEdges
  BY <1>2 DEF MapsInv, Stamped, LiveEdges
<1>8. FewObjects'
  BY <1>4, <1>7, FS_AddElement DEF MapsInv, FewObjects
<1> QED BY <1>3, <1>5, <1>6, <1>7, <1>8 DEF MapsInv

EdgeUpserted(id, src, dst) ==
    /\ \A x \in EdgeID : x # id => edges'[x] = edges[x]
    /\ edges'[id] \in Edge
    /\ edges'[id].src = src /\ edges'[id].dst = dst /\ edges'[id].updated = now
    /\ \/ /\ edges[id] = NoEdge
          /\ \A x \in LeavingEdges(src) : edges[x].dst # dst
          /\ linkEdgeMap' = [linkEdgeMap EXCEPT ![src] = Append(@, id)]
       \/ /\ edges[id] \in Edge /\ edges[id].src = src /\ edges[id].dst = dst
          /\ linkEdgeMap' = linkEdgeMap

LEMMA UpsertEdgeEffect ==
    ASSUME MapsInv, NEW src \in LinkID, NEW dst \in LinkID, UpsertEdge(src, dst)
    PROVE  /\ \E id \in EdgeID : EdgeUpserted(id, src, dst)
           /\ edges' \in [EdgeID -> Edge \union {NoEdge}]
           /\ src \in LiveLinks /\ dst \in LiveLinks
           /\ UNCHANGED <<links, linkURLIndex, now>>
<1>1. /\ edges \in [EdgeID -> Edge \union {NoEdge}] /\ now \in Nat
      /\ linkEdgeMap \in [LinkID -> Seq(EdgeID)] /\ ListAgrees(src)
  BY DEF MapsInv, TypeOKMaps
<1>2. src \in LiveLinks /\ dst \in LiveLinks /\ UNCHANGED <<links, linkURLIndex, now>>
  BY DEF UpsertEdge, LiveLinks
<1>3. \A i \in DOMAIN linkEdgeMap[src] : linkEdgeMap[src][i] \in LeavingEdges(src)
  BY <1>1 DEF ListAgrees, Members
<1>4. ASSUME NEW i \in ExistingEdges(src, dst),
             edges' = [edges EXCEPT ![linkEdgeMap[src][i]].updated = now],
             linkEdgeMap' = linkEdgeMap
      PROVE  /\ \E id \in EdgeID : EdgeUpserted(id, src, dst)
             /\ edges' \in [EdgeID -> Edge \union {NoEdge}]
  <2> DEFINE id == linkEdgeMap[src][i]
  <2>1. id \in EdgeID /\ edges[id] # NoEdge /\ edges[id].src = src /\ edges[id].dst = dst
    BY <1>3 DEF ExistingEdges, LeavingEdges, LiveEdges
  <2>2. edges' = [edges EXCEPT ![id].updated = now]
    BY <1>4
  <2> HIDE DEF id
  <2>3. edges[id] \in Edge
    BY <1>1, <2>1
  <2>4. edges'[id] = [edges[id] EXCEPT !.updated = now]
        /\ \A x \in EdgeID : x # id => edges'[x] = edges[x]
    BY <1>1, <2>1, <2>2
  <2>5. edges'[id] \in Edge /\ edges'[id].src = src /\ edges'[id].dst = dst
        /\ edges'[id].updated = now
    BY <1>1, <2>1, <2>3, <2>4 DEF Edge
  <2>6. edges' \in [EdgeID -> Edge \union {NoEdge}]
    BY <1>1, <2>1, <2>2, <2>4, <2>5
  <2> QED BY <1>4, <2>1, <2>3, <2>4, <2>5, <2>6 DEF EdgeUpserted
<1>5. ASSUME ExistingEdges(src, dst) = {}, NEW id \in EdgeID, edges[id] = NoEdge,
             edges' = [edges EXCEPT ![id] = [src |-> src, dst |-> dst, updated |-> now]],
             linkEdgeMap' = [linkEdgeMap EXCEPT ![src] = Append(@, id)]
      PROVE  /\ \E x \in EdgeID : EdgeUpserted(x, src, dst)
             /\ edges' \in [EdgeID -> Edge \union {NoEdge}]
  <2>1. [src |-> src, dst |-> dst, updated |-> now] \in Edge
    BY <1>1 DEF Edge
  <2>2. edges'[id] = [src |-> src, dst |-> dst, updated |-> now]
        /\ \A x \in EdgeID : x # id => edges'[x] = edges[x]
    BY <1>1, <1>5
  <2>3. ASSUME NEW x \in LeavingEdges(src) PROVE edges[x].dst # dst
    <3>1. PICK i \in DOMAIN linkEdgeMap[src] : linkEdgeMap[src][i] = x
      BY <1>1 DEF ListAgrees, Members
    <3> QED BY <1>5, <3>1 DEF ExistingEdges
  <2>4. edges' \in [EdgeID -> Edge \union {NoEdge}]
    BY <1>1, <1>5, <2>1
  <2> QED BY <1>5, <2>1, <2>2, <2>3, <2>4 DEF EdgeUpserted
<1> QED BY <1>2, <1>4, <1>5 DEF UpsertEdge

LEMMA UpsertEdgeInv ==
    ASSUME MapsInv, NEW src \in LinkID, NEW dst \in LinkID, UpsertEdge(src, dst)
    PROVE  MapsInv'
<1>1. PICK id \in EdgeID : EdgeUpserted(id, src, dst)
  BY UpsertEdgeEffect
<1>2. edges' \in [EdgeID -> Edge \union {NoEdge}] /\ UNCHANGED <<links, linkURLIndex, now>>
  BY UpsertEdgeEffect
<1>3. linkEdgeMap \in [LinkID -> Seq(EdgeID)] /\ now \in Nat
  BY DEF MapsInv, TypeOKMaps
<1>4. LiveEdges' = LiveEdges \union {id}
  BY <1>1, <1>2, NoObjects DEF EdgeUpserted, LiveEdges
<1>5. \A s \in LinkID : LeavingEdges(s)' = IF s = src THEN LeavingEdges(s) \union {id}
                                          ELSE LeavingEdges(s)
  <2>1. \A x \in LiveEdges : x # id => edges'[x].src = edges[x].src
    BY <1>1 DEF EdgeUpserted, LiveEdges
  <2>2. edges'[id].src = src /\ (id \in LiveEdges => edges[id].src = src)
    BY <1>1 DEF EdgeUpserted, LiveEdges
  <2> QED BY <1>4, <2>1, <2>2 DEF LeavingEdges
<1>6. linkEdgeMap' \in [LinkID -> Seq(EdgeID)] /\ \A s \in LinkID : ListAgrees(s)'
  <2>1. CASE edges[id] = NoEdge /\ linkEdgeMap' = [linkEdgeMap EXCEPT ![src] = Append(@, id)]
    <3>1. linkEdgeMap[src] \in Seq(EdgeID) /\ ListAgrees(src)
      BY <1>3 DEF MapsInv
    <3>2. id \notin Members(linkEdgeMap[src])
      BY <2>1, <3>1 DEF ListAgrees, LeavingEdges, LiveEdges
    <3>3. /\ Append(linkEdgeMap[src], id) \in Seq(EdgeID)
          /\ Members(Append(linkEdgeMap[src], id)) = Members(linkEdgeMap[src]) \union {id}
          /\ NoRepeats(Append(linkEdgeMap[src], id))
      BY <3>1, <3>2, AppendMember DEF ListAgrees
    <3>4. linkEdgeMap'[src] = Append(linkEdgeMap[src], id)
          /\ \A s \in LinkID : s # src => linkEdgeMap'[s] = linkEdgeMap[s]
      BY <1>3, <2>1
    <3>5. linkEdgeMap' \in [LinkID -> Seq(EdgeID)]
      BY <1>3, <2>1, <3>3
    <3>6. ASSUME NEW s \in LinkID
          PROVE  NoRepeats(linkEdgeMap'[s]) /\ Members(linkEdgeMap'[s]) = LeavingEdges(s)'
      <4>1. CASE s = src
        BY <1>5, <3>1, <3>3, <3>4, <4>1 DEF ListAgrees
      <4>2. CASE s # src
        BY <1>5, <3>4, <4>2 DEF MapsInv, ListAgrees
      <4> QED BY <4>1, <4>2
    <3> QED BY <3>5, <3>6 DEF ListAgrees
  <2>2. CASE edges[id] \in Edge /\ edges[id].src = src /\ linkEdgeMap' = linkEdgeMap
    <3>1. id \in LeavingEdges(src)
      BY <2>2, NoObjects DEF LeavingEdges, LiveEdges
    <3>2. \A s \in LinkID : LeavingEdges(s)' = LeavingEdges(s)
      BY <1>5, <3>1
    <3> QED BY <1>3, <2>2, <3>2 DEF MapsInv, ListAgrees
  <2> QED BY <1>1, <2>1, <2>2 DEF EdgeUpserted
<1>7. TypeOKMaps'
  BY <1>2, <1>6 DEF MapsInv, TypeOKMaps
<1>8. Stamped'
  <2>1. \A x \in EdgeID : edges'[x].updated = edges[x].updated \/ edges'[x].updated = now
    BY <1>1 DEF EdgeUpserted
  <2> QED BY <1>2, <1>3, <2>1 DEF MapsInv, Stamped
<1>9. IndexAgrees' /\ LiveLinks' = LiveLinks
  BY <1>2 DEF MapsInv, IndexAgrees, LiveLinks
<1>10. FewObjects'
  BY <1>4, <1>9, FS_AddElement DEF MapsInv, FewObjects
<1> QED BY <1>6, <1>7, <1>8, <1>9, <1>10 DEF MapsInv

LEMMA RemoveStaleEffect ==
    ASSUME MapsInv, NEW src \in LinkID, NEW before \in Nat, RemoveStaleEdges(src, before)
    PROVE  /\ \A id \in EdgeID :
                 edges'[id] = IF id \in LeavingEdges(src) /\ IsStale(id, before) THEN NoEdge
                              ELSE edges[id]
           /\ edges' \in [EdgeID -> Edge \union {NoEdge}]
           /\ linkEdgeMap' \in [LinkID -> Seq(EdgeID)]
           /\ \A s \in LinkID : s # src => linkEdgeMap'[s] = linkEdgeMap[s]
           /\ NoRepeats(linkEdgeMap'[src])
           /\ Members(linkEdgeMap'[src]) = {id \in LeavingEdges(src) : ~IsStale(id, before)}
           /\ UNCHANGED <<links, linkURLIndex, now>>
<1>1. /\ edges \in [EdgeID -> Edge \union {NoEdge}]
      /\ linkEdgeMap \in [LinkID -> Seq(EdgeID)] /\ ListAgrees(src)
  BY DEF MapsInv, TypeOKMaps
<1>2. Members(linkEdgeMap[src]) = LeavingEdges(src) /\ NoRepeats(linkEdgeMap[src])
      /\ linkEdgeMap[src] \in Seq(EdgeID)
  BY <1>1 DEF ListAgrees
<1>3. edges' = [id \in EdgeID |-> IF id \in LeavingEdges(src) /\ IsStale(id, before) THEN NoEdge
                                  ELSE edges[id]]
  BY <1>2 DEF RemoveStaleEdges, Members
<1>4. /\ EdgesKept(src, before) \in Seq(EdgeID)
      /\ NoRepeats(EdgesKept(src, before))
      /\ Members(EdgesKept(src, before)) = {id \in Members(linkEdgeMap[src]) : ~IsStale(id, before)}
  BY <1>2, KeptEdges
<1>5. linkEdgeMap' = [linkEdgeMap EXCEPT ![src] = EdgesKept(src, before)]
      /\ UNCHANGED <<links, linkURLIndex, now>>
  BY DEF RemoveStaleEdges
<1>6. linkEdgeMap' \in [LinkID -> Seq(EdgeID)]
      /\ (\A s \in LinkID : s # src => linkEdgeMap'[s] = linkEdgeMap[s])
      /\ linkEdgeMap'[src] = EdgesKept(src, before)
  BY <1>1, <1>4, <1>5
<1> QED BY <1>1, <1>2, <1>3, <1>4, <1>5, <1>6

LEMMA RemoveStaleInv ==
    ASSUME MapsInv, NEW src \in LinkID, NEW before \in Nat, RemoveStaleEdges(src, before)
    PROVE  MapsInv'
<1> DEFINE gone == {id \in LeavingEdges(src) : IsStale(id, before)}
<1>1. /\ \A id \in EdgeID : edges'[id] = IF id \in gone THEN NoEdge ELSE edges[id]
      /\ edges' \in [EdgeID -> Edge \union {NoEdge}]
      /\ linkEdgeMap' \in [LinkID -> Seq(EdgeID)]
      /\ \A s \in LinkID : s # src => linkEdgeMap'[s] = linkEdgeMap[s]
      /\ NoRepeats(linkEdgeMap'[src]) /\ Members(linkEdgeMap'[src]) = LeavingEdges(src) \ gone
      /\ UNCHANGED <<links, linkURLIndex, now>>
  BY RemoveStaleEffect
<1>2. gone \subseteq LeavingEdges(src)
  OBVIOUS
<1> HIDE DEF gone
<1>3. LiveEdges' = LiveEdges \ gone
  BY <1>1 DEF LiveEdges
<1>4. \A s \in LinkID : LeavingEdges(s)' = LeavingEdges(s) \ gone
  BY <1>1, <1>3 DEF LeavingEdges, LiveEdges
<1>5. ASSUME NEW s \in LinkID
      PROVE  NoRepeats(linkEdgeMap'[s]) /\ Members(linkEdgeMap'[s]) = LeavingEdges(s)'
  <2>1. CASE s = src
    BY <1>1, <1>4, <2>1
  <2>2. CASE s # src
    <3>1. LeavingEdges(s) \ gone = LeavingEdges(s)
      BY <1>2, <2>2 DEF LeavingEdges
    <3> QED BY <1>1, <1>4, <2>2, <3>1 DEF MapsInv, ListAgrees
  <2> QED BY <2>1, <2>2
<1>6. TypeOKMaps'
  BY <1>1 DEF MapsInv, TypeOKMaps
<1>7. Stamped'
  BY <1>1, NoObjects DEF MapsInv, TypeOKMaps, Stamped
<1>8. IndexAgrees' /\ LiveLinks' = LiveLinks
  BY <1>1 DEF MapsInv, IndexAgrees, LiveLinks
<1>9. FewObjects'
  BY <1>3, <1>8, FS_Subset DEF MapsInv, FewObjects
<1> QED BY <1>5, <1>6, <1>7, <1>8, <1>9 DEF MapsInv, ListAgrees
-----------------------------------------------------------------------------
LEMMA MapsInit == Init => MapsInv
<1> SUFFICES ASSUME Init PROVE MapsInv
  OBVIOUS
<1>1. TypeOKMaps
  BY DEF Init, TypeOKMaps
<1>2. LiveLinks = {} /\ LiveEdges = {} /\ \A src \in LinkID : LeavingEdges(src) = {}
  BY DEF Init, LiveLinks, LiveEdges, LeavingEdges
<1>3. IndexAgrees
  BY <1>2, NilAssumption DEF Init, IndexAgrees
<1>4. \A src \in LinkID : ListAgrees(src)
  BY <1>2 DEF Init, ListAgrees, NoRepeats, Members
<1>5. Stamped
  BY NoObjects DEF Init, Stamped
<1>6. FewObjects
  BY <1>2, FS_EmptySet DEF FewObjects
<1> QED BY <1>1, <1>3, <1>4, <1>5, <1>6 DEF MapsInv

LEMMA TimeIsNat == \A t \in Time : t \in Nat
BY TimeAssumption DEF Time

LEMMA MapsTick ==
    ASSUME MapsInv, Tick
    PROVE  MapsInv'
<1>1. UNCHANGED <<links, edges, linkURLIndex, linkEdgeMap>> /\ now' = now + 1
  BY DEF Tick
<1>2. TypeOKMaps' /\ IndexAgrees' /\ FewObjects'
  BY <1>1 DEF MapsInv, TypeOKMaps, IndexAgrees, FewObjects, LiveLinks, LiveEdges
<1>3. \A src \in LinkID : ListAgrees(src)'
  BY <1>1 DEF MapsInv, ListAgrees, LeavingEdges, LiveEdges
<1>4. \A id \in EdgeID : edges[id].updated \in Nat
  BY NoObjects DEF MapsInv, TypeOKMaps
<1>5. Stamped'
  BY <1>1, <1>4 DEF MapsInv, TypeOKMaps, Stamped
<1> QED BY <1>2, <1>3, <1>5 DEF MapsInv

LEMMA MapsSame ==
    ASSUME MapsInv, UNCHANGED vars
    PROVE  MapsInv'
<1>1. UNCHANGED <<links, edges, linkURLIndex, linkEdgeMap, now>>
  BY DEF vars
<1>2. TypeOKMaps' /\ IndexAgrees' /\ FewObjects' /\ Stamped'
  BY <1>1 DEF MapsInv, TypeOKMaps, IndexAgrees, FewObjects, LiveLinks, LiveEdges, Stamped
<1>3. \A src \in LinkID : ListAgrees(src)'
  BY <1>1 DEF MapsInv, ListAgrees, LeavingEdges, LiveEdges
<1> QED BY <1>2, <1>3 DEF MapsInv

LEMMA MapsNext ==
    ASSUME MapsInv, [Next]_vars
    PROVE  MapsInv'
BY TimeIsNat, UpsertLinkInv, UpsertEdgeInv, RemoveStaleInv, MapsTick, MapsSame DEF Next

(* The URL index and the edge lists agree with the links and the edges     *)
(* after every operation.                                                  *)
THEOREM MapsStayInAgreement == Spec => []IndexesAgree
<1>1. Spec => []MapsInv
  BY MapsInit, MapsNext, PTL DEF Spec
<1> QED BY <1>1, MapsAgree, PTL
-----------------------------------------------------------------------------
(* The rows that the objects stand for, as the refinement mapping has      *)
(* them.                                                                   *)
LinkRowOf(id) == [id |-> id, url |-> links[id].url, retrieved |-> links[id].retrieved]
EdgeRowOf(id) == [id |-> id, src |-> edges[id].src, dst |-> edges[id].dst,
                  updated |-> edges[id].updated]
LinkRows == {LinkRowOf(id) : id \in LiveLinks}
EdgeRows == {EdgeRowOf(id) : id \in LiveEdges}

LEMMA UpsertLinkRefines ==
    ASSUME MapsInv, NEW url \in URL, NEW t \in Nat, UpsertLink(url, t)
    PROVE  Tables!UpsertLink(url, t)
<1>1. PICK id \in LinkID : LinkUpserted(id, url, t)
  BY UpsertLinkEffect
<1>2. UNCHANGED <<edges, now>> /\ EdgeRows' = EdgeRows
  BY UpsertLinkEffect DEF EdgeRows, EdgeRowOf, LiveEdges
<1>3. LiveLinks' = LiveLinks \union {id}
  BY <1>1, NoObjects DEF LinkUpserted, LiveLinks
<1>4. \A x \in LiveLinks : x # id => LinkRowOf(x)' = LinkRowOf(x)
  BY <1>1 DEF LinkUpserted, LinkRowOf, LiveLinks
<1>5. LinkRowOf(id)' = [id |-> id, url |-> url, retrieved |-> links'[id].retrieved]
  BY <1>1 DEF LinkUpserted, LinkRowOf
<1>6. \A x : LinkRowOf(x).id = x /\ LinkRowOf(x).url = links[x].url
             /\ LinkRowOf(x).retrieved = links[x].retrieved
  BY DEF LinkRowOf
<1>7. CASE /\ links[id] = NoLink /\ linkURLIndex[url] = Nil
           /\ links'[id].retrieved = t
  <2>1. id \notin LiveLinks
    BY <1>7 DEF LiveLinks
  <2>2. LinkRows' = LinkRows \union {[id |-> id, url |-> url, retrieved |-> t]}
    BY <1>3, <1>4, <1>5, <1>7, <2>1 DEF LinkRows
  <2>3. \A row \in LinkRows : row.id # id
    BY <1>6, <2>1 DEF LinkRows
  <2>4. \A row \in LinkRows : row.url # url
    BY <1>6, <1>7, NilAssumption DEF LinkRows, MapsInv, IndexAgrees, LiveLinks
  <2> QED BY <1>2, <2>2, <2>3, <2>4 DEF Tables!UpsertLink, LinkRows, EdgeRows, LinkRowOf,
                                        EdgeRowOf, LiveLinks, LiveEdges
<1>8. CASE /\ links[id] \in Link /\ links[id].url = url
           /\ links'[id].retrieved = KeptTimestamp(links[id].retrieved, t)
  <2> DEFINE old == LinkRowOf(id)
             new == LinkRowOf(id)'
  <2>1. id \in LiveLinks /\ old \in LinkRows /\ old.url = url
    BY <1>6, <1>8, NoObjects DEF LiveLinks, LinkRows
  <2>2. KeptTimestamp(links[id].retrieved, t) = Tables!Later(links[id].retrieved, t)
    BY DEF KeptTimestamp, Tables!Later
  <2>3. new = [old EXCEPT !.retrieved = Tables!Later(@, t)]
    BY <1>5, <1>8, <2>2 DEF LinkRowOf
  <2> HIDE DEF new, old
  <2>4. LinkRows' = (LinkRows \ {old}) \union {new}
    <3>1. \A x \in LiveLinks : x # id => LinkRowOf(x) # old
      BY <1>6 DEF old
    <3> QED BY <1>3, <1>4, <2>1, <3>1 DEF LinkRows, old, new
  <2> QED BY <1>2, <2>1, <2>3, <2>4 DEF Tables!UpsertLink, LinkRows, EdgeRows, LinkRowOf,
                                        EdgeRowOf, LiveLinks, LiveEdges
<1> QED BY <1>1, <1>7, <1>8 DEF LinkUpserted

LEMMA UpsertEdgeRefines ==
    ASSUME MapsInv, NEW src \in LinkID, NEW dst \in LinkID, UpsertEdge(src, dst)
    PROVE  Tables!UpsertEdge(src, dst)
<1>1. PICK id \in EdgeID : EdgeUpserted(id, src, dst)
  BY UpsertEdgeEffect
<1>2. UNCHANGED <<links, now>> /\ LinkRows' = LinkRows
  BY UpsertEdgeEffect DEF LinkRows, LinkRowOf, LiveLinks
<1>3. LiveEdges' = LiveEdges \union {id}
  BY <1>1, NoObjects DEF EdgeUpserted, LiveEdges
<1>4. \A x \in LiveEdges : x # id => EdgeRowOf(x)' = EdgeRowOf(x)
  BY <1>1 DEF EdgeUpserted, EdgeRowOf, LiveEdges
<1>5. EdgeRowOf(id)' = [id |-> id, src |-> src, dst |-> dst, updated |-> now]
  BY <1>1 DEF EdgeUpserted, EdgeRowOf
<1>6. \A x : /\ EdgeRowOf(x).id = x /\ EdgeRowOf(x).src = edges[x].src
             /\ EdgeRowOf(x).dst = edges[x].dst
  BY DEF EdgeRowOf
<1>7. Tables!Known(src) /\ Tables!Known(dst)
  <2>1. ASSUME NEW x \in LiveLinks PROVE \E row \in LinkRows : row.id = x
    <3>1. LinkRowOf(x) \in LinkRows /\ LinkRowOf(x).id = x
      BY <2>1 DEF LinkRows, LinkRowOf
    <3> QED BY <3>1
  <2> QED BY <2>1, UpsertEdgeEffect DEF Tables!Known, LinkRows, LinkRowOf, LiveLinks
<1>8. CASE edges[id] = NoEdge /\ \A x \in LeavingEdges(src) : edges[x].dst # dst
  <2>1. id \notin LiveEdges
    BY <1>8 DEF LiveEdges
  <2>2. EdgeRows' = EdgeRows \union {[id |-> id, src |-> src, dst |-> dst, updated |-> now]}
    BY <1>3, <1>4, <1>5, <2>1 DEF EdgeRows
  <2>3. \A row \in EdgeRows : row.id # id
    BY <1>6, <2>1 DEF EdgeRows
  <2>4. \A row \in EdgeRows : ~Tables!Conflicts(row, src, dst)
    BY <1>6, <1>8 DEF EdgeRows, LeavingEdges, Tables!Conflicts
  <2> QED BY <1>2, <1>7, <2>2, <2>3, <2>4 DEF Tables!UpsertEdge, LinkRows, EdgeRows, LinkRowOf,
                                              EdgeRowOf, LiveLinks, LiveEdges
<1>9. CASE edges[id] \in Edge /\ edges[id].src = src /\ edges[id].dst = dst
  <2> DEFINE old == EdgeRowOf(id)
             new == EdgeRowOf(id)'
  <2>1. id \in LiveEdges /\ old \in EdgeRows /\ Tables!Conflicts(old, src, dst)
    BY <1>6, <1>9, NoObjects DEF LiveEdges, EdgeRows, Tables!Conflicts
  <2>2. new = [old EXCEPT !.updated = now]
    BY <1>5, <1>9 DEF EdgeRowOf
  <2> HIDE DEF new, old
  <2>3. EdgeRows' = (EdgeRows \ {old}) \union {new}
    <3>1. \A x \in LiveEdges : x # id => EdgeRowOf(x) # old
      BY <1>6 DEF old
    <3> QED BY <1>3, <1>4, <2>1, <3>1 DEF EdgeRows, old, new
  <2> QED BY <1>2, <1>7, <2>1, <2>2, <2>3 DEF Tables!UpsertEdge, LinkRows, EdgeRows, LinkRowOf,
                                              EdgeRowOf, LiveLinks, LiveEdges
<1> QED BY <1>1, <1>8, <1>9 DEF EdgeUpserted

LEMMA RemoveStaleRefines ==
    ASSUME MapsInv, NEW src \in LinkID, NEW before \in Nat, RemoveStaleEdges(src, before)
    PROVE  Tables!RemoveStaleEdges(src, before)
<1> DEFINE gone == {id \in LeavingEdges(src) : IsStale(id, before)}
<1>1. (\A id \in EdgeID : edges'[id] = IF id \in gone THEN NoEdge ELSE edges[id])
      /\ UNCHANGED <<links, linkURLIndex, now>>
  BY RemoveStaleEffect
<1>2. LinkRows' = LinkRows
  BY <1>1 DEF LinkRows, LinkRowOf, LiveLinks
<1>3. \A x \in LiveEdges : x \in gone <=> (EdgeRowOf(x).src = src /\ EdgeRowOf(x).updated < before)
  BY DEF EdgeRowOf, LeavingEdges, IsStale
<1> HIDE DEF gone
<1>4. LiveEdges' = LiveEdges \ gone
  BY <1>1 DEF LiveEdges
<1>5. \A x \in LiveEdges \ gone : EdgeRowOf(x)' = EdgeRowOf(x)
  BY <1>1 DEF EdgeRowOf, LiveEdges
<1>6. EdgeRows' = {row \in EdgeRows : ~(row.src = src /\ row.updated < before)}
  BY <1>3, <1>4, <1>5 DEF EdgeRows
<1> QED BY <1>1, <1>2, <1>6 DEF Tables!RemoveStaleEdges, LinkRows, EdgeRows, LinkRowOf,
                               EdgeRowOf, LiveLinks, LiveEdges

(* Every operation on the maps is the same operation on the tables, and    *)
(* the database may be used in the place of the maps.                      *)
THEOREM MapsImplementTables == Spec => ImplementsTables
<1>1. Init => Tables!Init
  BY DEF Init, Tables!Init
<1>2. ASSUME MapsInv, [Next]_vars PROVE [Tables!Next]_Tables!vars
  <2>1. ASSUME NEW url \in URL, NEW t \in Time, UpsertLink(url, t) PROVE Tables!Next
    <3>1. t \in Tables!Time
      BY DEF Time, Tables!Time
    <3> QED BY <2>1, <3>1, TimeIsNat, <1>2, UpsertLinkRefines DEF Tables!Next
  <2>2. ASSUME NEW src \in LinkID, NEW dst \in LinkID, UpsertEdge(src, dst) PROVE Tables!Next
    BY <2>2, <1>2, UpsertEdgeRefines DEF Tables!Next
  <2>3. ASSUME NEW src \in LinkID, NEW t \in Time, RemoveStaleEdges(src, t) PROVE Tables!Next
    <3>1. t \in Tables!Time
      BY DEF Time, Tables!Time
    <3> QED BY <2>3, <3>1, TimeIsNat, <1>2, RemoveStaleRefines DEF Tables!Next
  <2>4. ASSUME Tick PROVE Tables!Next
    BY <2>4 DEF Tick, Tables!Next, Tables!Tick
  <2>5. ASSUME UNCHANGED vars PROVE UNCHANGED Tables!vars
    BY <2>5 DEF vars, Tables!vars
  <2> QED BY <1>2, <2>1, <2>2, <2>3, <2>4, <2>5 DEF Next
<1>3. Spec => []MapsInv
  BY MapsInit, MapsNext, PTL DEF Spec
<1> QED BY <1>1, <1>2, <1>3, PTL DEF Spec, ImplementsTables, Tables!Spec
-----------------------------------------------------------------------------
(* What readers are given, and what they read it from.                     *)
SameAs(kind, old, new) ==
    /\ old.id = new.id
    /\ IF kind = "links"
       THEN old.object.url = new.object.url /\ old.object.retrieved <= new.object.retrieved
       ELSE /\ old.object.src = new.object.src /\ old.object.dst = new.object.dst
            /\ old.object.updated <= new.object.updated

(* A pointer leads to its object as it is now or was when it was deleted.  *)
PointsAs(kind, item) ==
    IF kind = "links"
    THEN /\ item.object \in Link /\ item.deleted = Nil
         /\ item.id \in LiveLinks
         /\ item.object.url = links[item.id].url
         /\ item.object.retrieved <= links[item.id].retrieved
    ELSE LET edge == IF item.deleted # Nil THEN item.deleted ELSE edges[item.id]
         IN  /\ item.object \in Edge
             /\ item.id \in EdgeID /\ edge \in Edge
             /\ item.object.src = edge.src /\ item.object.dst = edge.dst
             /\ item.object.updated <= edge.updated

(* Before there is a list nothing has been read or sent.                   *)
NothingRead ==
    /\ curIdx = 0 /\ got = <<>> /\ wire = <<>>
    /\ status # "ok" /\ outcome # "end"

Unasked ==
    /\ list = Nil /\ outcome = "none"
    /\ handler = "none" /\ status = "open" /\ cancelled = FALSE

(* The list is read from its beginning: what was read, followed by what is *)
(* on the way, are its first objects; and all those that were sent, unless *)
(* the call was cancelled or failed.                                       *)
ReadInOrder ==
    /\ list \in Seq(Item)
    /\ \A i \in 1..Len(list) : PointsAs(query.kind, list[i])
    /\ curIdx \in 0..Len(list)
    /\ Len(got) + Len(wire) <= curIdx
    /\ \A i \in 1..Len(got) : SameAs(query.kind, list[i], got[i])
    /\ \A i \in 1..Len(wire) : SameAs(query.kind, list[Len(got) + i], wire[i])
    /\ ~cancelled /\ status # "error" => Len(got) + Len(wire) = curIdx
    /\ status = "ok" => curIdx = Len(list)
    /\ outcome = "end" => Len(got) = Len(list)

ReaderInv ==
    /\ got \in Seq(Shown) /\ wire \in Seq(Shown)
    /\ cancelled \in BOOLEAN
    /\ query = Nil => Unasked
    /\ query # Nil => query.kind \in Kinds /\ query.remote \in BOOLEAN
    /\ query # Nil /\ ~query.remote => /\ handler = "none" /\ wire = <<>> /\ list # Nil
                                       /\ cancelled = FALSE /\ status = "open"
    /\ list = Nil => NothingRead
    /\ list = Nil /\ handler = "running" => query \in Query(TRUE)
    /\ list # Nil => ReadInOrder

RemoteInv == MapsInv /\ ReaderInv
-----------------------------------------------------------------------------
(* Links stay and their times advance; an edge stays, and its time         *)
(* advances, until it is deleted.                                          *)
ObjectsAdvance ==
    /\ \A id \in LiveLinks : /\ id \in LiveLinks' /\ links'[id].url = links[id].url
                             /\ links[id].retrieved <= links'[id].retrieved
    /\ \A id \in LiveEdges :
          \/ edges'[id] = NoEdge
          \/ /\ edges'[id] \in Edge
             /\ edges'[id].src = edges[id].src /\ edges'[id].dst = edges[id].dst
             /\ edges[id].updated <= edges'[id].updated

LEMMA ObjectsSame ==
    ASSUME MapsInv, UNCHANGED <<links, edges>>
    PROVE  ObjectsAdvance
<1>1. \A id \in LiveLinks : links[id] \in Link
  BY DEF MapsInv, TypeOKMaps, LiveLinks
<1>2. \A id \in LiveEdges : edges[id] \in Edge
  BY DEF MapsInv, TypeOKMaps, LiveEdges
<1> QED BY <1>1, <1>2, NoObjects DEF ObjectsAdvance, LiveLinks

LEMMA NextAdvances ==
    ASSUME MapsInv, Next
    PROVE  ObjectsAdvance
<1>1. \A id \in LiveLinks : links[id] \in Link
  BY DEF MapsInv, TypeOKMaps, LiveLinks
<1>2. \A id \in LiveEdges : id \in EdgeID /\ edges[id] \in Edge
  BY DEF MapsInv, TypeOKMaps, LiveEdges
<1>3. ASSUME NEW url \in URL, NEW t \in Nat, UpsertLink(url, t) PROVE ObjectsAdvance
  <2>1. PICK id \in LinkID : LinkUpserted(id, url, t)
    BY <1>3, UpsertLinkEffect
  <2>2. edges' = edges
    BY <1>3, UpsertLinkEffect
  <2>3. ASSUME NEW x \in LiveLinks
        PROVE  /\ x \in LiveLinks' /\ links'[x].url = links[x].url
               /\ links[x].retrieved <= links'[x].retrieved
    <3>1. CASE x # id
      BY <1>1, <2>1, <3>1, NoObjects DEF LinkUpserted, LiveLinks
    <3>2. CASE x = id
      <4>1. links[id] # NoLink /\ links'[id] \in Link /\ links[id].url = url /\ links'[id].url = url
            /\ links'[id].retrieved = KeptTimestamp(links[id].retrieved, t)
        BY <2>1, <3>2 DEF LinkUpserted, LiveLinks
      <4>2. links[id].retrieved \in Nat
        BY <1>1, <3>2, NoObjects
      <4>3. links[id].retrieved <= links'[id].retrieved
        BY <4>1, <4>2 DEF KeptTimestamp
      <4> QED BY <3>2, <4>1, <4>3, NoObjects DEF LiveLinks
    <3> QED BY <3>1, <3>2
  <2> QED BY <1>2, <2>2, <2>3, NoObjects DEF ObjectsAdvance
<1>4. ASSUME NEW src \in LinkID, NEW dst \in LinkID, UpsertEdge(src, dst) PROVE ObjectsAdvance
  <2>1. PICK id \in EdgeID : EdgeUpserted(id, src, dst)
    BY <1>4, UpsertEdgeEffect
  <2>2. links' = links
    BY <1>4, UpsertEdgeEffect
  <2>3. ASSUME NEW x \in LiveEdges
        PROVE  /\ edges'[x] \in Edge
               /\ edges'[x].src = edges[x].src /\ edges'[x].dst = edges[x].dst
               /\ edges[x].updated <= edges'[x].updated
    <3>1. CASE x # id
      BY <1>2, <2>1, <3>1, NoObjects DEF EdgeUpserted
    <3>2. CASE x = id
      BY <1>2, <2>1, <3>2 DEF EdgeUpserted, LiveEdges, MapsInv, Stamped
    <3> QED BY <3>1, <3>2
  <2> QED BY <1>1, <2>2, <2>3, NoObjects DEF ObjectsAdvance, LiveLinks
<1>5. ASSUME NEW src \in LinkID, NEW t \in Nat, RemoveStaleEdges(src, t) PROVE ObjectsAdvance
  <2>1. links' = links /\ \A id \in EdgeID : edges'[id] = NoEdge \/ edges'[id] = edges[id]
    BY <1>5, RemoveStaleEffect
  <2> QED BY <1>1, <1>2, <2>1, NoObjects DEF ObjectsAdvance, LiveLinks
<1>6. CASE Tick
  BY <1>6, ObjectsSame DEF Tick
<1> QED BY <1>3, <1>4, <1>5, <1>6, TimeIsNat DEF Next

LEMMA FiniteImage ==
    ASSUME NEW S, IsFiniteSet(S), NEW f, DOMAIN f = S, f = [x \in S |-> f[x]]
    PROVE  IsFiniteSet({f[x] : x \in S})
<1>1. f \in Surjection(S, {f[x] : x \in S})
  BY DEF Surjection
<1> QED BY <1>1, FS_Surjection

(* A query lists pointers to objects that are there.                       *)
LEMMA ListedPoints ==
    ASSUME MapsInv, NEW q, q.kind \in Kinds, q.range \subseteq LinkID, NEW l \in Listed(q)
    PROVE  /\ l \in Seq(Item) /\ l # Nil
           /\ \A i \in 1..Len(l) : PointsAs(q.kind, l[i])
<1> DEFINE items == Selected(q)
           found == {id \in q.range : links[id] # NoLink /\ links[id].retrieved < q.before}
           foundEdges == {id \in EdgeID : /\ edges[id] # NoEdge
                                         /\ edges[id].src \in q.range
                                         /\ edges[id].updated < q.before}
           Fresh == [id : LinkID \union EdgeID, object : Link \union Edge, deleted : {Nil}]
<1>1. \A id \in LiveLinks : id \in LinkID /\ links[id] \in Link
  BY DEF MapsInv, TypeOKMaps, LiveLinks
<1>2. \A id \in LiveEdges : id \in EdgeID /\ edges[id] \in Edge
  BY DEF MapsInv, TypeOKMaps, LiveEdges
<1>3. IsFiniteSet(items) /\ \A x \in items : x \in Fresh /\ PointsAs(q.kind, x)
  <2>1. CASE q.kind = "links"
    <3>1. items = {LinkItem(id) : id \in found}
      BY <2>1 DEF Selected
    <3>2. found \subseteq LiveLinks
      BY DEF LiveLinks
    <3>3. IsFiniteSet(found)
      BY <3>2, FS_Subset DEF MapsInv, FewObjects
    <3>4. IsFiniteSet({LinkItem(id) : id \in found})
      <4> DEFINE f == [id \in found |-> LinkItem(id)]
      <4> HIDE DEF found
      <4>1. IsFiniteSet({f[id] : id \in found})
        BY <3>3, FiniteImage
      <4> QED BY <4>1
    <3>5. ASSUME NEW id \in LiveLinks
          PROVE  LinkItem(id) \in Fresh /\ PointsAs("links", LinkItem(id))
      BY <1>1, NoObjects DEF LinkItem, PointsAs
    <3> HIDE DEF found, Fresh
    <3> QED BY <2>1, <3>1, <3>2, <3>4, <3>5
  <2>2. CASE q.kind = "edges"
    <3>1. items = {EdgeItem(id) : id \in foundEdges}
      BY <2>2 DEF Selected
    <3>2. foundEdges \subseteq LiveEdges
      BY DEF LiveEdges
    <3>3. IsFiniteSet(foundEdges)
      BY <3>2, FS_Subset DEF MapsInv, FewObjects
    <3>4. IsFiniteSet({EdgeItem(id) : id \in foundEdges})
      <4> DEFINE f == [id \in foundEdges |-> EdgeItem(id)]
      <4> HIDE DEF foundEdges
      <4>1. IsFiniteSet({f[id] : id \in foundEdges})
        BY <3>3, FiniteImage
      <4> QED BY <4>1
    <3>5. ASSUME NEW id \in LiveEdges
          PROVE  EdgeItem(id) \in Fresh /\ PointsAs("edges", EdgeItem(id))
      BY <1>2, NoObjects DEF EdgeItem, PointsAs
    <3> HIDE DEF foundEdges, Fresh
    <3> QED BY <2>2, <3>1, <3>2, <3>4, <3>5
  <2> QED BY <2>1, <2>2 DEF Kinds
<1>4. Cardinality(items) \in Nat
  BY <1>3, FS_CardinalityType
<1>5. l \in [1..Cardinality(items) -> items]
  BY DEF Listed
<1>6. l \in Seq(Fresh) /\ DOMAIN l = 1..Cardinality(items) /\ Len(l) = Cardinality(items)
  <2>1. l \in [1..Cardinality(items) -> Fresh]
    BY <1>3, <1>5
  <2> HIDE DEF items, Fresh
  <2> QED BY <1>4, <2>1
<1>7. l \in Seq(Item)
  <2>1. Fresh \subseteq Item
    BY DEF Item
  <2> HIDE DEF Fresh
  <2> QED BY <1>6, <2>1
<1>8. l # Nil
  BY <1>7, NoObjectAssumption
<1> HIDE DEF items
<1> QED BY <1>3, <1>5, <1>6, <1>7, <1>8

LEMMA CurrentShown ==
    ASSUME MapsInv, query.kind \in Kinds, NEW item \in Item, PointsAs(query.kind, item)
    PROVE  Current(item) \in Shown /\ SameAs(query.kind, item, Current(item))
<1>1. \A id \in LiveLinks : id \in LinkID /\ links[id] \in Link
  BY DEF MapsInv, TypeOKMaps, LiveLinks
<1>2. item.id \in LinkID \union EdgeID
  BY DEF Item
<1>3. CASE query.kind = "links"
  BY <1>1, <1>2, <1>3 DEF PointsAs, Current, Shown, SameAs
<1>4. CASE query.kind = "edges"
  BY <1>2, <1>4 DEF PointsAs, Current, Shown, SameAs
<1> QED BY <1>3, <1>4 DEF Kinds

(* A pointer before and after a step of the graph.                         *)
Moved(kind, old, new) ==
    new = IF /\ kind = "edges" /\ old.deleted = Nil
             /\ edges[old.id] # NoEdge /\ edges'[old.id] = NoEdge
          THEN [old EXCEPT !.deleted = edges[old.id]]
          ELSE old

LEMMA MovedPoints ==
    ASSUME MapsInv, ObjectsAdvance, MapsInv', NEW kind \in Kinds, NEW old \in Item,
           PointsAs(kind, old), NEW new, Moved(kind, old, new)
    PROVE  /\ new \in Item /\ PointsAs(kind, new)'
           /\ new.id = old.id /\ new.object = old.object
<1>1. CASE kind = "links"
  <2>1. new = old /\ old.id \in LiveLinks
    BY <1>1 DEF Moved, PointsAs
  <2>2. /\ old.id \in LiveLinks' /\ links'[old.id].url = links[old.id].url
        /\ links[old.id].retrieved <= links'[old.id].retrieved
    BY <2>1 DEF ObjectsAdvance
  <2>3. links[old.id].retrieved \in Nat /\ links'[old.id].retrieved \in Nat
        /\ old.object.retrieved \in Nat
    BY <1>1, <2>1, <2>2, NoObjects DEF MapsInv, TypeOKMaps, LiveLinks, PointsAs
  <2>4. old.object.retrieved <= links'[old.id].retrieved
    BY <1>1, <2>2, <2>3 DEF PointsAs
  <2> QED BY <1>1, <2>1, <2>2, <2>4 DEF PointsAs
<1>2. CASE kind = "edges"
  <2>1. old.id \in EdgeID /\ old.object \in Edge /\ old.object.updated \in Nat
    BY <1>2, NoObjects DEF PointsAs
  <2>2. CASE old.deleted # Nil
    <3>1. new = old
      BY <2>2 DEF Moved
    <3> QED BY <1>2, <2>2, <3>1 DEF PointsAs
  <2>3. CASE old.deleted = Nil
    <3>1. edges[old.id] \in Edge /\ old.id \in LiveEdges
      BY <1>2, <2>1, <2>3, NoObjects DEF PointsAs, LiveEdges
    <3>2. CASE edges'[old.id] = NoEdge
      <4>1. new = [old EXCEPT !.deleted = edges[old.id]]
        BY <1>2, <2>3, <3>1, <3>2 DEF Moved, LiveEdges
      <4>2. new \in Item /\ new.id = old.id /\ new.object = old.object /\ new.deleted = edges[old.id]
        BY <3>1, <4>1 DEF Item
      <4>3. new.deleted # Nil
        BY <3>1, <4>2, NoObjectAssumption DEF Edge
      <4> QED BY <1>2, <2>3, <3>1, <4>2, <4>3 DEF PointsAs
    <3>3. CASE edges'[old.id] # NoEdge
      <4>1. new = old
        BY <3>3 DEF Moved
      <4>2. /\ edges'[old.id] \in Edge
            /\ edges'[old.id].src = edges[old.id].src /\ edges'[old.id].dst = edges[old.id].dst
            /\ edges[old.id].updated <= edges'[old.id].updated
        BY <3>1, <3>3 DEF ObjectsAdvance
      <4>3. edges'[old.id].updated \in Nat /\ edges[old.id].updated \in Nat
        BY <3>1, <4>2, NoObjects
      <4>4. old.object.updated <= edges'[old.id].updated
        BY <1>2, <2>1, <2>3, <4>2, <4>3 DEF PointsAs
      <4> QED BY <1>2, <2>3, <4>1, <4>2, <4>4 DEF PointsAs
    <3> QED BY <3>2, <3>3
  <2> QED BY <2>2, <2>3
<1> QED BY <1>1, <1>2 DEF Kinds

LEMMA WriteInv ==
    ASSUME RemoteInv, Write
    PROVE  RemoteInv'
<1>1. MapsInv' /\ ObjectsAdvance
  BY MapsNext, NextAdvances DEF Write, RemoteInv
<1>2. /\ UNCHANGED <<handler, wire, status, cancelled, query, curIdx, got, outcome>>
      /\ list' = Detached
  BY DEF Write, streamVars
<1>3. CASE query = Nil \/ list = Nil
  <2>1. list' = list
    BY <1>2, <1>3 DEF Detached
  <2>2. list = Nil
    BY <1>3 DEF RemoteInv, ReaderInv, Unasked
  <2> QED BY <1>1, <1>2, <2>1, <2>2 DEF RemoteInv, ReaderInv, Unasked, NothingRead
<1>4. CASE query # Nil /\ list # Nil
  <2>1. ReadInOrder /\ query.kind \in Kinds
    BY <1>4 DEF RemoteInv, ReaderInv
  <2>2. list \in Seq(Item) /\ DOMAIN list = 1..Len(list) /\ Len(list) \in Nat
        /\ \A i \in 1..Len(list) : list[i] \in Item
    BY <2>1, ElementOfSeq, LenProperties DEF ReadInOrder
  <2>3. DOMAIN list' = 1..Len(list) /\ list' = [i \in 1..Len(list) |-> list'[i]]
        /\ \A i \in 1..Len(list) : Moved(query.kind, list[i], list'[i])
    <3>1. CASE query.kind = "links"
      BY <1>2, <2>2, <3>1 DEF Detached, Moved
    <3>2. CASE query.kind = "edges"
      BY <1>2, <1>4, <2>2, <3>2 DEF Detached, Moved
    <3> QED BY <2>1, <3>1, <3>2 DEF Kinds
  <2>4. ASSUME NEW i \in 1..Len(list)
        PROVE  /\ list'[i] \in Item /\ PointsAs(query.kind, list[i])'
               /\ list'[i].id = list[i].id /\ list'[i].object = list[i].object
    <3> DEFINE new == list'[i]
    <3>1. Moved(query.kind, list[i], new) /\ PointsAs(query.kind, list[i]) /\ list[i] \in Item
      BY <2>1, <2>2, <2>3 DEF ReadInOrder
    <3>2. PICK kind, old, item : kind = query.kind /\ old = list[i] /\ item = new
      OBVIOUS
    <3>3. item \in Item /\ PointsAs(kind, item)' /\ item.id = old.id /\ item.object = old.object
      BY <1>1, <2>1, <3>1, <3>2, MovedPoints DEF RemoteInv
    <3>4. query' = query
      BY <1>2
    <3>5. PointsAs(query.kind, list[i])'
      BY <3>2, <3>3, <3>4 DEF PointsAs, LiveLinks
    <3> QED BY <3>2, <3>3, <3>5
  <2>5. list' \in Seq(Item) /\ Len(list') = Len(list)
    <3>1. list' \in [1..Len(list) -> Item]
      BY <2>3, <2>4
    <3> QED BY <2>2, <3>1
  <2>6. list' # Nil
    BY <2>5, NoObjectAssumption
  <2>7. got \in Seq(Shown) /\ wire \in Seq(Shown) /\ Len(got) \in Nat /\ Len(wire) \in Nat
    BY LenProperties DEF RemoteInv, ReaderInv
  <2>8. ReadInOrder'
    <3>1. curIdx \in 0..Len(list) /\ Len(got) + Len(wire) <= curIdx
      BY <2>1 DEF ReadInOrder
    <3>2. /\ \A i \in 1..Len(got) : i \in 1..Len(list)
          /\ \A i \in 1..Len(wire) : Len(got) + i \in 1..Len(list)
      BY <2>2, <2>7, <3>1
    <3>3. /\ \A i \in 1..Len(got) : SameAs(query.kind, list[i], got[i])
          /\ \A i \in 1..Len(wire) : SameAs(query.kind, list[Len(got) + i], wire[i])
      BY <2>1 DEF ReadInOrder
    <3>4. /\ \A i \in 1..Len(got) : SameAs(query.kind, list'[i], got[i])
          /\ \A i \in 1..Len(wire) : SameAs(query.kind, list'[Len(got) + i], wire[i])
      <4>1. \A i \in 1..Len(list) : \A new :
                SameAs(query.kind, list[i], new) => SameAs(query.kind, list'[i], new)
        BY <2>4 DEF SameAs
      <4> QED BY <3>2, <3>3, <4>1
    <3>5. /\ \A i \in 1..Len(got') : SameAs(query.kind, list[i], got[i])'
          /\ \A i \in 1..Len(wire') : SameAs(query.kind, list[Len(got) + i], wire[i])'
      <4>1. got' = got /\ wire' = wire /\ query' = query
        BY <1>2
      <4> QED BY <3>4, <4>1 DEF SameAs
    <3>6. \A i \in 1..Len(list') : PointsAs(query.kind, list[i])'
      BY <2>4, <2>5
    <3> QED BY <1>2, <2>1, <2>5, <3>5, <3>6 DEF ReadInOrder
  <2> QED BY <1>1, <1>2, <1>4, <2>6, <2>8 DEF RemoteInv, ReaderInv
<1> QED BY <1>3, <1>4

(* A step of the readers leaves the graph alone.                           *)
LEMMA GraphKept ==
    ASSUME MapsInv, UNCHANGED vars
    PROVE  /\ MapsInv'
           /\ \A kind, item : PointsAs(kind, item) => PointsAs(kind, item)'
<1>1. MapsInv'
  BY MapsSame
<1>2. links' = links /\ edges' = edges
  BY DEF vars
<1> QED BY <1>1, <1>2 DEF PointsAs, LiveLinks

LEMMA ListMade ==
    ASSUME RemoteInv, NEW remote \in BOOLEAN, NEW q \in Query(remote), list = Nil,
           list' \in Listed(q), query' = Made(q), UNCHANGED <<vars, streamVars, curIdx, got, outcome>>
    PROVE  /\ ReadInOrder' /\ MapsInv' /\ list' # Nil
           /\ query' # Nil /\ query'.kind \in Kinds /\ query'.remote = remote
<1>1. /\ q.kind \in Kinds /\ q.range \subseteq LinkID
      /\ query' \in [remote : BOOLEAN, kind : Kinds] /\ query'.kind = q.kind /\ query'.remote = remote
  BY RangesAssumption DEF Query, Made
<1>2. MapsInv' /\ \A kind, item : PointsAs(kind, item) => PointsAs(kind, item)'
  BY GraphKept DEF RemoteInv
<1>3. list' \in Seq(Item) /\ list' # Nil /\ \A i \in 1..Len(list') : PointsAs(q.kind, list'[i])
  BY <1>1, ListedPoints DEF RemoteInv
<1>4. \A i \in 1..Len(list') : PointsAs(query.kind, list[i])'
  BY <1>1, <1>2, <1>3 DEF PointsAs
<1>5. NothingRead /\ UNCHANGED <<wire, status, cancelled>>
  BY DEF RemoteInv, ReaderInv, streamVars
<1>6. Len(list') \in Nat /\ Len(<<>>) = 0
  BY <1>3, LenProperties
<1>7. ReadInOrder'
  BY <1>3, <1>4, <1>5, <1>6 DEF ReadInOrder, NothingRead
<1>8. query' # Nil
  BY <1>1, NoObjectAssumption
<1> QED BY <1>1, <1>2, <1>3, <1>7, <1>8

LEMMA LocalQueryInv ==
    ASSUME RemoteInv, NEW q \in Query(FALSE), LocalQuery(q)
    PROVE  RemoteInv'
<1>1. /\ query = Nil /\ query' = Made(q) /\ list' \in Listed(q)
      /\ UNCHANGED <<vars, streamVars, curIdx, got, outcome>>
      /\ Unasked /\ NothingRead /\ list = Nil
  BY DEF LocalQuery, RemoteInv, ReaderInv, Unasked
<1>2. /\ ReadInOrder' /\ MapsInv' /\ list' # Nil
      /\ query' # Nil /\ query'.kind \in Kinds /\ query'.remote = FALSE
  BY <1>1, ListMade
<1>3. UNCHANGED <<handler, wire, status, cancelled, got, outcome>>
  BY <1>1 DEF streamVars
<1> QED BY <1>1, <1>2, <1>3 DEF RemoteInv, ReaderInv, Unasked, NothingRead

LEMMA ServerQueryInv ==
    ASSUME RemoteInv, ServerQuery
    PROVE  RemoteInv'
<1>1. /\ query \in Query(TRUE) /\ query' = Made(query) /\ list' \in Listed(query) /\ list = Nil
      /\ UNCHANGED <<vars, streamVars, curIdx, got, outcome>>
  BY DEF ServerQuery, RemoteInv, ReaderInv
<1>2. /\ ReadInOrder' /\ MapsInv' /\ list' # Nil
      /\ query' # Nil /\ query'.kind \in Kinds /\ query'.remote = TRUE
  BY <1>1, ListMade
<1>3. UNCHANGED <<handler, wire, status, cancelled, got, outcome>>
  BY <1>1 DEF streamVars
<1> QED BY <1>2, <1>3 DEF RemoteInv, ReaderInv

LEMMA ClientQueryInv ==
    ASSUME RemoteInv, NEW q \in Query(TRUE), ClientQuery(q)
    PROVE  RemoteInv'
<1>1. /\ query = Nil /\ UNCHANGED <<vars, list, curIdx, got, wire, status, cancelled>>
      /\ Unasked /\ NothingRead /\ list = Nil
      /\ \/ query' = q /\ outcome' = outcome /\ handler' = "running"
         \/ outcome' = "error" /\ query' = Made(q) /\ handler' = handler
  BY DEF ClientQuery, Call, streamVars, RemoteInv, ReaderInv, Unasked
<1>2. MapsInv'
  BY <1>1, GraphKept DEF RemoteInv
<1>3. q.kind \in Kinds /\ q.remote = TRUE /\ Made(q) \in [remote : BOOLEAN, kind : Kinds]
      /\ Made(q).kind = q.kind /\ Made(q).remote = TRUE
  BY DEF Query, Made
<1>4. query' # Nil /\ query'.kind \in Kinds /\ query'.remote = TRUE
  BY <1>1, <1>3, NoObjectAssumption
<1> QED BY <1>1, <1>2, <1>4 DEF RemoteInv, ReaderInv, Unasked, NothingRead

(* One more object is read, or sent.                                       *)
LEMMA LocalNextInv ==
    ASSUME RemoteInv, LocalNext
    PROVE  RemoteInv'
<1>1. /\ query # Nil /\ ~query.remote /\ list # Nil /\ query.kind \in Kinds /\ ReadInOrder
      /\ wire = <<>> /\ cancelled = FALSE /\ status = "open" /\ handler = "none"
      /\ got \in Seq(Shown) /\ MapsInv
      /\ UNCHANGED <<vars, handler, wire, status, cancelled, query, list>>
  BY DEF LocalNext, streamVars, RemoteInv, ReaderInv
<1>2. MapsInv' /\ \A kind, item : PointsAs(kind, item) => PointsAs(kind, item)'
  BY <1>1, GraphKept
<1>3. /\ list \in Seq(Item) /\ Len(list) \in Nat /\ Len(got) \in Nat /\ Len(<<>>) = 0
      /\ curIdx \in 0..Len(list) /\ Len(got) = curIdx
      /\ \A i \in 1..Len(list) : list[i] \in Item
  <2>1. list \in Seq(Item) /\ curIdx \in 0..Len(list)
        /\ (~cancelled /\ status # "error" => Len(got) + Len(wire) = curIdx)
    BY <1>1 DEF ReadInOrder
  <2>2. Len(list) \in Nat /\ Len(got) \in Nat /\ \A i \in 1..Len(list) : list[i] \in Item
    BY <1>1, <2>1, LenProperties, ElementOfSeq
  <2> QED BY <1>1, <2>1, <2>2
<1>4. \A i \in 1..Len(list') : PointsAs(query.kind, list[i])'
  BY <1>1, <1>2 DEF ReadInOrder, PointsAs
<1>5. CASE /\ curIdx < Len(list) /\ curIdx' = curIdx + 1
           /\ got' = Append(got, Current(list[curIdx + 1])) /\ outcome' = outcome
  <2>1. curIdx + 1 \in 1..Len(list)
    BY <1>3, <1>5
  <2>2. Current(list[curIdx + 1]) \in Shown
        /\ SameAs(query.kind, list[curIdx + 1], Current(list[curIdx + 1]))
    BY <1>1, <1>3, <2>1, CurrentShown DEF ReadInOrder
  <2>3. /\ got' \in Seq(Shown) /\ Len(got') = Len(got) + 1
        /\ \A i \in 1..Len(got) : got'[i] = got[i]
        /\ got'[Len(got) + 1] = Current(list[curIdx + 1])
    BY <1>1, <1>5, <2>2, AppendProperties
  <2>4. \A i \in 1..Len(got') : SameAs(query.kind, list[i], got'[i])
    <3>1. \A i \in 1..Len(got') : i \in 1..Len(got) \/ i = Len(got) + 1
      BY <1>3, <2>3
    <3>2. \A i \in 1..Len(got) : SameAs(query.kind, list[i], got[i])
      BY <1>1 DEF ReadInOrder
    <3> QED BY <1>3, <2>2, <2>3, <3>1, <3>2
  <2>5. \A i \in 1..Len(got') : SameAs(query.kind, list[i], got[i])'
    BY <1>1, <2>4 DEF SameAs
  <2>6. curIdx' \in 0..Len(list) /\ Len(got') + Len(wire') = curIdx'
        /\ \A i \in 1..Len(wire') : FALSE
    BY <1>1, <1>3, <1>5, <2>1, <2>3
  <2>7. outcome # "end"
    BY DEF LocalNext
  <2>8. ReadInOrder'
    BY <1>1, <1>3, <1>4, <1>5, <2>5, <2>6, <2>7 DEF ReadInOrder
  <2> QED BY <1>1, <1>2, <2>3, <2>8 DEF RemoteInv, ReaderInv
<1>6. CASE curIdx = Len(list) /\ outcome' = "end" /\ UNCHANGED <<curIdx, got>>
  <2>1. ReadInOrder'
    <3>1. /\ \A i \in 1..Len(got') : SameAs(query.kind, list[i], got[i])'
          /\ \A i \in 1..Len(wire') : SameAs(query.kind, list[Len(got) + i], wire[i])'
      BY <1>1, <1>6 DEF ReadInOrder, SameAs
    <3> QED BY <1>1, <1>3, <1>4, <1>6, <3>1 DEF ReadInOrder
  <2> QED BY <1>1, <1>2, <1>6, <2>1 DEF RemoteInv, ReaderInv
<1> QED BY <1>5, <1>6 DEF LocalNext

(* What is known while a list is read, and what remains of it after a step *)
(* that reads or sends nothing new.                                        *)
LEMMA Reading ==
    ASSUME RemoteInv, list # Nil
    PROVE  /\ query # Nil /\ query.kind \in Kinds /\ query.remote \in BOOLEAN
           /\ list \in Seq(Item) /\ Len(list) \in Nat
           /\ got \in Seq(Shown) /\ wire \in Seq(Shown) /\ Len(got) \in Nat /\ Len(wire) \in Nat
           /\ curIdx \in 0..Len(list) /\ Len(got) + Len(wire) <= curIdx
           /\ \A i \in 1..Len(list) : list[i] \in Item /\ PointsAs(query.kind, list[i])
           /\ \A i \in 1..Len(got) : SameAs(query.kind, list[i], got[i])
           /\ \A i \in 1..Len(wire) : SameAs(query.kind, list[Len(got) + i], wire[i])
           /\ ~cancelled /\ status # "error" => Len(got) + Len(wire) = curIdx
           /\ status = "ok" => curIdx = Len(list)
           /\ outcome = "end" => Len(got) = Len(list)
<1>1. query # Nil /\ query.kind \in Kinds /\ query.remote \in BOOLEAN /\ ReadInOrder
      /\ got \in Seq(Shown) /\ wire \in Seq(Shown)
  BY DEF RemoteInv, ReaderInv, Unasked
<1>2. Len(got) \in Nat /\ Len(wire) \in Nat
  BY <1>1, LenProperties
<1>3. list \in Seq(Item)
  BY <1>1 DEF ReadInOrder
<1>4. Len(list) \in Nat /\ \A i \in 1..Len(list) : list[i] \in Item
  BY <1>3, LenProperties, ElementOfSeq
<1> QED BY <1>1, <1>2, <1>3, <1>4 DEF ReadInOrder

LEMMA StillReading ==
    ASSUME RemoteInv, list # Nil, UNCHANGED <<vars, query, list>>,
           got' \in Seq(Shown), wire' \in Seq(Shown),
           curIdx' \in 0..Len(list), Len(got') + Len(wire') <= curIdx',
           \A i \in 1..Len(got') : SameAs(query.kind, list[i], got'[i]),
           \A i \in 1..Len(wire') : SameAs(query.kind, list[Len(got') + i], wire'[i]),
           ~cancelled' /\ status' # "error" => Len(got') + Len(wire') = curIdx',
           status' = "ok" => curIdx' = Len(list),
           outcome' = "end" => Len(got') = Len(list),
           cancelled' \in BOOLEAN,
           ~query.remote => UNCHANGED <<handler, wire, cancelled, status>>
    PROVE  RemoteInv'
<1>1. MapsInv' /\ \A kind, item : PointsAs(kind, item) => PointsAs(kind, item)'
  BY GraphKept DEF RemoteInv
<1>2. list \in Seq(Item) /\ query # Nil /\ query.kind \in Kinds /\ query.remote \in BOOLEAN
      /\ \A i \in 1..Len(list) : PointsAs(query.kind, list[i])
  BY Reading
<1>3. \A i \in 1..Len(list') : PointsAs(query.kind, list[i])'
  <2>1. list' = list /\ query' = query
    OBVIOUS
  <2>2. ASSUME NEW i \in 1..Len(list) PROVE PointsAs(query.kind, list[i])'
    <3>1. PICK kind, item : kind = query.kind /\ item = list[i]
      OBVIOUS
    <3>2. PointsAs(kind, item)'
      BY <1>1, <1>2, <3>1
    <3> QED BY <2>1, <3>1, <3>2 DEF PointsAs
  <2> QED BY <2>1, <2>2
<1>4. /\ \A i \in 1..Len(got') : SameAs(query.kind, list[i], got[i])'
      /\ \A i \in 1..Len(wire') : SameAs(query.kind, list[Len(got) + i], wire[i])'
  BY DEF SameAs
<1>5. ReadInOrder'
  BY <1>2, <1>3, <1>4 DEF ReadInOrder
<1>6. ~query.remote => /\ handler' = "none" /\ wire' = <<>> /\ cancelled' = FALSE
                       /\ status' = "open"
  BY <1>2 DEF RemoteInv, ReaderInv
<1> QED BY <1>1, <1>2, <1>5, <1>6 DEF RemoteInv, ReaderInv

LEMMA ServerSendInv ==
    ASSUME RemoteInv, ServerSend
    PROVE  RemoteInv'
<1>1. /\ handler = "running" /\ list # Nil /\ curIdx < Len(list)
      /\ UNCHANGED <<vars, query, list, got, outcome>>
  BY DEF ServerSend
<1>2. query.remote
  BY <1>1, Reading DEF RemoteInv, ReaderInv
<1>3. CASE Send(Current(list[curIdx + 1])) /\ curIdx' = curIdx + 1
  <2>1. /\ ~cancelled /\ status # "error" /\ UNCHANGED <<handler, status, cancelled>>
        /\ wire' = Append(wire, Current(list[curIdx + 1]))
    BY <1>3, Reading, <1>1 DEF Send, Gone, RemoteInv, ReaderInv
  <2>2. Len(got) + Len(wire) = curIdx /\ Len(got) \in Nat /\ Len(wire) \in Nat /\ Len(list) \in Nat
        /\ wire \in Seq(Shown) /\ got \in Seq(Shown) /\ curIdx \in 0..Len(list)
    BY <1>1, <2>1, Reading
  <2>3. curIdx + 1 \in 1..Len(list) /\ curIdx' \in 0..Len(list)
    BY <1>1, <1>3, <2>2
  <2>4. Current(list[curIdx + 1]) \in Shown
        /\ SameAs(query.kind, list[curIdx + 1], Current(list[curIdx + 1]))
    BY <1>1, <2>3, Reading, CurrentShown DEF RemoteInv
  <2>5. /\ wire' \in Seq(Shown) /\ Len(wire') = Len(wire) + 1
        /\ \A i \in 1..Len(wire) : wire'[i] = wire[i]
        /\ wire'[Len(wire) + 1] = Current(list[curIdx + 1])
    BY <2>1, <2>2, <2>4, AppendProperties
  <2>6. \A i \in 1..Len(wire') : SameAs(query.kind, list[Len(got) + i], wire'[i])
    <3>1. \A i \in 1..Len(wire') : i \in 1..Len(wire) \/ (i = Len(wire) + 1 /\ Len(got) + i = curIdx + 1)
      BY <2>2, <2>5
    <3>2. \A i \in 1..Len(wire) : SameAs(query.kind, list[Len(got) + i], wire[i])
      BY <1>1, Reading
    <3> QED BY <2>4, <2>5, <3>1, <3>2
  <2>7. Len(got') + Len(wire') = curIdx' /\ curIdx' <= curIdx'
    BY <1>1, <1>3, <2>2, <2>5
  <2>8. status # "ok"
    BY <1>1, <2>2, Reading
  <2>9. /\ \A i \in 1..Len(got') : SameAs(query.kind, list[i], got'[i])
        /\ outcome' = "end" => Len(got') = Len(list)
        /\ cancelled \in BOOLEAN
    BY <1>1, Reading DEF RemoteInv, ReaderInv
  <2> QED BY <1>1, <1>2, <2>1, <2>2, <2>3, <2>5, <2>6, <2>7, <2>8, <2>9, StillReading
<1>4. CASE SendFails /\ UNCHANGED curIdx
  <2>1. UNCHANGED <<wire, status, cancelled, curIdx>>
    BY <1>4 DEF SendFails
  <2> QED BY <1>1, <1>2, <2>1, Reading, StillReading DEF RemoteInv, ReaderInv
<1> QED BY <1>3, <1>4 DEF ServerSend

LEMMA ServerReturnInv ==
    ASSUME RemoteInv, ServerReturn
    PROVE  RemoteInv'
<1>1. /\ handler = "running" /\ list # Nil /\ curIdx = Len(list)
      /\ UNCHANGED <<vars, query, list, curIdx, got, outcome, wire, cancelled>>
      /\ status' = IF status = "open" THEN "ok" ELSE status
  BY DEF ServerReturn, Finish, readerVars
<1>2. query.remote
  BY <1>1, Reading DEF RemoteInv, ReaderInv
<1> QED BY <1>1, <1>2, Reading, StillReading DEF RemoteInv, ReaderInv

LEMMA ClientNextInv ==
    ASSUME RemoteInv, ClientNext
    PROVE  RemoteInv'
<1>1. /\ query # Nil /\ query.remote /\ outcome = "none"
      /\ UNCHANGED <<vars, query, list, curIdx>>
  BY DEF ClientNext
<1>2. CASE Receive /\ got' = Append(got, Head(wire)) /\ UNCHANGED outcome
  <2>1. /\ wire # <<>> /\ ~cancelled /\ wire' = Tail(wire)
        /\ UNCHANGED <<handler, status, cancelled>>
    BY <1>2 DEF Receive
  <2>2. list # Nil
    BY <2>1 DEF RemoteInv, ReaderInv, NothingRead
  <2>3. /\ got \in Seq(Shown) /\ wire \in Seq(Shown) /\ Len(got) \in Nat /\ Len(wire) \in Nat
        /\ curIdx \in 0..Len(list) /\ Len(got) + Len(wire) <= curIdx /\ Len(list) \in Nat
    BY <2>2, Reading
  <2>4. /\ Head(wire) \in Shown /\ Head(wire) = wire[1]
        /\ wire' \in Seq(Shown) /\ Len(wire') = Len(wire) - 1 /\ Len(wire) >= 1
        /\ \A i \in 1..Len(wire') : wire'[i] = wire[i + 1]
    BY <2>1, <2>3, HeadTailProperties, EmptySeq
  <2>5. /\ got' \in Seq(Shown) /\ Len(got') = Len(got) + 1
        /\ \A i \in 1..Len(got) : got'[i] = got[i]
        /\ got'[Len(got) + 1] = Head(wire)
    BY <1>2, <2>3, <2>4, AppendProperties
  <2>6. \A i \in 1..Len(wire) : SameAs(query.kind, list[Len(got) + i], wire[i])
    BY <2>2, Reading
  <2>7. \A i \in 1..Len(got') : SameAs(query.kind, list[i], got'[i])
    <3>1. \A i \in 1..Len(got') : i \in 1..Len(got) \/ i = Len(got) + 1
      BY <2>3, <2>5
    <3>2. \A i \in 1..Len(got) : SameAs(query.kind, list[i], got[i])
      BY <2>2, Reading
    <3>3. SameAs(query.kind, list[Len(got) + 1], wire[1])
      BY <2>3, <2>4, <2>6
    <3> QED BY <2>4, <2>5, <3>1, <3>2, <3>3
  <2>8. \A i \in 1..Len(wire') : SameAs(query.kind, list[Len(got') + i], wire'[i])
    <3> TAKE i \in 1..Len(wire')
    <3>1. i + 1 \in 1..Len(wire) /\ Len(got) + (i + 1) = Len(got') + i
      BY <2>3, <2>4, <2>5
    <3> QED BY <2>4, <2>6, <3>1
  <2>9. Len(got') + Len(wire') = Len(got) + Len(wire)
    BY <2>3, <2>4, <2>5
  <2>10. /\ ~cancelled /\ status # "error" => Len(got) + Len(wire) = curIdx
         /\ status = "ok" => curIdx = Len(list)
         /\ cancelled \in BOOLEAN
    BY <2>2, Reading DEF RemoteInv, ReaderInv
  <2> QED BY <1>1, <1>2, <2>1, <2>2, <2>3, <2>4, <2>5, <2>7, <2>8, <2>9, <2>10, StillReading
<1>3. CASE (AtEOF \/ AtError) /\ Cancel /\ outcome' = OutcomeOf /\ UNCHANGED got
  <2>1. wire' = <<>> /\ cancelled' = TRUE /\ UNCHANGED <<handler, status>>
    BY <1>3 DEF Cancel
  <2>2. outcome' = "end" => wire = <<>> /\ status = "ok" /\ ~cancelled
    BY <1>3 DEF OutcomeOf, AtEOF
  <2>3. CASE list = Nil
    <3>1. outcome' # "end" /\ NothingRead
      BY <2>2, <2>3 DEF RemoteInv, ReaderInv, NothingRead
    <3>2. MapsInv'
      BY <1>1, GraphKept DEF RemoteInv
    <3> QED BY <1>1, <1>3, <2>1, <2>3, <3>1, <3>2 DEF RemoteInv, ReaderInv, NothingRead, Unasked
  <2>4. CASE list # Nil
    <3>1. /\ got \in Seq(Shown) /\ Len(got) \in Nat /\ Len(wire) \in Nat /\ Len(list) \in Nat
          /\ curIdx \in 0..Len(list) /\ Len(got) + Len(wire) <= curIdx
          /\ \A i \in 1..Len(got) : SameAs(query.kind, list[i], got[i])
          /\ (~cancelled /\ status # "error" => Len(got) + Len(wire) = curIdx)
          /\ (status = "ok" => curIdx = Len(list))
      BY <2>4, Reading
    <3>2. wire' \in Seq(Shown) /\ Len(wire') = 0 /\ \A i \in 1..Len(wire') : FALSE
      BY <2>1, EmptySeq
    <3>3. outcome' = "end" => Len(got) = Len(list)
      <4> SUFFICES ASSUME outcome' = "end" PROVE Len(got) = Len(list)
        OBVIOUS
      <4>1. Len(wire) = 0 /\ status # "error"
        BY <2>2, EmptySeq
      <4> QED BY <2>2, <3>1, <4>1
    <3>4. Len(got') + Len(wire') <= curIdx'
      BY <1>1, <1>3, <3>1, <3>2
    <3> QED BY <1>1, <1>3, <2>1, <2>4, <3>1, <3>2, <3>3, <3>4, StillReading
  <2> QED BY <2>3, <2>4
<1> QED BY <1>2, <1>3 DEF ClientNext

(* The client stops, or the connection is lost, with some of what is on    *)
(* the way.                                                                *)
LEMMA ClientCloseInv ==
    ASSUME RemoteInv, ClientClose
    PROVE  RemoteInv'
<1>1. /\ query # Nil /\ query.remote /\ outcome' = "closed"
      /\ UNCHANGED <<vars, query, list, curIdx, got, handler, status>>
      /\ wire' = <<>> /\ cancelled' = TRUE
  BY DEF ClientClose, CancelCall, Cancel
<1>2. CASE list = Nil
  <2>1. MapsInv'
    BY <1>1, GraphKept DEF RemoteInv
  <2> QED BY <1>1, <1>2, <2>1 DEF RemoteInv, ReaderInv, NothingRead, Unasked
<1>3. CASE list # Nil
  <2>1. wire' \in Seq(Shown) /\ Len(wire') = 0 /\ \A i \in 1..Len(wire') : FALSE
    BY <1>1, EmptySeq
  <2>2. /\ got \in Seq(Shown) /\ Len(got) \in Nat /\ Len(wire) \in Nat /\ Len(list) \in Nat
        /\ curIdx \in 0..Len(list) /\ Len(got) + Len(wire) <= curIdx
        /\ \A i \in 1..Len(got) : SameAs(query.kind, list[i], got[i])
        /\ (status = "ok" => curIdx = Len(list))
    BY <1>3, Reading
  <2>3. Len(got') + Len(wire') <= curIdx'
    BY <1>1, <2>1, <2>2
  <2> QED BY <1>1, <1>3, <2>1, <2>2, <2>3, StillReading
<1> QED BY <1>2, <1>3

LEMMA LostInv ==
    ASSUME RemoteInv, Lost
    PROVE  RemoteInv'
<1>1. /\ query # Nil /\ query.remote /\ outcome = "none" /\ status' = "error"
      /\ UNCHANGED <<vars, query, list, curIdx, got, outcome, handler, cancelled>>
      /\ \E n \in 0..Len(wire) : wire' = SubSeq(wire, 1, n)
  BY DEF Lost, Disconnect, readerVars
<1>2. PICK n \in 0..Len(wire) : wire' = SubSeq(wire, 1, n)
  BY <1>1
<1>3. wire \in Seq(Shown) /\ Len(wire) \in Nat /\ cancelled \in BOOLEAN
  BY LenProperties DEF RemoteInv, ReaderInv
<1>4. wire' \in Seq(Shown) /\ Len(wire') = n /\ \A i \in 1..n : wire'[i] = wire[i]
  <2>1. \A i \in 1..n : i \in 1..Len(wire) /\ wire[i] \in Shown
    BY <1>3, ElementOfSeq
  <2> QED BY <1>2, <1>3, <2>1, SubSeqProperties
<1>5. CASE list = Nil
  <2>1. MapsInv'
    BY <1>1, GraphKept DEF RemoteInv
  <2>2. NothingRead /\ Len(<<>>) = 0
    BY <1>5, EmptySeq DEF RemoteInv, ReaderInv
  <2>3. wire' = <<>>
    BY <1>2, <1>4, <2>2, EmptySeq DEF NothingRead
  <2> QED BY <1>1, <1>5, <2>1, <2>2, <2>3, <1>4 DEF RemoteInv, ReaderInv, NothingRead
<1>6. CASE list # Nil
  <2>1. /\ got \in Seq(Shown) /\ Len(got) \in Nat /\ Len(list) \in Nat
        /\ curIdx \in 0..Len(list) /\ Len(got) + Len(wire) <= curIdx
        /\ \A i \in 1..Len(got) : SameAs(query.kind, list[i], got[i])
        /\ \A i \in 1..Len(wire) : SameAs(query.kind, list[Len(got) + i], wire[i])
    BY <1>6, Reading
  <2>2. Len(got') + Len(wire') <= curIdx'
    BY <1>1, <1>3, <1>4, <2>1
  <2>3. \A i \in 1..Len(wire') : SameAs(query.kind, list[Len(got') + i], wire'[i])
    <3>1. got' = got /\ Len(wire') = n /\ 1..n \subseteq 1..Len(wire)
      BY <1>1, <1>3, <1>4
    <3>2. \A i \in 1..n : wire'[i] = wire[i]
      BY <1>4
    <3> QED BY <2>1, <3>1, <3>2
  <2>4. /\ UNCHANGED <<vars, query, list, curIdx, got, outcome, handler, cancelled>>
        /\ status' = "error" /\ query.remote
    BY <1>1
  <2>5. /\ got' \in Seq(Shown) /\ wire' \in Seq(Shown) /\ curIdx' \in 0..Len(list)
        /\ \A i \in 1..Len(got') : SameAs(query.kind, list[i], got'[i])
    BY <1>4, <2>1, <2>4
  <2>6. outcome' = "end" => Len(got') = Len(list)
    BY <1>6, <2>4, Reading
  <2>7. /\ ~cancelled' /\ status' # "error" => Len(got') + Len(wire') = curIdx'
        /\ status' = "ok" => curIdx' = Len(list)
        /\ cancelled' \in BOOLEAN
        /\ ~query.remote => UNCHANGED <<handler, wire, cancelled, status>>
    BY <1>3, <2>4
  <2> QED BY <1>6, <2>2, <2>3, <2>4, <2>5, <2>6, <2>7, StillReading
<1> QED BY <1>5, <1>6
-----------------------------------------------------------------------------
LEMMA RemoteInit == InitRemote => RemoteInv
<1> SUFFICES ASSUME InitRemote PROVE RemoteInv
  OBVIOUS
<1>1. MapsInv
  BY MapsInit DEF InitRemote
<1>2. /\ query = Nil /\ list = Nil /\ curIdx = 0 /\ got = <<>> /\ wire = <<>>
      /\ outcome = "none" /\ handler = "none" /\ status = "open" /\ cancelled = FALSE
  BY DEF InitRemote, NoStream
<1>3. <<>> \in Seq(Shown)
  BY EmptySeq
<1> QED BY <1>1, <1>2, <1>3 DEF RemoteInv, ReaderInv, Unasked, NothingRead

LEMMA RemoteSame ==
    ASSUME RemoteInv, UNCHANGED allVars
    PROVE  RemoteInv'
<1>1. /\ UNCHANGED vars
      /\ UNCHANGED <<query, list, curIdx, got, outcome, handler, wire, status, cancelled>>
  BY DEF allVars, readerVars, streamVars
<1>2. MapsInv' /\ \A kind, item : PointsAs(kind, item) => PointsAs(kind, item)'
  BY <1>1, GraphKept DEF RemoteInv
<1>3. CASE list = Nil
  BY <1>1, <1>2, <1>3 DEF RemoteInv, ReaderInv, NothingRead, Unasked
<1>4. CASE list # Nil
  <2>1. /\ got' \in Seq(Shown) /\ wire' \in Seq(Shown) /\ cancelled' \in BOOLEAN
        /\ curIdx' \in 0..Len(list) /\ Len(got') + Len(wire') <= curIdx'
        /\ (\A i \in 1..Len(got') : SameAs(query.kind, list[i], got'[i]))
        /\ (\A i \in 1..Len(wire') : SameAs(query.kind, list[Len(got') + i], wire'[i]))
        /\ (~cancelled' /\ status' # "error" => Len(got') + Len(wire') = curIdx')
        /\ (status' = "ok" => curIdx' = Len(list))
        /\ (outcome' = "end" => Len(got') = Len(list))
    BY <1>1, <1>4, Reading DEF RemoteInv, ReaderInv
  <2> QED BY <1>1, <1>4, <2>1, StillReading
<1> QED BY <1>3, <1>4

LEMMA RemoteStep ==
    ASSUME RemoteInv, [NextRemote]_allVars
    PROVE  RemoteInv'
<1>1. CASE Serve
  BY <1>1, ServerQueryInv, ServerSendInv, ServerReturnInv DEF Serve
<1>2. CASE Read
  BY <1>2, ClientNextInv, ClientCloseInv DEF Read
<1>3. CASE Write \/ LocalNext \/ Lost
  BY <1>3, WriteInv, LocalNextInv, LostInv
<1>4. ASSUME NEW q \in Query(FALSE), LocalQuery(q) PROVE RemoteInv'
  BY <1>4, LocalQueryInv
<1>5. ASSUME NEW q \in Query(TRUE), ClientQuery(q) PROVE RemoteInv'
  BY <1>5, ClientQueryInv
<1>6. CASE UNCHANGED allVars
  BY <1>6, RemoteSame
<1> QED BY <1>1, <1>2, <1>3, <1>4, <1>5, <1>6 DEF NextRemote

(* What an iterator points to, what is on the wire and what its reader has *)
(* been given belong together at any time, whoever writes to the graph.    *)
THEOREM ReadersInductive == SpecRemote => []RemoteInv
BY RemoteInit, RemoteStep, PTL DEF SpecRemote

(* A reader, of the same process or a client of the server, is given what  *)
(* its query selected, in order and not older than it was then, and all of *)
(* it if it reaches the end without an error: whatever is written to the   *)
(* graph or happens to the connection in between.                          *)
THEOREM ReadersGetTheSelection == SpecRemote => []ReadsSelection
<1>1. RemoteInv => ReadsSelection
  <2> SUFFICES ASSUME RemoteInv, list # Nil
               PROVE  /\ Len(got) <= Len(list)
                      /\ \A i \in DOMAIN got : SameObject(list[i], got[i])
                      /\ outcome = "end" => Len(got) = Len(list)
    BY DEF ReadsSelection
  <2>1. /\ got \in Seq(Shown) /\ Len(got) \in Nat /\ Len(wire) \in Nat /\ Len(list) \in Nat
        /\ curIdx \in 0..Len(list) /\ Len(got) + Len(wire) <= curIdx
        /\ (\A i \in 1..Len(got) : SameAs(query.kind, list[i], got[i]))
        /\ (outcome = "end" => Len(got) = Len(list))
    BY Reading
  <2>2. Len(got) <= Len(list)
    BY <2>1
  <2>3. DOMAIN got = 1..Len(got)
    BY <2>1, LenProperties
  <2> QED BY <2>1, <2>2, <2>3 DEF SameObject, SameAs
<1> QED BY <1>1, ReadersInductive, PTL

(* Queries, their readers and the server's handlers only read: a graph     *)
(* with readers and clients is a graph.                                    *)
THEOREM ReadersOnlyRead == SpecRemote => Spec
<1>1. InitRemote => Init
  BY DEF InitRemote
<1>2. [NextRemote]_allVars => [Next]_vars
  BY DEF NextRemote, allVars, Write, LocalQuery, LocalNext, ClientQuery, Serve, ServerQuery,
         ServerSend, ServerReturn, Read, ClientNext, ClientClose, Lost
<1> QED BY <1>1, <1>2, PTL DEF SpecRemote, Spec
=============================================================================
