---------------------------- MODULE InMemoryGraph ----------------------------
(***************************************************************************)
(* The in-memory link graph of src/graph/store/memory/memory.go: four maps *)
(* under one mutex, so that an operation is one step.  linkURLIndex holds  *)
(* pointers to the objects of the map links; an id stands for the pointer. *)
(***************************************************************************)
EXTENDS Naturals, Sequences

CONSTANTS URL, LinkID, EdgeID, MaxTime,
          Nil          \* no value under a key

ASSUME NilAssumption == Nil \notin LinkID \union URL
ASSUME TimeAssumption == MaxTime \in Nat

Time == 0..MaxTime

VARIABLES links,          \* links[id]: the link object, or NoLink
          edges,          \* edges[id]: the edge object, or NoEdge
          linkURLIndex,   \* linkURLIndex[url]: id of the link object, or NoLink
          linkEdgeMap,    \* linkEdgeMap[id]: ids of the edges that leave the link
          now             \* what time.Now() reads

vars == <<links, edges, linkURLIndex, linkEdgeMap, now>>

Link == [url : URL, retrieved : Nat]
Edge == [src : LinkID, dst : LinkID, updated : Nat]

NoLink == [url |-> Nil, retrieved |-> 0]
NoEdge == [src |-> Nil, dst |-> Nil, updated |-> 0]

(* NewInMemoryGraph.                                                       *)
Init ==
    /\ links = [id \in LinkID |-> NoLink]
    /\ edges = [id \in EdgeID |-> NoEdge]
    /\ linkURLIndex = [url \in URL |-> Nil]
    /\ linkEdgeMap = [id \in LinkID |-> <<>>]
    /\ now = 0

(* The timestamp that UpsertLink leaves in a known link.  Mutant: the new  *)
(* one even if it is older.                                                *)
KeptTimestampNew(original, new) == new
KeptTimestamp(original, new) == IF original > new THEN original ELSE new

UpsertLink(url, retrieved) ==
    /\ \/ /\ linkURLIndex[url] # Nil
          /\ links' = [links EXCEPT ![linkURLIndex[url]].retrieved = KeptTimestamp(@, retrieved)]
          /\ UNCHANGED linkURLIndex
       \/ /\ linkURLIndex[url] = Nil
          /\ \E id \in LinkID :
                /\ links[id] = NoLink
                /\ links' = [links EXCEPT ![id] = [url |-> url, retrieved |-> retrieved]]
                /\ linkURLIndex' = [linkURLIndex EXCEPT ![url] = id]
    /\ UNCHANGED <<edges, linkEdgeMap, now>>

(* Where src's edges to dst are in its edge list.                          *)
ExistingEdges(src, dst) ==
    {i \in DOMAIN linkEdgeMap[src] : edges[linkEdgeMap[src][i]].dst = dst}

(* UpsertEdge; unknown links are an error that changes nothing.            *)
UpsertEdge(src, dst) ==
    /\ links[src] # NoLink /\ links[dst] # NoLink
    /\ \/ \E i \in ExistingEdges(src, dst) :
             /\ \A j \in ExistingEdges(src, dst) : i <= j
             /\ edges' = [edges EXCEPT ![linkEdgeMap[src][i]].updated = now]
             /\ UNCHANGED linkEdgeMap
       \/ /\ ExistingEdges(src, dst) = {}
          /\ \E id \in EdgeID :
                /\ edges[id] = NoEdge
                /\ edges' = [edges EXCEPT ![id] = [src |-> src, dst |-> dst, updated |-> now]]
                /\ linkEdgeMap' = [linkEdgeMap EXCEPT ![src] = Append(@, id)]
    /\ UNCHANGED <<links, linkURLIndex, now>>

IsStale(id, before) == edges[id].updated < before

(* The edge list RemoveStaleEdges leaves.  Mutant: the old one, with the   *)
(* ids of the deleted edges.                                               *)
EdgesKeptAll(src, before) == linkEdgeMap[src]
EdgesKept(src, before) ==
    LET kept[n \in 0..Len(linkEdgeMap[src])] ==
            IF n = 0 THEN <<>>
            ELSE IF IsStale(linkEdgeMap[src][n], before) THEN kept[n - 1]
            ELSE Append(kept[n - 1], linkEdgeMap[src][n])
    IN  kept[Len(linkEdgeMap[src])]

RemoveStaleEdges(src, before) ==
    LET listed == {linkEdgeMap[src][i] : i \in DOMAIN linkEdgeMap[src]}
    IN  /\ edges' = [id \in EdgeID |->
                        IF id \in listed /\ IsStale(id, before) THEN NoEdge ELSE edges[id]]
        /\ linkEdgeMap' = [linkEdgeMap EXCEPT ![src] = EdgesKept(src, before)]
        /\ UNCHANGED <<links, linkURLIndex, now>>

Tick ==
    /\ now < MaxTime
    /\ now' = now + 1
    /\ UNCHANGED <<links, edges, linkURLIndex, linkEdgeMap>>

Next ==
    \/ \E url \in URL, t \in Time : UpsertLink(url, t)
    \/ \E src, dst \in LinkID : UpsertEdge(src, dst)
    \/ \E src \in LinkID, t \in Time : RemoveStaleEdges(src, t)
    \/ Tick

Spec == Init /\ [][Next]_vars
-----------------------------------------------------------------------------
(* The four maps agree: the URL index finds every link under its URL, and  *)
(* the edge list of a link names exactly the edges that leave it, each     *)
(* once.  UpsertEdge and Edges follow these references without a check.    *)
IndexesAgree ==
    /\ \A url \in URL, id \in LinkID :
          linkURLIndex[url] = id <=> links[id] # NoLink /\ links[id].url = url
    /\ \A src \in LinkID : \A i, j \in DOMAIN linkEdgeMap[src] :
          linkEdgeMap[src][i] = linkEdgeMap[src][j] => i = j
    /\ \A src \in LinkID, id \in EdgeID :
          (\E i \in DOMAIN linkEdgeMap[src] : linkEdgeMap[src][i] = id)
              <=> edges[id] # NoEdge /\ edges[id].src = src

(* The links and the edges that the maps hold, as rows of the tables.      *)
Tables == INSTANCE LinkStore WITH
    links <- {[id |-> id, url |-> links[id].url, retrieved |-> links[id].retrieved] :
                  id \in {x \in LinkID : links[x] # NoLink}},
    edges <- {[id |-> id, src |-> edges[id].src, dst |-> edges[id].dst,
               updated |-> edges[id].updated] : id \in {x \in EdgeID : edges[x] # NoEdge}}

(* The four maps under their mutex behave as the tables do: one row for a  *)
(* URL and for a pair of links, retrieval times that never go back, only   *)
(* edges of this page that are older than the given time removed.          *)
ImplementsTables == Tables!Spec
=============================================================================
