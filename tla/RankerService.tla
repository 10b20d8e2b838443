---------------------------- MODULE RankerService ----------------------------
(***************************************************************************)
(* A PageRank pass of src/service/ranker/ranker.go over a link store that  *)
(* crawlers and front ends go on changing: the links and then the edges    *)
(* are loaded by a query each, with the time the pass began as their       *)
(* filter, into a graph in memory; scores are computed and persisted.      *)
(*                                                                         *)
(* The other clients of the store may call any operation at any time.      *)
(* What the scores are, and the index they are written to, is left out.    *)
(*                                                                         *)
(* Three clocks are compared: a pass takes its filter from the ranker's    *)
(* own, the store stamps edges with its own, and links have the time that  *)
(* a crawler read.  When a pass begins the ranker's clock may be ahead of  *)
(* the store's, or behind it; a crawler's time may be any.                 *)
(***************************************************************************)
EXTENDS LinkStore, Integers

CONSTANT Leads    \* by how much the ranker's clock may be ahead of the store's

ASSUME TimeAssumption == MaxTime \in Nat
ASSUME LeadsAssumption == Leads \subseteq Int

VARIABLES rpc,          \* where Run is: at its timer, or at a step of updateGraphScores
          startAt,      \* the time the pass began, by the ranker's clock
          ranked,       \* the vertices of the ranker's graph
          rankedEdges,  \* its edges
          lead,         \* history: how far the ranker's clock was ahead then
          listed        \* history: the links of the store when they were loaded

rankVars == <<rpc, startAt, ranked, rankedEdges, lead, listed>>
allRankVars == <<vars, rankVars>>

Loaded == {"compute", "persist"}

TypeOKRanker ==
    /\ TypeOK
    /\ rpc \in {"timer", "links", "edges", "failed"} \union Loaded
    /\ startAt \in Nat /\ lead \in Int
    /\ ranked \subseteq LinkID
    /\ rankedEdges \subseteq ranked \X LinkID
    /\ listed \subseteq LinkID

InitRanker ==
    /\ Init
    /\ rpc = "timer"
    /\ startAt = 0
    /\ ranked = {}
    /\ rankedEdges = {}
    /\ lead = 0
    /\ listed = {}
-----------------------------------------------------------------------------
(* The timer fires on the leader; the time is the ranker's, which is never *)
(* the zero time; the graph is reset.                                      *)
BeginPass ==
    /\ rpc = "timer"
    /\ rpc' = "links"
    /\ lead' \in {d \in Leads : now + d > 0}
    /\ startAt' = now + lead'
    /\ ranked' = {}
    /\ rankedEdges' = {}
    /\ listed' = {}
    /\ UNCHANGED vars

(* ... AND retrieved_at < $3.                                              *)
Selected(row) == row.retrieved < startAt

LoadLinks ==
    /\ rpc = "links"
    /\ ranked' = {row.id : row \in {r \in links : Selected(r)}}
    /\ listed' = {row.id : row \in links}
    /\ rpc' = "edges"
    /\ UNCHANGED <<vars, startAt, rankedEdges, lead>>

(* ... AND updated_at < $3.  Mutant: every edge.                           *)
SelectedEdgeAny(row) == TRUE
SelectedEdge(row) == row.updated < startAt

(* AddEdge ignores an edge from a link to itself and reports one whose     *)
(* source it does not know, which loadEdges passes over.  Nothing looks at *)
(* the destination.  Mutant: one with an unknown destination is left out.  *)
AddedInside(row) == row.src # row.dst /\ {row.src, row.dst} \subseteq ranked
Added(row) == row.src # row.dst /\ row.src \in ranked

LoadEdges ==
    /\ rpc = "edges"
    /\ rankedEdges' = {<<row.src, row.dst>> : row \in
                         {e \in edges : SelectedEdge(e) /\ Added(e)}}
    /\ rpc' = "compute"
    /\ UNCHANGED <<vars, startAt, ranked, lead, listed>>

(* In superstep 1 every vertex with edges sends a message along each; one  *)
(* to a vertex that the graph does not have, with no relayer, is an error. *)
Deliverable == \A e \in rankedEdges : e[2] \in ranked

Compute ==
    /\ rpc = "compute"
    /\ rpc' = IF Deliverable THEN "persist" ELSE "failed"
    /\ UNCHANGED <<vars, startAt, ranked, rankedEdges, lead, listed>>

Persist ==
    /\ rpc = "persist"
    /\ rpc' = "timer"
    /\ UNCHANGED <<vars, startAt, ranked, rankedEdges, lead, listed>>

(* A call of a store or of the index fails, and Run returns the error.     *)
CallFails ==
    /\ rpc \in {"links", "edges", "persist"}
    /\ rpc' = "failed"
    /\ UNCHANGED <<vars, startAt, ranked, rankedEdges, lead, listed>>

(* The process, which ends with its services, is started anew.             *)
RestartRanker ==
    /\ rpc = "failed"
    /\ rpc' = "timer"
    /\ startAt' = 0
    /\ ranked' = {}
    /\ rankedEdges' = {}
    /\ lead' = 0
    /\ listed' = {}
    /\ UNCHANGED vars

PassGoesOn == LoadLinks \/ LoadEdges \/ Compute \/ Persist \/ CallFails \/ RestartRanker

NextRanker ==
    \/ BeginPass \/ PassGoesOn
    \/ Next /\ UNCHANGED rankVars

SpecRanker == InitRanker /\ [][NextRanker]_allRankVars
-----------------------------------------------------------------------------
(* The link was crawled since the pass began, as the crawler's clock and   *)
(* the ranker's have it.                                                   *)
Recrawled(id) == \E row \in links : row.id = id /\ row.retrieved >= startAt

(* A pass fails for want of a link only if that link was crawled since the *)
(* pass began or, when the ranker's clock is ahead of the store's, was     *)
(* found after the links were loaded: links and edges that appear, advance *)
(* or go between the two queries do no other harm.                         *)
DestinationsExplained ==
    rpc \in Loaded =>
        \A e \in rankedEdges :
            e[2] \in ranked \/ Recrawled(e[2]) \/ (lead > 0 /\ e[2] \notin listed)

(* No edge is overlooked: one that has been in the store, unchanged, since *)
(* before the pass began by the ranker's clock and by the store's is in    *)
(* the ranker's graph, unless it leads to its own page or its page was     *)
(* crawled since.                                                          *)
EdgesExplained ==
    rpc \in Loaded =>
        \A row \in edges :
            row.updated < startAt /\ row.updated < startAt - lead /\ row.src # row.dst =>
                <<row.src, row.dst>> \in rankedEdges \/ Recrawled(row.src)
=============================================================================
