----------------------------- MODULE GraphUpdater -----------------------------
(***************************************************************************)
(* The crawler's graph updater (src/crawler/graph_updater.go) on the link  *)
(* store: several crawlers process pages at the same time, each with a     *)
(* sequence of store calls for one page, any of which may fail.            *)
(*                                                                         *)
(* The store stamps edges with its own clock (module LinkStore); a         *)
(* crawler's clock may be ahead of it, by Ahead.                           *)
(***************************************************************************)
EXTENDS LinkStore, FiniteSets

CONSTANTS Updater,     \* crawlers
          Ahead,       \* how far a crawler's clock is ahead of the store's
          MaxUpdates,  \* bound: pages processed in all
          NoURL        \* no page, no link

ASSUME UpdaterAssumption == Ahead \in Nat /\ MaxUpdates \in Nat /\ NoURL \notin URL

VARIABLES upc,        \* upc[u]: the store call Process of updater u is at
          page,       \* page[u]: payload.URL, or NoURL
          outgoing,   \* outgoing[u]: payload.Links
          todo,       \* todo[u]: links of the current loop not reached yet
          dst,        \* dst[u]: the link whose edge is to be upserted
          threshold,  \* threshold[u]: removeEdgesOlderThan
          updates,    \* pages taken so far
          alone       \* history: alone[u]: nobody else had u's page since u took it

upVars  == <<upc, page, outgoing, todo, dst, threshold, updates, alone>>
allUpVars == <<vars, upVars>>

(* time.Now() of a crawler.                                                *)
CrawlerTime == now + Ahead
IdOf(url) == (CHOOSE row \in links : row.url = url).id
HasLink(url) == \E row \in links : row.url = url
EdgesFrom(src) == {row \in edges : row.src = src}
SamePage(u, url) == {v \in Updater \ {u} : page[v] = url}

InitUpdater ==
    /\ Init
    /\ upc = [u \in Updater |-> "rest"]
    /\ page = [u \in Updater |-> NoURL]
    /\ outgoing = [u \in Updater |-> {}]
    /\ todo = [u \in Updater |-> {}]
    /\ dst = [u \in Updater |-> NoURL]
    /\ threshold = [u \in Updater |-> 0]
    /\ updates = 0
    /\ alone = [u \in Updater |-> TRUE]
-----------------------------------------------------------------------------
(* Process is called with a page and the links found in it, each in one of *)
(* the two lists; the page itself is upserted first.                       *)
Start(u, url, follow, noFollow) ==
    /\ upc[u] = "rest"
    /\ updates < MaxUpdates
    /\ follow \intersect noFollow = {}
    /\ UpsertLink(url, CrawlerTime)
    /\ updates' = updates + 1
    /\ upc' = [upc EXCEPT ![u] = "noFollow"]
    /\ page' = [page EXCEPT ![u] = url]
    /\ outgoing' = [outgoing EXCEPT ![u] = follow]
    /\ todo' = [todo EXCEPT ![u] = noFollow]
    /\ alone' = [v \in Updater |->
                    IF v = u THEN SamePage(u, url) = {} ELSE alone[v] /\ v \notin SamePage(u, url)]
    /\ UNCHANGED <<dst, threshold>>

(* The no-follow links are upserted without edges.                         *)
UpsertNoFollow(u, url) ==
    /\ upc[u] = "noFollow"
    /\ url \in todo[u]
    /\ UpsertLink(url, 0)
    /\ todo' = [todo EXCEPT ![u] = @ \ {url}]
    /\ UNCHANGED <<upc, page, outgoing, dst, threshold, updates, alone>>

(* removeEdgesOlderThan is read before the first edge is upserted.         *)
TakeTime(u) ==
    /\ upc[u] = "noFollow"
    /\ todo[u] = {}
    /\ threshold' = [threshold EXCEPT ![u] = CrawlerTime]
    /\ todo' = [todo EXCEPT ![u] = outgoing[u]]
    /\ upc' = [upc EXCEPT ![u] = "link"]
    /\ UNCHANGED <<vars, page, outgoing, dst, updates, alone>>

(* Mutant of UpsertFollow: the link is taken to be in the store already.   *)
UpsertFollowNoLink(u, url) ==
    /\ upc[u] = "link"
    /\ url \in todo[u]
    /\ todo' = [todo EXCEPT ![u] = @ \ {url}]
    /\ dst' = [dst EXCEPT ![u] = url]
    /\ upc' = [upc EXCEPT ![u] = "edge"]
    /\ UNCHANGED <<vars, page, outgoing, threshold, updates, alone>>

(* The loop over the links: UpsertLink, then UpsertEdge.                   *)
UpsertFollow(u, url) ==
    /\ upc[u] = "link"
    /\ url \in todo[u]
    /\ UpsertLink(url, 0)
    /\ todo' = [todo EXCEPT ![u] = @ \ {url}]
    /\ dst' = [dst EXCEPT ![u] = url]
    /\ upc' = [upc EXCEPT ![u] = "edge"]
    /\ UNCHANGED <<page, outgoing, threshold, updates, alone>>

UpsertFollowEdge(u) ==
    /\ upc[u] = "edge"
    /\ UpsertEdge(IdOf(page[u]), IdOf(dst[u]))
    /\ dst' = [dst EXCEPT ![u] = NoURL]
    /\ upc' = [upc EXCEPT ![u] = "link"]
    /\ UNCHANGED <<page, outgoing, todo, threshold, updates, alone>>

LoopDone(u) ==
    /\ upc[u] = "link"
    /\ todo[u] = {}
    /\ upc' = [upc EXCEPT ![u] = "remove"]
    /\ UNCHANGED <<vars, page, outgoing, todo, dst, threshold, updates, alone>>

Rest(u) ==
    /\ upc' = [upc EXCEPT ![u] = "rest"]
    /\ page' = [page EXCEPT ![u] = NoURL]
    /\ outgoing' = [outgoing EXCEPT ![u] = {}]
    /\ todo' = [todo EXCEPT ![u] = {}]
    /\ dst' = [dst EXCEPT ![u] = NoURL]
    /\ threshold' = [threshold EXCEPT ![u] = 0]
    /\ alone' = [alone EXCEPT ![u] = TRUE]
    /\ UNCHANGED updates

(* The time before which edges are dropped.  Mutants: the time at which    *)
(* the loop ended; no time at all.                                         *)
OlderThanNow(u) == CrawlerTime
OlderThanZero(u) == 0
OlderThan(u) == threshold[u]

RemoveStale(u) ==
    /\ upc[u] = "remove"
    /\ RemoveStaleEdges(IdOf(page[u]), OlderThan(u))
    /\ Rest(u)

(* A store call fails, and Process returns its error.                      *)
StoreFails(u) ==
    /\ upc[u] # "rest"
    /\ Rest(u)
    /\ UNCHANGED vars

(* A front end upserts the link that a user submits; or the link of a page *)
(* is upserted by a crawler that is not one of Updater and finds no links. *)
UpsertElsewhere ==
    /\ \E url \in URL, t \in {0, CrawlerTime} : UpsertLink(url, t)
    /\ UNCHANGED upVars

(* At the bounds nothing is left to do.                                    *)
Idle ==
    /\ updates = MaxUpdates /\ now = MaxTime
    /\ \A u \in Updater : upc[u] = "rest"
    /\ UNCHANGED allUpVars

NextUpdater ==
    \/ \E u \in Updater :
          \/ \E url \in URL, follow, noFollow \in SUBSET URL : Start(u, url, follow, noFollow)
          \/ \E url \in URL : UpsertNoFollow(u, url) \/ UpsertFollow(u, url)
          \/ TakeTime(u) \/ UpsertFollowEdge(u) \/ LoopDone(u) \/ RemoveStale(u) \/ StoreFails(u)
    \/ UpsertElsewhere
    \/ Tick /\ UNCHANGED upVars
    \/ Idle

SpecUpdater == InitUpdater /\ [][NextUpdater]_allUpVars
-----------------------------------------------------------------------------
(* An updater that no other one disturbed leaves the page with exactly the *)
(* edges it found: no new one is lost, and those of earlier crawls are     *)
(* gone, even the ones that a failed update left half done, except for     *)
(* one stamped at the very instant at which removeEdgesOlderThan was read. *)
LeavesItsEdges ==
    \A u \in Updater :
        alone[u] /\ RemoveStale(u) =>
            LET src   == IdOf(page[u])
                found == {IdOf(url) : url \in outgoing[u]}
                left  == {row \in edges' : row.src = src}
            IN  /\ found \subseteq {row.dst : row \in left}
                /\ \A row \in left : row.dst \in found \/ row.updated = threshold[u]

ExactWhenAlone == [][LeavesItsEdges]_allUpVars

(* "Drop stale edges that were not modified while upserting outgoing       *)
(* edges": no update removes an edge that it has upserted itself and that  *)
(* is still there, whatever other updaters of the same page do.            *)
KeepsItsOwn ==
    \A u \in Updater : upc[u] = "remove" /\ upc'[u] = "rest" =>
        \A row \in EdgesFrom(IdOf(page[u])) :
            (\E url \in outgoing[u] : row.dst = IdOf(url)) => row \in edges'

OwnEdgesSurvive == [][KeepsItsOwn]_allUpVars

(* Between its calls an updater keeps ids and no lock, and the links they  *)
(* name stay: UpsertEdge never sees unknown links.                         *)
EdgeLinksKnown ==
    \A u \in Updater :
        /\ upc[u] # "rest" => HasLink(page[u])
        /\ upc[u] = "edge" => HasLink(dst[u])
=============================================================================
