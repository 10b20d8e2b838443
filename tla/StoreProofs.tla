------------------------------ MODULE StoreProofs ------------------------------
(***************************************************************************)
(* Theorems about the clients of the link store, each of which is a module *)
(* of its own: the graph updaters, with their store calls interleaved in   *)
(* any order; a PageRank pass, which loads a store that changes; and the   *)
(* crawlers of a cluster with their partitions.  They hold for all sets of *)
(* links, edges, crawlers and pages.  No theorem about one client uses an  *)
(* assumption about another's constants.                                   *)
(***************************************************************************)
EXTENDS GraphUpdater, RankerService, Cluster, TLAPS

(***************************************************************************)
(* The graph updaters: what the updates of several crawlers leave in the   *)
(* store.                                                                  *)
(***************************************************************************)
Labels  == {"rest", "noFollow", "link", "edge", "remove"}
Looping == {"link", "edge", "remove"}

TypeOKUpdater ==
    /\ TypeOK
    /\ upc \in [Updater -> Labels]
    /\ page \in [Updater -> URL \union {NoURL}]
    /\ outgoing \in [Updater -> SUBSET URL]
    /\ todo \in [Updater -> SUBSET URL]
    /\ dst \in [Updater -> URL \union {NoURL}]
    /\ threshold \in [Updater -> Nat]
    /\ alone \in [Updater -> BOOLEAN]

(* The constraints of the two tables.                                      *)
LinkKeys == \A r, s \in links : r.id = s.id \/ r.url = s.url => r = s
EdgeKeys == \A r, s \in edges : r.src = s.src /\ r.dst = s.dst => r = s

(* No edge is stamped in the future.                                       *)
Stamped == \A e \in edges : e.updated <= now

(* The links whose edges updater u has upserted.                           *)
Done(u) == {url \in outgoing[u] \ todo[u] : upc[u] = "edge" => url # dst[u]}

(* What an updater relies on between two calls: the links it has upserted  *)
(* are there.                                                              *)
Placed(u) ==
    /\ upc[u] # "rest" => page[u] \in URL /\ HasLink(page[u])
    /\ upc[u] \in Looping =>
           /\ todo[u] \subseteq outgoing[u]
           /\ \A url \in outgoing[u] \ todo[u] : HasLink(url)
    /\ upc[u] = "edge" => dst[u] \in outgoing[u] \ todo[u]
    /\ upc[u] = "remove" => todo[u] = {}

(* A crawler whose clock is not ahead has a threshold in the past, and no  *)
(* edge it has upserted is older.                                          *)
Recent(u) ==
    upc[u] \in Looping =>
        /\ threshold[u] <= now
        /\ \A url \in Done(u), e \in edges :
              Conflicts(e, IdOf(page[u]), IdOf(url)) => e.updated >= threshold[u]

(* An undisturbed updater has each edge it upserted in the store, and no   *)
(* other edge of its page that is younger than its threshold.              *)
Exact(u) ==
    upc[u] \in Looping /\ alone[u] =>
        /\ \A url \in Done(u) : \E e \in edges : Conflicts(e, IdOf(page[u]), IdOf(url))
        /\ \A e \in edges : e.src = IdOf(page[u]) =>
              e.updated <= threshold[u] \/ \E url \in Done(u) : e.dst = IdOf(url)

(* Nobody else has the page of an undisturbed updater.                     *)
Undisturbed(u) ==
    upc[u] # "rest" /\ alone[u] => \A v \in Updater \ {u} : page[v] # page[u]

UpdaterInv ==
    /\ TypeOKUpdater
    /\ LinkKeys
    /\ EdgeKeys
    /\ Stamped
    /\ \A u \in Updater : Placed(u) /\ Undisturbed(u)
    /\ Ahead = 0 => \A u \in Updater : Recent(u) /\ Exact(u)
-----------------------------------------------------------------------------
(* The link of a URL is its only row.                                      *)
LEMMA IdOfRow ==
    ASSUME LinkKeys, NEW row \in links
    PROVE  IdOf(row.url) = row.id
<1> DEFINE chosen == CHOOSE r \in links : r.url = row.url
<1>1. chosen \in links /\ chosen.url = row.url
  OBVIOUS
<1>2. chosen = row
  BY <1>1 DEF LinkKeys
<1> QED BY <1>2 DEF IdOf

LEMMA IdOfTyped ==
    ASSUME TypeOK, LinkKeys, NEW url, HasLink(url)
    PROVE  IdOf(url) \in LinkID
BY IdOfRow DEF HasLink, TypeOK, LinkRow

LEMMA IdsDiffer ==
    ASSUME LinkKeys, NEW a, NEW b, a # b, HasLink(a), HasLink(b)
    PROVE  IdOf(a) # IdOf(b)
<1>1. PICK r \in links : r.url = a
  BY DEF HasLink
<1>2. PICK s \in links : s.url = b
  BY DEF HasLink
<1> QED BY <1>1, <1>2, IdOfRow DEF LinkKeys

(* No link disappears, and none changes its id or URL.                     *)
LinksStay ==
    /\ LinkKeys'
    /\ links' \subseteq LinkRow
    /\ \A row \in links : \E new \in links' : new.id = row.id /\ new.url = row.url

LEMMA UpsertLinkStays ==
    ASSUME TypeOK, LinkKeys, NEW url \in URL, NEW t \in Nat, UpsertLink(url, t)
    PROVE  LinksStay /\ HasLink(url)'
<1>1. CASE \E row \in links :
             /\ row.url = url
             /\ links' = (links \ {row}) \union {[row EXCEPT !.retrieved = Later(@, t)]}
  <2>1. PICK old \in links :
            /\ old.url = url
            /\ links' = (links \ {old}) \union {[old EXCEPT !.retrieved = Later(@, t)]}
    BY <1>1
  <2> DEFINE new == [old EXCEPT !.retrieved = Later(@, t)]
  <2>2. old \in LinkRow
    BY DEF TypeOK
  <2>3. Later(old.retrieved, t) \in Nat
    BY <2>2 DEF Later, LinkRow
  <2>4. new \in LinkRow /\ new.id = old.id /\ new.url = old.url
    BY <2>2, <2>3 DEF LinkRow
  <2>5. new \in links' /\ (\A r \in links' : r = new \/ (r \in links /\ r # old))
        /\ (\A r \in links : r # old => r \in links')
    BY <2>1
  <2> HIDE DEF new
  <2>6. links' \subseteq LinkRow
    BY <2>4, <2>5 DEF TypeOK
  <2>7. LinkKeys'
    BY <2>4, <2>5 DEF LinkKeys
  <2>8. \A row \in links : \E n \in links' : n.id = row.id /\ n.url = row.url
    BY <2>4, <2>5
  <2> QED BY <2>1, <2>4, <2>5, <2>6, <2>7, <2>8 DEF LinksStay, HasLink
<1>2. CASE /\ \A row \in links : row.url # url
           /\ \E id \in LinkID :
                 /\ \A row \in links : row.id # id
                 /\ links' = links \union {[id |-> id, url |-> url, retrieved |-> t]}
  <2>1. PICK id \in LinkID :
            /\ \A row \in links : row.id # id /\ row.url # url
            /\ links' = links \union {[id |-> id, url |-> url, retrieved |-> t]}
    BY <1>2
  <2> DEFINE new == [id |-> id, url |-> url, retrieved |-> t]
  <2>2. new \in LinkRow /\ new.id = id /\ new.url = url
    BY DEF LinkRow
  <2>3. links' = links \union {new}
    BY <2>1
  <2> HIDE DEF new
  <2>4. LinkKeys'
    BY <2>1, <2>2, <2>3 DEF LinkKeys
  <2> QED BY <2>2, <2>3, <2>4 DEF LinksStay, HasLink, TypeOK
<1> QED BY <1>1, <1>2 DEF UpsertLink

LEMMA StayingLinks ==
    ASSUME LinkKeys, LinksStay
    PROVE  \A url : HasLink(url) => HasLink(url)' /\ IdOf(url)' = IdOf(url)
<1> SUFFICES ASSUME NEW url, HasLink(url)
             PROVE  HasLink(url)' /\ IdOf(url)' = IdOf(url)
  OBVIOUS
<1>1. PICK row \in links : row.url = url
  BY DEF HasLink
<1>2. PICK new \in links' : new.id = row.id /\ new.url = url
  BY <1>1 DEF LinksStay
<1>3. IdOf(url) = row.id
  BY <1>1, IdOfRow
<1>4. HasLink(url)'
  BY <1>2 DEF HasLink
<1> DEFINE chosen == CHOOSE r \in links' : r.url = url
<1>5. chosen \in links' /\ chosen.url = url
  BY <1>2
<1>6. chosen = new
  BY <1>2, <1>5 DEF LinksStay, LinkKeys
<1>7. IdOf(url)' = new.id
  BY <1>6 DEF IdOf
<1> QED BY <1>2, <1>3, <1>4, <1>7

(* The rows that UpsertEdge leaves: the one of this pair is stamped with   *)
(* the time, the others stay.                                              *)
EdgeStamped(from, to) ==
    /\ \A e \in edges : Conflicts(e, from, to) \/ e \in edges'
    /\ \A e \in edges' : (e \in edges /\ ~Conflicts(e, from, to))
                             \/ (Conflicts(e, from, to) /\ e.updated = now)
    /\ \E e \in edges' : Conflicts(e, from, to)

LEMMA UpsertEdgeStamps ==
    ASSUME TypeOK, EdgeKeys, NEW from \in LinkID, NEW to \in LinkID, UpsertEdge(from, to)
    PROVE  EdgeStamped(from, to) /\ EdgeKeys' /\ edges' \subseteq EdgeRow
<1>1. CASE \E row \in edges :
             /\ Conflicts(row, from, to)
             /\ edges' = (edges \ {row}) \union {[row EXCEPT !.updated = now]}
  <2>1. PICK old \in edges :
            /\ Conflicts(old, from, to)
            /\ edges' = (edges \ {old}) \union {[old EXCEPT !.updated = now]}
    BY <1>1
  <2> DEFINE new == [old EXCEPT !.updated = now]
  <2>2. new \in EdgeRow /\ new.src = from /\ new.dst = to /\ new.updated = now
    BY <2>1 DEF TypeOK, EdgeRow, Conflicts
  <2>3. edges' = (edges \ {old}) \union {new}
    BY <2>1
  <2> HIDE DEF new
  <2>4. \A e \in edges : Conflicts(e, from, to) => e = old
    BY <2>1 DEF EdgeKeys, Conflicts
  <2>5. EdgeStamped(from, to)
    BY <2>1, <2>2, <2>3, <2>4 DEF EdgeStamped, Conflicts
  <2>6. EdgeKeys'
    BY <2>2, <2>3, <2>4 DEF EdgeKeys, Conflicts
  <2> QED BY <2>2, <2>3, <2>5, <2>6 DEF TypeOK
<1>2. CASE /\ \A row \in edges : ~Conflicts(row, from, to)
           /\ \E id \in EdgeID :
                 edges' = edges \union {[id |-> id, src |-> from, dst |-> to, updated |-> now]}
  <2>1. PICK id \in EdgeID :
            edges' = edges \union {[id |-> id, src |-> from, dst |-> to, updated |-> now]}
    BY <1>2
  <2> DEFINE new == [id |-> id, src |-> from, dst |-> to, updated |-> now]
  <2>2. new \in EdgeRow /\ new.src = from /\ new.dst = to /\ new.updated = now
    BY DEF TypeOK, EdgeRow
  <2>3. edges' = edges \union {new}
    BY <2>1
  <2> HIDE DEF new
  <2>4. EdgeStamped(from, to)
    BY <1>2, <2>2, <2>3 DEF EdgeStamped, Conflicts
  <2>5. EdgeKeys'
    BY <1>2, <2>2, <2>3 DEF EdgeKeys, Conflicts
  <2> QED BY <2>2, <2>3, <2>4, <2>5 DEF TypeOK
<1> QED BY <1>1, <1>2 DEF UpsertEdge
-----------------------------------------------------------------------------
(* What an updater knows survives the steps of the others: no link goes,   *)
(* an edge that comes is new, and nobody touches the edges of a page that  *)
(* is this updater's alone.                                                *)
SameUpdater(u) ==
    /\ upc'[u] = upc[u] /\ page'[u] = page[u] /\ outgoing'[u] = outgoing[u]
    /\ todo'[u] = todo[u] /\ dst'[u] = dst[u] /\ threshold'[u] = threshold[u]
    /\ alone'[u] => alone[u]

LocalEdges(u) ==
    /\ edges' \subseteq EdgeRow
    /\ now' \in Nat /\ now' >= now
    /\ \A e \in edges' : e \in edges \/ e.updated = now
    /\ alone'[u] /\ upc[u] # "rest" =>
           /\ \A e \in edges : e.src = IdOf(page[u]) => e \in edges'
           /\ \A e \in edges' : e.src = IdOf(page[u]) => e \in edges

LEMMA OthersKeep ==
    ASSUME UpdaterInv, LinksStay, NEW u \in Updater, SameUpdater(u), LocalEdges(u)
    PROVE  Placed(u)' /\ (Ahead = 0 => Recent(u)' /\ Exact(u)')
<1>1. \A url : HasLink(url) => HasLink(url)' /\ IdOf(url)' = IdOf(url)
  BY StayingLinks DEF UpdaterInv
<1>2. Placed(u) /\ (Ahead = 0 => Recent(u) /\ Exact(u))
  BY DEF UpdaterInv
<1>3. Placed(u)'
  BY <1>1, <1>2 DEF Placed, SameUpdater
<1>4. ASSUME Ahead = 0 PROVE Recent(u)' /\ Exact(u)'
  <2>1. CASE upc[u] \in Looping
    <3>1. Done(u)' = Done(u)
      BY DEF Done, SameUpdater
    <3>2. upc[u] # "rest" /\ HasLink(page[u]) /\ IdOf(page[u])' = IdOf(page[u])
      BY <1>1, <1>2, <2>1 DEF Placed, SameUpdater, Looping
    <3>3. \A url \in Done(u) : IdOf(url)' = IdOf(url)
      BY <1>1, <1>2, <2>1 DEF Placed, Done
    <3>4. Recent(u) /\ threshold[u] <= now /\ threshold[u] \in Nat /\ now \in Nat /\ now' \in Nat
          /\ now' >= now /\ threshold'[u] = threshold[u] /\ upc'[u] = upc[u]
      BY <1>2, <1>4, <2>1 DEF Recent, UpdaterInv, TypeOKUpdater, TypeOK, LocalEdges, SameUpdater
    <3>5. threshold'[u] <= now'
      BY <3>4
    <3>6. ASSUME NEW url \in Done(u), NEW e \in edges',
                 Conflicts(e, IdOf(page[u]), IdOf(url))
          PROVE  e.updated >= threshold[u]
      <4>1. CASE e \in edges
        BY <2>1, <3>4, <3>6, <4>1 DEF Recent
      <4>2. CASE e.updated = now
        BY <3>4, <4>2
      <4> QED BY <4>1, <4>2 DEF LocalEdges
    <3>7. Recent(u)'
      BY <3>1, <3>2, <3>3, <3>4, <3>5, <3>6 DEF Recent
    <3>8. Exact(u)'
      <4> SUFFICES ASSUME alone'[u] PROVE Exact(u)'
        BY DEF Exact
      <4>1. alone[u]
        BY DEF SameUpdater
      <4>2. /\ \A e \in edges : e.src = IdOf(page[u]) => e \in edges'
            /\ \A e \in edges' : e.src = IdOf(page[u]) => e \in edges
        BY <3>2 DEF LocalEdges
      <4>3. /\ \A url \in Done(u) : \E e \in edges : Conflicts(e, IdOf(page[u]), IdOf(url))
            /\ \A e \in edges : e.src = IdOf(page[u]) =>
                  e.updated <= threshold[u] \/ \E url \in Done(u) : e.dst = IdOf(url)
        BY <1>2, <1>4, <2>1, <4>1 DEF Exact
      <4>4. \A url \in Done(u) : \E e \in edges' : Conflicts(e, IdOf(page[u]), IdOf(url))
        BY <4>2, <4>3 DEF Conflicts
      <4>5. \A e \in edges' : e.src = IdOf(page[u]) =>
                e.updated <= threshold[u] \/ \E url \in Done(u) : e.dst = IdOf(url)
        BY <4>2, <4>3
      <4> QED BY <3>1, <3>2, <3>3, <3>4, <4>4, <4>5 DEF Exact, Conflicts
    <3> QED BY <3>7, <3>8
  <2>2. CASE upc[u] \notin Looping
    BY <2>2 DEF Recent, Exact, SameUpdater
  <2> QED BY <2>1, <2>2
<1> QED BY <1>3, <1>4

(* Calls that leave the tables alone, and calls that only upsert a link.   *)
LEMMA QuietStore ==
    ASSUME TypeOK, LinkKeys, UNCHANGED vars
    PROVE  LinksStay /\ TypeOK'
BY DEF TypeOK, LinkKeys, LinksStay, vars

LEMMA LinkUpserted ==
    ASSUME TypeOK, LinkKeys, NEW url \in URL, NEW t \in Nat, UpsertLink(url, t)
    PROVE  LinksStay /\ HasLink(url)' /\ TypeOK' /\ edges' = edges /\ now' = now
BY UpsertLinkStays DEF TypeOK, LinksStay, UpsertLink

LEMMA SameEdges ==
    ASSUME TypeOK, edges' = edges, now' = now, NEW u \in Updater
    PROVE  LocalEdges(u)
BY DEF LocalEdges, TypeOK

(* Nobody gets the page of another but by Start.                           *)
LEMMA StillUndisturbed ==
    ASSUME UpdaterInv, NEW w \in Updater,
           page' = page \/ page' = [page EXCEPT ![w] = NoURL],
           \A u \in Updater : u = w \/ (upc'[u] = upc[u] /\ alone'[u] = alone[u]),
           upc'[w] = "rest" \/ (upc[w] # "rest" /\ page' = page /\ alone'[w] = alone[w])
    PROVE  \A u \in Updater : Undisturbed(u)'
<1> SUFFICES ASSUME NEW u \in Updater, upc'[u] # "rest", alone'[u], NEW v \in Updater \ {u}
             PROVE  page'[v] # page'[u]
  BY DEF Undisturbed
<1>1. upc[u] # "rest" /\ alone[u]
  OBVIOUS
<1>2. page[v] # page[u] /\ page[u] \in URL
  BY <1>1 DEF UpdaterInv, Undisturbed, Placed
<1>3. page'[u] = page[u]
  BY DEF UpdaterInv, TypeOKUpdater
<1>4. page'[v] = page[v] \/ page'[v] = NoURL
  BY DEF UpdaterInv, TypeOKUpdater
<1> QED BY <1>2, <1>3, <1>4, UpdaterAssumption
-----------------------------------------------------------------------------
(* A crawler takes a page.                                                 *)
LEMMA StartInv ==
    ASSUME UpdaterInv, NEW w \in Updater, NEW url \in URL, NEW follow \in SUBSET URL,
           NEW noFollow \in SUBSET URL, Start(w, url, follow, noFollow)
    PROVE  UpdaterInv'
<1>1. CrawlerTime \in Nat
  BY UpdaterAssumption DEF CrawlerTime, UpdaterInv, TypeOKUpdater, TypeOK
<1>2. LinksStay /\ HasLink(url)' /\ TypeOK' /\ edges' = edges /\ now' = now
  BY <1>1, LinkUpserted DEF Start, UpdaterInv, TypeOKUpdater
<1>3. /\ upc'[w] = "noFollow" /\ page'[w] = url
      /\ \A u \in Updater : u = w \/ SameUpdater(u)
  BY DEF Start, SameUpdater, UpdaterInv, TypeOKUpdater
<1>4. TypeOKUpdater'
  <2>1. alone' \in [Updater -> BOOLEAN]
    <3>1. \A v \in Updater : (IF v = w THEN SamePage(w, url) = {}
                                       ELSE alone[v] /\ v \notin SamePage(w, url)) \in BOOLEAN
      OBVIOUS
    <3> QED BY <3>1 DEF Start
  <2> QED BY <1>2, <2>1 DEF Start, UpdaterInv, TypeOKUpdater, Labels
<1>5. \A u \in Updater : Placed(u)' /\ (Ahead = 0 => Recent(u)' /\ Exact(u)')
  <2> TAKE u \in Updater
  <2>1. CASE u = w
    BY <1>2, <1>3, <2>1 DEF Placed, Recent, Exact, Looping
  <2>2. CASE u # w
    BY <1>2, <1>3, <2>2, OthersKeep, SameEdges DEF UpdaterInv, TypeOKUpdater
  <2> QED BY <2>1, <2>2
<1>6. \A u \in Updater : Undisturbed(u)'
  <2> SUFFICES ASSUME NEW u \in Updater, upc'[u] # "rest", alone'[u], NEW v \in Updater \ {u}
               PROVE  page'[v] # page'[u]
    BY DEF Undisturbed
  <2>1. \A x \in Updater \ {w} : page'[x] = page[x] /\ upc'[x] = upc[x]
    BY <1>3 DEF SameUpdater
  <2>2. CASE u = w
    <3>1. SamePage(w, url) = {}
      BY <2>2 DEF Start
    <3> QED BY <1>3, <2>1, <2>2, <3>1 DEF SamePage
  <2>3. CASE u # w
    <3>1. alone[u] /\ u \notin SamePage(w, url)
      BY <2>3 DEF Start
    <3>2. page[u] # url
      BY <2>3, <3>1 DEF SamePage
    <3>3. page[v] # page[u]
      BY <2>1, <2>3, <3>1 DEF UpdaterInv, Undisturbed
    <3> QED BY <1>3, <2>1, <2>3, <3>2, <3>3
  <2> QED BY <2>2, <2>3
<1>7. LinkKeys' /\ EdgeKeys' /\ Stamped'
  BY <1>2 DEF UpdaterInv, LinksStay, EdgeKeys, Stamped
<1> QED BY <1>4, <1>5, <1>6, <1>7 DEF UpdaterInv

(* The calls before the loop, and the first call of its body.              *)
LEMMA UpsertNoFollowInv ==
    ASSUME UpdaterInv, NEW w \in Updater, NEW url \in URL, UpsertNoFollow(w, url)
    PROVE  UpdaterInv'
<1>1. LinksStay /\ TypeOK' /\ edges' = edges /\ now' = now
  BY LinkUpserted DEF UpsertNoFollow, UpdaterInv, TypeOKUpdater
<1>2. \A u \in Updater : u = w \/ SameUpdater(u)
  BY DEF UpsertNoFollow, SameUpdater, UpdaterInv, TypeOKUpdater
<1>3. TypeOKUpdater'
  BY <1>1 DEF UpsertNoFollow, UpdaterInv, TypeOKUpdater
<1>4. upc'[w] = "noFollow" /\ upc[w] = "noFollow" /\ page' = page
  BY DEF UpsertNoFollow
<1>5. HasLink(page[w])' /\ page[w] \in URL
  BY <1>1, <1>4, StayingLinks DEF UpdaterInv, Placed
<1>6. \A u \in Updater : Placed(u)' /\ (Ahead = 0 => Recent(u)' /\ Exact(u)')
  <2> TAKE u \in Updater
  <2>1. CASE u = w
    BY <1>4, <1>5, <2>1 DEF Placed, Recent, Exact, Looping
  <2>2. CASE u # w
    BY <1>1, <1>2, <2>2, OthersKeep, SameEdges DEF UpdaterInv, TypeOKUpdater
  <2> QED BY <2>1, <2>2
<1>7. \A u \in Updater : Undisturbed(u)'
  BY StillUndisturbed DEF UpsertNoFollow
<1>8. LinkKeys' /\ EdgeKeys' /\ Stamped'
  BY <1>1 DEF UpdaterInv, LinksStay, EdgeKeys, Stamped
<1> QED BY <1>3, <1>6, <1>7, <1>8 DEF UpdaterInv

LEMMA TakeTimeInv ==
    ASSUME UpdaterInv, NEW w \in Updater, TakeTime(w)
    PROVE  UpdaterInv'
<1>1. LinksStay /\ TypeOK' /\ edges' = edges /\ now' = now /\ links' = links
  BY QuietStore DEF TakeTime, UpdaterInv, TypeOKUpdater, vars
<1>2. \A u \in Updater : u = w \/ SameUpdater(u)
  BY DEF TakeTime, SameUpdater, UpdaterInv, TypeOKUpdater
<1>3. TypeOKUpdater'
  <2>1. CrawlerTime \in Nat
    BY UpdaterAssumption DEF CrawlerTime, UpdaterInv, TypeOKUpdater, TypeOK
  <2> QED BY <1>1, <2>1 DEF TakeTime, UpdaterInv, TypeOKUpdater, Labels
<1>4. /\ upc'[w] = "link" /\ upc[w] = "noFollow" /\ page' = page
      /\ todo'[w] = outgoing[w] /\ outgoing' = outgoing /\ threshold'[w] = now + Ahead
  BY DEF TakeTime, CrawlerTime, UpdaterInv, TypeOKUpdater
<1>5. HasLink(page[w])' /\ page[w] \in URL
  BY <1>1, <1>4, StayingLinks DEF UpdaterInv, Placed
<1>6. Done(w)' = {}
  BY <1>4 DEF Done
<1>7. now \in Nat /\ Stamped
  BY DEF UpdaterInv, TypeOKUpdater, TypeOK
<1>8. Placed(w)'
  BY <1>4, <1>5 DEF Placed
<1>9. ASSUME Ahead = 0 PROVE Recent(w)' /\ Exact(w)'
  <2>1. threshold'[w] = now
    BY <1>4, <1>7, <1>9
  <2> QED BY <1>1, <1>6, <1>7, <2>1 DEF Recent, Exact, Stamped
<1>10. \A u \in Updater : Placed(u)' /\ (Ahead = 0 => Recent(u)' /\ Exact(u)')
  <2> TAKE u \in Updater
  <2>1. CASE u = w
    BY <1>8, <1>9, <2>1
  <2>2. CASE u # w
    BY <1>1, <1>2, <2>2, OthersKeep, SameEdges DEF UpdaterInv, TypeOKUpdater
  <2> QED BY <2>1, <2>2
<1>11. \A u \in Updater : Undisturbed(u)'
  <2>1. \A u \in Updater : u = w \/ (upc'[u] = upc[u] /\ alone'[u] = alone[u])
    BY DEF TakeTime, UpdaterInv, TypeOKUpdater
  <2> QED BY <1>4, <2>1, StillUndisturbed DEF TakeTime
<1>12. LinkKeys' /\ EdgeKeys' /\ Stamped'
  BY <1>1 DEF UpdaterInv, LinksStay, EdgeKeys, Stamped
<1> QED BY <1>3, <1>10, <1>11, <1>12 DEF UpdaterInv

LEMMA UpsertFollowInv ==
    ASSUME UpdaterInv, NEW w \in Updater, NEW url \in URL, UpsertFollow(w, url)
    PROVE  UpdaterInv'
<1>1. LinksStay /\ HasLink(url)' /\ TypeOK' /\ edges' = edges /\ now' = now
  BY LinkUpserted DEF UpsertFollow, UpdaterInv, TypeOKUpdater
<1>2. \A u \in Updater : u = w \/ SameUpdater(u)
  BY DEF UpsertFollow, SameUpdater, UpdaterInv, TypeOKUpdater
<1>3. TypeOKUpdater'
  BY <1>1 DEF UpsertFollow, UpdaterInv, TypeOKUpdater, Labels
<1>4. /\ upc[w] = "link" /\ upc'[w] = "edge" /\ page' = page /\ outgoing' = outgoing
      /\ url \in todo[w] /\ todo'[w] = todo[w] \ {url} /\ dst'[w] = url
      /\ threshold' = threshold /\ alone' = alone
  BY DEF UpsertFollow, UpdaterInv, TypeOKUpdater
<1>5. Placed(w) /\ todo[w] \subseteq outgoing[w]
  BY <1>4 DEF UpdaterInv, Placed, Looping
<1>6. outgoing'[w] \ todo'[w] = (outgoing[w] \ todo[w]) \union {url}
  BY <1>4, <1>5
<1>7. \A x : HasLink(x) => HasLink(x)' /\ IdOf(x)' = IdOf(x)
  BY <1>1, StayingLinks DEF UpdaterInv
<1>8. Placed(w)'
  BY <1>1, <1>4, <1>5, <1>6, <1>7 DEF Placed, Looping
<1>9. ASSUME Ahead = 0 PROVE Recent(w)' /\ Exact(w)'
  <2>1. Recent(w) /\ Exact(w)
    BY <1>9 DEF UpdaterInv
  <2>2. Done(w)' = Done(w)
    <3>1. Done(w) = outgoing[w] \ todo[w]
      BY <1>4 DEF Done
    <3>2. Done(w)' = {x \in (outgoing[w] \ todo[w]) \union {url} : x # url}
      BY <1>4, <1>6 DEF Done
    <3> QED BY <1>4, <3>1, <3>2
  <2>3. \A x \in Done(w) : IdOf(x)' = IdOf(x)
    BY <1>4, <1>5, <1>7 DEF Placed, Done, Looping
  <2>4. IdOf(page[w])' = IdOf(page[w])
    BY <1>4, <1>5, <1>7 DEF Placed
  <2> QED BY <1>1, <1>4, <2>1, <2>2, <2>3, <2>4 DEF Recent, Exact, Looping, Conflicts
<1>10. \A u \in Updater : Placed(u)' /\ (Ahead = 0 => Recent(u)' /\ Exact(u)')
  <2> TAKE u \in Updater
  <2>1. CASE u = w
    BY <1>8, <1>9, <2>1
  <2>2. CASE u # w
    BY <1>1, <1>2, <2>2, OthersKeep, SameEdges DEF UpdaterInv, TypeOKUpdater
  <2> QED BY <2>1, <2>2
<1>11. \A u \in Updater : Undisturbed(u)'
  <2>1. \A u \in Updater : u = w \/ (upc'[u] = upc[u] /\ alone'[u] = alone[u])
    BY DEF UpsertFollow, UpdaterInv, TypeOKUpdater
  <2> QED BY <1>4, <2>1, StillUndisturbed
<1>12. LinkKeys' /\ EdgeKeys' /\ Stamped'
  BY <1>1 DEF UpdaterInv, LinksStay, EdgeKeys, Stamped
<1> QED BY <1>3, <1>10, <1>11, <1>12 DEF UpdaterInv

(* The second call of the loop's body: the edge is there and stamped with  *)
(* the time, whoever had upserted it before.                               *)
LEMMA UpsertFollowEdgeInv ==
    ASSUME UpdaterInv, NEW w \in Updater, UpsertFollowEdge(w)
    PROVE  UpdaterInv'
<1> DEFINE src == IdOf(page[w])
           to  == IdOf(dst[w])
<1>1. /\ upc[w] = "edge" /\ upc'[w] = "link" /\ page' = page /\ outgoing' = outgoing
      /\ todo' = todo /\ threshold' = threshold /\ alone' = alone /\ UpsertEdge(src, to)
  BY DEF UpsertFollowEdge, UpdaterInv, TypeOKUpdater
<1>2. /\ HasLink(page[w]) /\ dst[w] \in outgoing[w] \ todo[w] /\ HasLink(dst[w])
      /\ \A x \in outgoing[w] \ todo[w] : HasLink(x)
      /\ Placed(w) /\ page[w] \in URL
  BY <1>1 DEF UpdaterInv, Placed, Looping
<1>3. src \in LinkID /\ to \in LinkID
  BY <1>2, IdOfTyped DEF UpdaterInv, TypeOKUpdater
<1>4. EdgeStamped(src, to) /\ EdgeKeys' /\ edges' \subseteq EdgeRow
  BY <1>1, <1>3, UpsertEdgeStamps DEF UpdaterInv, TypeOKUpdater
<1>5. links' = links /\ now' = now /\ now \in Nat
  BY <1>1 DEF UpsertEdge, UpdaterInv, TypeOKUpdater, TypeOK
<1>6. LinksStay /\ TypeOK' /\ LinkKeys'
  BY <1>4, <1>5 DEF LinksStay, LinkKeys, UpdaterInv, TypeOKUpdater, TypeOK
<1> HIDE DEF src, to
<1>7. TypeOKUpdater'
  BY <1>6 DEF UpsertFollowEdge, UpdaterInv, TypeOKUpdater, Labels
<1>8. Stamped'
  BY <1>4, <1>5 DEF EdgeStamped, Stamped, UpdaterInv
<1>9. Placed(w)'
  BY <1>1, <1>2, <1>5 DEF Placed, HasLink, Looping
<1>10. ASSUME Ahead = 0 PROVE Recent(w)' /\ Exact(w)'
  <2>1. Recent(w) /\ Exact(w)
    BY <1>10 DEF UpdaterInv
  <2>2. /\ threshold[w] <= now /\ threshold[w] \in Nat
        /\ \A x \in Done(w), e \in edges : Conflicts(e, src, IdOf(x)) => e.updated >= threshold[w]
    BY <1>1, <2>1 DEF Recent, Looping, UpdaterInv, TypeOKUpdater, src
  <2>3. Done(w)' = Done(w) \union {dst[w]}
    BY <1>1, <1>2 DEF Done
  <2>4. IdOf(page[w])' = src /\ \A x : IdOf(x)' = IdOf(x)
    BY <1>1, <1>5 DEF IdOf, src
  <2>5. ASSUME NEW x \in Done(w)', NEW e \in edges', Conflicts(e, src, IdOf(x))
        PROVE  e.updated >= threshold[w]
    <3>1. CASE e.updated = now
      BY <2>2, <3>1
    <3>2. CASE e \in edges /\ ~Conflicts(e, src, to)
      <4>1. x # dst[w]
        BY <2>5, <3>2 DEF to
      <4> QED BY <2>2, <2>3, <2>5, <3>2, <4>1
    <3> QED BY <1>4, <3>1, <3>2 DEF EdgeStamped
  <2>6. Recent(w)'
    BY <1>1, <1>5, <2>2, <2>4, <2>5 DEF Recent, Conflicts
  <2>7. ASSUME alone[w]
        PROVE  /\ \A x \in Done(w)' : \E e \in edges' : Conflicts(e, src, IdOf(x))
               /\ \A e \in edges' : e.src = src =>
                      e.updated <= threshold[w] \/ \E x \in Done(w)' : e.dst = IdOf(x)
    <3>1. /\ \A x \in Done(w) : \E e \in edges : Conflicts(e, src, IdOf(x))
          /\ \A e \in edges : e.src = src =>
                e.updated <= threshold[w] \/ \E x \in Done(w) : e.dst = IdOf(x)
      BY <1>1, <2>1, <2>7 DEF Exact, Looping, src
    <3>2. ASSUME NEW x \in Done(w)' PROVE \E e \in edges' : Conflicts(e, src, IdOf(x))
      <4>1. CASE IdOf(x) = to
        BY <1>4, <4>1 DEF EdgeStamped
      <4>2. CASE IdOf(x) # to
        <5>1. PICK e \in edges : Conflicts(e, src, IdOf(x))
          BY <2>3, <3>1, <3>2, <4>2 DEF to
        <5>2. ~Conflicts(e, src, to)
          BY <4>2, <5>1 DEF Conflicts
        <5> QED BY <1>4, <5>1, <5>2 DEF EdgeStamped
      <4> QED BY <4>1, <4>2
    <3>3. ASSUME NEW e \in edges', e.src = src
          PROVE  e.updated <= threshold[w] \/ \E x \in Done(w)' : e.dst = IdOf(x)
      <4>1. CASE Conflicts(e, src, to)
        BY <2>3, <4>1 DEF Conflicts, to
      <4>2. CASE e \in edges
        BY <2>3, <3>1, <3>3, <4>2
      <4> QED BY <1>4, <4>1, <4>2 DEF EdgeStamped
    <3> QED BY <3>2, <3>3
  <2>8. Exact(w)'
    BY <1>1, <2>4, <2>7 DEF Exact, Conflicts
  <2> QED BY <2>6, <2>8
<1>11. ASSUME NEW u \in Updater, u # w PROVE Placed(u)' /\ (Ahead = 0 => Recent(u)' /\ Exact(u)')
  <2>1. SameUpdater(u)
    BY <1>11 DEF UpsertFollowEdge, SameUpdater, UpdaterInv, TypeOKUpdater
  <2>2. alone'[u] /\ upc[u] # "rest" => IdOf(page[u]) # src
    <3>1. Undisturbed(u) /\ Placed(u)
      BY DEF UpdaterInv
    <3> QED BY <1>1, <1>2, <1>11, <3>1, IdsDiffer DEF Undisturbed, Placed, UpdaterInv, src
  <2>3. LocalEdges(u)
    BY <1>4, <1>5, <2>2 DEF LocalEdges, EdgeStamped, Conflicts
  <2> QED BY <1>6, <2>1, <2>3, OthersKeep
<1>12. \A u \in Updater : Undisturbed(u)'
  <2>1. \A u \in Updater : u = w \/ (upc'[u] = upc[u] /\ alone'[u] = alone[u])
    BY DEF UpsertFollowEdge, UpdaterInv, TypeOKUpdater
  <2> QED BY <1>1, <2>1, StillUndisturbed
<1> QED BY <1>4, <1>6, <1>7, <1>8, <1>9, <1>10, <1>11, <1>12 DEF UpdaterInv

LEMMA LoopDoneInv ==
    ASSUME UpdaterInv, NEW w \in Updater, LoopDone(w)
    PROVE  UpdaterInv'
<1>1. LinksStay /\ TypeOK' /\ edges' = edges /\ now' = now /\ links' = links
  BY QuietStore DEF LoopDone, UpdaterInv, TypeOKUpdater, vars
<1>2. /\ upc[w] = "link" /\ upc'[w] = "remove" /\ page' = page /\ outgoing' = outgoing
      /\ todo' = todo /\ todo[w] = {} /\ threshold' = threshold /\ alone' = alone /\ dst' = dst
      /\ \A u \in Updater : u = w \/ upc'[u] = upc[u]
  BY DEF LoopDone, UpdaterInv, TypeOKUpdater
<1>3. \A u \in Updater : u = w \/ SameUpdater(u)
  BY <1>2 DEF SameUpdater
<1>4. TypeOKUpdater'
  BY <1>1 DEF LoopDone, UpdaterInv, TypeOKUpdater, Labels
<1>5. Placed(w) /\ (Ahead = 0 => Recent(w) /\ Exact(w))
  BY DEF UpdaterInv
<1>6. Placed(w)'
  BY <1>1, <1>2, <1>5 DEF Placed, HasLink, Looping
<1>7. Done(w)' = Done(w)
  BY <1>2 DEF Done
<1>8. \A x : IdOf(x)' = IdOf(x)
  BY <1>1 DEF IdOf
<1>9. IdOf(page[w])' = IdOf(page[w])
  BY <1>1, <1>2 DEF IdOf
<1>10. Ahead = 0 => Recent(w)' /\ Exact(w)'
  BY <1>1, <1>2, <1>5, <1>7, <1>8, <1>9 DEF Recent, Exact, Conflicts, Looping
<1>11. ASSUME NEW u \in Updater PROVE Placed(u)' /\ (Ahead = 0 => Recent(u)' /\ Exact(u)')
  <2>1. CASE u = w
    BY <1>6, <1>10, <2>1
  <2>2. CASE u # w
    BY <1>1, <1>3, <2>2, OthersKeep, SameEdges DEF UpdaterInv, TypeOKUpdater
  <2> QED BY <2>1, <2>2
<1>12. \A u \in Updater : Undisturbed(u)'
  BY <1>2, StillUndisturbed
<1>13. LinkKeys' /\ EdgeKeys' /\ Stamped'
  BY <1>1 DEF UpdaterInv, LinksStay, EdgeKeys, Stamped
<1> QED BY <1>4, <1>11, <1>12, <1>13 DEF UpdaterInv

(* An updater that is done, or that a failed call stops, may have removed  *)
(* edges of its page, which nobody undisturbed has.                        *)
LEMMA RestInv ==
    ASSUME UpdaterInv, NEW w \in Updater, upc[w] # "rest", Rest(w), links' = links, now' = now,
           edges' \subseteq edges,
           \A e \in edges : e \in edges' \/ e.src = IdOf(page[w])
    PROVE  UpdaterInv'
<1>1. /\ upc'[w] = "rest" /\ page' = [page EXCEPT ![w] = NoURL]
      /\ \A u \in Updater : u = w \/ (SameUpdater(u) /\ upc'[u] = upc[u] /\ alone'[u] = alone[u])
  BY DEF Rest, SameUpdater, UpdaterInv, TypeOKUpdater
<1>2. LinksStay /\ TypeOK' /\ LinkKeys' /\ now \in Nat
  BY DEF LinksStay, LinkKeys, UpdaterInv, TypeOKUpdater, TypeOK
<1>3. TypeOKUpdater'
  BY <1>2 DEF Rest, UpdaterInv, TypeOKUpdater, Labels
<1>4. EdgeKeys' /\ Stamped'
  BY DEF EdgeKeys, Stamped, UpdaterInv
<1>5. Placed(w)' /\ (Ahead = 0 => Recent(w)' /\ Exact(w)')
  BY <1>1 DEF Placed, Recent, Exact, Looping
<1>6. ASSUME NEW u \in Updater, u # w PROVE Placed(u)' /\ (Ahead = 0 => Recent(u)' /\ Exact(u)')
  <2>1. SameUpdater(u)
    BY <1>1, <1>6
  <2>2. alone'[u] /\ upc[u] # "rest" => IdOf(page[u]) # IdOf(page[w])
    <3>1. Undisturbed(u) /\ Placed(u) /\ Placed(w)
      BY DEF UpdaterInv
    <3> QED BY <1>1, <1>6, <3>1, IdsDiffer DEF Undisturbed, Placed, UpdaterInv
  <2>3. LocalEdges(u)
    BY <1>2, <2>2 DEF LocalEdges, UpdaterInv, TypeOKUpdater, TypeOK
  <2> QED BY <1>2, <2>1, <2>3, OthersKeep
<1>7. \A u \in Updater : Undisturbed(u)'
  BY <1>1, StillUndisturbed
<1> QED BY <1>2, <1>3, <1>4, <1>5, <1>6, <1>7 DEF UpdaterInv

LEMMA ElsewhereInv ==
    ASSUME UpdaterInv, UpsertElsewhere
    PROVE  UpdaterInv'
<1>1. PICK url \in URL, t \in Nat : UpsertLink(url, t)
  BY UpdaterAssumption DEF UpsertElsewhere, CrawlerTime, UpdaterInv, TypeOKUpdater, TypeOK
<1>2. LinksStay /\ TypeOK' /\ edges' = edges /\ now' = now
  BY <1>1, LinkUpserted DEF UpdaterInv, TypeOKUpdater
<1>3. UNCHANGED upVars
  BY DEF UpsertElsewhere
<1>4. TypeOKUpdater' /\ \A u \in Updater : Undisturbed(u)'
  BY <1>2, <1>3 DEF upVars, UpdaterInv, TypeOKUpdater, Undisturbed
<1>5. ASSUME NEW u \in Updater PROVE Placed(u)' /\ (Ahead = 0 => Recent(u)' /\ Exact(u)')
  <2>1. SameUpdater(u)
    BY <1>3 DEF SameUpdater, upVars
  <2> QED BY <1>2, <2>1, SameEdges, OthersKeep DEF UpdaterInv, TypeOKUpdater
<1>6. LinkKeys' /\ EdgeKeys' /\ Stamped'
  BY <1>2 DEF UpdaterInv, LinksStay, EdgeKeys, Stamped
<1> QED BY <1>4, <1>5, <1>6 DEF UpdaterInv

LEMMA StoreTickInv ==
    ASSUME UpdaterInv, Tick, UNCHANGED upVars
    PROVE  UpdaterInv'
<1>1. links' = links /\ edges' = edges /\ now' = now + 1
  BY DEF Tick
<1>2. LinksStay /\ TypeOK' /\ LinkKeys' /\ EdgeKeys' /\ Stamped' /\ now \in Nat
  BY <1>1 DEF LinksStay, LinkKeys, EdgeKeys, Stamped, UpdaterInv, TypeOKUpdater, TypeOK, EdgeRow
<1>3. TypeOKUpdater' /\ \A u \in Updater : Undisturbed(u)'
  BY <1>2 DEF upVars, UpdaterInv, TypeOKUpdater, Undisturbed
<1>4. ASSUME NEW u \in Updater PROVE Placed(u)' /\ (Ahead = 0 => Recent(u)' /\ Exact(u)')
  <2>1. SameUpdater(u)
    BY DEF SameUpdater, upVars
  <2>2. LocalEdges(u)
    BY <1>1, <1>2 DEF LocalEdges, TypeOK
  <2> QED BY <1>2, <2>1, <2>2, OthersKeep
<1> QED BY <1>2, <1>3, <1>4 DEF UpdaterInv

LEMMA StutterInv ==
    ASSUME UpdaterInv, UNCHANGED allUpVars
    PROVE  UpdaterInv'
<1>1. links' = links /\ edges' = edges /\ now' = now
  BY DEF allUpVars, vars
<1>2. LinksStay /\ TypeOK' /\ LinkKeys' /\ EdgeKeys' /\ Stamped'
  BY <1>1 DEF LinksStay, LinkKeys, EdgeKeys, Stamped, UpdaterInv, TypeOKUpdater, TypeOK
<1>3. TypeOKUpdater' /\ \A u \in Updater : Undisturbed(u)'
  BY <1>2 DEF allUpVars, upVars, UpdaterInv, TypeOKUpdater, Undisturbed
<1>4. ASSUME NEW u \in Updater PROVE Placed(u)' /\ (Ahead = 0 => Recent(u)' /\ Exact(u)')
  <2>1. SameUpdater(u)
    BY DEF SameUpdater, allUpVars, upVars
  <2> QED BY <1>1, <1>2, <2>1, SameEdges, OthersKeep DEF UpdaterInv, TypeOKUpdater
<1> QED BY <1>2, <1>3, <1>4 DEF UpdaterInv
-----------------------------------------------------------------------------
LEMMA UpdaterInvInit == InitUpdater => UpdaterInv
<1> SUFFICES ASSUME InitUpdater PROVE UpdaterInv
  OBVIOUS
<1>1. links = {} /\ edges = {} /\ now = 0 /\ \A u \in Updater : upc[u] = "rest"
  BY DEF InitUpdater, Init
<1>2. TypeOKUpdater
  BY DEF InitUpdater, Init, TypeOKUpdater, TypeOK, Labels
<1>3. LinkKeys /\ EdgeKeys /\ Stamped
  BY <1>1 DEF LinkKeys, EdgeKeys, Stamped
<1>4. \A u \in Updater : Placed(u) /\ Undisturbed(u) /\ Recent(u) /\ Exact(u)
  BY <1>1 DEF Placed, Undisturbed, Recent, Exact, Looping
<1> QED BY <1>2, <1>3, <1>4 DEF UpdaterInv

LEMMA RemoveStaleInv ==
    ASSUME UpdaterInv, NEW w \in Updater, RemoveStale(w)
    PROVE  UpdaterInv'
<1>1. upc[w] # "rest" /\ Rest(w) /\ links' = links /\ now' = now
  BY DEF RemoveStale, RemoveStaleEdges
<1>2. edges' = {row \in edges : ~(row.src = IdOf(page[w]) /\ row.updated < OlderThan(w))}
  BY DEF RemoveStale, RemoveStaleEdges
<1>3. edges' \subseteq edges /\ \A e \in edges : e \in edges' \/ e.src = IdOf(page[w])
  BY <1>2
<1> QED BY <1>1, <1>3, RestInv

LEMMA UpdaterInvStep == UpdaterInv /\ [NextUpdater]_allUpVars => UpdaterInv'
<1> SUFFICES ASSUME UpdaterInv, [NextUpdater]_allUpVars PROVE UpdaterInv'
  OBVIOUS
<1>1. ASSUME NEW u \in Updater, NEW url \in URL, NEW follow \in SUBSET URL,
             NEW noFollow \in SUBSET URL, Start(u, url, follow, noFollow)
      PROVE  UpdaterInv'
  BY <1>1, StartInv
<1>2. ASSUME NEW u \in Updater, NEW url \in URL,
             UpsertNoFollow(u, url) \/ UpsertFollow(u, url)
      PROVE  UpdaterInv'
  BY <1>2, UpsertNoFollowInv, UpsertFollowInv
<1>3. ASSUME NEW u \in Updater,
             TakeTime(u) \/ UpsertFollowEdge(u) \/ LoopDone(u) \/ RemoveStale(u)
      PROVE  UpdaterInv'
  BY <1>3, TakeTimeInv, UpsertFollowEdgeInv, LoopDoneInv, RemoveStaleInv
<1>4. ASSUME NEW u \in Updater, StoreFails(u) PROVE UpdaterInv'
  BY <1>4, RestInv DEF StoreFails, vars
<1>5. CASE Tick /\ UNCHANGED upVars
  BY <1>5, StoreTickInv
<1>6. CASE UNCHANGED allUpVars
  BY <1>6, StutterInv
<1>7. CASE UpsertElsewhere
  BY <1>7, ElsewhereInv
<1> QED BY <1>1, <1>2, <1>3, <1>4, <1>5, <1>6, <1>7 DEF NextUpdater, Idle

(* The links and edges of every update in progress are where it left them. *)
THEOREM UpdatesInductive == SpecUpdater => []UpdaterInv
BY UpdaterInvInit, UpdaterInvStep, PTL DEF SpecUpdater

(* UpsertEdge and RemoveStaleEdges never see a link that is not there,     *)
(* whatever the clocks of the crawlers.                                    *)
THEOREM LinksNeverMissing == SpecUpdater => []EdgeLinksKnown
<1>1. UpdaterInv => EdgeLinksKnown
  BY DEF UpdaterInv, Placed, EdgeLinksKnown, Looping
<1> QED BY <1>1, UpdatesInductive, PTL

(* No crawler whose clock agrees with the store's removes an edge it has   *)
(* upserted, even while others update the same page.                       *)
THEOREM OwnEdgesKept == Ahead = 0 => (SpecUpdater => OwnEdgesSurvive)
<1> SUFFICES ASSUME Ahead = 0 PROVE SpecUpdater => OwnEdgesSurvive
  OBVIOUS
<1>1. ASSUME UpdaterInv, [NextUpdater]_allUpVars PROVE KeepsItsOwn
  <2> SUFFICES ASSUME NEW u \in Updater, upc[u] = "remove", upc'[u] = "rest",
                      NEW row \in EdgesFrom(IdOf(page[u])), NEW url \in outgoing[u],
                      row.dst = IdOf(url)
               PROVE  row \in edges'
    BY DEF KeepsItsOwn
  <2>1. row \in edges /\ Conflicts(row, IdOf(page[u]), IdOf(url))
    BY DEF EdgesFrom, Conflicts
  <2>2. Recent(u) /\ Placed(u) /\ upc \in [Updater -> Labels]
    BY <1>1 DEF UpdaterInv, TypeOKUpdater
  <2>3. url \in Done(u)
    BY <2>2 DEF Placed, Done
  <2>4. row.updated >= threshold[u] /\ row.updated \in Nat /\ threshold[u] \in Nat
    BY <1>1, <2>1, <2>2, <2>3 DEF Recent, Looping, UpdaterInv, TypeOKUpdater, TypeOK, EdgeRow
  <2>5. RemoveStale(u) \/ UNCHANGED vars
    <3>1. ASSUME NEW v \in Updater, NEW x \in URL,
                 UpsertNoFollow(v, x) \/ UpsertFollow(v, x) \/ UpsertFollowEdge(v)
          PROVE  FALSE
      BY <2>2, <3>1 DEF UpsertNoFollow, UpsertFollow, UpsertFollowEdge
    <3>2. ASSUME NEW v \in Updater, NEW x \in URL, NEW f \in SUBSET URL, NEW n \in SUBSET URL,
                 Start(v, x, f, n)
          PROVE  FALSE
      BY <2>2, <3>2 DEF Start
    <3>3. ASSUME NEW v \in Updater, UpsertFollowEdge(v) PROVE FALSE
      BY <2>2, <3>3 DEF UpsertFollowEdge
    <3>4. ASSUME NEW v \in Updater, RemoveStale(v) PROVE v = u
      BY <2>2, <3>4 DEF RemoveStale, Rest
    <3>5. ASSUME NEW v \in Updater, TakeTime(v) \/ LoopDone(v) \/ StoreFails(v) PROVE UNCHANGED vars
      BY <3>5 DEF TakeTime, LoopDone, StoreFails
    <3>6. ~(Tick /\ UNCHANGED upVars) /\ ~UpsertElsewhere
      BY <2>2 DEF upVars, UpsertElsewhere
    <3> QED BY <1>1, <3>1, <3>2, <3>3, <3>4, <3>5, <3>6 DEF NextUpdater, Idle, allUpVars
  <2>6. CASE RemoveStale(u)
    <3>1. ~(row.updated < threshold[u])
      BY <2>4
    <3> QED BY <2>1, <2>6, <3>1 DEF RemoveStale, RemoveStaleEdges, OlderThan
  <2> QED BY <2>1, <2>5, <2>6 DEF vars
<1> QED BY <1>1, UpdatesInductive, PTL DEF OwnEdgesSurvive, SpecUpdater

(* A crawler that nobody disturbs leaves its page with the edges it found. *)
THEOREM UpdateIsExact == Ahead = 0 => (SpecUpdater => ExactWhenAlone)
<1> SUFFICES ASSUME Ahead = 0 PROVE SpecUpdater => ExactWhenAlone
  OBVIOUS
<1>1. ASSUME UpdaterInv, [NextUpdater]_allUpVars PROVE LeavesItsEdges
  <2> SUFFICES ASSUME NEW u \in Updater, alone[u], RemoveStale(u)
               PROVE  LET src   == IdOf(page[u])
                          found == {IdOf(url) : url \in outgoing[u]}
                          stay  == {row \in edges' : row.src = src}
                      IN  /\ found \subseteq {row.dst : row \in stay}
                          /\ \A row \in stay : row.dst \in found \/ row.updated = threshold[u]
    BY DEF LeavesItsEdges
  <2> DEFINE src == IdOf(page[u])
  <2>1. upc[u] = "remove" /\ todo[u] = {} /\ Recent(u) /\ Exact(u)
    BY <1>1 DEF RemoveStale, UpdaterInv, Placed
  <2>2. Done(u) = outgoing[u]
    BY <2>1 DEF Done
  <2>3. edges' = {row \in edges : ~(row.src = src /\ row.updated < threshold[u])}
    BY DEF RemoveStale, RemoveStaleEdges, OlderThan
  <2>4. threshold[u] \in Nat /\ \A e \in edges : e.updated \in Nat
    BY <1>1 DEF UpdaterInv, TypeOKUpdater, TypeOK, EdgeRow
  <2>5. ASSUME NEW url \in outgoing[u]
        PROVE  \E row \in edges' : row.src = src /\ row.dst = IdOf(url)
    <3>1. PICK e \in edges : Conflicts(e, src, IdOf(url))
      BY <2>1, <2>2 DEF Exact, Looping
    <3>2. e.updated >= threshold[u]
      BY <2>1, <2>2, <3>1 DEF Recent, Looping
    <3>3. ~(e.updated < threshold[u])
      BY <2>4, <3>2
    <3> QED BY <2>3, <3>1, <3>3 DEF Conflicts
  <2>6. ASSUME NEW row \in edges', row.src = src
        PROVE  (\E url \in outgoing[u] : row.dst = IdOf(url)) \/ row.updated = threshold[u]
    <3>1. row \in edges /\ ~(row.updated < threshold[u])
      BY <2>3, <2>6
    <3>2. row.updated <= threshold[u] \/ \E url \in outgoing[u] : row.dst = IdOf(url)
      BY <2>1, <2>2, <2>6, <3>1 DEF Exact, Looping
    <3> QED BY <2>4, <3>1, <3>2
  <2> HIDE DEF src
  <2> QED BY <2>5, <2>6 DEF src
<1> QED BY <1>1, UpdatesInductive, PTL DEF ExactWhenAlone, SpecUpdater
-----------------------------------------------------------------------------
(***************************************************************************)
(* The cluster.  The partitions of the full range split it, for every      *)
(* number of them and every size of the range; and so crawlers that agree  *)
(* on the number of partitions never crawl a link again before its time,   *)
(* however many they are, whatever they find and however they are killed   *)
(* and restarted.                                                          *)
(***************************************************************************)
(* Multiplication by a natural number is monotone.                         *)
LEMMA TimesMonotone ==
    ASSUME NEW s \in Nat, NEW a \in Nat, NEW b \in Nat, a <= b
    PROVE  s * a \in Nat /\ s * a <= s * b
<1>1. PICK d \in Nat : b = a + d
  <2>1. b - a \in Nat /\ b = a + (b - a)
    OBVIOUS
  <2> QED BY <2>1
<1>2. s * b = s * a + s * d
  BY <1>1
<1>3. s * a \in Nat /\ s * d \in Nat
  BY <1>1
<1> QED BY <1>2, <1>3

(* What division is, for the size of a partition.                          *)
LEMMA PartSizeFacts ==
    ASSUME NEW n \in Nat \ {0}
    PROVE  /\ PartSize(0, MaxID, n) \in Nat
           /\ n * PartSize(0, MaxID, n) <= MaxID + 1
BY IDAssumption DEF PartSize

(* No id is in two partitions of the same split: two crawlers that agree   *)
(* on the number of partitions never crawl the same link.                  *)
THEOREM PartitionsDisjoint ==
    ASSUME NEW n \in Nat \ {0}, NEW p \in 0..n - 1, NEW q \in 0..n - 1, p < q
    PROVE  FullExtent(n, p) \intersect FullExtent(n, q) = {}
<1> DEFINE size == PartSize(0, MaxID, n)
<1>1. size \in Nat
  BY PartSizeFacts
<1>2. To(0, MaxID, n, p) = size * (p + 1)
  BY DEF To, Split
<1>3. From(0, MaxID, n, q) = size * q
  BY DEF From, Split
<1>4. size * (p + 1) \in Nat /\ size * (p + 1) <= size * q
  BY <1>1, TimesMonotone
<1>5. size * q \in Nat
  BY <1>1
<1>6. ASSUME NEW id \in ID, id < size * (p + 1), size * q <= id PROVE FALSE
  BY <1>4, <1>5, <1>6 DEF ID
<1> QED BY <1>2, <1>3, <1>6 DEF FullExtent, Extent

(* Every id but the last one, which no id generator returns, is in a       *)
(* partition: no link is left out by all the crawlers.                     *)
THEOREM PartitionsCover ==
    ASSUME NEW n \in Nat \ {0}, NEW id \in ID, id < MaxID
    PROVE  \E p \in 0..n - 1 : id \in FullExtent(n, p)
<1> DEFINE size == PartSize(0, MaxID, n)
<1>1. size \in Nat /\ n - 1 \in Nat
  BY PartSizeFacts
<1>2. CASE size * (n - 1) <= id \/ n = 1
  <2>1. To(0, MaxID, n, n - 1) = MaxID
    BY DEF To, Split
  <2>2. From(0, MaxID, n, n - 1) <= id
    BY <1>2 DEF From, Split, ID
  <2> QED BY <1>1, <2>1, <2>2 DEF FullExtent, Extent
<1>3. CASE id < size * (n - 1) /\ n # 1
  <2>1. size > 0
    <3>1. ASSUME size = 0 PROVE FALSE
      <4>1. 0 * (n - 1) = 0
        OBVIOUS
      <4> HIDE DEF size
      <4>2. size * (n - 1) = 0
        BY <3>1, <4>1
      <4> QED BY <1>3, <4>2 DEF ID
    <3> HIDE DEF size
    <3> QED BY <1>1, <3>1
  <2> DEFINE p == id \div size
  <2>2. p \in Nat /\ size * p <= id /\ id < size * (p + 1)
    <3> HIDE DEF size
    <3> QED BY <1>1, <2>1 DEF ID
  <2>3. p < n - 1
    <3>1. ASSUME n - 1 <= p PROVE FALSE
      <4>1. size * (n - 1) <= size * p
        BY <1>1, <2>2, <3>1, TimesMonotone
      <4> HIDE DEF size, p
      <4>2. size * (n - 1) \in Nat /\ size * p \in Nat
        BY <1>1, <2>2
      <4> QED BY <1>3, <2>2, <4>1, <4>2 DEF ID
    <3> HIDE DEF size, p
    <3> QED BY <1>1, <2>2, <3>1
  <2>4. p \in 0..n - 1
    <3> HIDE DEF size, p
    <3> QED BY <2>2, <2>3
  <2>5. To(0, MaxID, n, p) = size * (p + 1)
    BY <2>3, <2>2 DEF To, Split
  <2>6. From(0, MaxID, n, p) <= id
    <3>1. CASE p = 0
      BY <3>1 DEF From, ID
    <3>2. CASE p # 0
      <4>1. From(0, MaxID, n, p) = size * p
        BY <2>2, <2>3, <3>2 DEF From, Split
      <4> QED BY <2>2, <4>1
    <3> QED BY <3>1, <3>2
  <2>7. id \in FullExtent(n, p)
    <3> HIDE DEF size, p
    <3> QED BY <2>2, <2>5, <2>6 DEF FullExtent, Extent
  <2> QED BY <2>4, <2>7
<1>4. size * (n - 1) \in Nat
  BY <1>1
<1> HIDE DEF size
<1> QED BY <1>2, <1>3, <1>4 DEF ID

(* How many partitions NewFullRange accepts: 2^128 / 2^120, that is 256.   *)
THEOREM PartitionLimit ==
    ASSUME NEW n \in Nat, n >= 2
    PROVE  ValidFullRange(n) <=> n * ShortBelow <= MaxID + 1
<1> DEFINE size == PartSize(0, MaxID, n)
<1>1. size \in Nat
  BY PartSizeFacts
<1>2. \A p \in 0..n - 2 : Split(0, MaxID, n, p) = size * (p + 1)
  BY DEF Split
<1>3. (size >= ShortBelow) <=> n * ShortBelow <= MaxID + 1
  <2>1. n * size <= MaxID + 1 /\ MaxID + 1 < n * size + n
    BY IDAssumption DEF PartSize
  <2>2. ASSUME ShortBelow <= size PROVE n * ShortBelow <= MaxID + 1
    <3>1. n * ShortBelow <= n * size /\ n * ShortBelow \in Nat
      BY <1>1, <2>2, TimesMonotone, IDAssumption
    <3> HIDE DEF size
    <3> QED BY <1>1, <2>1, <3>1, IDAssumption
  <2>3. ASSUME size + 1 <= ShortBelow PROVE MaxID + 1 < n * ShortBelow
    <3>1. n * (size + 1) <= n * ShortBelow /\ n * (size + 1) \in Nat
      BY <1>1, <2>3, TimesMonotone, IDAssumption
    <3> HIDE DEF size
    <3>2. n * (size + 1) = n * size + n /\ n * size \in Nat /\ n * ShortBelow \in Nat
      BY <1>1, IDAssumption
    <3> QED BY <2>1, <3>1, <3>2, IDAssumption
  <2> HIDE DEF size
  <2>4. n * ShortBelow \in Nat
    BY IDAssumption
  <2> QED BY <1>1, <2>2, <2>3, <2>4, IDAssumption
<1>4. (size >= ShortBelow) <=> \A p \in 0..n - 2 : size * (p + 1) >= ShortBelow
  <2> HIDE DEF size
  <2>1. ASSUME size >= ShortBelow, NEW p \in 0..n - 2 PROVE size * (p + 1) >= ShortBelow
    <3>1. size * 1 <= size * (p + 1) /\ size * (p + 1) \in Nat
      BY <1>1, TimesMonotone
    <3> QED BY <1>1, <2>1, <3>1, IDAssumption
  <2>2. ASSUME \A p \in 0..n - 2 : size * (p + 1) >= ShortBelow PROVE size >= ShortBelow
    <3>1. 0 \in 0..n - 2
      OBVIOUS
    <3>2. size * (0 + 1) >= ShortBelow
      BY <2>2, <3>1
    <3> QED BY <1>1, <3>2
  <2> QED BY <2>1, <2>2
<1>5. ValidFullRange(n) <=> \A p \in 0..n - 2 : size * (p + 1) >= ShortBelow
  BY <1>2, IDAssumption DEF ValidFullRange, ValidRange
<1> QED BY <1>3, <1>4, <1>5
-----------------------------------------------------------------------------
(* A URL and an id have one row.                                           *)
RowsUnique == \A r, s \in links : r.id = s.id \/ r.url = s.url => r = s

(* What a crawler has still to read or in its pipeline ...                 *)
Work(i) == left[i] \union taken[i]

(* ... are links of the store ...                                          *)
LeftKnown == \A i \in Instance : \A id \in Work(i) : Known(id)

(* ... that are in its own partition and due, also when time has passed    *)
(* and other crawlers have retrieved links since its pass began.           *)
LeftDue ==
    ~moved =>
        /\ addresses = NumInstances
        /\ \A i \in Instance : \A row \in links :
              row.id \in Work(i) => row.id \in FullExtent(NumInstances, i) /\ Due(row)

(* No link that is in a pipeline will be read once more.                   *)
ReadOnce == \A i \in Instance : left[i] \intersect taken[i] = {}

ClusterInv ==
    /\ links \subseteq LinkRow /\ now \in Nat
    /\ left \in [Instance -> SUBSET LinkID] /\ taken \in [Instance -> SUBSET LinkID]
    /\ RowsUnique
    /\ LeftKnown
    /\ LeftDue
    /\ ReadOnce
-----------------------------------------------------------------------------
LEMMA LaterInNat ==
    ASSUME NEW s \in Nat, NEW t \in Nat
    PROVE  Later(s, t) \in Nat
BY DEF Later

(* An upsert keeps the tables in order, and every id that was known; a row *)
(* is new, or it is that of the URL with its time replaced, or it was      *)
(* there before.                                                           *)
LEMMA UpsertRows ==
    ASSUME links \subseteq LinkRow, now \in Nat, RowsUnique,
           NEW url \in URL, NEW t \in Nat, UpsertLink(url, t)
    PROVE  /\ links' \subseteq LinkRow /\ now' = now
           /\ RowsUnique'
           /\ \A id : Known(id) => Known(id)'
           /\ \A new \in links' :
                 \/ new \in links
                 \/ ~Known(new.id)
                 \/ \E row \in links :
                       /\ row.url = url /\ new.url = url /\ row.id = new.id
                       /\ new.retrieved = Later(row.retrieved, t)
<1>1. CASE \E row \in links :
              /\ row.url = url
              /\ links' = (links \ {row})
                          \union {[row EXCEPT !.retrieved = Later(@, t)]}
  <2>1. PICK row \in links :
              /\ row.url = url
              /\ links' = (links \ {row})
                          \union {[row EXCEPT !.retrieved = Later(@, t)]}
    BY <1>1
  <2> DEFINE new == [row EXCEPT !.retrieved = Later(@, t)]
  <2>2. /\ new.id = row.id /\ new.url = row.url
        /\ new.retrieved = Later(row.retrieved, t) /\ new \in LinkRow
    BY LaterInNat DEF LinkRow
  <2>3. links' = (links \ {row}) \union {new}
    BY <2>1
  <2> HIDE DEF new
  <2>4. RowsUnique'
    BY <2>2, <2>3 DEF RowsUnique
  <2>5. \A id : Known(id) => Known(id)'
    BY <2>2, <2>3 DEF Known
  <2> QED BY <2>1, <2>2, <2>3, <2>4, <2>5 DEF UpsertLink
<1>2. CASE /\ \A row \in links : row.url # url
           /\ \E id \in LinkID :
                 /\ \A row \in links : row.id # id
                 /\ links' = links \union {[id |-> id, url |-> url, retrieved |-> t]}
  <2>1. PICK id \in LinkID :
                 /\ \A row \in links : row.id # id
                 /\ links' = links \union {[id |-> id, url |-> url, retrieved |-> t]}
    BY <1>2
  <2>2. \A row \in links : row.url # url
    BY <1>2
  <2> DEFINE new == [id |-> id, url |-> url, retrieved |-> t]
  <2>3. new.id = id /\ new.url = url /\ new \in LinkRow /\ links' = links \union {new}
    BY <2>1 DEF LinkRow
  <2> HIDE DEF new
  <2>4. RowsUnique'
    BY <2>1, <2>2, <2>3 DEF RowsUnique
  <2> QED BY <2>1, <2>3, <2>4 DEF UpsertLink, Known
<1> QED BY <1>1, <1>2 DEF UpsertLink

(* An upsert with the zero time, that of a link found on a page, leaves    *)
(* the rows that are there as they are.                                    *)
LEMMA FoundRows ==
    ASSUME links \subseteq LinkRow, now \in Nat, RowsUnique,
           NEW url \in URL, UpsertLink(url, 0)
    PROVE  \A new \in links' : new \in links \/ ~Known(new.id)
<1> SUFFICES ASSUME NEW new \in links', NEW row \in links,
                    row.url = new.url, row.id = new.id,
                    new.retrieved = Later(row.retrieved, 0)
             PROVE  new \in links
  BY UpsertRows
<1>1. new \in LinkRow
  BY UpsertRows
<1>2. new.retrieved = row.retrieved
  BY DEF Later, LinkRow
<1>3. new = row
  BY <1>1, <1>2 DEF LinkRow
<1> QED BY <1>3

(* No two crawlers have the same partition.                                *)
LEMMA OwnPartition ==
    ASSUME NEW i \in Instance, NEW j \in Instance, i # j,
           NEW id \in FullExtent(NumInstances, i)
    PROVE  id \notin FullExtent(NumInstances, j)
<1>1. NumInstances \in Nat \ {0}
  BY ClusterAssumption
<1>2. CASE i < j
  BY <1>1, <1>2, PartitionsDisjoint DEF Instance
<1>3. CASE j < i
  BY <1>1, <1>3, PartitionsDisjoint DEF Instance
<1> QED BY <1>1, <1>2, <1>3 DEF Instance

LEMMA ClusterInvInit == InitCluster => ClusterInv
BY DEF InitCluster, ClusterInv, RowsUnique, LeftKnown, LeftDue, ReadOnce, Work

(* What a crawler works on shrinks, or goes on into the pipeline, or the   *)
(* step is none of a crawler; the store and the DNS stay as they are.      *)
LEMMA WorkShrinks ==
    ASSUME ClusterInv, NEW i \in Instance,
           NEW rest \in SUBSET LinkID, NEW inside \in SUBSET LinkID,
           rest \union inside \subseteq Work(i), rest \intersect inside = {},
           left' = [left EXCEPT ![i] = rest], taken' = [taken EXCEPT ![i] = inside],
           UNCHANGED <<vars, addresses, moved>>
    PROVE  ClusterInv'
<1>1. /\ left' \in [Instance -> SUBSET LinkID] /\ taken' \in [Instance -> SUBSET LinkID]
      /\ left'[i] = rest /\ taken'[i] = inside
      /\ \A j \in Instance \ {i} : left'[j] = left[j] /\ taken'[j] = taken[j]
  BY DEF ClusterInv
<1>2. \A j \in Instance : Work(j)' \subseteq Work(j)
  BY <1>1 DEF Work
<1>3. RowsUnique' /\ LeftKnown'
  BY <1>2 DEF ClusterInv, RowsUnique, LeftKnown, Known, vars
<1>4. LeftDue'
  BY <1>2 DEF ClusterInv, LeftDue, Due, vars
<1>5. ReadOnce'
  BY <1>1 DEF ClusterInv, ReadOnce
<1> QED BY <1>1, <1>3, <1>4, <1>5 DEF ClusterInv, vars

LEMMA CrawlBeginStep ==
    ASSUME ClusterInv, NEW i \in Instance, CrawlBegin(i)
    PROVE  ClusterInv'
<1> USE DEF vars
<1> DEFINE batch == Batch(addresses, i)
<1>1. batch \subseteq LinkID /\ \A id \in batch : Known(id)
  BY DEF Batch, ClusterInv, LinkRow, Known
<1>2. /\ left' = [left EXCEPT ![i] = batch] /\ taken' = [taken EXCEPT ![i] = {}]
      /\ UNCHANGED <<links, edges, now, addresses, moved>>
  BY DEF CrawlBegin
<1>3. \A id \in batch : \E row \in links :
          id = row.id /\ id \in FullExtent(addresses, i) /\ Due(row)
  BY DEF Batch
<1> HIDE DEF batch
<1>4. /\ left' \in [Instance -> SUBSET LinkID] /\ taken' \in [Instance -> SUBSET LinkID]
      /\ left'[i] = batch /\ taken'[i] = {}
      /\ \A j \in Instance \ {i} : left'[j] = left[j] /\ taken'[j] = taken[j]
  BY <1>1, <1>2 DEF ClusterInv
<1>5. Work(i)' = batch /\ \A j \in Instance \ {i} : Work(j)' = Work(j)
  BY <1>4 DEF Work
<1>6. LeftKnown'
  BY <1>1, <1>2, <1>5 DEF ClusterInv, LeftKnown, Known
<1>7. LeftDue'
  <2>1. SUFFICES ASSUME ~moved
                 PROVE  \A row \in links : row.id \in batch =>
                            row.id \in FullExtent(NumInstances, i) /\ Due(row)
    BY <1>2, <1>5 DEF ClusterInv, LeftDue, Due
  <2>2. addresses = NumInstances
    BY <2>1 DEF ClusterInv, LeftDue
  <2> QED BY <1>3, <2>2 DEF ClusterInv, RowsUnique
<1>8. ReadOnce'
  BY <1>4 DEF ClusterInv, ReadOnce
<1> QED BY <1>2, <1>4, <1>6, <1>7, <1>8 DEF ClusterInv, RowsUnique

(* The link that is crawled leaves the pass, and is in nobody else's: that *)
(* its time is now does not concern what the others work on.               *)
LEMMA RetrieveStep ==
    ASSUME ClusterInv, NEW i \in Instance, NEW row \in links, Retrieve(i, row)
    PROVE  ClusterInv'
<1>1. /\ row.id \in taken[i] /\ left' = left
      /\ taken' = [taken EXCEPT ![i] = taken[i] \ {row.id}]
      /\ UpsertLink(row.url, now) /\ UNCHANGED <<addresses, moved>>
  BY DEF Retrieve, Settle
<1>2. row \in LinkRow /\ links \subseteq LinkRow /\ now \in Nat /\ RowsUnique
  BY DEF ClusterInv
<1>3. /\ links' \subseteq LinkRow /\ now' = now
      /\ RowsUnique'
      /\ \A id : Known(id) => Known(id)'
  BY <1>1, <1>2, UpsertRows DEF LinkRow
<1>4. \A new \in links' : new \in links \/ ~Known(new.id) \/ new.id = row.id
  BY <1>1, <1>2, UpsertRows DEF LinkRow, RowsUnique
<1>5. /\ taken' \in [Instance -> SUBSET LinkID] /\ taken'[i] = taken[i] \ {row.id}
      /\ \A j \in Instance \ {i} : taken'[j] = taken[j]
  BY <1>1 DEF ClusterInv
<1>6. ReadOnce'
  BY <1>1, <1>5 DEF ClusterInv, ReadOnce
<1>7. row.id \in Work(i) /\ row.id \notin Work(i)' /\ \A j \in Instance : Work(j)' \subseteq Work(j)
  BY <1>1, <1>5 DEF ClusterInv, ReadOnce, Work
<1>8. LeftKnown'
  BY <1>3, <1>7 DEF ClusterInv, LeftKnown
<1>9. LeftDue'
  <2> SUFFICES ASSUME ~moved PROVE
          \A j \in Instance : \A new \in links' : new.id \in Work(j)' =>
              new.id \in FullExtent(NumInstances, j) /\ Due(new)
    BY <1>1, <1>3 DEF ClusterInv, LeftDue, Due
  <2> TAKE j \in Instance
  <2> TAKE new \in links'
  <2>1. SUFFICES ASSUME new.id \in Work(j)'
                 PROVE  new.id \in FullExtent(NumInstances, j) /\ Due(new)
    OBVIOUS
  <2>2. new.id \in Work(j)
    BY <1>7, <2>1
  <2>3. new.id # row.id
    <3>1. CASE j = i
      BY <1>7, <2>1, <3>1
    <3>2. CASE j # i
      <4>1. row.id \in FullExtent(NumInstances, i)
        BY <1>7 DEF ClusterInv, LeftDue
      <4>2. row.id \notin FullExtent(NumInstances, j)
        BY <3>2, <4>1, OwnPartition
      <4>3. row.id \notin Work(j)
        BY <4>2 DEF ClusterInv, LeftDue
      <4> QED BY <2>2, <4>3
    <3> QED BY <3>1, <3>2
  <2>4. Known(new.id)
    BY <2>2 DEF ClusterInv, LeftKnown
  <2>5. new \in links
    BY <1>4, <2>3, <2>4
  <2> QED BY <2>2, <2>5 DEF ClusterInv, LeftDue
<1> QED BY <1>1, <1>2, <1>3, <1>5, <1>6, <1>8, <1>9 DEF ClusterInv

LEMMA FindStep ==
    ASSUME ClusterInv, NEW i \in Instance, NEW url \in URL, Find(i, url)
    PROVE  ClusterInv'
<1>1. UpsertLink(url, 0) /\ UNCHANGED <<left, taken, addresses, moved>>
  BY DEF Find, instanceVars
<1>2. links \subseteq LinkRow /\ now \in Nat /\ RowsUnique
  BY DEF ClusterInv
<1>3. /\ links' \subseteq LinkRow /\ now' = now
      /\ RowsUnique'
      /\ \A id : Known(id) => Known(id)'
  BY <1>1, <1>2, UpsertRows
<1>4. \A new \in links' : new \in links \/ ~Known(new.id)
  BY <1>1, <1>2, FoundRows
<1>5. LeftKnown' /\ ReadOnce'
  BY <1>1, <1>3 DEF ClusterInv, LeftKnown, ReadOnce, Work
<1>6. LeftDue'
  BY <1>1, <1>3, <1>4 DEF ClusterInv, LeftKnown, LeftDue, Due, Work
<1> QED BY <1>1, <1>2, <1>3, <1>5, <1>6 DEF ClusterInv

(* A link that is due stays due.                                           *)
LEMMA TickStep ==
    ASSUME ClusterInv, Tick, UNCHANGED <<left, taken, addresses, moved>>
    PROVE  ClusterInv'
<1>1. links' = links /\ now' = now + 1 /\ now \in Nat
  BY DEF Tick, ClusterInv
<1>2. LeftDue'
  <2>1. ReIndexThreshold \in Nat
    BY ClusterAssumption
  <2>2. \A row \in links : row.retrieved \in Nat
    BY DEF ClusterInv, LinkRow
  <2>3. \A row \in links : Due(row) => Due(row)'
    BY <1>1, <2>1, <2>2 DEF Due
  <2> QED BY <1>1, <2>3 DEF ClusterInv, LeftDue, Work
<1> QED BY <1>1, <1>2 DEF ClusterInv, RowsUnique, LeftKnown, Known, ReadOnce, Work
-----------------------------------------------------------------------------
LEMMA InstanceStep ==
    ASSUME ClusterInv, NEW i \in Instance,
           \/ CrawlInvalid(i) \/ CrawlEnd(i) \/ CrawlStop(i) \/ CrawlFails(i)
           \/ Restart(i) \/ Killed(i)
           \/ RankBegin(i) \/ RankEnd(i) \/ RankFails(i) \/ RankStop(i)
           \/ FrontendStop(i) \/ GroupReturn(i) \/ Signal(i)
    PROVE  ClusterInv'
<1>1. UNCHANGED <<vars, addresses, moved>>
  BY DEF CrawlInvalid, CrawlEnd, CrawlStop, CrawlFails, CrawlerStops, Restart, Killed, Fresh,
         RankBegin, RankEnd, RankFails, RankStop, RankerBecomes, FrontendStop, GroupReturn, Signal
<1>2. \/ left' = [left EXCEPT ![i] = {}] /\ taken' = [taken EXCEPT ![i] = {}]
      \/ left' = left /\ taken' = taken
  BY DEF CrawlInvalid, CrawlEnd, CrawlStop, CrawlFails, CrawlerStops, Restart, Killed, Fresh,
         RankBegin, RankEnd, RankFails, RankStop, RankerBecomes, FrontendStop, GroupReturn, Signal
<1>3. /\ left = [left EXCEPT ![i] = left[i]] /\ left[i] \in SUBSET LinkID
      /\ taken = [taken EXCEPT ![i] = taken[i]] /\ taken[i] \in SUBSET LinkID
      /\ left[i] \intersect taken[i] = {}
  BY DEF ClusterInv, ReadOnce
<1>4. CASE left' = [left EXCEPT ![i] = {}] /\ taken' = [taken EXCEPT ![i] = {}]
  <2>1. {} \in SUBSET LinkID /\ {} \union {} \subseteq Work(i) /\ {} \intersect {} = {}
    OBVIOUS
  <2> QED BY <1>1, <1>4, <2>1, WorkShrinks
<1>5. CASE left' = left /\ taken' = taken
  <2>1. left[i] \union taken[i] \subseteq Work(i)
    BY DEF Work
  <2> QED BY <1>1, <1>3, <1>5, <2>1, WorkShrinks
<1> QED BY <1>2, <1>4, <1>5

LEMMA ReadStep ==
    ASSUME ClusterInv, NEW i \in Instance, NEW row \in links, Read(i, row)
    PROVE  ClusterInv'
<1> DEFINE rest == left[i] \ {row.id}
           inside == taken[i] \union {row.id}
<1>1. /\ row.id \in left[i]
      /\ left' = [left EXCEPT ![i] = rest] /\ taken' = [taken EXCEPT ![i] = inside]
      /\ UNCHANGED <<vars, addresses, moved>>
  BY DEF Read
<1>2. rest \in SUBSET LinkID /\ inside \in SUBSET LinkID
  BY <1>1 DEF ClusterInv
<1>3. rest \union inside \subseteq Work(i) /\ rest \intersect inside = {}
  BY <1>1 DEF ClusterInv, ReadOnce, Work
<1> QED BY <1>1, <1>2, <1>3, WorkShrinks

LEMMA RefuseStep ==
    ASSUME ClusterInv, NEW i \in Instance, NEW row \in links, Refuse(i, row)
    PROVE  ClusterInv'
<1> DEFINE inside == taken[i] \ {row.id}
<1>1. /\ left' = [left EXCEPT ![i] = left[i]] /\ taken' = [taken EXCEPT ![i] = inside]
      /\ UNCHANGED <<vars, addresses, moved>>
  BY DEF Refuse, Settle, ClusterInv
<1>2. left[i] \in SUBSET LinkID /\ inside \in SUBSET LinkID
  BY DEF ClusterInv
<1>3. left[i] \union inside \subseteq Work(i) /\ left[i] \intersect inside = {}
  BY DEF ClusterInv, ReadOnce, Work
<1> QED BY <1>1, <1>2, <1>3, WorkShrinks

LEMMA ClusterInvStep ==
    ASSUME ClusterInv, [NextCluster]_clusterVars
    PROVE  ClusterInv'
<1>1. CASE \E i \in Instance :
              \/ CrawlerStep(i) \/ CrawlFails(i)
              \/ PipelineStep(i)
              \/ \E url \in URL : Find(i, url)
              \/ RankBegin(i) \/ RankEnd(i) \/ RankFails(i) \/ RankStop(i)
              \/ FrontendStop(i) \/ GroupReturn(i) \/ Signal(i) \/ Restart(i) \/ Killed(i)
  <2>1. PICK i \in Instance :
              \/ CrawlerStep(i) \/ CrawlFails(i)
              \/ PipelineStep(i)
              \/ \E url \in URL : Find(i, url)
              \/ RankBegin(i) \/ RankEnd(i) \/ RankFails(i) \/ RankStop(i)
              \/ FrontendStop(i) \/ GroupReturn(i) \/ Signal(i) \/ Restart(i) \/ Killed(i)
    BY <1>1
  <2>2. CASE PipelineStep(i)
    BY <2>2, ReadStep, RefuseStep, RetrieveStep DEF PipelineStep
  <2>4. ASSUME NEW url \in URL, Find(i, url) PROVE ClusterInv'
    BY <2>4, FindStep
  <2>5. CASE CrawlBegin(i)
    BY <2>5, CrawlBeginStep
  <2> QED BY <2>1, <2>2, <2>4, <2>5, InstanceStep DEF CrawlerStep
<1>2. CASE \E n \in 1..NumInstances : Resolve(n)
  BY <1>2 DEF Resolve, instanceVars, vars, ClusterInv, RowsUnique, LeftKnown, LeftDue, ReadOnce, Work,
              Known
<1>3. CASE Tick /\ UNCHANGED <<instanceVars, addresses, trouble, moved, settled>>
  BY <1>3, TickStep DEF instanceVars
<1>4. CASE UNCHANGED clusterVars
  BY <1>4 DEF clusterVars, instanceVars, vars, ClusterInv, RowsUnique, LeftKnown, LeftDue, ReadOnce, Work,
              Known, Due
<1> QED BY <1>1, <1>2, <1>3, <1>4 DEF NextCluster

(* A step changes the time of a link that is there only if the link is due. *)
LEMMA NotTooSoonStep ==
    ASSUME ClusterInv, [NextCluster]_clusterVars
    PROVE  NotTooSoon
<1> SUFFICES ASSUME ~moved, NEW old \in links, NEW new \in links',
                    old.id = new.id, old.retrieved # new.retrieved
             PROVE  Due(old)
  BY DEF NotTooSoon, Due
<1>1. CASE links' = links
  BY <1>1 DEF ClusterInv, RowsUnique
<1>2. ASSUME NEW i \in Instance, NEW row \in links, Retrieve(i, row)
      PROVE  Due(old)
  <2>1. row.id \in Work(i) /\ UpsertLink(row.url, now)
    BY <1>2 DEF Retrieve, Settle, Work
  <2>2. new.id = row.id \/ new \in links
    BY <2>1, UpsertRows DEF ClusterInv, LinkRow, RowsUnique, Known
  <2>3. old = row
    BY <2>2 DEF ClusterInv, RowsUnique
  <2> QED BY <2>1, <2>3 DEF ClusterInv, LeftDue
<1>3. ASSUME NEW i \in Instance, NEW url \in URL, Find(i, url)
      PROVE  Due(old)
  <2>1. new \in links
    BY <1>3, FoundRows DEF Find, ClusterInv, Known
  <2> QED BY <2>1 DEF ClusterInv, RowsUnique
<1>4. \/ links' = links
      \/ \E i \in Instance, row \in links : Retrieve(i, row)
      \/ \E i \in Instance, url \in URL : Find(i, url)
  BY DEF NextCluster, clusterVars, instanceVars, vars, CrawlerStep, CrawlBegin, CrawlInvalid, CrawlEnd,
         CrawlStop, CrawlFails, CrawlerStops, Restart, Killed, Fresh, PipelineStep, Read, Refuse, RankBegin, RankEnd,
         RankFails, RankStop, RankerBecomes, FrontendStop, GroupReturn, Signal, Resolve, Tick
<1> QED BY <1>1, <1>2, <1>3, <1>4

(* As long as all crawlers are told the same number of partitions, no link *)
(* is crawled again before the threshold has passed: for every number of   *)
(* instances, links and ids, and every sequence of kills and restarts.     *)
THEOREM CrawledInTime == SpecCluster => CrawledOnceADue
<1>1. SpecCluster => []ClusterInv
  BY ClusterInvInit, ClusterInvStep, PTL DEF SpecCluster
<1> QED BY <1>1, NotTooSoonStep, PTL DEF SpecCluster, CrawledOnceADue
-----------------------------------------------------------------------------
(***************************************************************************)
(* The ranker: what a PageRank pass may miss of a store that changes while *)
(* it loads.                                                               *)
(***************************************************************************)
USE DEF vars, rankVars, allRankVars

(* When the pass began, by the store's clock.                              *)
Began == startAt - lead

(* Edges join links of the store, and its clock does not go back.          *)
StoreInv ==
    /\ \A e \in edges : Known(e.src) /\ Known(e.dst)
    /\ Began <= now

(* A link that was there when the links were loaded is in the graph, or was*)
(* crawled since.  One that was not has no edge older than the pass.       *)
LinksLoaded ==
    /\ rpc \in {"links", "edges"} => rankedEdges = {}
    /\ rpc \in {"edges"} \union Loaded =>
           /\ \A id \in listed : id \in ranked \/ Recrawled(id)
           /\ \A e \in edges : e.updated < Began => e.src \in listed /\ e.dst \in listed

RankerInv ==
    /\ TypeOKRanker
    /\ StoreInv
    /\ LinksLoaded
    /\ DestinationsExplained
    /\ EdgesExplained
-----------------------------------------------------------------------------
(* Links stay, and their retrieval times only advance.                     *)
LinksKept ==
    \A row \in links : \E new \in links' : new.id = row.id /\ new.retrieved >= row.retrieved

LEMMA UpsertLinkKeeps ==
    ASSUME TypeOK, NEW url \in URL, NEW t \in Time, UpsertLink(url, t)
    PROVE  LinksKept
<1>1. \A s, r \in Nat : Later(s, r) \in Nat /\ Later(s, r) >= s
  BY DEF Later
<1>2. t \in Nat
  BY TimeAssumption DEF Time
<1>3. CASE \E row \in links :
             /\ row.url = url
             /\ links' = (links \ {row}) \union {[row EXCEPT !.retrieved = Later(@, t)]}
  <2>1. PICK old \in links :
            links' = (links \ {old}) \union {[old EXCEPT !.retrieved = Later(@, t)]}
    BY <1>3
  <2> DEFINE new == [old EXCEPT !.retrieved = Later(@, t)]
  <2>2. old \in LinkRow /\ old.retrieved \in Nat
    BY DEF TypeOK, LinkRow
  <2>3. new \in links' /\ new.id = old.id /\ new.retrieved = Later(old.retrieved, t)
    BY <2>1, <2>2 DEF LinkRow
  <2>4. new.retrieved >= old.retrieved
    BY <1>1, <1>2, <2>2, <2>3
  <2>5. ASSUME NEW row \in links
        PROVE  \E r \in links' : r.id = row.id /\ r.retrieved >= row.retrieved
    <3>1. CASE row = old
      BY <2>3, <2>4, <3>1
    <3>2. CASE row # old
      <4>1. row \in links' /\ row.retrieved \in Nat
        BY <2>1, <3>2 DEF TypeOK, LinkRow
      <4> QED BY <4>1
    <3> QED BY <3>1, <3>2
  <2> QED BY <2>5 DEF LinksKept
<1>4. CASE \E id \in LinkID :
             links' = links \union {[id |-> id, url |-> url, retrieved |-> t]}
  BY <1>4 DEF LinksKept, TypeOK, LinkRow
<1> QED BY <1>3, <1>4 DEF UpsertLink

(* The rows that the two upserts leave.                                    *)
LEMMA UpsertLinkTyped ==
    ASSUME TypeOK, NEW url \in URL, NEW t \in Time, UpsertLink(url, t)
    PROVE  links' \subseteq LinkRow
<1>1. t \in Nat
  BY TimeAssumption DEF Time
<1>2. \A s \in Nat : Later(s, t) \in Nat
  BY <1>1 DEF Later
<1>3. CASE \E id \in LinkID :
             links' = links \union {[id |-> id, url |-> url, retrieved |-> t]}
  BY <1>1, <1>3 DEF TypeOK, LinkRow
<1>4. CASE \E row \in links :
             links' = (links \ {row}) \union {[row EXCEPT !.retrieved = Later(@, t)]}
  BY <1>2, <1>4 DEF TypeOK, LinkRow
<1> QED BY <1>3, <1>4 DEF UpsertLink

LEMMA UpsertEdgeRows ==
    ASSUME TypeOK, NEW src \in LinkID, NEW to \in LinkID, UpsertEdge(src, to),
           \A e \in edges : Known(e.src) /\ Known(e.dst)
    PROVE  /\ edges' \subseteq EdgeRow
           /\ \A e \in edges' : e \in edges \/ (e.updated = now /\ Known(e.src) /\ Known(e.dst))
<1>1. CASE \E row \in edges : edges' = (edges \ {row}) \union {[row EXCEPT !.updated = now]}
  BY <1>1 DEF TypeOK, EdgeRow
<1>2. CASE \E id \in EdgeID :
             edges' = edges \union {[id |-> id, src |-> src, dst |-> to, updated |-> now]}
  BY <1>2 DEF TypeOK, EdgeRow, UpsertEdge
<1> QED BY <1>1, <1>2 DEF UpsertEdge

(* So what was known or recrawled remains so while the pass lasts.         *)
LEMMA RecrawledStays ==
    ASSUME TypeOKRanker, LinksKept, startAt' = startAt, links' \subseteq LinkRow
    PROVE  \A id : (Known(id) => Known(id)') /\ (Recrawled(id) => Recrawled(id)')
<1> SUFFICES ASSUME NEW id
             PROVE  (Known(id) => Known(id)') /\ (Recrawled(id) => Recrawled(id)')
  OBVIOUS
<1>1. Known(id) => Known(id)'
  BY DEF Known, LinksKept
<1>2. ASSUME Recrawled(id) PROVE Recrawled(id)'
  <2>1. PICK row \in links : row.id = id /\ row.retrieved >= startAt
    BY <1>2 DEF Recrawled
  <2>2. PICK new \in links' : new.id = row.id /\ new.retrieved >= row.retrieved
    BY <2>1 DEF LinksKept
  <2>3. row.retrieved \in Nat /\ new.retrieved \in Nat /\ startAt \in Nat
    BY <2>1, <2>2 DEF TypeOKRanker, TypeOK, LinkRow
  <2>4. new.retrieved >= startAt'
    BY <2>1, <2>2, <2>3
  <2> QED BY <2>1, <2>2, <2>4 DEF Recrawled
<1> QED BY <1>1, <1>2

(* The operations of the other clients of the store.                       *)
LEMMA StoreStep ==
    ASSUME RankerInv, Next, UNCHANGED rankVars
    PROVE  RankerInv'
<1> USE DEF RankerInv
<1>1. ASSUME NEW url \in URL, NEW t \in Time, UpsertLink(url, t) PROVE RankerInv'
  <2>1. UNCHANGED <<edges, now>>
    BY <1>1 DEF UpsertLink
  <2>2. links' \subseteq LinkRow
    BY <1>1, UpsertLinkTyped DEF TypeOKRanker
  <2>3. LinksKept
    BY <1>1, UpsertLinkKeeps DEF TypeOKRanker
  <2>4. \A id : (Known(id) => Known(id)') /\ (Recrawled(id) => Recrawled(id)')
    BY <2>2, <2>3, RecrawledStays
  <2> QED BY <2>1, <2>2, <2>4 DEF TypeOKRanker, TypeOK, StoreInv, Began, LinksLoaded, Loaded,
                                  DestinationsExplained, EdgesExplained
<1>2. ASSUME NEW src \in LinkID, NEW to \in LinkID, UpsertEdge(src, to) PROVE RankerInv'
  <2>1. UNCHANGED <<links, now>> /\ Known(src) /\ Known(to)
    BY <1>2 DEF UpsertEdge
  <2>2. /\ edges' \subseteq EdgeRow
        /\ \A e \in edges' : e \in edges \/ (e.updated = now /\ Known(e.src) /\ Known(e.dst))
    BY <1>2, UpsertEdgeRows DEF TypeOKRanker, StoreInv
  <2>3. \A e \in edges' : e.updated < Began => e \in edges
    BY <2>2 DEF TypeOKRanker, TypeOK, StoreInv, Began
  <2>4. \A id : (Known(id) <=> Known(id)') /\ (Recrawled(id) <=> Recrawled(id)')
    BY <2>1 DEF Known, Recrawled
  <2> QED BY <2>1, <2>2, <2>3, <2>4 DEF TypeOKRanker, TypeOK, StoreInv, Began, LinksLoaded, Loaded,
                                        DestinationsExplained, EdgesExplained
<1>3. ASSUME NEW src \in LinkID, NEW t \in Time, RemoveStaleEdges(src, t) PROVE RankerInv'
  <2>1. UNCHANGED <<links, now>> /\ edges' \subseteq edges
    BY <1>3 DEF RemoveStaleEdges
  <2>2. \A id : (Known(id) <=> Known(id)') /\ (Recrawled(id) <=> Recrawled(id)')
    BY <2>1 DEF Known, Recrawled
  <2> QED BY <2>1, <2>2 DEF TypeOKRanker, TypeOK, StoreInv, Began, LinksLoaded, Loaded,
                            DestinationsExplained, EdgesExplained
<1>4. ASSUME Tick PROVE RankerInv'
  <2>1. UNCHANGED <<links, edges>> /\ now' = now + 1
    BY <1>4 DEF Tick
  <2>2. \A id : (Known(id) <=> Known(id)') /\ (Recrawled(id) <=> Recrawled(id)')
    BY <2>1 DEF Known, Recrawled
  <2> QED BY <2>1, <2>2 DEF TypeOKRanker, TypeOK, StoreInv, Began, LinksLoaded, Loaded,
                            DestinationsExplained, EdgesExplained
<1> QED BY <1>1, <1>2, <1>3, <1>4 DEF Next
-----------------------------------------------------------------------------
LEMMA RankerInvInit == InitRanker => RankerInv
BY DEF InitRanker, Init, RankerInv, TypeOKRanker, TypeOK, StoreInv, Began, LinksLoaded, Loaded,
       DestinationsExplained, EdgesExplained

LEMMA RankerInvStep == RankerInv /\ [NextRanker]_allRankVars => RankerInv'
<1> SUFFICES ASSUME RankerInv, [NextRanker]_allRankVars PROVE RankerInv'
  OBVIOUS
<1> USE DEF RankerInv, Loaded, Began
<1>1. ASSUME UNCHANGED vars
      PROVE  /\ TypeOK' /\ UNCHANGED links
             /\ \A id : Known(id) <=> Known(id)'
             /\ startAt' = startAt => \A id : Recrawled(id) <=> Recrawled(id)'
  BY <1>1 DEF TypeOKRanker, TypeOK, Known, Recrawled
<1>2. CASE BeginPass
  <2>1. PICK d \in Int, n \in Nat : d = lead' /\ n = now /\ n + d > 0 /\ startAt' = n + d
    BY <1>2, LeadsAssumption DEF BeginPass, TypeOKRanker, TypeOK
  <2>2. n + d \in Nat /\ (n + d) - d = n /\ n <= n
    <3>1. \A m \in Nat, c \in Int : m + c > 0 => m + c \in Nat /\ (m + c) - c = m /\ m <= m
      OBVIOUS
    <3>2. n + d > 0
      BY <2>1
    <3> QED BY ONLY <3>1, <3>2, n \in Nat, d \in Int
  <2>3. startAt' \in Nat /\ lead' \in Int /\ startAt' - lead' = n /\ n <= n
    <3>1. startAt' = n + d /\ lead' = d
      BY <2>1
    <3> QED BY ONLY <2>2, <3>1, d \in Int
  <2>4. UNCHANGED vars /\ rpc' = "links" /\ ranked' = {} /\ rankedEdges' = {} /\ listed' = {}
    BY <1>2 DEF BeginPass
  <2>5. TypeOKRanker'
    BY <1>1, <2>3, <2>4 DEF TypeOKRanker
  <2>6. StoreInv'
    BY <1>1, <2>1, <2>3, <2>4 DEF StoreInv
  <2> QED BY <2>4, <2>5, <2>6 DEF LinksLoaded, DestinationsExplained, EdgesExplained
<1>3. CASE LoadLinks
  <2>1. UNCHANGED <<vars, startAt, rankedEdges, lead>> /\ rpc' = "edges" /\ rankedEdges' = {}
    BY <1>3 DEF LoadLinks, LinksLoaded
  <2>2. ASSUME NEW id \in listed' PROVE id \in ranked' \/ Recrawled(id)'
    <3>1. PICK row \in links : row.id = id
      BY <1>3 DEF LoadLinks
    <3>2. row.retrieved \in Nat /\ startAt \in Nat
      BY DEF TypeOKRanker, TypeOK, LinkRow
    <3>3. CASE row.retrieved < startAt
      BY <1>3, <3>1, <3>3 DEF LoadLinks, Selected
    <3>4. CASE row.retrieved >= startAt
      BY <2>1, <3>1, <3>4 DEF Recrawled
    <3> QED BY <3>2, <3>3, <3>4
  <2>3. \A id : Known(id) => id \in listed'
    BY <1>3 DEF LoadLinks, Known
  <2>4. TypeOKRanker'
    <3>1. ranked' \subseteq LinkID /\ listed' \subseteq LinkID
      BY <1>3 DEF LoadLinks, TypeOKRanker, TypeOK, LinkRow
    <3> QED BY <2>1, <3>1 DEF TypeOKRanker, TypeOK
  <2>5. StoreInv'
    BY <1>1, <2>1 DEF StoreInv
  <2> QED BY <2>1, <2>2, <2>3, <2>4, <2>5 DEF StoreInv, LinksLoaded, DestinationsExplained,
                                              EdgesExplained
<1>4. CASE LoadEdges
  <2>1. /\ \A id \in listed : id \in ranked \/ Recrawled(id)
        /\ \A row \in edges : row.updated < startAt - lead => row.src \in listed /\ row.dst \in listed
    BY <1>4 DEF LoadEdges, LinksLoaded
  <2>2. \A e \in rankedEdges' : \E row \in edges :
            e = <<row.src, row.dst>> /\ row.updated < startAt /\ row.src \in ranked
    BY <1>4 DEF LoadEdges, SelectedEdge, Added
  <2>3. \A row \in edges : row.updated < startAt /\ row.src # row.dst /\ row.src \in ranked =>
            <<row.src, row.dst>> \in rankedEdges'
    BY <1>4 DEF LoadEdges, SelectedEdge, Added
  <2>4. \A row \in edges : row.src \in LinkID /\ row.dst \in LinkID /\ row.updated \in Nat
    BY DEF TypeOKRanker, TypeOK, EdgeRow
  <2>5. rankedEdges' \subseteq ranked \X LinkID
    BY <2>2, <2>4
  <2>6. UNCHANGED <<vars, startAt, ranked, lead, listed>> /\ rpc' = "compute"
    BY <1>4 DEF LoadEdges
  <2>7. \A id : (Known(id) <=> Known(id)') /\ (Recrawled(id) <=> Recrawled(id)')
    BY <1>1, <2>6
  <2>8. TypeOKRanker' /\ StoreInv'
    BY <2>5, <2>6, <2>7 DEF TypeOKRanker, TypeOK, StoreInv
  <2>9. LinksLoaded'
    BY <2>1, <2>6, <2>7 DEF LinksLoaded
  <2>10. ASSUME NEW e \in rankedEdges', e[2] \in listed \/ ~(lead > 0)
         PROVE  e[2] \in ranked \/ Recrawled(e[2])
    <3>1. PICK row \in edges : e = <<row.src, row.dst>> /\ row.updated < startAt
      BY <2>2
    <3>2. CASE ~(lead > 0)
      <4>1. row.updated < startAt - lead
        BY <2>4, <3>1, <3>2 DEF TypeOKRanker
      <4> QED BY <2>1, <3>1, <4>1
    <3> QED BY <2>1, <2>10, <3>2
  <2>11. DestinationsExplained'
    BY <2>6, <2>7, <2>10 DEF DestinationsExplained
  <2>12. EdgesExplained'
    BY <2>1, <2>3, <2>6, <2>7 DEF EdgesExplained
  <2> QED BY <2>8, <2>9, <2>11, <2>12
<1>5. CASE Compute \/ Persist \/ CallFails
  <2>1. UNCHANGED <<vars, startAt, ranked, rankedEdges, lead, listed>> /\ rpc' \in {"timer", "persist", "failed"}
        /\ (rpc' = "persist" => rpc = "compute")
    BY <1>5 DEF Compute, Persist, CallFails
  <2> QED BY <1>1, <2>1 DEF TypeOKRanker, TypeOK, StoreInv, LinksLoaded, DestinationsExplained,
                            EdgesExplained
<1>6. CASE RestartRanker
  BY <1>1, <1>6 DEF RestartRanker, TypeOKRanker, TypeOK, StoreInv, LinksLoaded, DestinationsExplained,
                    EdgesExplained
<1>7. CASE Next /\ UNCHANGED rankVars
  BY <1>7, StoreStep
<1>8. CASE UNCHANGED allRankVars
  BY <1>1, <1>8 DEF TypeOKRanker, TypeOK, StoreInv, LinksLoaded, DestinationsExplained,
                    EdgesExplained
<1> QED BY <1>2, <1>3, <1>4, <1>5, <1>6, <1>7, <1>8 DEF NextRanker, PassGoesOn

(* The tables keep their integrity, and what a pass has loaded explains    *)
(* itself, whatever the clients of the store do meanwhile and however far  *)
(* the ranker's clock is from the store's.                                 *)
THEOREM PassInductive == SpecRanker => []RankerInv
BY RankerInvInit, RankerInvStep, PTL DEF SpecRanker

(* A pass fails for want of a link only if the link was crawled since the  *)
(* pass began, or was found after the links were loaded by a ranker whose  *)
(* clock is ahead of the store's.                                          *)
THEOREM FailureExplained == SpecRanker => []DestinationsExplained
BY PassInductive, PTL DEF RankerInv

(* An edge that is older than the pass, by the ranker's clock and by the   *)
(* store's, is overlooked only if its page was crawled since.              *)
THEOREM NothingOverlooked == SpecRanker => []EdgesExplained
BY PassInductive, PTL DEF RankerInv
=============================================================================
