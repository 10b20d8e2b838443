--------------------------- MODULE CrawlPagesProofs ---------------------------
(***************************************************************************)
(* Theorems about CrawlPages: the recycled payload objects have one user   *)
(* each, the result of a crawl is the number of its pages, and what        *)
(* arrives for a page is its own, whatever crawls run at the same time,    *)
(* with any number of workers and pages.                                   *)
(***************************************************************************)
EXTENDS CrawlPages, FiniteSetTheorems, SequenceTheorems, NaturalsInduction, WellFoundedInduction, TLAPS

(* Of the fields of a payload, only the link matters here.                 *)
TypeOK ==
    /\ \A o \in Object : "linkID" \in DOMAIN obj[o]
    /\ obj = [o \in Object |-> obj[o]]
    /\ pool \subseteq Object
    /\ todo \in [Crawl -> Seq(Page)]
    /\ hand \in [Crawl -> [Worker -> Object \union {None}]]
    /\ count \in [Crawl -> Nat]
    /\ result \in [Crawl -> {"running", "nil", "error"}]
    /\ seen \in [Crawl -> [{"fetch", "update", "index"} -> SUBSET Page]]

(* An object is in one pair of hands, or in the pool.                      *)
Exclusive ==
    /\ \A c, d \in Crawl, s, t \in Worker :
          hand[c][s] # None /\ hand[c][s] = hand[d][t] => c = d /\ s = t
    /\ \A c \in Crawl, s \in Worker : hand[c][s] \notin pool

(* The page whose payload worker s of crawl c holds, or None.              *)
At(c, s) == IF hand[c][s] = None THEN None ELSE obj[hand[c][s]].linkID

HoldsPages == \A c \in Crawl, s \in Worker : hand[c][s] # None => At(c, s) \in Page

(* A crawl that has returned has no payloads left.                         *)
Returned(c) ==
    result[c] # "running" =>
        /\ \A s \in Worker : hand[c][s] = None
        /\ result[c] = "nil" => c \notin failed

(* The way of a page that was retrieved to the graph updater, and to the   *)
(* text indexer.                                                           *)
Line(s) ==
    Fetcher \union {"links", "text"} \union (IF s = "update" THEN {"original", "update"} ELSE {"clone", "index"})

(* Until the context of a crawl ends, no page is on its way to the graph   *)
(* or to the index twice, or again, and none that was retrieved is lost.   *)
OnTheWay(c) ==
    \A s \in {"update", "index"} :
        /\ seen[c][s] \subseteq seen[c]["fetch"]
        /\ \A t \in Line(s) : hand[c][t] # None => At(c, t) \in seen[c]["fetch"] \ seen[c][s]
        /\ \A p \in seen[c]["fetch"] \ seen[c][s] : \E t \in Line(s) : hand[c][t] # None /\ At(c, t) = p
        /\ \A t, u \in Line(s) : hand[c][t] # None /\ hand[c][u] # None /\ At(c, t) = At(c, u) => t = u

(* The pages that are still to come are new ones.                          *)
ToCome(c) ==
    /\ \A i, j \in 1..Len(todo[c]) : todo[c][i] = todo[c][j] => i = j
    /\ \A i \in 1..Len(todo[c]) :
          todo[c][i] \notin seen[c]["fetch"] /\ (hand[c]["source"] # None => todo[c][i] # At(c, "source"))
    /\ hand[c]["source"] # None => At(c, "source") \notin seen[c]["fetch"]

Counted(c) ==
    /\ IsFiniteSet(seen[c]["update"]) /\ IsFiniteSet(seen[c]["index"])
    /\ count[c] = Cardinality(seen[c]["update"]) + Cardinality(seen[c]["index"])

InOrder(c) == Returned(c) /\ (~Stopping(c) => OnTheWay(c) /\ ToCome(c) /\ Counted(c))

IInv == TypeOK /\ Exclusive /\ HoldsPages /\ \A c \in Crawl : InOrder(c)
-----------------------------------------------------------------------------
(* Who there is.                                                           *)
LEMMA Workers ==
    /\ {"source", "links", "text", "clone", "original", "update", "index"} \union Fetcher \subseteq Worker
    /\ \A w \in Fetcher : w \notin {"source", "links", "text", "clone", "original", "update", "index"}
    /\ \A s \in {"update", "index"} : Line(s) \subseteq Worker \ {"source"}
    /\ None \notin Object /\ None \notin Page
BY PagesAssumption DEF Worker, Line

(* An object that may be taken is nobody's, and has a link to be set.      *)
LEMMA Taken ==
    ASSUME TypeOK, Exclusive, NEW o \in Obtainable
    PROVE  /\ o \in Object /\ "linkID" \in DOMAIN Obtained(o)
           /\ \A c \in Crawl, s \in Worker : hand[c][s] # o
BY DEF TypeOK, Exclusive, Obtainable, InHand, Obtained, NewObject

(* What steps do to the objects: no link changes; the payloads in hands    *)
(* other than those of the workers S of crawl c are where they were.       *)
LinksKept == \A o \in Object : obj'[o].linkID = obj[o].linkID

HandsBut(c, S) ==
    \A d \in Crawl, u \in Worker : ~(d = c /\ u \in S) => hand'[d][u] = hand[d][u]

(* A payload goes from worker s to worker t; the payloads of S are given   *)
(* back or dropped; worker s takes a new object n for page p.              *)
HandedOver(c, s, t) ==
    /\ hand[c][s] # None /\ hand[c][t] = None
    /\ hand'[c][s] = None /\ hand'[c][t] = hand[c][s]
    /\ HandsBut(c, {s, t}) /\ LinksKept /\ pool' = pool

LetGo(c, S) ==
    /\ \A s \in S : hand'[c][s] = None
    /\ HandsBut(c, S) /\ LinksKept
    /\ pool' \subseteq pool \union {hand[c][s] : s \in S}

Prepared(n, p) ==
    /\ obj'[n].linkID = p
    /\ \A o \in Object \ {n} : obj'[o].linkID = obj[o].linkID
    /\ pool' = pool \ {n}

LEMMA HandedOverKeeps ==
    ASSUME TypeOK, TypeOK', Exclusive, HoldsPages,
           NEW c \in Crawl, NEW s \in Worker, NEW t \in Worker, HandedOver(c, s, t)
    PROVE  /\ Exclusive' /\ HoldsPages'
           /\ \A d \in Crawl, u \in Worker : ~(d = c /\ u \in {s, t}) => At(d, u)' = At(d, u)
           /\ At(c, s)' = None /\ At(c, t)' = At(c, s)
<1>1. /\ hand[c][s] \in Object /\ hand[c][s] # None /\ hand[c][t] = None /\ s # t
      /\ hand'[c][s] = None /\ hand'[c][t] = hand[c][s] /\ pool' = pool
  BY DEF HandedOver, TypeOK
<1>2. \A d \in Crawl, u \in Worker : ~(d = c /\ u \in {s, t}) => hand'[d][u] = hand[d][u]
  BY DEF HandedOver, HandsBut
<1>3. \A d \in Crawl, u \in Worker : hand[d][u] # None => obj'[hand[d][u]].linkID = obj[hand[d][u]].linkID
  BY DEF HandedOver, LinksKept, TypeOK
<1>4. Exclusive'
  BY <1>1, <1>2 DEF Exclusive
<1>5. /\ \A d \in Crawl, u \in Worker : ~(d = c /\ u \in {s, t}) => At(d, u)' = At(d, u)
      /\ At(c, s)' = None /\ At(c, t)' = At(c, s)
  BY <1>1, <1>2, <1>3 DEF At
<1>6. HoldsPages'
  BY <1>1, <1>2, <1>5 DEF HoldsPages
<1> QED BY <1>4, <1>5, <1>6

LEMMA LetGoKeeps ==
    ASSUME TypeOK, TypeOK', Exclusive, HoldsPages,
           NEW c \in Crawl, NEW S \in SUBSET Worker, LetGo(c, S)
    PROVE  /\ Exclusive' /\ HoldsPages'
           /\ \A d \in Crawl, u \in Worker : ~(d = c /\ u \in S) => At(d, u)' = At(d, u)
<1>1. /\ \A s \in S : hand'[c][s] = None
      /\ pool' \subseteq pool \union {hand[c][s] : s \in S}
  BY DEF LetGo
<1>2. \A d \in Crawl, u \in Worker : ~(d = c /\ u \in S) => hand'[d][u] = hand[d][u]
  BY DEF LetGo, HandsBut
<1>3. \A d \in Crawl, u \in Worker : hand[d][u] # None => obj'[hand[d][u]].linkID = obj[hand[d][u]].linkID
  BY DEF LetGo, LinksKept, TypeOK
<1>4. Exclusive'
  <2>1. \A d \in Crawl, u \in Worker : hand'[d][u] # None =>
            hand'[d][u] = hand[d][u] /\ ~(d = c /\ u \in S)
    BY <1>1, <1>2
  <2>2. ASSUME NEW d \in Crawl, NEW u \in Worker PROVE hand'[d][u] \notin pool'
    <3>1. CASE hand'[d][u] = None
      BY <3>1, Workers DEF TypeOK
    <3>2. CASE hand'[d][u] # None
      <4>1. hand'[d][u] = hand[d][u] /\ ~(d = c /\ u \in S)
        BY <2>1, <3>2
      <4>2. \A s \in S : hand[c][s] # hand[d][u]
        BY <3>2, <4>1 DEF Exclusive
      <4>3. hand[d][u] \notin pool
        BY DEF Exclusive
      <4> QED BY <1>1, <4>1, <4>2, <4>3
    <3> QED BY <3>1, <3>2
  <2> QED BY <2>1, <2>2 DEF Exclusive
<1>5. \A d \in Crawl, u \in Worker : ~(d = c /\ u \in S) => At(d, u)' = At(d, u)
  BY <1>2, <1>3 DEF At
<1>6. HoldsPages'
  BY <1>1, <1>2, <1>5 DEF HoldsPages
<1> QED BY <1>4, <1>5, <1>6
-----------------------------------------------------------------------------
(* Changing fields other than the link.                                    *)
LEMMA Marked ==
    ASSUME TypeOK, NEW o \in Object, MarkAsProcessed(o)
    PROVE  /\ \A x \in Object : "linkID" \in DOMAIN obj'[x]
           /\ obj' = [x \in Object |-> obj'[x]]
           /\ LinksKept /\ pool' = pool \union {o} /\ pool' \subseteq Object
<1>1. PICK y : y = Cleaned(obj[o])
  OBVIOUS
<1>2. "linkID" \in DOMAIN y /\ y.linkID = obj[o].linkID
  BY <1>1 DEF Cleaned, TypeOK
<1>3. obj' = [obj EXCEPT ![o] = y]
  BY <1>1 DEF MarkAsProcessed
<1> QED BY <1>2, <1>3 DEF MarkAsProcessed, TypeOK, LinksKept

LEMMA SourcePayloadEffect ==
    ASSUME TypeOK, Exclusive, NEW c \in Crawl, SourcePayload(c)
    PROVE  /\ TypeOK'
           /\ \E n \in Object :
                 /\ n \in Obtainable /\ Prepared(n, Head(todo[c]))
                 /\ hand'[c]["source"] = n /\ HandsBut(c, {"source"})
<1>1. PICK n \in Obtainable :
        /\ obj' = [obj EXCEPT ![n] = [Obtained(n) EXCEPT !.linkID = Head(todo[c]),
                                                         !.url = URLOf[Head(todo[c])]]]
        /\ pool' = pool \ {n}
        /\ hand' = [hand EXCEPT ![c]["source"] = n]
  BY DEF SourcePayload
<1>2. n \in Object /\ "linkID" \in DOMAIN Obtained(n)
  BY Taken
<1>3. PICK y : y = [Obtained(n) EXCEPT !.linkID = Head(todo[c]), !.url = URLOf[Head(todo[c])]]
  OBVIOUS
<1>4. "linkID" \in DOMAIN y /\ y.linkID = Head(todo[c])
  BY <1>2, <1>3
<1>5. obj' = [obj EXCEPT ![n] = y]
  BY <1>1, <1>3
<1>6. "source" \in Worker
  BY Workers
<1>7. todo' \in [Crawl -> Seq(Page)]
  BY DEF SourcePayload, TypeOK
<1>8. hand' \in [Crawl -> [Worker -> Object \union {None}]]
  BY <1>1, <1>2, <1>6 DEF TypeOK
<1>9. /\ hand'[c]["source"] = n /\ HandsBut(c, {"source"})
  BY <1>1, <1>2, <1>6 DEF TypeOK, HandsBut
<1>10. /\ \A x \in Object : "linkID" \in DOMAIN obj'[x]
       /\ obj' = [x \in Object |-> obj'[x]]
       /\ Prepared(n, Head(todo[c]))
  BY <1>1, <1>2, <1>4, <1>5 DEF TypeOK, Prepared
<1>11. pool' \subseteq Object /\ UNCHANGED <<count, result, seen>>
  BY <1>1 DEF SourcePayload, TypeOK
<1> QED BY <1>1, <1>2, <1>7, <1>8, <1>9, <1>10, <1>11 DEF TypeOK

LEMMA Moved ==
    ASSUME TypeOK, NEW c \in Crawl, NEW s \in Worker, NEW t \in Worker, s # t,
           hand' = [hand EXCEPT ![c][s] = None, ![c][t] = hand[c][s]]
    PROVE  /\ hand' \in [Crawl -> [Worker -> Object \union {None}]]
           /\ hand'[c][s] = None /\ hand'[c][t] = hand[c][s]
           /\ HandsBut(c, {s, t})
<1>1. PICK x \in Object \union {None} : x = hand[c][s]
  BY DEF TypeOK
<1>2. hand' = [hand EXCEPT ![c] = [@ EXCEPT ![s] = None, ![t] = x]]
  BY <1>1 DEF TypeOK
<1>3. hand[c] \in [Worker -> Object \union {None}]
  BY DEF TypeOK
<1> DEFINE h == [hand[c] EXCEPT ![s] = None, ![t] = x]
<1>4. /\ h \in [Worker -> Object \union {None}]
      /\ h[s] = None /\ h[t] = x
      /\ \A u \in Worker \ {s, t} : h[u] = hand[c][u]
  BY <1>3
<1>5. PICK g \in [Worker -> Object \union {None}] : g = h
  BY <1>4
<1>6. hand' = [hand EXCEPT ![c] = g]
  BY <1>2, <1>5
<1>7. hand' \in [Crawl -> [Worker -> Object \union {None}]] /\ hand'[c] = g
  <2>1. hand \in [Crawl -> [Worker -> Object \union {None}]]
    BY DEF TypeOK
  <2> QED BY <1>5, <1>6, <2>1
<1>8. \A d \in Crawl \ {c} : hand'[d] = hand[d]
  <2>1. hand \in [Crawl -> [Worker -> Object \union {None}]]
    BY DEF TypeOK
  <2> QED BY <1>6, <2>1
<1>9. g[s] = None /\ g[t] = x /\ \A u \in Worker \ {s, t} : g[u] = hand[c][u]
  BY <1>4, <1>5
<1>10. HandsBut(c, {s, t})
  BY <1>7, <1>8, <1>9 DEF HandsBut
<1> QED BY <1>1, <1>7, <1>9, <1>10

LEMMA Emptied ==
    ASSUME TypeOK, NEW c \in Crawl, NEW s \in Worker,
           hand' = [hand EXCEPT ![c][s] = None]
    PROVE  /\ hand' \in [Crawl -> [Worker -> Object \union {None}]]
           /\ hand'[c][s] = None
           /\ HandsBut(c, {s})
BY DEF TypeOK, HandsBut

(* A page is retrieved, or it is passed over or lost.                      *)
LEMMA FetchEffect ==
    ASSUME TypeOK, HoldsPages, NEW c \in Crawl, NEW w \in Fetcher, FetchNothing(c, w) \/ FetchPage(c, w)
    PROVE  /\ TypeOK'
           /\ UNCHANGED <<todo, cancelled, count, result>>
           /\ \/ LetGo(c, {"source"}) /\ UNCHANGED seen /\ failed' \in {failed, failed \union {c}}
              \/ /\ HandedOver(c, "source", w) /\ UNCHANGED failed
                 /\ seen' = [seen EXCEPT ![c]["fetch"] = @ \union {At(c, "source")}]
<1> DEFINE o == hand[c]["source"]
<1>1. "source" \in Worker /\ w \in Worker /\ w # "source"
  BY Workers
<1>2. o \in Object /\ o # None /\ hand[c][w] = None
  BY <1>1 DEF FetchNothing, FetchPage, Takes, TypeOK
<1>3. UNCHANGED <<todo, cancelled, count, result>>
  BY DEF FetchNothing, FetchPage
<1>4. CASE MarkAsProcessed(o) /\ hand' = [hand EXCEPT ![c]["source"] = None] /\ UNCHANGED seen
           /\ failed' \in {failed, failed \union {c}}
  <2> DEFINE given == {hand[c][s] : s \in {"source"}}
  <2>0. o \in given
    OBVIOUS
  <2>1. LetGo(c, {"source"})
    <3>1. pool' \subseteq pool \union given /\ LinksKept
      BY <1>2, <1>4, <2>0, Marked
    <3>2. hand'[c]["source"] = None /\ HandsBut(c, {"source"})
      BY <1>1, <1>4, Emptied
    <3> QED BY <3>1, <3>2 DEF LetGo
  <2>2. TypeOK'
    BY <1>1, <1>2, <1>3, <1>4, Marked, Emptied DEF TypeOK
  <2> QED BY <1>3, <1>4, <2>1, <2>2
<1>5. ASSUME NEW p,
             obj' = [obj EXCEPT ![o].rawContent = Append(@, p)],
             hand' = [hand EXCEPT ![c]["source"] = None, ![c][w] = o],
             seen' = [seen EXCEPT ![c]["fetch"] = @ \union {obj[o].linkID}],
             UNCHANGED <<pool, failed>>
      PROVE  /\ TypeOK' /\ HandedOver(c, "source", w)
             /\ seen' = [seen EXCEPT ![c]["fetch"] = @ \union {At(c, "source")}]
  <2>1. PICK y : y = [obj[o] EXCEPT !.rawContent = Append(@, p)]
    OBVIOUS
  <2>2. "linkID" \in DOMAIN y /\ y.linkID = obj[o].linkID
    BY <1>2, <2>1 DEF TypeOK
  <2>3. obj' = [obj EXCEPT ![o] = y]
    BY <1>5, <2>1
  <2>4. /\ \A x \in Object : "linkID" \in DOMAIN obj'[x]
        /\ obj' = [x \in Object |-> obj'[x]]
        /\ LinksKept
    BY <1>2, <2>2, <2>3 DEF TypeOK, LinksKept
  <2>5. /\ hand' \in [Crawl -> [Worker -> Object \union {None}]]
        /\ hand'[c]["source"] = None /\ hand'[c][w] = o
        /\ HandsBut(c, {"source", w})
    BY <1>1, <1>5, Moved
  <2>6. At(c, "source") = obj[o].linkID /\ At(c, "source") \in Page
    BY <1>1, <1>2 DEF At, HoldsPages
  <2>7. seen' \in [Crawl -> [{"fetch", "update", "index"} -> SUBSET Page]]
    BY <1>5, <2>6 DEF TypeOK
  <2>8. TypeOK'
    BY <1>3, <1>5, <2>4, <2>5, <2>7 DEF TypeOK
  <2>9. HandedOver(c, "source", w)
    BY <1>2, <1>5, <2>4, <2>5 DEF HandedOver
  <2> QED BY <1>5, <2>6, <2>8, <2>9
<1>6. CASE FetchNothing(c, w)
  BY <1>4, <1>6 DEF FetchNothing
<1>7. CASE FetchPage(c, w)
  <2>1. \/ MarkAsProcessed(o) /\ hand' = [hand EXCEPT ![c]["source"] = None] /\ UNCHANGED seen /\ EmitsError(c)
        \/ /\ obj' = [obj EXCEPT ![o].rawContent = Append(@, CHOOSE p \in Page : URLOf[p] = obj[o].url)]
           /\ hand' = [hand EXCEPT ![c]["source"] = None, ![c][w] = o]
           /\ seen' = [seen EXCEPT ![c]["fetch"] = @ \union {obj[o].linkID}]
           /\ UNCHANGED <<pool, failed>>
    BY <1>7 DEF FetchPage
  <2>2. EmitsError(c) => failed' = failed \union {c}
    BY DEF EmitsError
  <2> HIDE DEF o
  <2> QED BY <1>3, <1>4, <1>5, <2>1, <2>2
<1> QED BY <1>6, <1>7

LEMMA ExtractLinksEffect ==
    ASSUME TypeOK, NEW c \in Crawl, NEW w \in Fetcher, ExtractLinks(c, w)
    PROVE  /\ TypeOK'
           /\ UNCHANGED <<todo, failed, cancelled, count, result, seen>>
           /\ HandedOver(c, w, "links") \/ UNCHANGED <<obj, pool, hand>>
<1> DEFINE o == hand[c][w]
           found == FindLinks(obj[o].url, Content(obj[o].rawContent))
<1>1. "links" \in Worker /\ w \in Worker /\ w # "links"
  BY Workers
<1>2. o \in Object /\ o # None /\ hand[c]["links"] = None
  <2>1. Takes(c, w, "links")
    BY DEF ExtractLinks
  <2> QED BY <1>1, <2>1 DEF Takes, TypeOK
<1>3. UNCHANGED <<todo, failed, cancelled, count, result, seen>> /\ UNCHANGED pool
  BY DEF ExtractLinks
<1>4. CASE UNCHANGED <<obj, hand>>
  BY <1>3, <1>4 DEF TypeOK
<1>5. ASSUME NEW a, NEW b, NEW m, NEW n,
             obj' = [obj EXCEPT ![o].noFollowLinks = [array |-> a, len |-> @.len + m],
                                ![o].links = [array |-> b, len |-> @.len + n]],
             hand' = [hand EXCEPT ![c][w] = None, ![c]["links"] = o]
      PROVE  TypeOK' /\ HandedOver(c, w, "links")
  <2>1. PICK y : y = [obj[o] EXCEPT !.noFollowLinks = [array |-> a, len |-> @.len + m],
                                    !.links = [array |-> b, len |-> @.len + n]]
    OBVIOUS
  <2>2. "linkID" \in DOMAIN y /\ y.linkID = obj[o].linkID
    BY <1>2, <2>1 DEF TypeOK
  <2>3. obj' = [obj EXCEPT ![o] = y]
    BY <1>2, <1>5, <2>1 DEF TypeOK
  <2>4. /\ \A x \in Object : "linkID" \in DOMAIN obj'[x]
        /\ obj' = [x \in Object |-> obj'[x]]
        /\ LinksKept
    BY <1>2, <2>2, <2>3 DEF TypeOK, LinksKept
  <2>5. /\ hand' \in [Crawl -> [Worker -> Object \union {None}]]
        /\ hand'[c][w] = None /\ hand'[c]["links"] = o
        /\ HandsBut(c, {w, "links"})
    BY <1>1, <1>5, Moved
  <2>6. TypeOK'
    BY <1>3, <2>4, <2>5 DEF TypeOK
  <2> QED BY <1>2, <1>3, <2>4, <2>5, <2>6 DEF HandedOver
<1>6. \/ UNCHANGED <<obj, hand>>
      \/ /\ obj' = [obj EXCEPT
               ![o].noFollowLinks = [array |-> ArrayOf(o, "noFollowLinks"), len |-> @.len + Len(found.noFollowLinks)],
               ![o].links = [array |-> ArrayOf(o, "links"), len |-> @.len + Len(found.links)]]
         /\ hand' = [hand EXCEPT ![c][w] = None, ![c]["links"] = o]
  BY DEF ExtractLinks
<1>7. PICK a, b, m, n : /\ a = ArrayOf(o, "noFollowLinks") /\ b = ArrayOf(o, "links")
                        /\ m = Len(found.noFollowLinks) /\ n = Len(found.links)
  OBVIOUS
<1>8. \/ UNCHANGED <<obj, hand>>
      \/ /\ obj' = [obj EXCEPT ![o].noFollowLinks = [array |-> a, len |-> @.len + m],
                                ![o].links = [array |-> b, len |-> @.len + n]]
         /\ hand' = [hand EXCEPT ![c][w] = None, ![c]["links"] = o]
  BY <1>6, <1>7
<1>9. CASE obj' = [obj EXCEPT ![o].noFollowLinks = [array |-> a, len |-> @.len + m],
                              ![o].links = [array |-> b, len |-> @.len + n]]
           /\ hand' = [hand EXCEPT ![c][w] = None, ![c]["links"] = o]
  <2>1. TypeOK' /\ HandedOver(c, w, "links")
    BY <1>5, <1>9
  <2> QED BY <1>3, <2>1
<1>10. CASE UNCHANGED <<obj, hand>>
  BY <1>3, <1>4, <1>10
<1> QED BY <1>8, <1>9, <1>10

LEMMA ExtractTextEffect ==
    ASSUME TypeOK, NEW c \in Crawl, ExtractText(c)
    PROVE  /\ TypeOK' /\ HandedOver(c, "links", "text")
           /\ UNCHANGED <<todo, failed, cancelled, count, result, seen>>
<1> DEFINE o == hand[c]["links"]
           raw == obj[o].rawContent
           titles == {i \in DOMAIN raw : ContentOf[raw[i]].titled}
<1>1. "links" \in Worker /\ "text" \in Worker
  BY Workers
<1>2. o \in Object /\ o # None /\ hand[c]["text"] = None
  <2>1. Takes(c, "links", "text")
    BY DEF ExtractText
  <2> QED BY <1>1, <2>1 DEF Takes, TypeOK
<1>3. /\ UNCHANGED <<todo, failed, cancelled, count, result, seen>> /\ UNCHANGED pool
      /\ hand' = [hand EXCEPT ![c]["links"] = None, ![c]["text"] = o]
      /\ obj' = [obj EXCEPT ![o].title = IF titles = {} THEN @ ELSE raw[Min(titles)],
                            ![o].textContent = raw,
                            ![o].rawContent = <<>>]
  BY DEF ExtractText
<1>4. PICK t, r, q : t = titles /\ r = raw /\ q = raw[Min(titles)]
  OBVIOUS
<1>5. obj' = [obj EXCEPT ![o].title = IF t = {} THEN @ ELSE q,
                            ![o].textContent = r,
                            ![o].rawContent = <<>>]
  BY <1>3, <1>4
<1> HIDE DEF o, raw, titles
<1>6. PICK y : y = [obj[o] EXCEPT !.title = IF t = {} THEN @ ELSE q,
                                  !.textContent = r,
                                  !.rawContent = <<>>]
  OBVIOUS
<1>7. "linkID" \in DOMAIN y /\ y.linkID = obj[o].linkID
  BY <1>2, <1>6 DEF TypeOK
<1>8. obj' = [obj EXCEPT ![o] = y]
  BY <1>2, <1>5, <1>6 DEF TypeOK
<1>9. /\ \A x \in Object : "linkID" \in DOMAIN obj'[x]
      /\ obj' = [x \in Object |-> obj'[x]]
      /\ LinksKept
  BY <1>2, <1>7, <1>8 DEF TypeOK, LinksKept
<1>10. /\ hand' \in [Crawl -> [Worker -> Object \union {None}]]
       /\ hand'[c]["links"] = None /\ hand'[c]["text"] = o
       /\ HandsBut(c, {"links", "text"})
  BY <1>1, <1>3, Moved DEF o
<1>11. TypeOK'
  BY <1>3, <1>9, <1>10 DEF TypeOK
<1> QED BY <1>2, <1>3, <1>9, <1>10, <1>11 DEF HandedOver, o

LEMMA BroadcastEffect ==
    ASSUME TypeOK, Exclusive, NEW c \in Crawl, Broadcast(c)
    PROVE  /\ TypeOK'
           /\ UNCHANGED <<todo, failed, cancelled, count, result, seen>>
           /\ hand[c]["text"] # None /\ hand[c]["clone"] = None /\ hand[c]["original"] = None
           /\ \E n \in Object :
                 /\ n \in Obtainable /\ Prepared(n, At(c, "text"))
                 /\ hand'[c]["text"] = None
                 /\ hand'[c]["clone"] = n /\ hand'[c]["original"] = hand[c]["text"]
                 /\ HandsBut(c, {"text", "clone", "original"})
<1> DEFINE o == hand[c]["text"]
<1>1. /\ hand[c]["text"] # None /\ hand[c]["clone"] = None /\ hand[c]["original"] = None
      /\ UNCHANGED <<todo, failed, cancelled, count, result, seen>>
  BY DEF Broadcast, Takes
<1>2. PICK n \in Obtainable :
        /\ obj' = ClonedFields(o, n)
        /\ pool' = pool \ {n}
        /\ hand' = [hand EXCEPT ![c]["text"] = None, ![c]["clone"] = n, ![c]["original"] = o]
  BY DEF Broadcast
<1>3. /\ {"text", "clone", "original"} \subseteq Worker
      /\ n \in Object /\ "linkID" \in DOMAIN Obtained(n) /\ o # n
  BY Workers, Taken
<1>4. PICK x \in Object : x = o
  BY <1>1, <1>3 DEF TypeOK
<1>5. /\ \A y \in Object : "linkID" \in DOMAIN obj'[y]
      /\ obj' = [y \in Object |-> obj'[y]]
      /\ Prepared(n, At(c, "text"))
  <2>1. PICK new, old :
          /\ new = [Obtained(n) EXCEPT
                      !.linkID = obj[o].linkID, !.url = obj[o].url,
                      !.noFollowLinks = CopySlice(n, obj[o].noFollowLinks),
                      !.links = CopySlice(n, obj[o].links),
                      !.title = obj[o].title, !.textContent = obj[o].textContent,
                      !.rawContent = @ \o obj[o].rawContent]
          /\ old = [obj[o] EXCEPT !.rawContent = <<>>]
    OBVIOUS
  <2>2. /\ "linkID" \in DOMAIN new /\ new.linkID = obj[x].linkID
        /\ "linkID" \in DOMAIN old /\ old.linkID = obj[x].linkID
    BY <1>3, <1>4, <2>1 DEF TypeOK
  <2>3. obj' = [obj EXCEPT ![n] = new, ![x] = old]
    BY <1>2, <1>3, <1>4, <2>1 DEF ClonedFields, TypeOK
  <2>4. /\ obj'[n] = new /\ obj'[x] = old
        /\ \A y \in Object \ {n, x} : obj'[y] = obj[y]
        /\ obj' = [y \in Object |-> obj'[y]]
    BY <1>3, <1>4, <2>3 DEF TypeOK
  <2>5. At(c, "text") = obj[x].linkID
    BY <1>1, <1>4 DEF At
  <2> QED BY <1>2, <2>2, <2>4, <2>5 DEF Prepared, TypeOK
<1>6. /\ hand' \in [Crawl -> [Worker -> Object \union {None}]]
      /\ hand'[c]["text"] = None
      /\ hand'[c]["clone"] = n /\ hand'[c]["original"] = o
      /\ HandsBut(c, {"text", "clone", "original"})
  <2>1. PICK g : g = [hand[c] EXCEPT !["text"] = None, !["clone"] = n, !["original"] = x]
    OBVIOUS
  <2>2. /\ g \in [Worker -> Object \union {None}]
        /\ g["text"] = None /\ g["clone"] = n /\ g["original"] = x
        /\ \A u \in Worker \ {"text", "clone", "original"} : g[u] = hand[c][u]
    BY <1>3, <2>1 DEF TypeOK
  <2>3. hand' = [hand EXCEPT ![c] = g]
    BY <1>2, <1>4, <2>1 DEF TypeOK
  <2>4. hand' \in [Crawl -> [Worker -> Object \union {None}]] /\ hand'[c] = g
    BY <2>2, <2>3 DEF TypeOK
  <2>5. \A d \in Crawl \ {c} : hand'[d] = hand[d]
    BY <2>3 DEF TypeOK
  <2>6. HandsBut(c, {"text", "clone", "original"})
    BY <2>2, <2>4, <2>5 DEF HandsBut
  <2> QED BY <1>4, <2>2, <2>4, <2>6
<1>7. pool' \subseteq Object
  BY <1>2 DEF TypeOK
<1>8. TypeOK'
  BY <1>1, <1>5, <1>6, <1>7 DEF TypeOK
<1> QED BY <1>1, <1>2, <1>3, <1>5, <1>6, <1>8

LEMMA SendEffect ==
    ASSUME TypeOK, NEW c \in Crawl, NEW s \in Worker, NEW t \in Worker, Send(c, s, t)
    PROVE  /\ TypeOK' /\ HandedOver(c, s, t)
           /\ UNCHANGED <<todo, failed, cancelled, count, result, seen>>
<1>1. /\ hand[c][s] # None /\ hand[c][t] = None
      /\ UNCHANGED <<obj, pool, todo, failed, cancelled, count, result, seen>>
      /\ hand' = [hand EXCEPT ![c][s] = None, ![c][t] = hand[c][s]]
  BY DEF Send, Takes
<1>2. /\ hand' \in [Crawl -> [Worker -> Object \union {None}]]
      /\ hand'[c][s] = None /\ hand'[c][t] = hand[c][s]
      /\ HandsBut(c, {s, t})
  BY <1>1, Moved
<1> QED BY <1>1, <1>2 DEF TypeOK, HandedOver, LinksKept

(* The payload has arrived, or an error was emitted.                       *)
LEMMA FinishEffect ==
    ASSUME TypeOK, HoldsPages, NEW c \in Crawl, NEW s \in {"update", "index"}, Finish(c, s)
    PROVE  /\ TypeOK' /\ LetGo(c, {s}) /\ hand[c][s] # None
           /\ UNCHANGED <<todo, cancelled, result>>
           /\ \/ /\ count' = [count EXCEPT ![c] = @ + 1]
                 /\ seen' = [seen EXCEPT ![c][s] = @ \union {At(c, s)}]
                 /\ UNCHANGED failed
              \/ failed' = failed \union {c} /\ UNCHANGED <<count, seen>>
<1> DEFINE o == hand[c][s]
           given == {hand[c][t] : t \in {s}}
<1>1. s \in Worker
  BY Workers
<1>2. /\ o # None /\ o \in Object /\ o \in given
      /\ MarkAsProcessed(o)
      /\ hand' = [hand EXCEPT ![c][s] = None]
      /\ UNCHANGED <<todo, cancelled, result>>
  BY <1>1 DEF Finish, TypeOK
<1>3. At(c, s) = obj[o].linkID /\ At(c, s) \in Page
  BY <1>1, <1>2 DEF At, HoldsPages
<1>4. \/ /\ count' = [count EXCEPT ![c] = @ + 1]
         /\ seen' = [seen EXCEPT ![c][s] = @ \union {obj[o].linkID}]
         /\ UNCHANGED failed
      \/ EmitsError(c) /\ UNCHANGED <<count, seen>>
  BY DEF Finish
<1>5. LetGo(c, {s})
  <2>1. pool' \subseteq pool \union given /\ LinksKept
    BY <1>2, Marked
  <2>2. hand'[c][s] = None /\ HandsBut(c, {s})
    BY <1>1, <1>2, Emptied
  <2> QED BY <2>1, <2>2 DEF LetGo
<1>6. /\ hand' \in [Crawl -> [Worker -> Object \union {None}]]
      /\ \A x \in Object : "linkID" \in DOMAIN obj'[x]
      /\ obj' = [x \in Object |-> obj'[x]]
      /\ pool' \subseteq Object
  BY <1>1, <1>2, Marked, Emptied
<1> HIDE DEF given, o
<1>7. count' \in [Crawl -> Nat] /\ seen' \in [Crawl -> [{"fetch", "update", "index"} -> SUBSET Page]]
  <2>1. PICK p \in Page : p = obj[o].linkID
    BY <1>3
  <2>2. CASE UNCHANGED <<count, seen>>
    BY <2>2 DEF TypeOK
  <2>3. CASE /\ count' = [count EXCEPT ![c] = @ + 1]
             /\ seen' = [seen EXCEPT ![c][s] = @ \union {p}]
    BY <2>3 DEF TypeOK
  <2> QED BY <1>4, <2>1, <2>2, <2>3
<1>8. TypeOK'
  BY <1>2, <1>6, <1>7 DEF TypeOK
<1> QED BY <1>2, <1>3, <1>4, <1>5, <1>8 DEF EmitsError, o

LEMMA LeaveEffect ==
    ASSUME TypeOK, NEW c \in Crawl, NEW s \in Worker, Leave(c, s)
    PROVE  /\ TypeOK' /\ Stopping(c)
           /\ UNCHANGED <<todo, failed, cancelled, count, result, seen>>
           /\ \E S \in SUBSET Worker : LetGo(c, S)
<1>1. PICK S : S = IF s \in {"clone", "original"} THEN {"clone", "original"} ELSE {s}
  OBVIOUS
<1>2. S \subseteq Worker
  BY <1>1, Workers
<1>3. /\ Stopping(c)
      /\ UNCHANGED <<obj, pool, todo, failed, cancelled, count, result, seen>>
      /\ hand' = [hand EXCEPT ![c] = [t \in Worker |-> IF t \in S THEN None ELSE @[t]]]
  BY <1>1 DEF Leave
<1>4. /\ hand' \in [Crawl -> [Worker -> Object \union {None}]]
      /\ \A t \in S : hand'[c][t] = None
      /\ HandsBut(c, S)
  BY <1>2, <1>3 DEF TypeOK, HandsBut
<1>5. LetGo(c, S)
  BY <1>3, <1>4 DEF LetGo, LinksKept
<1> QED BY <1>2, <1>3, <1>4, <1>5 DEF TypeOK

LEMMA CallerEffect ==
    ASSUME TypeOK, NEW c \in Crawl, SourceFails(c) \/ Cancel(c) \/ Return(c)
    PROVE  /\ TypeOK' /\ UNCHANGED <<obj, pool, hand, todo, count, seen>>
           /\ Stopping(c) => Stopping(c)'
           /\ \A d \in Crawl \ {c} : result'[d] = result[d] /\ Stopping(d)' = Stopping(d)
<1>1. CASE SourceFails(c)
  BY <1>1 DEF SourceFails, EmitsError, TypeOK, Stopping
<1>2. CASE Cancel(c)
  BY <1>2 DEF Cancel, TypeOK, Stopping
<1>3. CASE Return(c)
  <2>1. result' \in [Crawl -> {"running", "nil", "error"}]
    BY <1>3 DEF Return, TypeOK
  <2>2. \A d \in Crawl \ {c} : result'[d] = result[d]
    BY <1>3 DEF Return, TypeOK
  <2> QED BY <1>3, <2>1, <2>2 DEF Return, TypeOK, Stopping
<1> QED BY <1>1, <1>2, <1>3
-----------------------------------------------------------------------------
(* A crawl is in order as long as others do something.                     *)
LEMMA OthersKept ==
    ASSUME NEW d \in Crawl, InOrder(d),
           \A u \in Worker : hand'[d][u] = hand[d][u] /\ At(d, u)' = At(d, u),
           todo'[d] = todo[d], seen'[d] = seen[d], count'[d] = count[d], result'[d] = result[d],
           Stopping(d)' <=> Stopping(d), d \in failed' => d \in failed
    PROVE  InOrder(d)'
<1>1. Returned(d)'
  BY DEF InOrder, Returned
<1>2. ASSUME ~Stopping(d) PROVE OnTheWay(d)' /\ ToCome(d)' /\ Counted(d)'
  <2>1. OnTheWay(d) /\ ToCome(d) /\ Counted(d)
    BY <1>2 DEF InOrder
  <2>2. OnTheWay(d)'
    BY <2>1, Workers DEF OnTheWay
  <2>3. ToCome(d)'
    BY <2>1, Workers DEF ToCome
  <2>4. Counted(d)'
    BY <2>1 DEF Counted
  <2> QED BY <2>2, <2>3, <2>4
<1> QED BY <1>1, <1>2 DEF InOrder

(* Steps that change nothing on the lines of a crawl.                      *)
LEMMA LineKept ==
    ASSUME NEW c \in Crawl, OnTheWay(c), seen'[c] = seen[c],
           \A u \in Worker \ {"source"} : hand'[c][u] = hand[c][u] /\ At(c, u)' = At(c, u)
    PROVE  OnTheWay(c)'
BY Workers DEF OnTheWay

(* A payload moves on on a line, or on none of them.                       *)
LEMMA LineShift ==
    ASSUME NEW c \in Crawl, OnTheWay(c), seen'[c] = seen[c],
           NEW s \in Worker \ {"source"}, NEW t \in Worker \ {"source"}, s # t,
           \A l \in {"update", "index"} : s \in Line(l) <=> t \in Line(l),
           hand[c][s] # None, hand[c][t] = None, hand'[c][s] = None, hand'[c][t] # None,
           At(c, t)' = At(c, s),
           \A u \in Worker \ {s, t} : hand'[c][u] = hand[c][u] /\ At(c, u)' = At(c, u)
    PROVE  OnTheWay(c)'
<1> SUFFICES ASSUME NEW l \in {"update", "index"}
    PROVE  /\ seen[c][l] \subseteq seen[c]["fetch"]
           /\ \A r \in Line(l) : hand'[c][r] # None => At(c, r)' \in seen[c]["fetch"] \ seen[c][l]
           /\ \A p \in seen[c]["fetch"] \ seen[c][l] : \E r \in Line(l) : hand'[c][r] # None /\ At(c, r)' = p
           /\ \A r, u \in Line(l) :
                 hand'[c][r] # None /\ hand'[c][u] # None /\ At(c, r)' = At(c, u)' => r = u
  BY DEF OnTheWay
<1>1. Line(l) \subseteq Worker
  BY Workers
<1>2. /\ seen[c][l] \subseteq seen[c]["fetch"]
      /\ \A r \in Line(l) : hand[c][r] # None => At(c, r) \in seen[c]["fetch"] \ seen[c][l]
      /\ \A p \in seen[c]["fetch"] \ seen[c][l] : \E r \in Line(l) : hand[c][r] # None /\ At(c, r) = p
      /\ \A r, u \in Line(l) : hand[c][r] # None /\ hand[c][u] # None /\ At(c, r) = At(c, u) => r = u
  BY DEF OnTheWay
<1>3. CASE s \notin Line(l)
  <2>1. \A r \in Line(l) : hand'[c][r] = hand[c][r] /\ At(c, r)' = At(c, r)
    BY <1>1, <1>3
  <2> QED BY <1>2, <2>1
<1>4. CASE s \in Line(l)
  <2>1. t \in Line(l) /\ \A r \in Line(l) \ {s, t} : hand'[c][r] = hand[c][r] /\ At(c, r)' = At(c, r)
    BY <1>1, <1>4
  <2>2. \A r \in Line(l) : hand'[c][r] # None => At(c, r)' \in seen[c]["fetch"] \ seen[c][l]
    BY <1>2, <1>4, <2>1
  <2>3. ASSUME NEW p \in seen[c]["fetch"] \ seen[c][l]
        PROVE  \E r \in Line(l) : hand'[c][r] # None /\ At(c, r)' = p
    <3>1. PICK r \in Line(l) : hand[c][r] # None /\ At(c, r) = p
      BY <1>2
    <3>2. CASE r = s
      BY <2>1, <3>1, <3>2
    <3>3. CASE r # s
      BY <2>1, <3>1, <3>3
    <3> QED BY <3>2, <3>3
  <2>4. ASSUME NEW r \in Line(l), NEW u \in Line(l),
               hand'[c][r] # None, hand'[c][u] # None, At(c, r)' = At(c, u)'
        PROVE  r = u
    BY <1>2, <1>4, <2>1, <2>4
  <2> QED BY <1>2, <2>2, <2>3, <2>4
<1> QED BY <1>3, <1>4

(* A page enters both lines when it is retrieved.                          *)
LEMMA LineEntered ==
    ASSUME NEW c \in Crawl, OnTheWay(c), ToCome(c), NEW w \in Fetcher, NEW p \in Page,
           seen \in [Crawl -> [{"fetch", "update", "index"} -> SUBSET Page]],
           hand[c]["source"] # None, At(c, "source") = p, hand[c][w] = None,
           seen' = [seen EXCEPT ![c]["fetch"] = @ \union {p}],
           hand'[c]["source"] = None, hand'[c][w] # None, At(c, w)' = p,
           \A u \in Worker \ {"source", w} : hand'[c][u] = hand[c][u] /\ At(c, u)' = At(c, u),
           todo'[c] = todo[c]
    PROVE  OnTheWay(c)' /\ ToCome(c)'
<1>1. /\ seen'[c]["fetch"] = seen[c]["fetch"] \union {p}
      /\ \A l \in {"update", "index"} : seen'[c][l] = seen[c][l]
  OBVIOUS
<1>2. p \notin seen[c]["fetch"]
  BY DEF ToCome
<1>3. ASSUME NEW l \in {"update", "index"}
      PROVE  /\ seen'[c][l] \subseteq seen'[c]["fetch"]
             /\ \A r \in Line(l) : hand'[c][r] # None => At(c, r)' \in seen'[c]["fetch"] \ seen'[c][l]
             /\ \A q \in seen'[c]["fetch"] \ seen'[c][l] :
                   \E r \in Line(l) : hand'[c][r] # None /\ At(c, r)' = q
             /\ \A r, u \in Line(l) :
                   hand'[c][r] # None /\ hand'[c][u] # None /\ At(c, r)' = At(c, u)' => r = u
  <2>1. /\ w \in Line(l)
        /\ \A r \in Line(l) \ {w} : hand'[c][r] = hand[c][r] /\ At(c, r)' = At(c, r)
    BY Workers DEF Line
  <2>2. /\ seen[c][l] \subseteq seen[c]["fetch"]
        /\ \A r \in Line(l) : hand[c][r] # None => At(c, r) \in seen[c]["fetch"] \ seen[c][l]
        /\ \A q \in seen[c]["fetch"] \ seen[c][l] : \E r \in Line(l) : hand[c][r] # None /\ At(c, r) = q
        /\ \A r, u \in Line(l) : hand[c][r] # None /\ hand[c][u] # None /\ At(c, r) = At(c, u) => r = u
    BY DEF OnTheWay
  <2>3. p \notin seen[c][l]
    BY <1>2, <2>2
  <2>4. \A r \in Line(l) : hand'[c][r] # None => At(c, r)' \in seen'[c]["fetch"] \ seen'[c][l]
    BY <1>1, <2>1, <2>2, <2>3
  <2>5. ASSUME NEW q \in seen'[c]["fetch"] \ seen'[c][l]
        PROVE  \E r \in Line(l) : hand'[c][r] # None /\ At(c, r)' = q
    <3>1. CASE q = p
      BY <2>1, <3>1
    <3>2. CASE q # p
      <4>1. PICK r \in Line(l) : hand[c][r] # None /\ At(c, r) = q
        BY <1>1, <2>2, <3>2
      <4> QED BY <2>1, <4>1
    <3> QED BY <3>1, <3>2
  <2>6. ASSUME NEW r \in Line(l), NEW u \in Line(l),
               hand'[c][r] # None, hand'[c][u] # None, At(c, r)' = At(c, u)'
        PROVE  r = u
    BY <1>2, <2>1, <2>2, <2>6
  <2> QED BY <1>1, <2>2, <2>4, <2>5, <2>6
<1>4. OnTheWay(c)'
  BY <1>3 DEF OnTheWay
<1>5. ToCome(c)'
  BY <1>1 DEF ToCome
<1> QED BY <1>4, <1>5

(* The lines part at the broadcaster.                                      *)
LEMMA LineParts ==
    ASSUME NEW c \in Crawl, OnTheWay(c), seen'[c] = seen[c],
           hand[c]["text"] # None, hand[c]["clone"] = None, hand[c]["original"] = None,
           hand'[c]["text"] = None, hand'[c]["clone"] # None, hand'[c]["original"] # None,
           At(c, "clone")' = At(c, "text"), At(c, "original")' = At(c, "text"),
           \A u \in Worker \ {"text", "clone", "original"} : hand'[c][u] = hand[c][u] /\ At(c, u)' = At(c, u)
    PROVE  OnTheWay(c)'
<1> SUFFICES ASSUME NEW l \in {"update", "index"}
    PROVE  /\ seen[c][l] \subseteq seen[c]["fetch"]
           /\ \A r \in Line(l) : hand'[c][r] # None => At(c, r)' \in seen[c]["fetch"] \ seen[c][l]
           /\ \A p \in seen[c]["fetch"] \ seen[c][l] : \E r \in Line(l) : hand'[c][r] # None /\ At(c, r)' = p
           /\ \A r, u \in Line(l) :
                 hand'[c][r] # None /\ hand'[c][u] # None /\ At(c, r)' = At(c, u)' => r = u
  BY DEF OnTheWay
<1>1. PICK t \in Line(l) \ {"text"} :
        /\ "text" \in Line(l) /\ hand[c][t] = None /\ hand'[c][t] # None /\ At(c, t)' = At(c, "text")
        /\ \A r \in Line(l) \ {"text", t} : hand'[c][r] = hand[c][r] /\ At(c, r)' = At(c, r)
  <2>1. CASE l = "update"
    <3>1. "original" \in Line(l) /\ "text" \in Line(l) /\ "clone" \notin Line(l)
      BY <2>1, Workers DEF Line
    <3> QED BY <3>1, Workers
  <2>2. CASE l = "index"
    <3>1. "clone" \in Line(l) /\ "text" \in Line(l) /\ "original" \notin Line(l)
      BY <2>2, Workers DEF Line
    <3> QED BY <3>1, Workers
  <2> QED BY <2>1, <2>2
<1>2. /\ seen[c][l] \subseteq seen[c]["fetch"]
      /\ \A r \in Line(l) : hand[c][r] # None => At(c, r) \in seen[c]["fetch"] \ seen[c][l]
      /\ \A p \in seen[c]["fetch"] \ seen[c][l] : \E r \in Line(l) : hand[c][r] # None /\ At(c, r) = p
      /\ \A r, u \in Line(l) : hand[c][r] # None /\ hand[c][u] # None /\ At(c, r) = At(c, u) => r = u
  BY DEF OnTheWay
<1>3. \A r \in Line(l) : hand'[c][r] # None => At(c, r)' \in seen[c]["fetch"] \ seen[c][l]
  BY <1>1, <1>2
<1>4. ASSUME NEW p \in seen[c]["fetch"] \ seen[c][l]
      PROVE  \E r \in Line(l) : hand'[c][r] # None /\ At(c, r)' = p
  <2>1. PICK r \in Line(l) : hand[c][r] # None /\ At(c, r) = p
    BY <1>2
  <2>2. CASE r = "text"
    BY <1>1, <2>1, <2>2
  <2>3. CASE r # "text"
    BY <1>1, <2>1, <2>3
  <2> QED BY <2>2, <2>3
<1>5. ASSUME NEW r \in Line(l), NEW u \in Line(l),
             hand'[c][r] # None, hand'[c][u] # None, At(c, r)' = At(c, u)'
      PROVE  r = u
  BY <1>1, <1>2, <1>5
<1> QED BY <1>2, <1>3, <1>4, <1>5

(* A line ends.                                                            *)
LEMMA LineEnds ==
    ASSUME NEW c \in Crawl, OnTheWay(c), Counted(c), NEW s \in {"update", "index"}, NEW p \in Page,
           seen \in [Crawl -> [{"fetch", "update", "index"} -> SUBSET Page]], count \in [Crawl -> Nat],
           hand[c][s] # None, At(c, s) = p,
           seen' = [seen EXCEPT ![c][s] = @ \union {p}], count' = [count EXCEPT ![c] = @ + 1],
           hand'[c][s] = None,
           \A u \in Worker \ {s} : hand'[c][u] = hand[c][u] /\ At(c, u)' = At(c, u)
    PROVE  OnTheWay(c)' /\ Counted(c)'
<1>1. /\ seen'[c][s] = seen[c][s] \union {p} /\ seen'[c]["fetch"] = seen[c]["fetch"]
      /\ \A l \in {"update", "index"} \ {s} : seen'[c][l] = seen[c][l]
  OBVIOUS
<1>2. /\ s \in Line(s) /\ s \in Worker
      /\ \A l \in {"update", "index"} \ {s} : s \notin Line(l)
      /\ \A l \in {"update", "index"} : Line(l) \subseteq Worker
  BY Workers DEF Line
<1>3. p \in seen[c]["fetch"] \ seen[c][s]
  BY <1>2 DEF OnTheWay
<1>4. ASSUME NEW l \in {"update", "index"}
      PROVE  /\ seen'[c][l] \subseteq seen'[c]["fetch"]
             /\ \A r \in Line(l) : hand'[c][r] # None => At(c, r)' \in seen'[c]["fetch"] \ seen'[c][l]
             /\ \A q \in seen'[c]["fetch"] \ seen'[c][l] :
                   \E r \in Line(l) : hand'[c][r] # None /\ At(c, r)' = q
             /\ \A r, u \in Line(l) :
                   hand'[c][r] # None /\ hand'[c][u] # None /\ At(c, r)' = At(c, u)' => r = u
  <2>1. /\ seen[c][l] \subseteq seen[c]["fetch"]
        /\ \A r \in Line(l) : hand[c][r] # None => At(c, r) \in seen[c]["fetch"] \ seen[c][l]
        /\ \A q \in seen[c]["fetch"] \ seen[c][l] : \E r \in Line(l) : hand[c][r] # None /\ At(c, r) = q
        /\ \A r, u \in Line(l) : hand[c][r] # None /\ hand[c][u] # None /\ At(c, r) = At(c, u) => r = u
    BY DEF OnTheWay
  <2>2. CASE l # s
    <3>1. \A r \in Line(l) : hand'[c][r] = hand[c][r] /\ At(c, r)' = At(c, r)
      BY <1>2, <2>2
    <3>2. seen'[c][l] = seen[c][l]
      BY <1>1, <2>2
    <3> QED BY <1>1, <2>1, <3>1, <3>2
  <2>3. CASE l = s
    <3>1. \A r \in Line(l) \ {s} : hand'[c][r] = hand[c][r] /\ At(c, r)' = At(c, r)
      BY <1>2
    <3>2. \A r \in Line(l) : hand'[c][r] # None => At(c, r)' \in seen'[c]["fetch"] \ seen'[c][l]
      BY <1>1, <1>2, <2>1, <2>3, <3>1
    <3>3. ASSUME NEW q \in seen'[c]["fetch"] \ seen'[c][l]
          PROVE  \E r \in Line(l) : hand'[c][r] # None /\ At(c, r)' = q
      <4>1. PICK r \in Line(l) : hand[c][r] # None /\ At(c, r) = q
        BY <1>1, <2>1, <2>3
      <4>2. r # s
        BY <1>1, <2>3, <4>1
      <4> QED BY <3>1, <4>1, <4>2
    <3> QED BY <1>1, <1>3, <2>1, <2>3, <3>1, <3>2, <3>3
  <2> QED BY <2>2, <2>3
<1>5. OnTheWay(c)'
  BY <1>4 DEF OnTheWay
<1>6. Counted(c)'
  <2>1. /\ IsFiniteSet(seen'[c][s])
        /\ Cardinality(seen'[c][s]) = Cardinality(seen[c][s]) + 1
    <3>1. IsFiniteSet(seen[c][s])
      BY DEF Counted
    <3>2. p \notin seen[c][s]
      BY <1>3
    <3> QED BY <1>1, <3>1, <3>2, FS_AddElement
  <2>2. /\ Cardinality(seen[c]["update"]) \in Nat /\ Cardinality(seen[c]["index"]) \in Nat
    BY FS_CardinalityType DEF Counted
  <2>3. count'[c] = count[c] + 1
    OBVIOUS
  <2>4. CASE s = "update"
    BY <1>1, <2>1, <2>2, <2>3, <2>4 DEF Counted
  <2>5. CASE s = "index"
    BY <1>1, <2>1, <2>2, <2>3, <2>5 DEF Counted
  <2> QED BY <2>4, <2>5
<1> QED BY <1>5, <1>6

(* The source goes on to the next page.                                    *)
LEMMA NextToCome ==
    ASSUME NEW c \in Crawl, ToCome(c), todo[c] \in Seq(Page), todo[c] # <<>>,
           todo'[c] = Tail(todo[c]), seen'[c] = seen[c],
           At(c, "source")' = Head(todo[c])
    PROVE  ToCome(c)'
<1>1. /\ Len(todo'[c]) = Len(todo[c]) - 1 /\ Len(todo[c]) \in Nat \ {0}
      /\ \A i \in 1..Len(todo'[c]) : todo'[c][i] = todo[c][i + 1] /\ i + 1 \in 1..Len(todo[c])
      /\ Head(todo[c]) = todo[c][1]
  OBVIOUS
<1>2. \A i, j \in 1..Len(todo'[c]) : todo'[c][i] = todo'[c][j] => i = j
  BY <1>1 DEF ToCome
<1>3. \A i \in 1..Len(todo'[c]) : todo'[c][i] \notin seen[c]["fetch"] /\ todo'[c][i] # Head(todo[c])
  BY <1>1 DEF ToCome
<1>4. Head(todo[c]) \notin seen[c]["fetch"]
  BY <1>1 DEF ToCome
<1> QED BY <1>2, <1>3, <1>4 DEF ToCome

(* What the step of a crawl does to the others.                            *)
LEMMA Alone ==
    ASSUME NEW c \in Crawl, NEW S \in SUBSET Worker, \A d \in Crawl : InOrder(d),
           \A d \in Crawl, u \in Worker : ~(d = c /\ u \in S) => hand'[d][u] = hand[d][u] /\ At(d, u)' = At(d, u),
           \A d \in Crawl \ {c} : /\ todo'[d] = todo[d] /\ seen'[d] = seen[d] /\ count'[d] = count[d]
                                  /\ result'[d] = result[d],
           failed' \in {failed, failed \union {c}},
           cancelled' \in {cancelled, cancelled \union {c}},
           InOrder(c)'
    PROVE  \A d \in Crawl : InOrder(d)'
<1> SUFFICES ASSUME NEW d \in Crawl, d # c PROVE InOrder(d)'
  OBVIOUS
<1>1. (d \in failed' <=> d \in failed) /\ (Stopping(d)' <=> Stopping(d))
  BY DEF Stopping
<1> QED BY <1>1, OthersKept
-----------------------------------------------------------------------------
LEMMA SourcePayloadStep ==
    ASSUME IInv, NEW c \in Crawl, SourcePayload(c)
    PROVE  IInv'
<1> DEFINE p == Head(todo[c])
<1>1. TypeOK /\ Exclusive /\ HoldsPages /\ (\A d \in Crawl : InOrder(d)) /\ TypeOK'
  BY SourcePayloadEffect DEF IInv
<1>2. PICK n \in Object :
        /\ n \in Obtainable /\ Prepared(n, p)
        /\ hand'[c]["source"] = n /\ HandsBut(c, {"source"})
  BY <1>1, SourcePayloadEffect
<1>3. /\ \A d \in Crawl, u \in Worker : hand[d][u] # n
      /\ "source" \in Worker /\ n # None
  BY <1>1, <1>2, Taken, Workers
<1>4. /\ result[c] = "running" /\ todo[c] # <<>> /\ hand[c]["source"] = None
      /\ todo' = [todo EXCEPT ![c] = Tail(@)]
      /\ UNCHANGED <<failed, cancelled, count, result, seen>>
  BY DEF SourcePayload
<1>5. p \in Page /\ todo[c] \in Seq(Page) /\ todo'[c] = Tail(todo[c])
  BY <1>1, <1>4 DEF TypeOK
<1> HIDE DEF p
<1>6. \A d \in Crawl, u \in Worker : ~(d = c /\ u \in {"source"}) => hand'[d][u] = hand[d][u]
  BY <1>2 DEF HandsBut
<1>7. \A d \in Crawl, u \in Worker : hand[d][u] # None => obj'[hand[d][u]].linkID = obj[hand[d][u]].linkID
  BY <1>1, <1>2, <1>3 DEF Prepared, TypeOK
<1>8. /\ \A d \in Crawl, u \in Worker : ~(d = c /\ u \in {"source"}) => At(d, u)' = At(d, u)
      /\ At(c, "source")' = p
  BY <1>2, <1>3, <1>6, <1>7 DEF At, Prepared
<1>9. HoldsPages'
  BY <1>5, <1>6, <1>8 DEF HoldsPages, IInv
<1>10. Exclusive'
  BY <1>1, <1>2, <1>3, <1>6 DEF Exclusive, Prepared
<1>11. InOrder(c)'
  <2>1. Returned(c)'
    BY <1>4 DEF Returned
  <2>2. ASSUME ~Stopping(c) PROVE OnTheWay(c)' /\ ToCome(c)' /\ Counted(c)'
    <3>1. OnTheWay(c) /\ ToCome(c) /\ Counted(c)
      BY <1>1, <2>2 DEF InOrder
    <3>2. OnTheWay(c)'
      BY <1>4, <1>6, <1>8, <3>1, LineKept
    <3>3. ToCome(c)'
      BY <1>4, <1>5, <1>8, <3>1, NextToCome DEF p
    <3> QED BY <1>4, <3>1, <3>2, <3>3 DEF Counted
  <2> QED BY <1>4, <2>1, <2>2 DEF InOrder, Stopping
<1>12. \A d \in Crawl : InOrder(d)'
  <2>1. {"source"} \in SUBSET Worker
    BY <1>3
  <2>2. \A d \in Crawl \ {c} : todo'[d] = todo[d]
    BY <1>1, <1>4 DEF TypeOK
  <2> QED BY <1>1, <1>4, <1>6, <1>8, <1>11, <2>1, <2>2, Alone
<1> QED BY <1>1, <1>9, <1>10, <1>12 DEF IInv

(* A crawl of which a worker holds a payload has not returned.             *)
LEMMA Running ==
    ASSUME IInv, NEW c \in Crawl, NEW s \in Worker, hand[c][s] # None
    PROVE  result[c] = "running"
BY DEF IInv, InOrder, Returned

LEMMA FetchStep ==
    ASSUME IInv, NEW c \in Crawl, NEW w \in Fetcher, FetchNothing(c, w) \/ FetchPage(c, w)
    PROVE  IInv'
<1>1. TypeOK /\ Exclusive /\ HoldsPages /\ (\A d \in Crawl : InOrder(d)) /\ TypeOK'
      /\ UNCHANGED <<todo, cancelled, count, result>>
  BY FetchEffect DEF IInv
<1>2. "source" \in Worker /\ w \in Worker /\ w # "source"
  BY Workers
<1>3. result[c] = "running"
  BY <1>2, Running DEF FetchNothing, FetchPage, Takes
<1>4. Returned(c)'
  BY <1>1, <1>3 DEF Returned
<1>5. CASE LetGo(c, {"source"}) /\ UNCHANGED seen /\ failed' \in {failed, failed \union {c}}
  <2>1. /\ Exclusive' /\ HoldsPages'
        /\ \A d \in Crawl, u \in Worker : ~(d = c /\ u \in {"source"}) => At(d, u)' = At(d, u)
    BY <1>1, <1>2, <1>5, LetGoKeeps
  <2>2. /\ \A d \in Crawl, u \in Worker : ~(d = c /\ u \in {"source"}) => hand'[d][u] = hand[d][u]
        /\ hand'[c]["source"] = None
    BY <1>5 DEF LetGo, HandsBut
  <2>3. ASSUME ~Stopping(c)' PROVE OnTheWay(c)' /\ ToCome(c)' /\ Counted(c)'
    <3>1. OnTheWay(c) /\ ToCome(c) /\ Counted(c)
      BY <1>1, <1>5, <2>3 DEF InOrder, Stopping
    <3>2. OnTheWay(c)'
      BY <1>5, <2>1, <2>2, <3>1, LineKept
    <3> QED BY <1>1, <1>5, <2>2, <3>1, <3>2 DEF ToCome, Counted
  <2>4. InOrder(c)'
    BY <1>4, <2>3 DEF InOrder
  <2>5. \A d \in Crawl : InOrder(d)'
    BY <1>1, <1>2, <1>5, <2>1, <2>2, <2>4, Alone
  <2> QED BY <1>1, <2>1, <2>5 DEF IInv
<1>6. CASE /\ HandedOver(c, "source", w) /\ UNCHANGED failed
           /\ seen' = [seen EXCEPT ![c]["fetch"] = @ \union {At(c, "source")}]
  <2>1. /\ Exclusive' /\ HoldsPages'
        /\ \A d \in Crawl, u \in Worker : ~(d = c /\ u \in {"source", w}) => At(d, u)' = At(d, u)
        /\ At(c, w)' = At(c, "source")
    BY <1>1, <1>2, <1>6, HandedOverKeeps
  <2>2. /\ \A d \in Crawl, u \in Worker : ~(d = c /\ u \in {"source", w}) => hand'[d][u] = hand[d][u]
        /\ hand[c]["source"] # None /\ hand[c][w] = None
        /\ hand'[c]["source"] = None /\ hand'[c][w] # None
    BY <1>6 DEF HandedOver, HandsBut
  <2>3. PICK p \in Page : p = At(c, "source")
    BY <1>1, <1>2, <2>2 DEF HoldsPages
  <2>4. seen' = [seen EXCEPT ![c]["fetch"] = @ \union {p}] /\ At(c, w)' = p /\ At(c, "source") = p
    BY <1>6, <2>1, <2>3
  <2>5. seen \in [Crawl -> [{"fetch", "update", "index"} -> SUBSET Page]] /\ todo'[c] = todo[c]
    BY <1>1 DEF TypeOK
  <2>6. \A l \in {"update", "index"} : seen'[c][l] = seen[c][l]
    BY <2>4, <2>5
  <2>7. ASSUME ~Stopping(c) PROVE OnTheWay(c)' /\ ToCome(c)' /\ Counted(c)'
    <3>1. OnTheWay(c) /\ ToCome(c) /\ Counted(c)
      BY <1>1, <2>7 DEF InOrder
    <3>2. \A u \in Worker \ {"source", w} : hand'[c][u] = hand[c][u] /\ At(c, u)' = At(c, u)
      BY <2>1, <2>2
    <3>3. OnTheWay(c)' /\ ToCome(c)'
      BY <2>2, <2>4, <2>5, <3>1, <3>2, LineEntered
    <3> QED BY <1>1, <2>6, <3>1, <3>3 DEF Counted
  <2>8. InOrder(c)'
    BY <1>1, <1>4, <1>6, <2>7 DEF InOrder, Stopping
  <2>9. \A d \in Crawl \ {c} : seen'[d] = seen[d]
    BY <2>4, <2>5
  <2>10. {"source", w} \in SUBSET Worker
    BY <1>2
  <2>11. \A d \in Crawl : InOrder(d)'
    BY <1>1, <1>6, <2>1, <2>2, <2>8, <2>9, <2>10, Alone
  <2> QED BY <1>1, <2>1, <2>11 DEF IInv
<1> QED BY <1>1, <1>5, <1>6, FetchEffect

(* A worker passes its payload on to the next one.                         *)
LEMMA HandedOverStep ==
    ASSUME IInv, NEW c \in Crawl, TypeOK',
           NEW s \in Worker \ {"source"}, NEW t \in Worker \ {"source"}, s # t,
           \A l \in {"update", "index"} : s \in Line(l) <=> t \in Line(l),
           HandedOver(c, s, t),
           UNCHANGED <<todo, failed, cancelled, count, result, seen>>
    PROVE  IInv'
<1>1. TypeOK /\ Exclusive /\ HoldsPages /\ (\A d \in Crawl : InOrder(d))
  BY DEF IInv
<1>2. /\ Exclusive' /\ HoldsPages'
      /\ \A d \in Crawl, u \in Worker : ~(d = c /\ u \in {s, t}) => At(d, u)' = At(d, u)
      /\ At(c, t)' = At(c, s)
  BY <1>1, HandedOverKeeps
<1>3. /\ \A d \in Crawl, u \in Worker : ~(d = c /\ u \in {s, t}) => hand'[d][u] = hand[d][u]
      /\ hand[c][s] # None /\ hand[c][t] = None
      /\ hand'[c][s] = None /\ hand'[c][t] # None
  BY DEF HandedOver, HandsBut
<1>4. result[c] = "running"
  BY <1>3, Running
<1>5. \A u \in Worker \ {s, t} : hand'[c][u] = hand[c][u] /\ At(c, u)' = At(c, u)
  BY <1>2, <1>3
<1>6. InOrder(c)'
  <2>1. Returned(c)'
    BY <1>4 DEF Returned
  <2>2. ASSUME ~Stopping(c) PROVE OnTheWay(c)' /\ ToCome(c)' /\ Counted(c)'
    <3>1. OnTheWay(c) /\ ToCome(c) /\ Counted(c)
      BY <1>1, <2>2 DEF InOrder
    <3>2. OnTheWay(c)'
      BY <1>2, <1>3, <1>5, <3>1, LineShift
    <3>3. ToCome(c)'
      BY <1>5, <3>1, Workers DEF ToCome
    <3> QED BY <3>1, <3>2, <3>3 DEF Counted
  <2> QED BY <2>1, <2>2 DEF InOrder, Stopping
<1>7. {s, t} \in SUBSET Worker
  OBVIOUS
<1>8. \A d \in Crawl : InOrder(d)'
  BY <1>1, <1>2, <1>3, <1>6, <1>7, Alone
<1> QED BY <1>1, <1>2, <1>8 DEF IInv

LEMMA BroadcastStep ==
    ASSUME IInv, NEW c \in Crawl, Broadcast(c)
    PROVE  IInv'
<1> DEFINE S == {"text", "clone", "original"}
<1>1. /\ TypeOK /\ Exclusive /\ HoldsPages /\ (\A d \in Crawl : InOrder(d)) /\ TypeOK'
      /\ UNCHANGED <<todo, failed, cancelled, count, result, seen>>
      /\ hand[c]["text"] # None /\ hand[c]["clone"] = None /\ hand[c]["original"] = None
  BY BroadcastEffect DEF IInv
<1>2. PICK n \in Object :
        /\ n \in Obtainable /\ Prepared(n, At(c, "text"))
        /\ hand'[c]["text"] = None
        /\ hand'[c]["clone"] = n /\ hand'[c]["original"] = hand[c]["text"]
        /\ HandsBut(c, S)
  BY <1>1, BroadcastEffect
<1>3. /\ \A d \in Crawl, u \in Worker : hand[d][u] # n
      /\ S \in SUBSET Worker /\ "source" \notin S /\ n # None
  BY <1>1, <1>2, Taken, Workers
<1>4. PICK p \in Page : p = At(c, "text")
  BY <1>1, <1>3 DEF HoldsPages
<1>5. \A d \in Crawl, u \in Worker : ~(d = c /\ u \in S) => hand'[d][u] = hand[d][u]
  BY <1>2 DEF HandsBut
<1>6. \A d \in Crawl, u \in Worker : hand[d][u] # None => obj'[hand[d][u]].linkID = obj[hand[d][u]].linkID
  BY <1>1, <1>2, <1>3 DEF Prepared, TypeOK
<1>7. /\ obj'[n].linkID = p /\ pool' = pool \ {n} /\ obj[hand[c]["text"]].linkID = p
  BY <1>1, <1>2, <1>4 DEF Prepared, At
<1>8. /\ \A d \in Crawl, u \in Worker : ~(d = c /\ u \in S) => At(d, u)' = At(d, u)
      /\ At(c, "clone")' = p /\ At(c, "original")' = p
  <2>1. \A d \in Crawl, u \in Worker : ~(d = c /\ u \in S) => At(d, u)' = At(d, u)
    BY <1>5, <1>6 DEF At
  <2>2. At(c, "clone")' = p
    BY <1>2, <1>3, <1>7 DEF At
  <2>3. At(c, "original")' = p
    BY <1>1, <1>2, <1>3, <1>6, <1>7 DEF At
  <2> QED BY <2>1, <2>2, <2>3
<1>9. HoldsPages'
  <2> SUFFICES ASSUME NEW d \in Crawl, NEW u \in Worker, hand'[d][u] # None
               PROVE  At(d, u)' \in Page
    BY DEF HoldsPages
  <2>1. CASE ~(d = c /\ u \in S)
    BY <1>1, <1>5, <1>8, <2>1 DEF HoldsPages
  <2>2. CASE d = c /\ u \in S
    BY <1>2, <1>8, <2>2
  <2> QED BY <2>1, <2>2
<1>10. Exclusive'
  <2> DEFINE o == hand[c]["text"]
  <2>1. \A d \in Crawl, u \in Worker : hand'[d][u] # None =>
            \/ hand'[d][u] = n /\ d = c /\ u = "clone"
            \/ hand'[d][u] = o /\ d = c /\ u = "original"
            \/ hand'[d][u] = hand[d][u] /\ hand[d][u] # n /\ hand[d][u] # o
    <3> TAKE d \in Crawl, u \in Worker
    <3>1. CASE d = c /\ u \in S
      BY <1>2, <3>1
    <3>2. CASE ~(d = c /\ u \in S)
      <4>1. hand'[d][u] = hand[d][u] /\ hand[d][u] # n
        BY <1>3, <1>5, <3>2
      <4>2. hand[d][u] # None => hand[d][u] # o
        BY <1>1, <1>3, <3>2 DEF Exclusive
      <4> QED BY <4>1, <4>2
    <3> QED BY <3>1, <3>2
  <2>2. o # n /\ o \notin pool
    BY <1>1, <1>3 DEF Exclusive
  <2>3. ASSUME NEW d \in Crawl, NEW u \in Worker, NEW e \in Crawl, NEW v \in Worker,
               hand'[d][u] # None, hand'[d][u] = hand'[e][v]
        PROVE  d = e /\ u = v
    <3>1. hand'[d][u] = n \/ hand'[d][u] = o \/
          (hand'[d][u] = hand[d][u] /\ hand'[e][v] = hand[e][v])
      BY <2>1, <2>3
    <3> HIDE DEF o
    <3> QED BY <1>1, <2>1, <2>2, <2>3, <3>1 DEF Exclusive
  <2>4. ASSUME NEW d \in Crawl, NEW u \in Worker PROVE hand'[d][u] \notin pool'
    <3>1. CASE hand'[d][u] = None
      BY <1>1, <1>7, <3>1, Workers DEF TypeOK
    <3>2. CASE hand'[d][u] # None
      <4> HIDE DEF o
      <4> QED BY <1>1, <1>7, <2>1, <2>2, <3>2 DEF Exclusive
    <3> QED BY <3>1, <3>2
  <2> QED BY <2>3, <2>4 DEF Exclusive
<1>11. InOrder(c)'
  <2>1. result[c] = "running"
    BY <1>1, <1>3, Running
  <2>2. Returned(c)'
    BY <1>1, <2>1 DEF Returned
  <2>3. ASSUME ~Stopping(c) PROVE OnTheWay(c)' /\ ToCome(c)' /\ Counted(c)'
    <3>1. OnTheWay(c) /\ ToCome(c) /\ Counted(c)
      BY <1>1, <2>3 DEF InOrder
    <3>2. \A u \in Worker \ S : hand'[c][u] = hand[c][u] /\ At(c, u)' = At(c, u)
      BY <1>5, <1>8
    <3>3. OnTheWay(c)'
      BY <1>1, <1>2, <1>3, <1>4, <1>8, <3>1, <3>2, LineParts
    <3>4. ToCome(c)'
      BY <1>1, <3>1, <3>2, Workers DEF ToCome
    <3> QED BY <1>1, <3>1, <3>3, <3>4 DEF Counted
  <2> QED BY <1>1, <2>2, <2>3 DEF InOrder, Stopping
<1>12. \A d \in Crawl : InOrder(d)'
  <2> HIDE DEF S
  <2> QED BY <1>1, <1>3, <1>5, <1>8, <1>11, Alone
<1> QED BY <1>1, <1>9, <1>10, <1>12 DEF IInv

LEMMA FinishStep ==
    ASSUME IInv, NEW c \in Crawl, NEW s \in {"update", "index"}, Finish(c, s)
    PROVE  IInv'
<1>1. /\ TypeOK /\ Exclusive /\ HoldsPages /\ (\A d \in Crawl : InOrder(d)) /\ TypeOK'
      /\ UNCHANGED <<todo, cancelled, result>>
      /\ LetGo(c, {s}) /\ hand[c][s] # None
  BY FinishEffect DEF IInv
<1>2. s \in Worker /\ {s} \in SUBSET Worker /\ s # "source"
  BY Workers
<1>3. /\ Exclusive' /\ HoldsPages'
      /\ \A d \in Crawl, u \in Worker : ~(d = c /\ u \in {s}) => At(d, u)' = At(d, u)
  BY <1>1, <1>2, LetGoKeeps
<1>4. /\ \A d \in Crawl, u \in Worker : ~(d = c /\ u \in {s}) => hand'[d][u] = hand[d][u]
      /\ hand'[c][s] = None
  BY <1>1 DEF LetGo, HandsBut
<1>5. Returned(c)'
  BY <1>1, <1>2, Running DEF Returned
<1>6. CASE failed' = failed \union {c} /\ UNCHANGED <<count, seen>>
  <2>1. InOrder(c)'
    BY <1>5, <1>6 DEF InOrder, Stopping
  <2> QED BY <1>1, <1>2, <1>3, <1>4, <1>6, <2>1, Alone DEF IInv
<1>7. CASE /\ count' = [count EXCEPT ![c] = @ + 1]
           /\ seen' = [seen EXCEPT ![c][s] = @ \union {At(c, s)}]
           /\ UNCHANGED failed
  <2>1. PICK p \in Page : p = At(c, s)
    BY <1>1, <1>2 DEF HoldsPages
  <2>2. seen' = [seen EXCEPT ![c][s] = @ \union {p}] /\ At(c, s) = p
    BY <1>7, <2>1
  <2>3. /\ seen \in [Crawl -> [{"fetch", "update", "index"} -> SUBSET Page]]
        /\ count \in [Crawl -> Nat]
    BY <1>1 DEF TypeOK
  <2>4. \A u \in Worker \ {s} : hand'[c][u] = hand[c][u] /\ At(c, u)' = At(c, u)
    BY <1>3, <1>4
  <2>5. seen'[c]["fetch"] = seen[c]["fetch"]
    BY <2>2, <2>3
  <2>6. ASSUME ~Stopping(c) PROVE OnTheWay(c)' /\ ToCome(c)' /\ Counted(c)'
    <3>1. OnTheWay(c) /\ ToCome(c) /\ Counted(c)
      BY <1>1, <2>6 DEF InOrder
    <3>2. OnTheWay(c)' /\ Counted(c)'
      BY <1>1, <1>4, <1>7, <2>2, <2>3, <2>4, <3>1, LineEnds
    <3>3. ToCome(c)'
      BY <1>1, <1>2, <2>4, <2>5, <3>1, Workers DEF ToCome
    <3> QED BY <3>2, <3>3
  <2>7. InOrder(c)'
    BY <1>1, <1>5, <1>7, <2>6 DEF InOrder, Stopping
  <2>8. \A d \in Crawl \ {c} : seen'[d] = seen[d] /\ count'[d] = count[d]
    BY <1>7, <2>2, <2>3
  <2> QED BY <1>1, <1>2, <1>3, <1>4, <1>7, <2>7, <2>8, Alone DEF IInv
<1> QED BY <1>6, <1>7, FinishEffect, <1>1

LEMMA LeaveStep ==
    ASSUME IInv, NEW c \in Crawl, NEW s \in Worker, Leave(c, s)
    PROVE  IInv'
<1>1. /\ TypeOK /\ Exclusive /\ HoldsPages /\ (\A d \in Crawl : InOrder(d)) /\ TypeOK'
      /\ Stopping(c) /\ UNCHANGED <<todo, failed, cancelled, count, result, seen>>
  BY LeaveEffect DEF IInv
<1>2. PICK S \in SUBSET Worker : LetGo(c, S)
  BY <1>1, LeaveEffect
<1>3. /\ Exclusive' /\ HoldsPages'
      /\ \A d \in Crawl, u \in Worker : ~(d = c /\ u \in S) => At(d, u)' = At(d, u)
  BY <1>1, <1>2, LetGoKeeps
<1>4. \A d \in Crawl, u \in Worker : ~(d = c /\ u \in S) => hand'[d][u] = hand[d][u]
  BY <1>2 DEF LetGo, HandsBut
<1>5. result[c] = "running"
  BY Running DEF Leave
<1>6. InOrder(c)'
  BY <1>1, <1>5 DEF InOrder, Returned, Stopping
<1> QED BY <1>1, <1>3, <1>4, <1>6, Alone DEF IInv

LEMMA CallerStep ==
    ASSUME IInv, NEW c \in Crawl, SourceFails(c) \/ Cancel(c) \/ Return(c)
    PROVE  IInv'
<1>1. /\ TypeOK /\ Exclusive /\ HoldsPages /\ (\A d \in Crawl : InOrder(d)) /\ TypeOK'
      /\ UNCHANGED <<obj, pool, hand, todo, count, seen>>
      /\ Stopping(c) => Stopping(c)'
      /\ \A d \in Crawl \ {c} : result'[d] = result[d]
  BY CallerEffect DEF IInv
<1>2. Exclusive' /\ HoldsPages' /\ \A d \in Crawl, u \in Worker : At(d, u)' = At(d, u)
  BY <1>1 DEF Exclusive, HoldsPages, At
<1>3. Returned(c)'
  <2>1. CASE SourceFails(c)
    BY <2>1 DEF SourceFails, Returned
  <2>2. CASE Cancel(c)
    BY <2>2 DEF Cancel, Returned
  <2>3. CASE Return(c)
    <3>1. /\ \A s \in Worker : hand'[c][s] = None
          /\ failed' = failed /\ result'[c] = IF c \in failed THEN "error" ELSE "nil"
      BY <1>1, <2>3 DEF Return, TypeOK
    <3> QED BY <3>1 DEF Returned
  <2> QED BY <2>1, <2>2, <2>3
<1>4. ASSUME ~Stopping(c)' PROVE OnTheWay(c)' /\ ToCome(c)' /\ Counted(c)'
  <2>1. OnTheWay(c) /\ ToCome(c) /\ Counted(c)
    BY <1>1, <1>4 DEF InOrder
  <2>2. OnTheWay(c)'
    BY <1>1, <1>2, <2>1, LineKept
  <2> QED BY <1>1, <1>2, <2>1, <2>2, Workers DEF ToCome, Counted
<1>5. InOrder(c)'
  BY <1>3, <1>4 DEF InOrder
<1>6. failed' \in {failed, failed \union {c}} /\ cancelled' \in {cancelled, cancelled \union {c}}
  BY DEF SourceFails, Cancel, Return, EmitsError
<1>7. \A d \in Crawl : InOrder(d)'
  <2>1. {} \in SUBSET Worker
    OBVIOUS
  <2> QED BY <1>1, <1>2, <1>5, <1>6, <2>1, Alone
<1> QED BY <1>1, <1>2, <1>7 DEF IInv

LEMMA IInvInit == Init => IInv
<1> SUFFICES ASSUME Init PROVE IInv
  OBVIOUS
<1> USE DEF Init
<1>1. TypeOK
  <2>1. /\ todo \in [Crawl -> Seq(Page)]
        /\ obj = [o \in Object |-> NewObject]
        /\ hand = [c \in Crawl |-> [s \in Worker |-> None]]
    BY PagesAssumption
  <2>2. "linkID" \in DOMAIN NewObject
    BY DEF NewObject
  <2>3. hand \in [Crawl -> [Worker -> Object \union {None}]]
    BY <2>1
  <2>4. /\ \A o \in Object : "linkID" \in DOMAIN obj[o]
        /\ obj = [o \in Object |-> obj[o]]
    BY <2>1, <2>2
  <2> QED BY <2>1, <2>3, <2>4 DEF TypeOK
<1>2. Exclusive /\ HoldsPages
  BY DEF Exclusive, HoldsPages
<1>3. ASSUME NEW c \in Crawl PROVE InOrder(c)
  <2>1. /\ \A u \in Worker : hand[c][u] = None
        /\ \A k \in {"fetch", "update", "index"} : seen[c][k] = {}
        /\ count[c] = 0 /\ result[c] = "running"
    OBVIOUS
  <2>2. todo[c] \in Seq(Page) /\ IsInjective(todo[c])
    BY PagesAssumption
  <2>3. ToCome(c)
    BY <2>1, <2>2, Workers DEF ToCome, IsInjective
  <2>4. OnTheWay(c)
    BY <2>1, Workers DEF OnTheWay
  <2>5. Counted(c)
    BY <2>1, FS_EmptySet DEF Counted
  <2> QED BY <2>1, <2>3, <2>4, <2>5 DEF InOrder, Returned
<1> QED BY <1>1, <1>2, <1>3 DEF IInv

LEMMA IInvStep ==
    ASSUME IInv, [Next]_vars
    PROVE  IInv'
<1>1. ASSUME NEW c \in Crawl, ExtractText(c) PROVE IInv'
  BY <1>1, ExtractTextEffect, HandedOverStep, Workers DEF IInv, Line
<1>2. ASSUME NEW c \in Crawl, SendClone(c) PROVE IInv'
  <2>1. "clone" \in Worker \ {"source"} /\ "index" \in Worker \ {"source"}
    BY Workers
  <2>2. \A l \in {"update", "index"} : "clone" \in Line(l) <=> "index" \in Line(l)
    BY Workers DEF Line
  <2> QED BY <1>2, <2>1, <2>2, SendEffect, HandedOverStep DEF IInv, SendClone
<1>3. ASSUME NEW c \in Crawl, SendOriginal(c) PROVE IInv'
  <2>1. "original" \in Worker \ {"source"} /\ "update" \in Worker \ {"source"}
    BY Workers
  <2>2. \A l \in {"update", "index"} : "original" \in Line(l) <=> "update" \in Line(l)
    BY Workers DEF Line
  <2> QED BY <1>3, <2>1, <2>2, SendEffect, HandedOverStep DEF IInv, SendOriginal
<1>4. ASSUME NEW c \in Crawl, NEW w \in Fetcher, ExtractLinks(c, w) PROVE IInv'
  <2>1. /\ TypeOK' /\ UNCHANGED <<todo, failed, cancelled, count, result, seen>>
        /\ HandedOver(c, w, "links") \/ UNCHANGED <<obj, pool, hand>>
    BY <1>4, ExtractLinksEffect DEF IInv
  <2>2. CASE HandedOver(c, w, "links")
    BY <2>1, <2>2, HandedOverStep, Workers DEF Line
  <2>3. CASE UNCHANGED <<obj, pool, hand>>
    BY <2>1, <2>3 DEF IInv, Exclusive, HoldsPages, At, InOrder, Returned, OnTheWay, ToCome, Counted, Stopping
  <2> QED BY <2>1, <2>2, <2>3
<1>5. CASE UNCHANGED vars
  BY <1>5 DEF vars, IInv, TypeOK, Exclusive, HoldsPages, At, InOrder, Returned, OnTheWay, ToCome, Counted, Stopping
<1>6. CASE Next
  BY <1>1, <1>2, <1>3, <1>4, <1>6, SourcePayloadStep, FetchStep, BroadcastStep, FinishStep, LeaveStep, CallerStep
     DEF Next
<1> QED BY <1>5, <1>6

LEMMA OneUserFollows == IInv => OneUser
<1> SUFFICES ASSUME IInv, NEW o \in Object
    PROVE  Cardinality({h \in Crawl \X Worker : hand[h[1]][h[2]] = o}) + (IF o \in pool THEN 1 ELSE 0) <= 1
  BY DEF OneUser
<1> DEFINE holders == {h \in Crawl \X Worker : hand[h[1]][h[2]] = o}
<1>1. CASE holders = {}
  <2>1. Cardinality(holders) = 0
    BY <1>1, FS_EmptySet
  <2>2. (IF o \in pool THEN 1 ELSE 0) \in {0, 1}
    OBVIOUS
  <2> QED BY <2>1, <2>2
<1>2. CASE holders # {}
  <2>1. PICK h \in Crawl \X Worker : hand[h[1]][h[2]] = o
    BY <1>2
  <2>2. o # None /\ o \notin pool
    BY <2>1, Workers DEF IInv, Exclusive
  <2>3. \A g \in Crawl \X Worker : hand[g[1]][g[2]] = o => g = h
    BY <2>1, <2>2 DEF IInv, Exclusive
  <2>4. holders = {h}
    BY <2>1, <2>3
  <2>5. Cardinality(holders) = 1
    BY <2>4, FS_Singleton
  <2> QED BY <2>2, <2>5
<1> QED BY <1>1, <1>2

LEMMA CountFollows == IInv => CountIsPages
<1> SUFFICES ASSUME IInv, NEW c \in Crawl, result[c] = "nil", c \notin cancelled
    PROVE  /\ GetCount(c) = Cardinality(seen[c]["fetch"])
           /\ seen[c]["update"] = seen[c]["fetch"]
           /\ seen[c]["index"] = seen[c]["fetch"]
  BY DEF CountIsPages
<1>1. Returned(c) /\ c \notin failed
  BY DEF IInv, InOrder, Returned
<1>2. OnTheWay(c) /\ Counted(c)
  BY <1>1 DEF IInv, InOrder, Stopping
<1>3. \A l \in {"update", "index"} : seen[c][l] = seen[c]["fetch"]
  <2>1. \A u \in Worker : hand[c][u] = None
    BY <1>1 DEF Returned
  <2>2. ASSUME NEW l \in {"update", "index"} PROVE seen[c][l] = seen[c]["fetch"]
    <3>1. seen[c][l] \subseteq seen[c]["fetch"]
      BY <1>2 DEF OnTheWay
    <3>2. \A p \in seen[c]["fetch"] \ seen[c][l] : \E t \in Line(l) : hand[c][t] # None
      BY <1>2 DEF OnTheWay
    <3>3. Line(l) \subseteq Worker
      BY Workers
    <3> QED BY <2>1, <3>1, <3>2, <3>3
  <2> QED BY <2>2
<1>4. PICK n \in Nat : n = Cardinality(seen[c]["fetch"])
  BY <1>2, <1>3, FS_CardinalityType DEF Counted
<1>5. count[c] = n + n
  BY <1>2, <1>3, <1>4 DEF Counted
<1>6. GetCount(c) = n
  BY <1>5 DEF GetCount
<1> QED BY <1>3, <1>4, <1>6

LEMMA PagesInvariant == Spec => []IInv
BY IInvInit, IInvStep, PTL DEF Spec

(* Payload objects are recycled safely: however many crawls take them from *)
(* the pool and give them back, an object that somebody works on is in no  *)
(* one else's hands and not in the pool.                                   *)
THEOREM ObjectsHaveOneUser == Spec => []OneUser
BY PagesInvariant, OneUserFollows, PTL

(* The number that a crawl returns is that of the pages it retrieved, and  *)
(* all of them, with none lost or doubled, went to the graph and the index.*)
THEOREM CountsAreRight == Spec => []CountIsPages
BY PagesInvariant, CountFollows, PTL
-----------------------------------------------------------------------------
(* Induction, over a set of numbers and not over a formula: every set of   *)
(* numbers has a least one.                                                *)
LEMMA LeastNumber ==
    ASSUME NEW T, T \subseteq Nat, T # {}
    PROVE  \E n \in T : \A m \in T : n <= m
<1> DEFINE R == {ss \in Nat \X Nat : ss[1] < ss[2]}
<1>1. IsWellFoundedOn(R, Nat)
  BY NatLessThanWellFounded DEF OpToRel
<1> HIDE DEF R
<1>2. PICK x \in T : \A y \in T : ~ (<<y, x>> \in R)
  BY <1>1, WFMin
<1>3. ASSUME NEW y \in T PROVE x <= y
  <2>1. ~(<<y, x>> \in R)
    BY <1>2
  <2>2. <<y, x>> \in Nat \X Nat /\ <<y, x>>[1] = y /\ <<y, x>>[2] = x
    OBVIOUS
  <2>3. ~(y < x)
    BY <2>1, <2>2 DEF R
  <2> QED BY <2>3
<1> QED BY <1>3

(* A set with 0 and with the successor of each of its numbers has all.     *)
LEMMA Induction ==
    ASSUME NEW T, 0 \in T, \A n \in Nat : n \in T => n + 1 \in T
    PROVE  Nat \subseteq T
<1> SUFFICES ASSUME Nat \ T # {} PROVE FALSE
  OBVIOUS
<1>1. PICK n \in Nat \ T : \A m \in Nat \ T : n <= m
  BY LeastNumber
<1>2. n # 0
  OBVIOUS
<1>3. n - 1 \in Nat /\ n = (n - 1) + 1 /\ ~(n <= n - 1)
  BY <1>2
<1>4. n - 1 \in T
  BY <1>1, <1>3
<1> QED BY <1>3, <1>4

(* What FindLinks has found after the first n tags of page p.              *)
Found(p) == FindLinks(URLOf[p], ContentOf[p])
Nothing == [seen |-> {}, noFollowLinks |-> <<>>, links |-> <<>>]
Upto(p, n, g) ==
    g = [i \in 0..n |-> IF i = 0 THEN Nothing
                        ELSE Visit(RelTo(URLOf[p], ContentOf[p]), g[i - 1], ContentOf[p].tags[i])]

LEMMA UptoExists == ASSUME NEW p PROVE \A n \in Nat : \E g : Upto(p, n, g)
<1> DEFINE T == {n \in Nat : \E g : Upto(p, n, g)}
           V(x, i) == Visit(RelTo(URLOf[p], ContentOf[p]), x, ContentOf[p].tags[i])
<1> HIDE DEF V
<1>0. \A n, g : Upto(p, n, g) <=> g = [i \in 0..n |-> IF i = 0 THEN Nothing ELSE V(g[i - 1], i)]
  BY DEF Upto, V
<1>1. 0 \in T
  <2>1. PICK g : g = [i \in 0..0 |-> Nothing]
    OBVIOUS
  <2>2. g = [i \in 0..0 |-> IF i = 0 THEN Nothing ELSE V(g[i - 1], i)]
    BY <2>1
  <2>3. Upto(p, 0, g)
    BY <1>0, <2>2
  <2> QED BY <2>3
<1>2. ASSUME NEW n \in Nat, n \in T PROVE n + 1 \in T
  <2>1. PICK g : g = [i \in 0..n |-> IF i = 0 THEN Nothing ELSE V(g[i - 1], i)]
    BY <1>0, <1>2
  <2> DEFINE h == [i \in 0..(n + 1) |-> IF i = n + 1 THEN V(g[n], i) ELSE g[i]]
  <2>2. ASSUME NEW i \in 0..(n + 1)
        PROVE  h[i] = IF i = 0 THEN Nothing ELSE V(h[i - 1], i)
    <3>1. CASE i = 0
      BY <2>1, <3>1
    <3>2. CASE i \in 1..n
      <4>1. /\ i \in 0..n /\ i - 1 \in 0..n /\ i - 1 \in 0..(n + 1)
            /\ i # n + 1 /\ i - 1 # n + 1 /\ i # 0
        BY <3>2
      <4>2. h[i] = g[i] /\ h[i - 1] = g[i - 1]
        BY <4>1
      <4>3. g[i] = V(g[i - 1], i)
        BY <2>1, <4>1
      <4> HIDE DEF h
      <4> QED BY <4>1, <4>2, <4>3
    <3>3. CASE i = n + 1
      <4>1. /\ i \in 0..(n + 1) /\ i - 1 = n /\ n \in 0..(n + 1) /\ n # n + 1 /\ i # 0
        BY <3>3
      <4>2. h[i] = V(g[n], i) /\ h[n] = g[n]
        BY <3>3, <4>1
      <4> HIDE DEF h
      <4> QED BY <4>1, <4>2
    <3> QED BY <3>1, <3>2, <3>3
  <2>3. h = [i \in 0..(n + 1) |-> IF i = 0 THEN Nothing ELSE V(h[i - 1], i)]
    <3>1. h = [i \in 0..(n + 1) |-> h[i]]
      OBVIOUS
    <3> HIDE DEF h
    <3> QED BY <2>2, <3>1
  <2> HIDE DEF h
  <2>4. Upto(p, n + 1, h)
    BY <1>0, <2>3
  <2> QED BY <2>4
<1> HIDE DEF T
<1>3. \A n \in Nat : n \in T
  BY <1>1, <1>2, Induction
<1> QED BY <1>3 DEF T

LEMMA FoundLoop ==
    ASSUME NEW p \in Page
    PROVE  /\ Len(ContentOf[p].tags) \in Nat /\ DOMAIN ContentOf[p].tags = 1..Len(ContentOf[p].tags)
           /\ \A i \in 1..Len(ContentOf[p].tags) : ContentOf[p].tags[i].nofollow \in BOOLEAN
           /\ \E g : /\ g[0] = Nothing
                     /\ \A i \in 1..Len(ContentOf[p].tags) :
                            g[i] = Visit(RelTo(URLOf[p], ContentOf[p]), g[i - 1], ContentOf[p].tags[i])
                     /\ Found(p) = g[Len(ContentOf[p].tags)]
<1> DEFINE tags == ContentOf[p].tags
           g == CHOOSE g : Upto(p, Len(tags), g)
<1>1. tags \in Seq(Range(tags)) /\ \A t \in Range(tags) : t.nofollow \in BOOLEAN
  BY PagesAssumption
<1>2. Len(tags) \in Nat /\ DOMAIN tags = 1..Len(tags) /\ \A i \in 1..Len(tags) : tags[i] \in Range(tags)
  BY <1>1, ElementOfSeq, LenProperties
<1>3. Upto(p, Len(tags), g)
  BY <1>2, UptoExists
<1>4. Found(p) = g[Len(tags)]
  BY DEF Found, FindLinks, LinksIn, Upto, Nothing
<1>5. g[0] = Nothing /\ \A i \in 1..Len(tags) : g[i] = Visit(RelTo(URLOf[p], ContentOf[p]), g[i - 1], tags[i])
  <2> HIDE DEF g, tags
  <2>1. \A i \in 1..Len(tags) : i # 0 /\ i \in 0..Len(tags)
    BY <1>2
  <2>2. g = [i \in 0..Len(tags) |-> IF i = 0 THEN Nothing
                        ELSE Visit(RelTo(URLOf[p], ContentOf[p]), g[i - 1], tags[i])]
    BY <1>3 DEF Upto, tags
  <2> DEFINE V(i) == Visit(RelTo(URLOf[p], ContentOf[p]), g[i - 1], tags[i])
  <2> HIDE DEF V
  <2>3. g = [i \in 0..Len(tags) |-> IF i = 0 THEN Nothing ELSE V(i)]
    BY <2>2 DEF V
  <2>4. g[0] = Nothing /\ \A i \in 1..Len(tags) : g[i] = V(i)
    BY <1>2, <2>1, <2>3
  <2> QED BY <2>4 DEF V
<1> HIDE DEF g, tags
<1>6. \E k : /\ k[0] = Nothing
             /\ \A i \in 1..Len(tags) : k[i] = Visit(RelTo(URLOf[p], ContentOf[p]), k[i - 1], tags[i])
             /\ Found(p) = k[Len(tags)]
  BY <1>4, <1>5
<1> QED BY <1>1, <1>2, <1>6 DEF tags

(* Of Rank, which counts the numbers of a set up to one of them.           *)
LEMMA Ranks ==
    ASSUME NEW N \in Nat, NEW F, F \subseteq 1..N
    PROVE  /\ \A n \in Nat : /\ Rank(F, n) \in Nat
                             /\ n + 1 \in F => Rank(F, n + 1) = Rank(F, n) + 1
                             /\ n + 1 \notin F => Rank(F, n + 1) = Rank(F, n)
           /\ Rank(F, 0) = 0 /\ Rank(F, N) = Cardinality(F)
           /\ \A i, j \in F : Rank(F, i) = Rank(F, j) => i = j
<1> DEFINE R(n) == Cardinality({j \in F : j <= n})
<1>1. \A n : Rank(F, n) = R(n)
  BY DEF Rank
<1>2. \A j \in F : j \in Nat /\ 1 <= j /\ j <= N
  OBVIOUS
<1>3. IsFiniteSet(F) /\ \A n \in Nat : IsFiniteSet({j \in F : j <= n}) /\ R(n) \in Nat
  <2>1. IsFiniteSet(1..N)
    BY FS_Interval
  <2>2. IsFiniteSet(F)
    BY <2>1, FS_Subset
  <2>3. \A n \in Nat : {j \in F : j <= n} \subseteq F
    OBVIOUS
  <2>4. \A n \in Nat : IsFiniteSet({j \in F : j <= n})
    BY <2>2, <2>3, FS_Subset
  <2> QED BY <2>2, <2>4, FS_CardinalityType
<1>4. ASSUME NEW n \in Nat, n + 1 \in F PROVE R(n + 1) = R(n) + 1
  <2>1. {j \in F : j <= n + 1} = {j \in F : j <= n} \union {n + 1}
    <3>1. \A j \in F : j <= n + 1 <=> j <= n \/ j = n + 1
      BY <1>2
    <3>2. n + 1 <= n + 1
      OBVIOUS
    <3> QED BY <1>4, <3>1, <3>2
  <2>2. n + 1 \notin {j \in F : j <= n}
    OBVIOUS
  <2> QED BY <1>3, <2>1, <2>2, FS_AddElement
<1>5. ASSUME NEW n \in Nat, n + 1 \notin F PROVE R(n + 1) = R(n)
  <2>1. {j \in F : j <= n + 1} = {j \in F : j <= n}
    <3>1. \A j \in F : j <= n + 1 <=> j <= n
      <4> TAKE j \in F
      <4>1. j \in Nat /\ j # n + 1
        BY <1>2, <1>5
      <4> QED BY <4>1
    <3> QED BY <3>1
  <2> QED BY <2>1
<1>6. R(0) = 0
  <2>1. {j \in F : j <= 0} = {}
    <3>1. \A j \in F : ~(j <= 0)
      BY <1>2
    <3> QED BY <3>1
  <2> QED BY <2>1, FS_EmptySet
<1>7. R(N) = Cardinality(F)
  <2>1. {j \in F : j <= N} = F
    BY <1>2
  <2> QED BY <2>1
<1>8. ASSUME NEW i \in F, NEW j \in F, i < j PROVE R(i) < R(j)
  <2>1. j - 1 \in Nat /\ i <= j - 1 /\ (j - 1) + 1 = j /\ i \in Nat
    BY <1>2, <1>8
  <2>2. {k \in F : k <= i} \subseteq {k \in F : k <= j - 1}
    <3>1. \A k \in F : k <= i => k <= j - 1
      BY <1>2, <2>1
    <3> QED BY <3>1
  <2>3. R(i) <= R(j - 1)
    BY <1>3, <2>1, <2>2, FS_Subset
  <2>4. R((j - 1) + 1) = R(j - 1) + 1
    BY <1>4, <2>1
  <2> HIDE DEF R
  <2>5. R(i) \in Nat /\ R(j - 1) \in Nat /\ R(j) = R(j - 1) + 1
    BY <1>3, <2>1, <2>4
  <2> QED BY <2>3, <2>5
<1>9. \A i, j \in F : R(i) = R(j) => i = j
  <2> TAKE i, j \in F
  <2>1. i \in Nat /\ j \in Nat
    BY <1>2
  <2> HIDE DEF R
  <2>2. i < j => R(i) < R(j)
    BY <1>8
  <2>3. j < i => R(j) < R(i)
    BY <1>8
  <2>4. R(i) \in Nat /\ R(j) \in Nat
    BY <1>3, <2>1
  <2> QED BY <2>1, <2>2, <2>3, <2>4
<1>10. \A n \in Nat : R(n) \in Nat
  BY <1>3
<1> HIDE DEF R
<1> QED BY <1>1, <1>4, <1>5, <1>6, <1>7, <1>9, <1>10

(* A sequence that is made by appending the values at the numbers of F, in *)
(* their order, has at k the value at the k-th of them.                    *)
Gathers(N, X, F, url, L) ==
    /\ url \in [1..N -> X] /\ L \in [0..N -> Seq(X)] /\ F \subseteq 1..N
    /\ L[0] = <<>>
    /\ \A i \in 1..N : L[i] = IF i \in F THEN Append(L[i - 1], url[i]) ELSE L[i - 1]

LEMMA InRank ==
    ASSUME NEW N \in Nat, NEW X, NEW url, NEW F, NEW L, Gathers(N, X, F, url, L)
    PROVE  /\ L[N] = [k \in 1..Cardinality(F) |-> url[Kth(F, k)]]
           /\ \A k \in 1..Cardinality(F) : Kth(F, k) \in F
<1> DEFINE T == {n \in Nat : n <= N =>
                    /\ Len(L[n]) = Rank(F, n)
                    /\ \A k \in 1..Len(L[n]) : \E i \in F : Rank(F, i) = k /\ L[n][k] = url[i]}
<1>1. url \in [1..N -> X] /\ L \in [0..N -> Seq(X)] /\ F \subseteq 1..N
  BY DEF Gathers
<1>2. L[0] = <<>> /\ \A i \in 1..N : L[i] = IF i \in F THEN Append(L[i - 1], url[i]) ELSE L[i - 1]
  BY DEF Gathers
<1>3. /\ \A n \in Nat : /\ Rank(F, n) \in Nat
                        /\ n + 1 \in F => Rank(F, n + 1) = Rank(F, n) + 1
                        /\ n + 1 \notin F => Rank(F, n + 1) = Rank(F, n)
      /\ Rank(F, 0) = 0 /\ Rank(F, N) = Cardinality(F)
      /\ \A i, j \in F : Rank(F, i) = Rank(F, j) => i = j
  BY <1>1, Ranks
<1>4. 0 \in T
  BY <1>2, <1>3
<1>5. ASSUME NEW n \in Nat, n \in T PROVE n + 1 \in T
  <2> SUFFICES ASSUME n + 1 <= N
               PROVE  /\ Len(L[n + 1]) = Rank(F, n + 1)
                      /\ \A k \in 1..Len(L[n + 1]) : \E i \in F : Rank(F, i) = k /\ L[n + 1][k] = url[i]
    OBVIOUS
  <2>1. /\ n + 1 \in 1..N /\ n \in 0..N /\ (n + 1) - 1 = n
        /\ Rank(F, n) \in Nat
        /\ Len(L[n]) = Rank(F, n)
        /\ \A k \in 1..Len(L[n]) : \E i \in F : Rank(F, i) = k /\ L[n][k] = url[i]
    BY <1>5, <1>3
  <2>2. CASE n + 1 \notin F
    <3>1. L[n + 1] = L[n] /\ Rank(F, n + 1) = Rank(F, n)
      BY <1>2, <2>1, <2>2, <1>3
    <3> QED BY <2>1, <3>1
  <2>3. CASE n + 1 \in F
    <3>1. L[n + 1] = Append(L[n], url[n + 1]) /\ Rank(F, n + 1) = Rank(F, n) + 1
      BY <1>2, <2>1, <2>3, <1>3
    <3>2. PICK old \in Seq(X), new \in Seq(X), u \in X :
            old = L[n] /\ new = L[n + 1] /\ u = url[n + 1]
      BY <1>1, <2>1
    <3>3. /\ new = Append(old, u) /\ Len(new) = Len(old) + 1
          /\ \A k \in 1..Len(old) : new[k] = old[k]
          /\ new[Len(old) + 1] = u
      BY <3>1, <3>2, AppendProperties
    <3>4. ASSUME NEW k \in 1..Len(new) PROVE \E i \in F : Rank(F, i) = k /\ new[k] = url[i]
      <4>1. CASE k \in 1..Len(old)
        BY <2>1, <3>2, <3>3, <4>1
      <4>2. CASE k = Len(old) + 1
        BY <2>1, <2>3, <3>1, <3>2, <3>3, <4>2
      <4> QED BY <3>3, <4>1, <4>2
    <3> QED BY <2>1, <3>1, <3>2, <3>3, <3>4
  <2> QED BY <2>2, <2>3
<1> HIDE DEF T
<1>6. N \in T
  BY <1>4, <1>5, Induction
<1>7. /\ Len(L[N]) = Cardinality(F)
       /\ \A k \in 1..Cardinality(F) : \E i \in F : Rank(F, i) = k /\ L[N][k] = url[i]
  BY <1>6, <1>3 DEF T
<1>8. \A k \in 1..Cardinality(F) : L[N][k] = url[Kth(F, k)]
  <2> TAKE k \in 1..Cardinality(F)
  <2>1. PICK i \in F : Rank(F, i) = k /\ L[N][k] = url[i]
    BY <1>7
  <2>2. Kth(F, k) \in F /\ Rank(F, Kth(F, k)) = k
    BY <2>1 DEF Kth
  <2>3. Kth(F, k) = i
    BY <1>3, <2>1, <2>2
  <2> QED BY <2>1, <2>3
<1>9. L[N] \in Seq(X)
  BY <1>1
<1>10. L[N] = [k \in 1..Len(L[N]) |-> L[N][k]]
  BY <1>9, LenProperties
<1>11. L[N] = [k \in 1..Cardinality(F) |-> url[Kth(F, k)]]
  BY <1>7, <1>8, <1>10
<1>12. \A k \in 1..Cardinality(F) : Kth(F, k) \in F
  BY <1>7 DEF Kth
<1> QED BY <1>11, <1>12

(* The loop appends the URL of a tag that is the first with it.            *)
Visits(N, X, url, retained, nofollow, g) ==
    /\ url \in [1..N -> X] /\ retained \in [1..N -> BOOLEAN] /\ nofollow \in [1..N -> BOOLEAN]
    /\ g[0] = Nothing
    /\ \A i \in 1..N : g[i] =
          IF ~retained[i] \/ url[i] \in g[i - 1].seen THEN g[i - 1]
          ELSE IF nofollow[i]
               THEN [g[i - 1] EXCEPT !.seen = @ \union {url[i]}, !.noFollowLinks = Append(@, url[i])]
               ELSE [g[i - 1] EXCEPT !.seen = @ \union {url[i]}, !.links = Append(@, url[i])]

Firsts(N, url, retained) == {i \in 1..N : retained[i] /\ \A j \in 1..(i - 1) : retained[j] => url[j] # url[i]}

LEMMA FirstsFound ==
    ASSUME NEW N \in Nat, NEW X, NEW url, NEW retained, NEW nofollow, NEW g,
           Visits(N, X, url, retained, nofollow, g)
    PROVE  /\ \A n \in 0..N : g[n].links \in Seq(X) /\ g[n].noFollowLinks \in Seq(X)
           /\ \A i \in 1..N :
                /\ g[i].links = IF i \in Firsts(N, url, retained) /\ ~nofollow[i]
                                THEN Append(g[i - 1].links, url[i]) ELSE g[i - 1].links
                /\ g[i].noFollowLinks = IF i \in Firsts(N, url, retained) /\ nofollow[i]
                                        THEN Append(g[i - 1].noFollowLinks, url[i]) ELSE g[i - 1].noFollowLinks
<1> DEFINE first == Firsts(N, url, retained)
           Rec == [seen : SUBSET X, noFollowLinks : Seq(X), links : Seq(X)]
           T == {n \in Nat : n <= N => /\ g[n] \in Rec
                                       /\ \A u \in X : u \in g[n].seen <=> \E j \in 1..n : retained[j] /\ url[j] = u}
<1>1. url \in [1..N -> X] /\ retained \in [1..N -> BOOLEAN] /\ nofollow \in [1..N -> BOOLEAN]
  BY DEF Visits
<1>2. 0 \in T
  <2>1. g[0] = [seen |-> {}, noFollowLinks |-> <<>>, links |-> <<>>]
    BY DEF Visits, Nothing
  <2>2. g[0] \in Rec /\ g[0].seen = {}
    BY <2>1
  <2>3. ~ \E j \in 1..0 : TRUE
    OBVIOUS
  <2> HIDE DEF Rec
  <2> QED BY <2>2, <2>3
<1>3. ASSUME NEW n \in Nat, n + 1 <= N, g[n] \in Rec
      PROVE  /\ ~retained[n + 1] \/ url[n + 1] \in g[n].seen => g[n + 1] = g[n]
             /\ retained[n + 1] /\ url[n + 1] \notin g[n].seen =>
                  /\ g[n + 1] \in Rec /\ g[n + 1].seen = g[n].seen \union {url[n + 1]}
                  /\ nofollow[n + 1] => /\ g[n + 1].links = g[n].links
                                        /\ g[n + 1].noFollowLinks = Append(g[n].noFollowLinks, url[n + 1])
                  /\ ~nofollow[n + 1] => /\ g[n + 1].noFollowLinks = g[n].noFollowLinks
                                         /\ g[n + 1].links = Append(g[n].links, url[n + 1])
  <2>1. n + 1 \in 1..N /\ (n + 1) - 1 = n
    BY <1>3
  <2>2. PICK x \in Rec, u \in X : x = g[n] /\ u = url[n + 1]
    BY <1>1, <1>3, <2>1
  <2>3. g[n + 1] = IF ~retained[n + 1] \/ u \in x.seen THEN x
                   ELSE IF nofollow[n + 1]
                        THEN [x EXCEPT !.seen = @ \union {u}, !.noFollowLinks = Append(@, u)]
                        ELSE [x EXCEPT !.seen = @ \union {u}, !.links = Append(@, u)]
    BY <2>1, <2>2 DEF Visits
  <2>4. CASE ~retained[n + 1] \/ u \in x.seen
    BY <2>2, <2>3, <2>4
  <2>5. CASE retained[n + 1] /\ u \notin x.seen /\ nofollow[n + 1]
    <3>1. g[n + 1] = [x EXCEPT !.seen = @ \union {u}, !.noFollowLinks = Append(@, u)]
      BY <2>3, <2>5
    <3>2. /\ x.seen \in SUBSET X /\ x.links \in Seq(X) /\ x.noFollowLinks \in Seq(X)
          /\ x = [seen |-> x.seen, noFollowLinks |-> x.noFollowLinks, links |-> x.links]
      OBVIOUS
    <3>3. PICK s \in SUBSET X, q \in Seq(X) : s = x.seen \union {u} /\ q = Append(x.noFollowLinks, u)
      <4>1. PICK old \in Seq(X), w \in SUBSET X : old = x.noFollowLinks /\ w = x.seen
        BY <3>2
      <4>2. Append(old, u) \in Seq(X) /\ w \union {u} \in SUBSET X
        BY AppendProperties
      <4> QED BY <4>1, <4>2
    <3>4. g[n + 1] = [x EXCEPT !.seen = s, !.noFollowLinks = q]
      BY <3>1, <3>3
    <3>5. /\ g[n + 1] \in Rec /\ g[n + 1].seen = s
          /\ g[n + 1].noFollowLinks = q /\ g[n + 1].links = x.links
      BY <3>2, <3>4
    <3> HIDE DEF Rec
    <3> QED BY <2>2, <2>5, <3>3, <3>5
  <2>6. CASE retained[n + 1] /\ u \notin x.seen /\ ~nofollow[n + 1]
    <3>1. g[n + 1] = [x EXCEPT !.seen = @ \union {u}, !.links = Append(@, u)]
      BY <2>3, <2>6
    <3>2. /\ x.seen \in SUBSET X /\ x.links \in Seq(X) /\ x.noFollowLinks \in Seq(X)
          /\ x = [seen |-> x.seen, noFollowLinks |-> x.noFollowLinks, links |-> x.links]
      OBVIOUS
    <3>3. PICK s \in SUBSET X, q \in Seq(X) : s = x.seen \union {u} /\ q = Append(x.links, u)
      <4>1. PICK old \in Seq(X), w \in SUBSET X : old = x.links /\ w = x.seen
        BY <3>2
      <4>2. Append(old, u) \in Seq(X) /\ w \union {u} \in SUBSET X
        BY AppendProperties
      <4> QED BY <4>1, <4>2
    <3>4. g[n + 1] = [x EXCEPT !.seen = s, !.links = q]
      BY <3>1, <3>3
    <3>5. /\ g[n + 1] \in Rec /\ g[n + 1].seen = s
          /\ g[n + 1].links = q /\ g[n + 1].noFollowLinks = x.noFollowLinks
      BY <3>2, <3>4
    <3> HIDE DEF Rec
    <3> QED BY <2>2, <2>6, <3>3, <3>5
  <2> QED BY <2>1, <2>2, <2>4, <2>5, <2>6
<1>4. ASSUME NEW n \in Nat, n \in T PROVE n + 1 \in T
  <2> SUFFICES ASSUME n + 1 <= N
               PROVE  /\ g[n + 1] \in Rec
                      /\ \A u \in X : u \in g[n + 1].seen <=> \E j \in 1..(n + 1) : retained[j] /\ url[j] = u
    OBVIOUS
  <2>1. /\ n + 1 \in 1..N /\ g[n] \in Rec
        /\ \A u \in X : u \in g[n].seen <=> \E j \in 1..n : retained[j] /\ url[j] = u
    BY <1>4
  <2>2. \A j \in Nat : j \in 1..(n + 1) <=> j \in 1..n \/ j = n + 1
    OBVIOUS
  <2> HIDE DEF Rec
  <2>3. CASE ~retained[n + 1] \/ url[n + 1] \in g[n].seen
    BY <1>1, <1>3, <2>1, <2>2, <2>3
  <2>4. CASE retained[n + 1] /\ url[n + 1] \notin g[n].seen
    BY <1>1, <1>3, <2>1, <2>2, <2>4
  <2> QED BY <2>3, <2>4
<1>5. \A n \in 0..N : /\ g[n] \in Rec
                      /\ \A u \in X : u \in g[n].seen <=> \E j \in 1..n : retained[j] /\ url[j] = u
  <2> HIDE DEF T
  <2>1. Nat \subseteq T
    BY <1>2, <1>4, Induction
  <2>2. \A n \in 0..N : n \in T /\ n <= N
    BY <2>1
  <2> HIDE DEF Rec
  <2> QED BY <2>2 DEF T
<1>6. \A n \in 0..N : g[n].links \in Seq(X) /\ g[n].noFollowLinks \in Seq(X)
  BY <1>5
<1>7. ASSUME NEW i \in 1..N
      PROVE  /\ g[i].links = IF i \in first /\ ~nofollow[i]
                                THEN Append(g[i - 1].links, url[i]) ELSE g[i - 1].links
             /\ g[i].noFollowLinks = IF i \in first /\ nofollow[i]
                                        THEN Append(g[i - 1].noFollowLinks, url[i]) ELSE g[i - 1].noFollowLinks
  <2>1. PICK n \in Nat : n = i - 1 /\ i = n + 1 /\ n \in 0..N
    OBVIOUS
  <2>2. retained[i] /\ url[i] \notin g[n].seen <=> i \in first
    BY <1>1, <1>5, <2>1 DEF Firsts
  <2>4. g[n] \in Rec
    BY <1>5, <2>1
  <2>5. /\ ~retained[i] \/ url[i] \in g[n].seen => g[i] = g[n]
        /\ retained[i] /\ url[i] \notin g[n].seen =>
             /\ nofollow[i] => /\ g[i].links = g[n].links
                               /\ g[i].noFollowLinks = Append(g[n].noFollowLinks, url[i])
             /\ ~nofollow[i] => /\ g[i].noFollowLinks = g[n].noFollowLinks
                                /\ g[i].links = Append(g[n].links, url[i])
    <3>1. n + 1 <= N /\ i = n + 1
      BY <2>1
    <3> HIDE DEF Rec
    <3> QED BY <1>3, <2>4, <3>1
  <2>6. nofollow[i] \in BOOLEAN /\ i - 1 = n
    BY <1>1, <2>1
  <2> HIDE DEF first, Rec
  <2>7. CASE i \notin first
    BY <2>2, <2>5, <2>6, <2>7
  <2>8. CASE i \in first
    BY <2>2, <2>5, <2>6, <2>8
  <2> QED BY <2>7, <2>8
<1> QED BY <1>6, <1>7

FirstsAs(N, url, retained, nofollow, b) == {i \in Firsts(N, url, retained) : nofollow[i] = b}

LEMMA Collected ==
    ASSUME NEW N \in Nat, NEW X, NEW url, NEW retained, NEW nofollow, NEW g,
           Visits(N, X, url, retained, nofollow, g), NEW b \in BOOLEAN,
           NEW F, F = FirstsAs(N, url, retained, nofollow, b)
    PROVE  /\ (IF b THEN g[N].noFollowLinks ELSE g[N].links)
                = [k \in 1..Cardinality(F) |-> url[Kth(F, k)]]
           /\ \A k \in 1..Cardinality(F) : Kth(F, k) \in F
<1> DEFINE L == [n \in 0..N |-> IF b THEN g[n].noFollowLinks ELSE g[n].links]
<1>1. url \in [1..N -> X] /\ retained \in [1..N -> BOOLEAN] /\ nofollow \in [1..N -> BOOLEAN]
  BY DEF Visits
<1>2. /\ \A n \in 0..N : g[n].links \in Seq(X) /\ g[n].noFollowLinks \in Seq(X)
      /\ \A i \in 1..N :
           /\ g[i].links = IF i \in Firsts(N, url, retained) /\ ~nofollow[i]
                           THEN Append(g[i - 1].links, url[i]) ELSE g[i - 1].links
           /\ g[i].noFollowLinks = IF i \in Firsts(N, url, retained) /\ nofollow[i]
                                   THEN Append(g[i - 1].noFollowLinks, url[i]) ELSE g[i - 1].noFollowLinks
  BY FirstsFound
<1>3. g[0].links = <<>> /\ g[0].noFollowLinks = <<>>
  <2>1. g[0] = [seen |-> {}, noFollowLinks |-> <<>>, links |-> <<>>]
    BY DEF Visits, Nothing
  <2> QED BY <2>1
<1>4. F \subseteq 1..N
  BY DEF Firsts, FirstsAs
<1>5. L \in [0..N -> Seq(X)] /\ L[0] = <<>>
  BY <1>2, <1>3
<1>6. ASSUME NEW i \in 1..N PROVE L[i] = IF i \in F THEN Append(L[i - 1], url[i]) ELSE L[i - 1]
  <2>1. i \in 0..N /\ i - 1 \in 0..N
    OBVIOUS
  <2>2. nofollow[i] \in BOOLEAN
    BY <1>1
  <2>3. i \in F <=> i \in Firsts(N, url, retained) /\ nofollow[i] = b
    BY DEF FirstsAs
  <2>4. /\ L[i] = IF b THEN g[i].noFollowLinks ELSE g[i].links
        /\ L[i - 1] = IF b THEN g[i - 1].noFollowLinks ELSE g[i - 1].links
    BY <2>1
  <2> HIDE DEF L
  <2>5. CASE b = TRUE
    BY <1>2, <2>2, <2>3, <2>4, <2>5
  <2>6. CASE b = FALSE
    BY <1>2, <2>2, <2>3, <2>4, <2>6
  <2> QED BY <2>5, <2>6
<1>7. L[N] = IF b THEN g[N].noFollowLinks ELSE g[N].links
  OBVIOUS
<1> HIDE DEF L
<1>8. Gathers(N, X, F, url, L)
  BY <1>1, <1>4, <1>5, <1>6 DEF Gathers
<1>9. /\ L[N] = [k \in 1..Cardinality(F) |-> url[Kth(F, k)]]
      /\ \A k \in 1..Cardinality(F) : Kth(F, k) \in F
  BY <1>8, InRank
<1> QED BY <1>7, <1>9

(* The links that are found on a page are its links.                       *)
FoundURLs == UNION {{Unfragmented(TagLink(p, i)) : i \in DOMAIN ContentOf[p].tags} : p \in Page}

LEMMA FoundAreLinks ==
    ASSUME NEW p \in Page
    PROVE  /\ Found(p).links = LinksOf[p][FALSE] /\ Found(p).noFollowLinks = LinksOf[p][TRUE]
           /\ Found(p).links \in Seq(FoundURLs) /\ Found(p).noFollowLinks \in Seq(FoundURLs)
<1> DEFINE tags == ContentOf[p].tags
           relTo == RelTo(URLOf[p], ContentOf[p])
<1>1. Len(tags) \in Nat /\ DOMAIN tags = 1..Len(tags) /\ \A i \in 1..Len(tags) : tags[i].nofollow \in BOOLEAN
  BY FoundLoop
<1>2. PICK g : /\ g[0] = Nothing
               /\ \A i \in 1..Len(tags) : g[i] = Visit(relTo, g[i - 1], tags[i])
               /\ Found(p) = g[Len(tags)]
  BY FoundLoop
<1>3. PICK N \in Nat : N = Len(tags)
  BY <1>1
<1>4. PICK X, url, retained, nofollow :
        /\ X = {Unfragmented(TagLink(p, i)) : i \in 1..N}
        /\ url = [i \in 1..N |-> Unfragmented(TagLink(p, i))]
        /\ retained = [i \in 1..N |-> Retained(p, i)]
        /\ nofollow = [i \in 1..N |-> tags[i].nofollow]
  OBVIOUS
<1>5. /\ \A i \in 1..N : /\ url[i] = Unfragmented(TagLink(p, i)) /\ nofollow[i] = tags[i].nofollow
                         /\ retained[i] = Retained(p, i)
      /\ DOMAIN tags = 1..N
  BY <1>1, <1>3, <1>4
<1>6. url \in [1..N -> X] /\ retained \in [1..N -> BOOLEAN] /\ nofollow \in [1..N -> BOOLEAN]
  <2>1. url \in [1..N -> X]
    BY <1>4
  <2>2. \A i \in 1..N : Retained(p, i) \in BOOLEAN
    BY DEF Retained, RetainLink, IsExcluded
  <2>3. retained \in [1..N -> BOOLEAN]
    BY <1>4, <2>2
  <2>4. nofollow \in [1..N -> BOOLEAN]
    BY <1>1, <1>3, <1>4
  <2> QED BY <2>1, <2>3, <2>4
<1>7. ASSUME NEW i \in 1..N
      PROVE  g[i] = IF ~retained[i] \/ url[i] \in g[i - 1].seen THEN g[i - 1]
                    ELSE IF nofollow[i]
                         THEN [g[i - 1] EXCEPT !.seen = @ \union {url[i]}, !.noFollowLinks = Append(@, url[i])]
                         ELSE [g[i - 1] EXCEPT !.seen = @ \union {url[i]}, !.links = Append(@, url[i])]
  <2>1. IsExcluded(Unfragmented(TagLink(p, i))) <=> IsExcluded(TagLink(p, i))
    BY DEF IsExcluded, Unfragmented
  <2>2. PICK u : u = Unfragmented(TagLink(p, i))
    OBVIOUS
  <2>3. retained[i] <=> RetainLink(relTo.host, TagLink(p, i)) /\ ~IsExcluded(u)
    BY <1>5, <2>1, <2>2 DEF Retained
  <2>4. g[i] = IF ~RetainLink(relTo.host, TagLink(p, i)) THEN g[i - 1]
               ELSE IF u \in g[i - 1].seen \/ IsExcluded(u) THEN g[i - 1]
               ELSE IF tags[i].nofollow
                    THEN [g[i - 1] EXCEPT !.seen = @ \union {u}, !.noFollowLinks = Append(@, u)]
                    ELSE [g[i - 1] EXCEPT !.seen = @ \union {u}, !.links = Append(@, u)]
    BY <1>2, <1>3, <2>2 DEF Visit, TagLink
  <2>5. url[i] = u /\ nofollow[i] = tags[i].nofollow
    BY <1>5, <2>2
  <2> HIDE DEF tags, relTo
  <2> QED BY <2>3, <2>4, <2>5
<1>8. Visits(N, X, url, retained, nofollow, g)
  BY <1>2, <1>6, <1>7 DEF Visits
<1>9. ASSUME NEW b \in BOOLEAN
      PROVE  (IF b THEN g[N].noFollowLinks ELSE g[N].links) = LinksOf[p][b]
  <2>1. PICK F : F = FirstsAs(N, url, retained, nofollow, b)
    OBVIOUS
  <2>2. /\ (IF b THEN g[N].noFollowLinks ELSE g[N].links)
             = [k \in 1..Cardinality(F) |-> url[Kth(F, k)]]
        /\ \A k \in 1..Cardinality(F) : Kth(F, k) \in F
    BY <1>8, <2>1, Collected
  <2>3. F \subseteq 1..N
    BY <2>1 DEF Firsts, FirstsAs
  <2>4. F = {i \in FirstTags(p) : tags[i].nofollow = b}
    <3>1. \A i \in 1..N : \A j \in 1..(i - 1) : j \in 1..N
      OBVIOUS
    <3> HIDE DEF tags
    <3>2. Firsts(N, url, retained) = FirstTags(p)
      BY <1>5, <3>1 DEF Firsts, FirstTags, tags
    <3>3. F = {i \in FirstTags(p) : nofollow[i] = b}
      BY <2>1, <3>2 DEF FirstsAs
    <3>4. FirstTags(p) \subseteq 1..N
      BY <3>2 DEF Firsts
    <3>5. \A i \in FirstTags(p) : nofollow[i] = tags[i].nofollow
      BY <1>5, <3>4
    <3> QED BY <3>3, <3>5
  <2>5. \A k \in 1..Cardinality(F) :
          url[Kth(F, k)] = Unfragmented(TagLink(p, Kth(F, k)))
    <3> TAKE k \in 1..Cardinality(F)
    <3>1. Kth(F, k) \in 1..N
      BY <2>2, <2>3
    <3> QED BY <1>5, <3>1
  <2>6. LinksOf[p][b] = [k \in 1..Cardinality(F) |-> Unfragmented(TagLink(p, Kth(F, k)))]
    BY <2>4 DEF LinksOf
  <2> QED BY <2>2, <2>5, <2>6
<1>10. g[N].links \in Seq(FoundURLs) /\ g[N].noFollowLinks \in Seq(FoundURLs)
  <2>1. g[N].links \in Seq(X) /\ g[N].noFollowLinks \in Seq(X)
    BY <1>8, FirstsFound
  <2>2. X \subseteq FoundURLs
    BY <1>4, <1>5 DEF FoundURLs
  <2> QED BY <2>1, <2>2, SeqMonotonic
<1> QED BY <1>2, <1>3, <1>9, <1>10
-----------------------------------------------------------------------------
(* A buffer with one page in it has the contents of that page.             *)
LEMMA FlattenOne ==
    ASSUME NEW x
    PROVE  FlattenSeq([i \in {1} |-> x]) = x
<1> DEFINE s == [i \in {1} |-> x]
           flatten == CHOOSE f : f = [i \in 1..1 |-> IF i = 1 THEN s[i] ELSE f[i - 1] \o s[i]]
<1>1. Len(s) = 1
  <2>1. s = <<x>>
    OBVIOUS
  <2> QED BY <2>1
<1>2. flatten = [i \in 1..1 |-> IF i = 1 THEN s[i] ELSE flatten[i - 1] \o s[i]]
  <2>1. PICK f : f = [i \in 1..1 |-> s[i]]
    OBVIOUS
  <2>2. f = [i \in 1..1 |-> IF i = 1 THEN s[i] ELSE f[i - 1] \o s[i]]
    BY <2>1
  <2> HIDE DEF s
  <2>3. \E h : h = [i \in 1..1 |-> IF i = 1 THEN s[i] ELSE h[i - 1] \o s[i]]
    BY <2>2
  <2> QED BY <2>3
<1>3. flatten[1] = x
  <2> HIDE DEF flatten
  <2> QED BY <1>2
<1>4. FlattenSeq(s) = flatten[1]
  <2> HIDE DEF s
  <2> QED BY <1>1 DEF FlattenSeq
<1> QED BY <1>3, <1>4

LEMMA OnePage ==
    ASSUME NEW p \in Page
    PROVE  /\ Content(<<p>>).base = ContentOf[p].base
           /\ FindLinks(URLOf[p], Content(<<p>>)) = Found(p)
<1> DEFINE raw == <<p>>
<1>1. DOMAIN raw = {1} /\ raw[1] = p
  OBVIOUS
<1> HIDE DEF raw
<1>2. Content(raw).base = ContentOf[p].base
  <2> DEFINE bases == {i \in DOMAIN raw : ContentOf[raw[i]].base # None}
  <2>1. Content(raw).base = IF bases = {} THEN None ELSE ContentOf[raw[Min(bases)]].base
    BY DEF Content
  <2>2. CASE ContentOf[p].base = None
    <3>1. bases = {}
      BY <1>1, <2>2
    <3> QED BY <2>1, <2>2, <3>1
  <2>3. CASE ContentOf[p].base # None
    <3>1. bases = {1}
      BY <1>1, <2>3
    <3>2. Min(bases) = 1
      BY <3>1 DEF Min
    <3>3. bases # {}
      BY <3>1
    <3> HIDE DEF bases
    <3> QED BY <1>1, <2>1, <3>2, <3>3
  <2> QED BY <2>2, <2>3
<1>3. Content(raw).tags = ContentOf[p].tags
  <2>1. Content(raw).tags = FlattenSeq([i \in DOMAIN raw |-> ContentOf[raw[i]].tags])
    BY DEF Content
  <2>2. [i \in DOMAIN raw |-> ContentOf[raw[i]].tags] = [i \in {1} |-> ContentOf[p].tags]
    BY <1>1
  <2> QED BY <2>1, <2>2, FlattenOne
<1>4. RelTo(URLOf[p], Content(raw)) = RelTo(URLOf[p], ContentOf[p])
  BY <1>2 DEF RelTo
<1> QED BY <1>2, <1>3, <1>4 DEF FindLinks, Found, raw
-----------------------------------------------------------------------------
(* What payload objects look like: a slice has an array of its own that is *)
(* long enough, or none, and then it is empty.                             *)
Slices == [array : Object \union {None}, len : Nat]
Payloads == [linkID : Page \union {None}, url : {URLOf[p] : p \in Page} \union {None},
             rawContent : Seq(Page), noFollowLinks : Slices, links : Slices,
             title : Page \union {None}, textContent : Seq(Page)]

Arrays == [noFollowLinks : Seq(FoundURLs), links : Seq(FoundURLs)]

Own(o, slice, elements) ==
    /\ slice.array \in {None, o}
    /\ slice.array = None => slice.len = 0
    /\ slice.len <= Len(elements)

Sound(o) ==
    /\ obj[o] \in Payloads /\ array[o] \in Arrays
    /\ Own(o, obj[o].noFollowLinks, array[o].noFollowLinks)
    /\ Own(o, obj[o].links, array[o].links)

(* What the extractors have put into an object.                            *)
Fresh(o) == obj[o].noFollowLinks.len = 0 /\ obj[o].links.len = 0
Untold(o) == obj[o].title = None /\ obj[o].textContent = <<>>
Blank(o) == obj[o].rawContent = <<>> /\ Fresh(o) /\ Untold(o)

HasLinks(o) ==
    /\ Elements(obj[o].noFollowLinks, "noFollowLinks") = Found(obj[o].linkID).noFollowLinks
    /\ Elements(obj[o].links, "links") = Found(obj[o].linkID).links

HasText(o) ==
    /\ obj[o].title = IF ContentOf[obj[o].linkID].titled THEN obj[o].linkID ELSE None
    /\ obj[o].textContent = <<obj[o].linkID>>

(* An object in the hands of worker s has what the workers before it, and  *)
(* s, have put there, and nothing else.                                    *)
Progress(o, s) ==
    /\ obj[o].linkID \in Page /\ obj[o].url = URLOf[obj[o].linkID]
    /\ obj[o].rawContent = IF s \in Fetcher \union {"links"} THEN <<obj[o].linkID>> ELSE <<>>
    /\ IF s \in Fetcher \union {"source"} THEN Fresh(o) ELSE HasLinks(o)
    /\ IF s \in Fetcher \union {"source", "links"} THEN Untold(o) ELSE HasText(o)

Separate ==
    /\ array = [o \in Object |-> array[o]]
    /\ \A o \in Object : Sound(o)
    /\ \A o \in pool : Blank(o)
    /\ \A c \in Crawl, s \in Worker : hand[c][s] # None => Progress(hand[c][s], s)

(* An object that a step does not touch.                                   *)
LEMMA Untouched ==
    ASSUME NEW o \in Object, Sound(o), obj'[o] = obj[o], array'[o] = array[o]
    PROVE  /\ Sound(o)' /\ (Blank(o)' <=> Blank(o))
           /\ \A s \in Worker : Progress(o, s)' <=> Progress(o, s)
<1>1. Sound(o)' /\ (Blank(o)' <=> Blank(o)) /\ (Fresh(o)' <=> Fresh(o)) /\ (Untold(o)' <=> Untold(o))
      /\ (HasText(o)' <=> HasText(o))
  BY DEF Sound, Own, Blank, Fresh, Untold, HasText
<1>2. /\ Elements(obj[o].links, "links")' = Elements(obj[o].links, "links")
      /\ Elements(obj[o].noFollowLinks, "noFollowLinks")' = Elements(obj[o].noFollowLinks, "noFollowLinks")
  BY DEF Elements, Sound, Own
<1>3. HasLinks(o)' <=> HasLinks(o)
  BY <1>2 DEF HasLinks
<1> QED BY <1>1, <1>3 DEF Progress

(* A step that touches the objects of T only.                              *)
LEMMA Touches ==
    ASSUME TypeOK, TypeOK', Separate, NEW T, T \subseteq Object,
           array' = [o \in Object |-> array'[o]],
           \A o \in Object \ T : obj'[o] = obj[o] /\ array'[o] = array[o],
           \A o \in T : Sound(o)' /\ (o \in pool' => Blank(o)'),
           pool' \ T \subseteq pool,
           \A c \in Crawl, s \in Worker : hand'[c][s] # None =>
              \/ hand'[c][s] = hand[c][s] /\ hand[c][s] \notin T
              \/ \E o \in Object : hand'[c][s] = o /\ Progress(o, s)'
    PROVE  Separate'
<1>1. \A o \in Object \ T : /\ Sound(o)' /\ (Blank(o)' <=> Blank(o))
                            /\ \A s \in Worker : Progress(o, s)' <=> Progress(o, s)
  BY Untouched DEF Separate
<1>2. \A o \in Object : Sound(o)'
  BY <1>1
<1>3. \A o \in pool' : Blank(o)'
  BY <1>1 DEF Separate, TypeOK
<1>4. ASSUME NEW c \in Crawl, NEW s \in Worker, hand'[c][s] # None
      PROVE  \E o \in Object : hand'[c][s] = o /\ Progress(o, s)'
  <2>1. CASE hand'[c][s] = hand[c][s] /\ hand[c][s] \notin T
    <3>1. PICK o \in Object \ T : hand[c][s] = o /\ hand'[c][s] = o
      BY <1>4, <2>1 DEF TypeOK
    <3>2. Progress(o, s)
      BY <1>4, <2>1, <3>1 DEF Separate
    <3> QED BY <1>1, <3>1, <3>2
  <2> QED BY <1>4, <2>1
<1>5. \A c \in Crawl, s \in Worker : hand'[c][s] # None => Progress(hand[c][s], s)'
  <2> TAKE c \in Crawl, s \in Worker
  <2> HAVE hand'[c][s] # None
  <2>1. PICK o \in Object : hand'[c][s] = o /\ Progress(o, s)'
    BY <1>4
  <2> QED BY <2>1 DEF Progress, Fresh, HasLinks, Untold, HasText, Elements
<1> QED BY <1>2, <1>3, <1>5 DEF Separate

(* Of sequences.                                                           *)
LEMMA Prefix ==
    ASSUME NEW S, NEW a \in Seq(S), NEW b \in Seq(S)
    PROVE  /\ a \o b \in Seq(S) /\ Len(a \o b) = Len(a) + Len(b)
           /\ SubSeq(a \o b, 1, Len(a)) = a /\ SubSeq(a, 1, Len(a)) = a /\ <<>> \o a = a
<1>1. /\ a \o b \in Seq(S) /\ Len(a \o b) = Len(a) + Len(b)
      /\ \A i \in 1..Len(a) : (a \o b)[i] = a[i]
      /\ <<>> \o a = a
  BY ConcatProperties, ConcatEmptySeq
<1>2. PICK n \in Nat : n = Len(a)
  OBVIOUS
<1>3. n <= Len(a \o b)
  BY <1>1, <1>2
<1>4. PICK c \in Seq(S), d \in Seq(S) : c = a \o b /\ d = SubSeq(c, 1, n) /\ Len(d) = n /\ \A i \in 1..n : d[i] = c[i]
  <2>1. PICK c \in Seq(S) : c = a \o b
    BY <1>1
  <2>2. \A i \in 1..n : c[i] \in S
    BY <1>1, <1>2, <2>1, ElementOfSeq
  <2>3. SubSeq(c, 1, n) \in Seq(S) /\ Len(SubSeq(c, 1, n)) = n /\ \A i \in 1..n : SubSeq(c, 1, n)[i] = c[i]
    BY <2>2, SubSeqProperties
  <2> QED BY <2>1, <2>3
<1>5. d = a
  BY <1>1, <1>2, <1>4, SeqEqual
<1>6. PICK e \in Seq(S) : e = SubSeq(a, 1, n) /\ Len(e) = n /\ \A i \in 1..n : e[i] = a[i]
  BY <1>2, SubSeqProperties
<1>7. e = a
  BY <1>2, <1>6, SeqEqual
<1> QED BY <1>1, <1>2, <1>4, <1>5, <1>6, <1>7

(* The elements of a slice.                                                *)
LEMMA OwnElements ==
    ASSUME NEW o \in Object, Sound(o)
    PROVE  /\ Elements(obj[o].links, "links") \in Seq(FoundURLs)
           /\ Len(Elements(obj[o].links, "links")) = obj[o].links.len
           /\ Elements(obj[o].noFollowLinks, "noFollowLinks") \in Seq(FoundURLs)
           /\ Len(Elements(obj[o].noFollowLinks, "noFollowLinks")) = obj[o].noFollowLinks.len
<1>1. ASSUME NEW a \in Seq(FoundURLs), NEW n \in Nat, n <= Len(a)
      PROVE  SubSeq(a, 1, n) \in Seq(FoundURLs) /\ Len(SubSeq(a, 1, n)) = n
  BY <1>1, SubSeqProperties
<1>2. PICK l \in Slices, m \in Slices, a \in Seq(FoundURLs), b \in Seq(FoundURLs) :
        l = obj[o].links /\ m = obj[o].noFollowLinks /\ a = array[o].links /\ b = array[o].noFollowLinks
  BY DEF Sound, Payloads, Arrays
<1>3. /\ l.len \in Nat /\ m.len \in Nat /\ l.len <= Len(a) /\ m.len <= Len(b)
      /\ l.array \in {None, o} /\ m.array \in {None, o}
      /\ l.array = None => l.len = 0
      /\ m.array = None => m.len = 0
  BY <1>2 DEF Sound, Own, Slices
<1>4. o # None /\ <<>> \in Seq(FoundURLs) /\ Len(<<>>) = 0
  BY Workers
<1>5. Elements(obj[o].links, "links") = IF l.array = None THEN <<>> ELSE SubSeq(a, 1, l.len)
  BY <1>2, <1>3 DEF Elements
<1>6. Elements(obj[o].noFollowLinks, "noFollowLinks") = IF m.array = None THEN <<>> ELSE SubSeq(b, 1, m.len)
  BY <1>2, <1>3 DEF Elements
<1>7. Elements(obj[o].links, "links") \in Seq(FoundURLs) /\ Len(Elements(obj[o].links, "links")) = l.len
  <2>1. CASE l.array = None
    BY <1>3, <1>4, <1>5, <2>1
  <2>2. CASE l.array # None
    BY <1>1, <1>3, <1>5, <2>2
  <2> QED BY <2>1, <2>2
<1>8. /\ Elements(obj[o].noFollowLinks, "noFollowLinks") \in Seq(FoundURLs)
      /\ Len(Elements(obj[o].noFollowLinks, "noFollowLinks")) = m.len
  <2>1. CASE m.array = None
    BY <1>3, <1>4, <1>6, <2>1
  <2>2. CASE m.array # None
    BY <1>1, <1>3, <1>6, <2>2
  <2> QED BY <2>1, <2>2
<1> QED BY <1>2, <1>7, <1>8

LEMMA PayloadFields ==
    ASSUME NEW y,
           y = [linkID |-> y.linkID, url |-> y.url, rawContent |-> y.rawContent, noFollowLinks |-> y.noFollowLinks,
                links |-> y.links, title |-> y.title, textContent |-> y.textContent],
           /\ y.linkID \in Page \union {None} /\ y.url \in {URLOf[p] : p \in Page} \union {None}
           /\ y.rawContent \in Seq(Page) /\ y.textContent \in Seq(Page) /\ y.title \in Page \union {None}
           /\ y.noFollowLinks \in Slices /\ y.links \in Slices
    PROVE  y \in Payloads
BY DEF Payloads

(* An object that is given back.                                           *)
LEMMA Recycled ==
    ASSUME TypeOK, NEW o \in Object, Sound(o), MarkAsProcessed(o), UNCHANGED array
    PROVE  /\ Sound(o)' /\ Blank(o)' /\ pool' = pool \union {o}
           /\ \A q \in Object \ {o} : obj'[q] = obj[q] /\ array'[q] = array[q]
<1>1. PICK x \in Payloads : x = obj[o]
  BY DEF Sound
<1>2. PICK y : y = Cleaned(x)
  OBVIOUS
<1>3. obj' = [obj EXCEPT ![o] = y] /\ pool' = pool \union {o}
  BY <1>1, <1>2 DEF MarkAsProcessed
<1>4. obj'[o] = y /\ \A q \in Object \ {o} : obj'[q] = obj[q]
  BY <1>3 DEF TypeOK
<1>5. PICK l \in Slices, m \in Slices : l = x.links /\ m = x.noFollowLinks
  BY DEF Payloads
<1>6. /\ y.linkID = x.linkID /\ y.url = None /\ y.rawContent = <<>>
      /\ y.links = [l EXCEPT !.len = 0] /\ y.noFollowLinks = [m EXCEPT !.len = 0]
      /\ y.title = None /\ y.textContent = <<>>
      /\ y = [linkID |-> y.linkID, url |-> y.url, rawContent |-> y.rawContent, noFollowLinks |-> y.noFollowLinks,
              links |-> y.links, title |-> y.title, textContent |-> y.textContent]
  BY <1>1, <1>2, <1>5 DEF Payloads, Cleaned
<1>7. PICK e \in Slices, f \in Slices : e = y.links /\ f = y.noFollowLinks
  BY <1>5, <1>6 DEF Slices
<1>8. e.len = 0 /\ f.len = 0 /\ e.array = l.array /\ f.array = m.array
  BY <1>6, <1>7 DEF Slices
<1>9. y \in Payloads
  <2>1. x.linkID \in Page \union {None}
    BY DEF Payloads
  <2>2. /\ y.linkID \in Page \union {None} /\ y.url \in {URLOf[p] : p \in Page} \union {None}
        /\ y.rawContent \in Seq(Page) /\ y.textContent \in Seq(Page) /\ y.title \in Page \union {None}
        /\ y.noFollowLinks \in Slices /\ y.links \in Slices
    BY <1>6, <1>7, <2>1
  <2> QED BY <1>6, <2>2, PayloadFields
<1>10. array[o] \in Arrays /\ l.array \in {None, o} /\ m.array \in {None, o}
  BY <1>1, <1>5 DEF Sound, Own
<1>11. Sound(o)'
  <2>1. PICK a \in Nat, b \in Nat : a = Len(array[o].links) /\ b = Len(array[o].noFollowLinks)
    BY <1>10, LenProperties DEF Arrays
  <2>2. 0 <= a /\ 0 <= b
    OBVIOUS
  <2> QED BY <1>4, <1>7, <1>8, <1>9, <1>10, <2>1, <2>2 DEF Sound, Own
<1>12. Blank(o)'
  BY <1>4, <1>6, <1>7, <1>8 DEF Blank, Fresh, Untold
<1> QED BY <1>3, <1>4, <1>11, <1>12

(* An object that is taken from the pool, or made.                         *)
LEMMA Clean ==
    ASSUME TypeOK, Exclusive, Separate, NEW n \in Obtainable
    PROVE  /\ n \in Object /\ Obtained(n) \in Payloads /\ Obtained(n).rawContent = <<>>
           /\ Obtained(n).links.len = 0 /\ Obtained(n).noFollowLinks.len = 0
           /\ Obtained(n).links.array \in {None, n} /\ Obtained(n).noFollowLinks.array \in {None, n}
           /\ Obtained(n).title = None /\ Obtained(n).textContent = <<>>
<1>1. n \in Object
  BY Taken
<1>2. CASE n \in pool
  <2>1. Sound(n) /\ Blank(n) /\ Obtained(n) = obj[n]
    BY <1>1, <1>2 DEF Separate, Obtained
  <2> QED BY <1>1, <2>1 DEF Sound, Own, Blank, Fresh, Untold
<1>3. CASE n \notin pool
  <2>1. Obtained(n) = NewObject
    BY <1>3 DEF Obtained
  <2>2. NoSlice \in Slices /\ NoSlice.len = 0 /\ NoSlice.array = None
    BY DEF NoSlice, Slices
  <2>3. PICK s \in Slices : s = NoSlice
    BY <2>2
  <2>4. NewObject = [linkID |-> None, url |-> None, rawContent |-> <<>>, noFollowLinks |-> s, links |-> s,
                     title |-> None, textContent |-> <<>>]
    BY <2>3 DEF NewObject
  <2>5. NewObject \in Payloads
    BY <2>4 DEF Payloads
  <2> QED BY <1>1, <2>1, <2>2, <2>3, <2>4, <2>5
<1> QED BY <1>2, <1>3

LEMMA SeparateSource ==
    ASSUME IInv, TypeOK', Separate, NEW c \in Crawl, SourcePayload(c)
    PROVE  Separate'
<1>1. TypeOK /\ Exclusive /\ "source" \in Worker
  BY Workers DEF IInv
<1>2. PICK p \in Page : p = Head(todo[c])
  <2>1. todo[c] \in Seq(Page) /\ todo[c] # <<>>
    BY <1>1 DEF SourcePayload, TypeOK
  <2> QED BY <2>1, HeadTailProperties
<1>3. PICK n \in Obtainable :
        /\ obj' = [obj EXCEPT ![n] = [Obtained(n) EXCEPT !.linkID = p, !.url = URLOf[p]]]
        /\ array' = IF n \in pool THEN array ELSE [array EXCEPT ![n] = NoArrays]
        /\ pool' = pool \ {n}
        /\ hand' = [hand EXCEPT ![c]["source"] = n]
  BY <1>2 DEF SourcePayload
<1>4. n \in Object /\ \A d \in Crawl, u \in Worker : hand[d][u] # n
  BY <1>1, Taken
<1>5. hand'[c]["source"] = n /\ \A d \in Crawl, u \in Worker : ~(d = c /\ u = "source") => hand'[d][u] = hand[d][u]
  BY <1>1, <1>3, <1>4 DEF TypeOK
<1>6. PICK x \in Payloads :
        /\ x = Obtained(n) /\ x.rawContent = <<>> /\ x.links.len = 0 /\ x.noFollowLinks.len = 0
        /\ x.links.array \in {None, n} /\ x.noFollowLinks.array \in {None, n}
        /\ x.title = None /\ x.textContent = <<>>
  BY <1>1, Clean
<1>7. PICK y : y = [x EXCEPT !.linkID = p, !.url = URLOf[p]]
  OBVIOUS
<1>8. /\ y.linkID = p /\ y.url = URLOf[p] /\ y.rawContent = <<>> /\ y.title = None /\ y.textContent = <<>>
      /\ y.links = x.links /\ y.noFollowLinks = x.noFollowLinks
      /\ y \in Payloads
  BY <1>6, <1>7 DEF Payloads
<1>9. obj'[n] = y /\ \A o \in Object \ {n} : obj'[o] = obj[o]
  BY <1>1, <1>3, <1>4, <1>6, <1>7 DEF TypeOK
<1>10. /\ array'[n] \in Arrays /\ \A o \in Object \ {n} : array'[o] = array[o]
       /\ array' = [o \in Object |-> array'[o]]
  <2>1. array = [o \in Object |-> array[o]] /\ array[n] \in Arrays
    BY <1>4 DEF Separate, Sound
  <2>2. NoArrays \in Arrays
    BY DEF NoArrays, Arrays
  <2>3. CASE n \in pool
    BY <1>3, <2>1, <2>3
  <2>4. CASE n \notin pool
    <3>1. PICK e \in Arrays : e = NoArrays
      BY <2>2
    <3>2. array' = [array EXCEPT ![n] = e]
      BY <1>3, <2>4, <3>1
    <3> QED BY <1>4, <2>1, <3>2
  <2> QED BY <2>3, <2>4
<1>11. Sound(n)' /\ Progress(n, "source")'
  <2>1. PICK a \in Nat, b \in Nat : a = Len(array'[n].links) /\ b = Len(array'[n].noFollowLinks)
    BY <1>10, LenProperties DEF Arrays
  <2>2. 0 <= a /\ 0 <= b
    OBVIOUS
  <2>3. Sound(n)'
    BY <1>6, <1>8, <1>9, <1>10, <2>1, <2>2 DEF Sound, Own
  <2>4. "source" \notin Fetcher \union {"links"}
    BY Workers
  <2> QED BY <1>6, <1>8, <1>9, <2>3, <2>4 DEF Progress, Fresh, Untold
<1>12. n \notin pool' /\ pool' \subseteq pool
  BY <1>3
<1>13. \A d \in Crawl, u \in Worker : hand'[d][u] # None =>
          \/ hand'[d][u] = hand[d][u] /\ hand[d][u] \notin {n}
          \/ \E o \in Object : hand'[d][u] = o /\ Progress(o, u)'
  BY <1>4, <1>5, <1>11
<1> QED BY <1>1, <1>4, <1>9, <1>10, <1>11, <1>12, <1>13, Touches

(* Elsewhere there are other objects than that of worker s of crawl c.     *)
LEMMA Elsewhere ==
    ASSUME TypeOK, Exclusive, NEW c \in Crawl, NEW s \in Worker, NEW S, HandsBut(c, S), s \in S,
           NEW o \in Object, o = hand[c][s]
    PROVE  \A d \in Crawl, u \in Worker : ~(d = c /\ u \in S) =>
              hand'[d][u] = hand[d][u] /\ hand[d][u] # o
BY Workers DEF HandsBut, Exclusive

LEMMA SeparateRecycled ==
    ASSUME IInv, TypeOK', Separate, NEW c \in Crawl, NEW s \in Worker, hand[c][s] # None,
           MarkAsProcessed(hand[c][s]), hand' = [hand EXCEPT ![c][s] = None], UNCHANGED array
    PROVE  Separate'
<1>1. TypeOK /\ Exclusive
  BY DEF IInv
<1>2. PICK o \in Object : o = hand[c][s]
  BY <1>1 DEF TypeOK
<1>3. Sound(o) /\ array = [q \in Object |-> array[q]]
  BY DEF Separate
<1>4. /\ Sound(o)' /\ Blank(o)' /\ pool' = pool \union {o}
      /\ \A q \in Object \ {o} : obj'[q] = obj[q] /\ array'[q] = array[q]
  BY <1>1, <1>2, <1>3, Recycled
<1>5. hand'[c][s] = None /\ HandsBut(c, {s})
  BY <1>1, Emptied
<1>6. \A d \in Crawl, u \in Worker : ~(d = c /\ u \in {s}) => hand'[d][u] = hand[d][u] /\ hand[d][u] # o
  BY <1>1, <1>2, <1>5, Elsewhere
<1>7. \A d \in Crawl, u \in Worker : hand'[d][u] # None => hand'[d][u] = hand[d][u] /\ hand[d][u] \notin {o}
  BY <1>5, <1>6
<1>8. array' = [q \in Object |-> array'[q]]
  BY <1>3
<1> QED BY <1>1, <1>4, <1>7, <1>8, Touches

Fetches(c, w, o) ==
    /\ obj' = [obj EXCEPT ![o].rawContent = Append(@, CHOOSE p \in Page : URLOf[p] = obj[o].url)]
    /\ hand' = [hand EXCEPT ![c]["source"] = None, ![c][w] = o]

LEMMA SeparateFetched ==
    ASSUME IInv, TypeOK', Separate, NEW c \in Crawl, NEW w \in Fetcher, hand[c]["source"] # None,
           Fetches(c, w, hand[c]["source"]), UNCHANGED <<pool, array>>
    PROVE  Separate'
<1>1. TypeOK /\ Exclusive /\ w \in Worker /\ "source" \in Worker /\ w # "source"
  BY Workers DEF IInv
<1>2. PICK o \in Object : o = hand[c]["source"]
  BY <1>1 DEF TypeOK
<1>3. /\ Sound(o) /\ array = [q \in Object |-> array[q]] /\ Progress(o, "source")
      /\ "source" \notin Fetcher \union {"links"}
  BY <1>1, <1>2, Workers DEF Separate
<1>4. PICK p \in Page : p = obj[o].linkID
  BY <1>3 DEF Progress
<1>5. obj[o].url = URLOf[p] /\ obj[o].rawContent = <<>> /\ Fresh(o) /\ Untold(o)
  BY <1>3, <1>4 DEF Progress
<1>6. (CHOOSE q \in Page : URLOf[q] = obj[o].url) = p
  BY <1>5, PagesAssumption
<1>7. PICK x \in Payloads : x = obj[o]
  BY <1>3 DEF Sound
<1>8. PICK y : y = [x EXCEPT !.rawContent = <<p>>]
  OBVIOUS
<1>9. /\ y \in Payloads /\ y.rawContent = <<p>> /\ y.linkID = x.linkID /\ y.url = x.url
      /\ y.links = x.links /\ y.noFollowLinks = x.noFollowLinks /\ y.title = x.title /\ y.textContent = x.textContent
  <2>1. PICK r \in Seq(Page) : r = <<p>>
    <3>1. <<p>> \in Seq(Page)
      OBVIOUS
    <3> QED BY <3>1
  <2>2. y = [x EXCEPT !.rawContent = r]
    BY <1>8, <2>1
  <2> QED BY <2>1, <2>2 DEF Payloads
<1>10. obj' = [obj EXCEPT ![o] = y]
  <2>1. obj' = [obj EXCEPT ![o].rawContent = Append(@, p)]
    BY <1>2, <1>6 DEF Fetches
  <2>2. Append(x.rawContent, p) = <<p>>
    <3>1. Append(<<>>, p) = <<p>>
      OBVIOUS
    <3> QED BY <1>5, <1>7, <3>1
  <2>3. obj' = [obj EXCEPT ![o] = [x EXCEPT !.rawContent = Append(@, p)]]
    BY <1>7, <2>1
  <2> QED BY <1>8, <2>2, <2>3
<1>11. obj'[o] = y /\ \A q \in Object \ {o} : obj'[q] = obj[q]
  BY <1>1, <1>10 DEF TypeOK
<1>12. /\ hand'[c]["source"] = None /\ hand'[c][w] = o /\ HandsBut(c, {"source", w})
  BY <1>1, <1>2, Moved DEF Fetches
<1>13. \A d \in Crawl, u \in Worker : ~(d = c /\ u \in {"source", w}) => hand'[d][u] = hand[d][u] /\ hand[d][u] # o
  <2>1. \A d \in Crawl, u \in Worker : ~(d = c /\ u = "source") => hand[d][u] # o
    BY <1>1, <1>2 DEF Exclusive
  <2> QED BY <1>12, <2>1 DEF HandsBut
<1>14. Sound(o)' /\ Progress(o, w)'
  <2>1. Sound(o)'
    BY <1>3, <1>7, <1>9, <1>11 DEF Sound
  <2>2. Fresh(o)' /\ Untold(o)'
    BY <1>5, <1>7, <1>9, <1>11 DEF Fresh, Untold
  <2> QED BY <1>4, <1>5, <1>7, <1>8, <1>9, <1>11, <2>1, <2>2 DEF Progress
<1>15. \A d \in Crawl, u \in Worker : hand'[d][u] # None =>
          \/ hand'[d][u] = hand[d][u] /\ hand[d][u] \notin {o}
          \/ \E q \in Object : hand'[d][u] = q /\ Progress(q, u)'
  BY <1>12, <1>13, <1>14
<1>16. o \notin pool' /\ pool' = pool /\ array' = [q \in Object |-> array'[q]]
  BY <1>1, <1>2, <1>3 DEF Exclusive
<1>17. \A q \in Object \ {o} : obj'[q] = obj[q] /\ array'[q] = array[q]
  BY <1>11
<1>18. pool' \ {o} \subseteq pool /\ \A q \in {o} : Sound(q)' /\ (q \in pool' => Blank(q)')
  BY <1>14, <1>16
<1> QED BY <1>1, <1>15, <1>16, <1>17, <1>18, Touches

(* The links of page p are appended to the empty slices of object o.       *)
Extracts(c, w, o) ==
    LET found == FindLinks(obj[o].url, Content(obj[o].rawContent))
    IN  /\ array' = [array EXCEPT
              ![ArrayOf(o, "noFollowLinks")].noFollowLinks = Appended(o, "noFollowLinks", found.noFollowLinks),
              ![ArrayOf(o, "links")].links = Appended(o, "links", found.links)]
        /\ obj' = [obj EXCEPT
              ![o].noFollowLinks = [array |-> ArrayOf(o, "noFollowLinks"), len |-> @.len + Len(found.noFollowLinks)],
              ![o].links = [array |-> ArrayOf(o, "links"), len |-> @.len + Len(found.links)]]
        /\ hand' = [hand EXCEPT ![c][w] = None, ![c]["links"] = o]

LEMMA AppendedToNone ==
    ASSUME NEW o \in Object, Sound(o), Fresh(o), NEW new \in Seq(FoundURLs), NEW kind \in {"links", "noFollowLinks"}
    PROVE  /\ ArrayOf(o, kind) = o
           /\ Appended(o, kind, new) \in Seq(FoundURLs)
           /\ Len(new) <= Len(Appended(o, kind, new))
           /\ SubSeq(Appended(o, kind, new), 1, Len(new)) = new
<1>1. ArrayOf(o, "links") = o /\ ArrayOf(o, "noFollowLinks") = o
  BY DEF ArrayOf, Sound, Own
<1>2. ArrayOf(o, kind) = o
  <2>1. CASE kind = "links"
    BY <1>1, <2>1
  <2>2. CASE kind = "noFollowLinks"
    BY <1>1, <2>2
  <2> QED BY <2>1, <2>2
<1>3. Elements(obj[o][kind], kind) = <<>>
  <2>1. /\ Elements(obj[o].links, "links") \in Seq(FoundURLs)
        /\ Len(Elements(obj[o].links, "links")) = 0
        /\ Elements(obj[o].noFollowLinks, "noFollowLinks") \in Seq(FoundURLs)
        /\ Len(Elements(obj[o].noFollowLinks, "noFollowLinks")) = 0
    BY OwnElements DEF Fresh
  <2>2. Elements(obj[o].links, "links") = <<>> /\ Elements(obj[o].noFollowLinks, "noFollowLinks") = <<>>
    BY <2>1, EmptySeq
  <2>3. CASE kind = "links"
    BY <2>2, <2>3
  <2>4. CASE kind = "noFollowLinks"
    BY <2>2, <2>4
  <2> QED BY <2>3, <2>4
<1>4. PICK rest \in Seq(FoundURLs) : rest = array[o][kind]
  <2>1. CASE kind = "links"
    BY <2>1 DEF Sound, Arrays
  <2>2. CASE kind = "noFollowLinks"
    BY <2>2 DEF Sound, Arrays
  <2> QED BY <2>1, <2>2
<1>5. PICK m \in Nat, n \in Nat : m = Len(new) /\ n = Len(rest)
  BY LenProperties
<1>6. PICK tail \in Seq(FoundURLs) : tail = SubSeq(rest, m + 1, n)
  <2>1. \A i \in (m + 1)..n : rest[i] \in FoundURLs
    BY <1>5, ElementOfSeq
  <2>2. SubSeq(rest, m + 1, n) \in Seq(FoundURLs)
    BY <2>1, SubSeqProperties
  <2> QED BY <2>2
<1>7. Appended(o, kind, new) = <<>> \o new \o SubSeq(rest, 0 + m + 1, n)
  <2>1. Len(<<>>) = 0
    OBVIOUS
  <2> QED BY <1>2, <1>3, <1>4, <1>5, <2>1 DEF Appended
<1>8. 0 + m + 1 = m + 1
  OBVIOUS
<1>9. Appended(o, kind, new) = new \o tail
  <2>1. <<>> \o new = new
    BY Prefix
  <2> QED BY <1>6, <1>7, <1>8, <2>1
<1>10. /\ new \o tail \in Seq(FoundURLs) /\ Len(new \o tail) = Len(new) + Len(tail)
       /\ SubSeq(new \o tail, 1, Len(new)) = new
  BY Prefix
<1>11. PICK k \in Nat : k = Len(tail)
  BY LenProperties
<1>12. m <= m + k
  OBVIOUS
<1> QED BY <1>2, <1>5, <1>9, <1>10, <1>11, <1>12

LEMMA SeparateExtracted ==
    ASSUME IInv, TypeOK', Separate, NEW c \in Crawl, NEW w \in Fetcher, hand[c][w] # None,
           Extracts(c, w, hand[c][w]), UNCHANGED pool
    PROVE  Separate'
<1>1. TypeOK /\ Exclusive /\ w \in Worker /\ "links" \in Worker /\ w # "links" /\ "links" \notin Fetcher \union {"source"}
  BY Workers DEF IInv
<1>2. PICK o \in Object : o = hand[c][w]
  BY <1>1 DEF TypeOK
<1>3. Sound(o) /\ array = [q \in Object |-> array[q]] /\ Progress(o, w)
  BY <1>1, <1>2 DEF Separate
<1>4. PICK p \in Page : p = obj[o].linkID
  BY <1>3 DEF Progress
<1>5. obj[o].url = URLOf[p] /\ obj[o].rawContent = <<p>> /\ Fresh(o) /\ Untold(o)
  BY <1>3, <1>4 DEF Progress
<1>6. FindLinks(obj[o].url, Content(obj[o].rawContent)) = Found(p)
  BY <1>5, OnePage
<1>7. PICK fl \in Seq(FoundURLs), fn \in Seq(FoundURLs) : fl = Found(p).links /\ fn = Found(p).noFollowLinks
  BY FoundAreLinks
<1>8. PICK ls \in Seq(FoundURLs), ns \in Seq(FoundURLs) :
        /\ ls = Appended(o, "links", fl) /\ ns = Appended(o, "noFollowLinks", fn)
        /\ Len(fl) <= Len(ls) /\ Len(fn) <= Len(ns)
        /\ SubSeq(ls, 1, Len(fl)) = fl /\ SubSeq(ns, 1, Len(fn)) = fn
  <2>1. PICK ls \in Seq(FoundURLs) :
          ls = Appended(o, "links", fl) /\ Len(fl) <= Len(ls) /\ SubSeq(ls, 1, Len(fl)) = fl
    <3>1. /\ Appended(o, "links", fl) \in Seq(FoundURLs) /\ Len(fl) <= Len(Appended(o, "links", fl))
          /\ SubSeq(Appended(o, "links", fl), 1, Len(fl)) = fl
      BY <1>3, <1>5, AppendedToNone
    <3> QED BY <3>1
  <2>2. PICK ns \in Seq(FoundURLs) :
          ns = Appended(o, "noFollowLinks", fn) /\ Len(fn) <= Len(ns) /\ SubSeq(ns, 1, Len(fn)) = fn
    <3>1. /\ Appended(o, "noFollowLinks", fn) \in Seq(FoundURLs) /\ Len(fn) <= Len(Appended(o, "noFollowLinks", fn))
          /\ SubSeq(Appended(o, "noFollowLinks", fn), 1, Len(fn)) = fn
      BY <1>3, <1>5, AppendedToNone
    <3> QED BY <3>1
  <2> QED BY <2>1, <2>2
<1>9. ArrayOf(o, "links") = o /\ ArrayOf(o, "noFollowLinks") = o
  BY <1>3, <1>5, <1>7, AppendedToNone
<1>10. PICK x \in Payloads, l \in Nat, n \in Nat : x = obj[o] /\ l = Len(fl) /\ n = Len(fn)
  BY <1>3, LenProperties DEF Sound
<1>11. PICK s \in Slices, t \in Slices : s = [array |-> o, len |-> l] /\ t = [array |-> o, len |-> n]
  BY DEF Slices
<1>12. PICK y : y = [x EXCEPT !.noFollowLinks = t, !.links = s]
  OBVIOUS
<1>13. /\ y \in Payloads /\ y.links = s /\ y.noFollowLinks = t
       /\ y.linkID = x.linkID /\ y.url = x.url /\ y.rawContent = x.rawContent
       /\ y.title = x.title /\ y.textContent = x.textContent
  BY <1>12 DEF Payloads
<1>14. /\ obj' = [obj EXCEPT ![o].noFollowLinks = [array |-> o, len |-> @.len + n],
                             ![o].links = [array |-> o, len |-> @.len + l]]
       /\ array' = [array EXCEPT ![o].noFollowLinks = ns, ![o].links = ls]
       /\ hand' = [hand EXCEPT ![c][w] = None, ![c]["links"] = o]
  BY <1>2, <1>6, <1>7, <1>8, <1>9, <1>10 DEF Extracts
<1>15. obj'[o] = y /\ \A q \in Object \ {o} : obj'[q] = obj[q]
  <2>1. obj'[o] = [x EXCEPT !.noFollowLinks = [array |-> o, len |-> @.len + n],
                            !.links = [array |-> o, len |-> @.len + l]]
        /\ \A q \in Object \ {o} : obj'[q] = obj[q]
    BY <1>1, <1>10, <1>14 DEF TypeOK
  <2>2. x.links.len = 0 /\ x.noFollowLinks.len = 0 /\ 0 + n = n /\ 0 + l = l
    BY <1>5, <1>10 DEF Fresh
  <2> QED BY <1>11, <1>12, <2>1, <2>2
<1>16. /\ array'[o].links = ls /\ array'[o].noFollowLinks = ns /\ array'[o] \in Arrays
       /\ array' = [q \in Object |-> array'[q]]
       /\ \A q \in Object \ {o} : array'[q] = array[q]
  <2>1. PICK a \in Arrays : a = array[o]
    BY <1>3 DEF Sound
  <2>2. PICK b : b = [a EXCEPT !.noFollowLinks = ns, !.links = ls]
    OBVIOUS
  <2>3. b.links = ls /\ b.noFollowLinks = ns /\ b \in Arrays
    BY <2>2 DEF Arrays
  <2>4. array' = [array EXCEPT ![o] = b]
    BY <1>3, <1>14, <2>1, <2>2
  <2> QED BY <1>3, <2>3, <2>4
<1>17. Sound(o)'
  <2>1. s.array = o /\ s.len = l /\ t.array = o /\ t.len = n /\ o # None
    BY <1>11, Workers
  <2>2. Own(o, s, ls) /\ Own(o, t, ns)
    BY <1>8, <1>10, <2>1 DEF Own
  <2> QED BY <1>13, <1>15, <1>16, <2>2 DEF Sound
<1>18. HasLinks(o)'
  <2>1. s.array = o /\ s.len = l /\ t.array = o /\ t.len = n /\ o # None
    BY <1>11, Workers
  <2>2. /\ obj'[o].links = s /\ obj'[o].noFollowLinks = t /\ obj'[o].linkID = p
    BY <1>4, <1>10, <1>13, <1>15
  <2>3. Elements(obj[o].links, "links")' = SubSeq(ls, 1, l)
    BY <1>16, <2>1, <2>2 DEF Elements
  <2>4. Elements(obj[o].noFollowLinks, "noFollowLinks")' = SubSeq(ns, 1, n)
    BY <1>16, <2>1, <2>2 DEF Elements
  <2> QED BY <1>7, <1>8, <1>10, <2>2, <2>3, <2>4 DEF HasLinks
<1>19. Progress(o, "links")'
  <2>1. Untold(o)'
    BY <1>5, <1>10, <1>13, <1>15 DEF Untold
  <2> QED BY <1>1, <1>4, <1>5, <1>10, <1>13, <1>15, <1>18, <2>1 DEF Progress
<1>20. /\ hand'[c][w] = None /\ hand'[c]["links"] = o /\ HandsBut(c, {w, "links"})
  BY <1>1, <1>2, <1>14, Moved
<1>21. \A d \in Crawl, u \in Worker : ~(d = c /\ u \in {w, "links"}) => hand'[d][u] = hand[d][u] /\ hand[d][u] # o
  <2>1. \A d \in Crawl, u \in Worker : ~(d = c /\ u = w) => hand[d][u] # o
    BY <1>1, <1>2 DEF Exclusive
  <2> QED BY <1>20, <2>1 DEF HandsBut
<1>22. \A d \in Crawl, u \in Worker : hand'[d][u] # None =>
          \/ hand'[d][u] = hand[d][u] /\ hand[d][u] \notin {o}
          \/ \E q \in Object : hand'[d][u] = q /\ Progress(q, u)'
  BY <1>19, <1>20, <1>21
<1>23. pool' \ {o} \subseteq pool /\ o \notin pool'
  BY <1>1, <1>2 DEF Exclusive
<1>24. \A q \in {o} : Sound(q)' /\ (q \in pool' => Blank(q)')
  BY <1>17, <1>23
<1> QED BY <1>1, <1>15, <1>16, <1>22, <1>23, <1>24, Touches

(* The text extractor takes the contents out of the buffer.                *)
LEMMA FirstTitle ==
    ASSUME NEW p \in Page, NEW r, r = <<p>>, NEW t, t = {i \in DOMAIN r : ContentOf[r[i]].titled}
    PROVE  (IF t = {} THEN None ELSE r[Min(t)]) = IF ContentOf[p].titled THEN p ELSE None
<1>1. DOMAIN r = {1} /\ r[1] = p
  OBVIOUS
<1>2. CASE ContentOf[p].titled
  <2>1. t = {1}
    BY <1>1, <1>2
  <2>2. Min(t) = 1
    BY <2>1 DEF Min
  <2>3. t # {}
    BY <2>1
  <2> QED BY <1>1, <1>2, <2>2, <2>3
<1>3. CASE ~ContentOf[p].titled
  <2>1. t = {}
    BY <1>1, <1>3
  <2> QED BY <1>3, <2>1
<1> QED BY <1>2, <1>3

LEMMA SeparateText ==
    ASSUME IInv, TypeOK', Separate, NEW c \in Crawl, ExtractText(c)
    PROVE  Separate'
<1>1. /\ TypeOK /\ Exclusive /\ "links" \in Worker /\ "text" \in Worker /\ "links" # "text"
      /\ "links" \in Fetcher \union {"links"} /\ "links" \notin Fetcher \union {"source"}
      /\ "links" \in Fetcher \union {"source", "links"}
      /\ "text" \notin Fetcher \union {"links"} /\ "text" \notin Fetcher \union {"source"}
      /\ "text" \notin Fetcher \union {"source", "links"}
  BY Workers DEF IInv
<1>2. hand[c]["links"] # None /\ UNCHANGED <<array, pool>>
  BY DEF ExtractText, Takes
<1>3. PICK o \in Object : o = hand[c]["links"]
  BY <1>1, <1>2 DEF TypeOK
<1>4. Sound(o) /\ array = [q \in Object |-> array[q]] /\ Progress(o, "links")
  BY <1>1, <1>2, <1>3 DEF Separate
<1>5. PICK p \in Page : p = obj[o].linkID
  BY <1>4 DEF Progress
<1>6. obj[o].url = URLOf[p] /\ obj[o].rawContent = <<p>> /\ HasLinks(o) /\ Untold(o)
  BY <1>1, <1>4, <1>5 DEF Progress
<1>7. PICK x \in Payloads : x = obj[o]
  BY <1>4 DEF Sound
<1>8. PICK title \in Page \union {None} : title = IF ContentOf[p].titled THEN p ELSE None
  OBVIOUS
<1>9. PICK r \in Seq(Page) : r = <<p>>
  <2>1. <<p>> \in Seq(Page)
    OBVIOUS
  <2> QED BY <2>1
<1>10. PICK y : y = [x EXCEPT !.title = title, !.textContent = r, !.rawContent = <<>>]
  OBVIOUS
<1>11. /\ y \in Payloads /\ y.title = title /\ y.textContent = r /\ y.rawContent = <<>>
       /\ y.linkID = x.linkID /\ y.url = x.url
       /\ y.links = x.links /\ y.noFollowLinks = x.noFollowLinks
  <2>1. PICK e \in Seq(Page) : e = <<>>
    <3>1. <<>> \in Seq(Page)
      OBVIOUS
    <3> QED BY <3>1
  <2>2. y = [x EXCEPT !.title = title, !.textContent = r, !.rawContent = e]
    BY <1>10, <2>1
  <2> QED BY <2>1, <2>2 DEF Payloads
<1>12. /\ obj' = [obj EXCEPT ![o] = y]
       /\ hand' = [hand EXCEPT ![c]["links"] = None, ![c]["text"] = hand[c]["links"]]
  <2>1. PICK t : t = {i \in DOMAIN r : ContentOf[r[i]].titled}
    OBVIOUS
  <2>2. PICK m : m = r[Min(t)]
    OBVIOUS
  <2>3. (IF t = {} THEN None ELSE m) = title
    BY <1>8, <1>9, <2>1, <2>2, FirstTitle
  <2>4. x.title = None
    BY <1>6, <1>7 DEF Untold
  <2>5. x.rawContent = r
    BY <1>6, <1>7, <1>9
  <2>6. /\ obj' = [obj EXCEPT ![o].title = IF t = {} THEN @ ELSE m, ![o].textContent = r, ![o].rawContent = <<>>]
        /\ hand' = [hand EXCEPT ![c]["links"] = None, ![c]["text"] = hand[c]["links"]]
    BY <1>3, <1>7, <2>1, <2>2, <2>5 DEF ExtractText
  <2>7. obj' = [obj EXCEPT ![o] = [x EXCEPT !.title = IF t = {} THEN x.title ELSE m,
                                            !.textContent = r, !.rawContent = <<>>]]
    BY <1>1, <1>7, <2>6 DEF TypeOK
  <2>8. (IF t = {} THEN x.title ELSE m) = title
    BY <2>3, <2>4
  <2> QED BY <1>10, <2>6, <2>7, <2>8
<1>13. obj'[o] = y /\ \A q \in Object \ {o} : obj'[q] = obj[q]
  BY <1>1, <1>12 DEF TypeOK
<1>14. Sound(o)'
  BY <1>2, <1>4, <1>7, <1>11, <1>13 DEF Sound
<1>15. HasLinks(o)'
  <2>1. /\ Elements(obj[o].links, "links")' = Elements(obj[o].links, "links")
        /\ Elements(obj[o].noFollowLinks, "noFollowLinks")' = Elements(obj[o].noFollowLinks, "noFollowLinks")
    BY <1>2, <1>7, <1>11, <1>13 DEF Elements
  <2>2. obj'[o].linkID = obj[o].linkID
    BY <1>7, <1>11, <1>13
  <2> QED BY <1>6, <2>1, <2>2 DEF HasLinks
<1>16. HasText(o)'
  BY <1>5, <1>7, <1>8, <1>9, <1>11, <1>13 DEF HasText
<1>17. Progress(o, "text")'
  BY <1>1, <1>5, <1>6, <1>7, <1>11, <1>13, <1>15, <1>16 DEF Progress
<1>18. /\ hand'[c]["links"] = None /\ hand'[c]["text"] = o /\ HandsBut(c, {"links", "text"})
  BY <1>1, <1>3, <1>12, Moved
<1>19. \A d \in Crawl, u \in Worker : ~(d = c /\ u \in {"links", "text"}) =>
          hand'[d][u] = hand[d][u] /\ hand[d][u] # o
  <2>1. \A d \in Crawl, u \in Worker : ~(d = c /\ u = "links") => hand[d][u] # o
    BY <1>1, <1>2, <1>3 DEF Exclusive
  <2> QED BY <1>18, <2>1 DEF HandsBut
<1>20. \A d \in Crawl, u \in Worker : hand'[d][u] # None =>
          \/ hand'[d][u] = hand[d][u] /\ hand[d][u] \notin {o}
          \/ \E q \in Object : hand'[d][u] = q /\ Progress(q, u)'
  BY <1>17, <1>18, <1>19
<1>21. pool' \ {o} \subseteq pool /\ o \notin pool'
  BY <1>1, <1>2, <1>3 DEF Exclusive
<1>22. /\ \A q \in {o} : Sound(q)' /\ (q \in pool' => Blank(q)')
       /\ \A q \in Object \ {o} : obj'[q] = obj[q] /\ array'[q] = array[q]
       /\ array' = [q \in Object |-> array'[q]]
  BY <1>2, <1>4, <1>13, <1>14, <1>21
<1>23. PICK T \in SUBSET Object : T = {o}
  OBVIOUS
<1>24. /\ \A q \in T : Sound(q)' /\ (q \in pool' => Blank(q)')
       /\ \A q \in Object \ T : obj'[q] = obj[q] /\ array'[q] = array[q]
       /\ pool' \ T \subseteq pool
  BY <1>21, <1>22, <1>23
<1>25. \A d \in Crawl, u \in Worker : hand'[d][u] # None =>
          \/ hand'[d][u] = hand[d][u] /\ hand[d][u] \notin T
          \/ \E q \in Object : hand'[d][u] = q /\ Progress(q, u)'
  BY <1>20, <1>23
<1> QED BY <1>1, <1>22, <1>24, <1>25, Touches

(* An object that is handed on as it is.                                   *)
LEMMA SeparateSend ==
    ASSUME IInv, TypeOK', Separate, NEW c \in Crawl, SendClone(c) \/ SendOriginal(c)
    PROVE  Separate'
<1>1. PICK s \in {"clone", "original"}, t \in {"index", "update"} : Send(c, s, t)
  BY DEF SendClone, SendOriginal
<1>2. /\ TypeOK /\ Exclusive /\ s \in Worker /\ t \in Worker /\ s # t
      /\ \A u \in {s, t} : u \notin Fetcher \union {"links"} /\ u \notin Fetcher \union {"source"}
                           /\ u \notin Fetcher \union {"source", "links"}
  BY Workers DEF IInv
<1>3. /\ hand[c][s] # None /\ UNCHANGED <<obj, array, pool>>
      /\ hand' = [hand EXCEPT ![c][s] = None, ![c][t] = hand[c][s]]
  BY <1>1 DEF Send, Takes
<1>4. PICK o \in Object : o = hand[c][s]
  BY <1>2, <1>3 DEF TypeOK
<1>5. hand'[c][s] = None /\ hand'[c][t] = o /\ HandsBut(c, {s, t})
  BY <1>2, <1>3, <1>4, Moved
<1>6. Progress(o, t)'
  <2>1. Progress(o, s)
    BY <1>2, <1>3, <1>4 DEF Separate
  <2>2. Progress(o, t)
    BY <1>2, <2>1 DEF Progress
  <2>3. Sound(o)
    BY DEF Separate
  <2> QED BY <1>2, <1>3, <2>2, <2>3, Untouched
<1>7. \A d \in Crawl, u \in Worker : hand'[d][u] # None =>
          \/ hand'[d][u] = hand[d][u] /\ hand[d][u] \notin {}
          \/ \E q \in Object : hand'[d][u] = q /\ Progress(q, u)'
  BY <1>5, <1>6 DEF HandsBut
<1>8. array' = [q \in Object |-> array'[q]]
  BY <1>3 DEF Separate
<1>9. PICK T \in SUBSET Object : T = {}
  OBVIOUS
<1>10. /\ \A q \in Object \ T : obj'[q] = obj[q] /\ array'[q] = array[q]
       /\ \A q \in T : Sound(q)' /\ (q \in pool' => Blank(q)')
       /\ pool' \ T \subseteq pool
  BY <1>3, <1>9
<1>11. \A d \in Crawl, u \in Worker : hand'[d][u] # None =>
          \/ hand'[d][u] = hand[d][u] /\ hand[d][u] \notin T
          \/ \E q \in Object : hand'[d][u] = q /\ Progress(q, u)'
  BY <1>7, <1>9
<1> QED BY <1>2, <1>8, <1>10, <1>11, Touches

(* Steps that touch no object and may empty hands.                         *)
LEMMA SeparateKept ==
    ASSUME IInv, TypeOK', Separate, UNCHANGED <<obj, array, pool>>,
           \A c \in Crawl, s \in Worker : hand'[c][s] \in {None, hand[c][s]}
    PROVE  Separate'
<1>1. \A c \in Crawl, s \in Worker : hand'[c][s] # None =>
          \/ hand'[c][s] = hand[c][s] /\ hand[c][s] \notin {}
          \/ \E q \in Object : hand'[c][s] = q /\ Progress(q, s)'
  OBVIOUS
<1>2. TypeOK /\ array' = [q \in Object |-> array'[q]]
  BY DEF Separate, IInv
<1>3. PICK T \in SUBSET Object : T = {}
  OBVIOUS
<1>4. /\ \A q \in Object \ T : obj'[q] = obj[q] /\ array'[q] = array[q]
      /\ \A q \in T : Sound(q)' /\ (q \in pool' => Blank(q)')
      /\ pool' \ T \subseteq pool
  BY <1>3
<1>5. \A d \in Crawl, u \in Worker : hand'[d][u] # None =>
          \/ hand'[d][u] = hand[d][u] /\ hand[d][u] \notin T
          \/ \E q \in Object : hand'[d][u] = q /\ Progress(q, u)'
  BY <1>1, <1>3
<1> QED BY <1>2, <1>4, <1>5, Touches

(* A slice of a clone has an array of its own with the same elements.      *)
Copies(o, n, kind, e, s) == e = Elements(obj[o][kind], kind) /\ s = CopySlice(n, obj[o][kind])

LEMMA Copied ==
    ASSUME NEW o \in Object, Sound(o), NEW n \in Object, NEW kind \in {"links", "noFollowLinks"},
           NEW e, NEW s, Copies(o, n, kind, e, s)
    PROVE  /\ e \in Seq(FoundURLs) /\ s \in Slices /\ Own(n, s, e)
           /\ (IF s.array = None THEN <<>> ELSE SubSeq(e, 1, s.len)) = e
<1>0. e = Elements(obj[o][kind], kind) /\ s = CopySlice(n, obj[o][kind])
  BY DEF Copies
<1>1. e \in Seq(FoundURLs) /\ Len(e) = obj[o][kind].len /\ obj[o][kind] \in Slices
  <2>1. CASE kind = "links"
    BY <1>0, <2>1, OwnElements DEF Sound, Payloads
  <2>2. CASE kind = "noFollowLinks"
    BY <1>0, <2>2, OwnElements DEF Sound, Payloads
  <2> QED BY <2>1, <2>2
<1>2. PICK l \in Nat : l = obj[o][kind].len
  BY <1>1 DEF Slices
<1>3. n # None /\ <<>> \in Seq(FoundURLs)
  BY Workers
<1>4. CASE l = 0
  <2>1. s = NoSlice
    BY <1>0, <1>2, <1>4 DEF CopySlice
  <2>2. s \in Slices /\ s.array = None /\ s.len = 0
    BY <2>1 DEF NoSlice, Slices
  <2>3. e = <<>>
    BY <1>1, <1>2, <1>4, EmptySeq
  <2> QED BY <1>1, <1>2, <1>4, <2>2, <2>3 DEF Own
<1>5. CASE l # 0
  <2>1. PICK t \in Slices : t = [array |-> n, len |-> l]
    BY DEF Slices
  <2>2. s = t
    BY <1>0, <1>2, <1>5, <2>1 DEF CopySlice
  <2>3. s \in Slices /\ s.array = n /\ s.len = l
    BY <2>1, <2>2
  <2>4. SubSeq(e, 1, l) = e
    BY <1>1, <1>2, Prefix
  <2> QED BY <1>1, <1>2, <1>3, <2>3, <2>4 DEF Own
<1> QED BY <1>4, <1>5

LEMMA HandedOut ==
    ASSUME TypeOK, NEW c \in Crawl, NEW n \in Object, NEW o \in Object,
           hand' = [hand EXCEPT ![c]["text"] = None, ![c]["clone"] = n, ![c]["original"] = o]
    PROVE  /\ hand'[c]["text"] = None /\ hand'[c]["clone"] = n /\ hand'[c]["original"] = o
           /\ HandsBut(c, {"text", "clone", "original"})
<1>1. {"text", "clone", "original"} \subseteq Worker
  BY Workers
<1>2. PICK g : g = [hand[c] EXCEPT !["text"] = None, !["clone"] = n, !["original"] = o]
  OBVIOUS
<1>3. /\ g \in [Worker -> Object \union {None}]
      /\ g["text"] = None /\ g["clone"] = n /\ g["original"] = o
      /\ \A u \in Worker \ {"text", "clone", "original"} : g[u] = hand[c][u]
  BY <1>1, <1>2 DEF TypeOK
<1>4. hand' = [hand EXCEPT ![c] = g]
  BY <1>2 DEF TypeOK
<1>5. hand'[c] = g /\ \A d \in Crawl \ {c} : hand'[d] = hand[d]
  BY <1>4 DEF TypeOK
<1>6. HandsBut(c, {"text", "clone", "original"})
  BY <1>3, <1>5 DEF HandsBut
<1> QED BY <1>3, <1>5, <1>6

LEMMA SeparateBroadcast ==
    ASSUME IInv, TypeOK', Separate, NEW c \in Crawl, Broadcast(c)
    PROVE  Separate'
<1>1. /\ TypeOK /\ Exclusive
      /\ "text" \in Worker
      /\ \A u \in {"text", "clone", "original"} :
            u \notin Fetcher \union {"links"} /\ u \notin Fetcher \union {"source"}
            /\ u \notin Fetcher \union {"source", "links"}
  BY Workers DEF IInv
<1>2. hand[c]["text"] # None
  BY DEF Broadcast, Takes
<1>3. PICK o \in Object : o = hand[c]["text"]
  BY <1>1, <1>2 DEF TypeOK
<1>4. PICK n \in Obtainable :
        /\ obj' = ClonedFields(o, n) /\ array' = ClonedArrays(o, n) /\ pool' = pool \ {n}
        /\ hand' = [hand EXCEPT ![c]["text"] = None, ![c]["clone"] = n, ![c]["original"] = o]
  BY <1>3 DEF Broadcast
<1>5. n \in Object /\ n # o /\ \A d \in Crawl, u \in Worker : hand[d][u] # n
  BY <1>1, <1>3, Taken
<1>6. Sound(o) /\ array = [q \in Object |-> array[q]] /\ Progress(o, "text")
  BY <1>1, <1>2, <1>3 DEF Separate
<1>7. PICK p \in Page : p = obj[o].linkID
  BY <1>6 DEF Progress
<1>8. obj[o].url = URLOf[p] /\ obj[o].rawContent = <<>> /\ HasLinks(o) /\ HasText(o)
  BY <1>1, <1>6, <1>7 DEF Progress
<1>9. PICK x \in Payloads : x = obj[o]
  BY <1>6 DEF Sound
<1>10. PICK z \in Payloads : z = Obtained(n) /\ z.rawContent = <<>>
  BY <1>1, Clean
<1>11. PICK e, f, s, t :
         /\ e = Elements(obj[o].links, "links") /\ f = Elements(obj[o].noFollowLinks, "noFollowLinks")
         /\ s = CopySlice(n, obj[o].links) /\ t = CopySlice(n, obj[o].noFollowLinks)
  OBVIOUS
<1>12. /\ e \in Seq(FoundURLs) /\ s \in Slices /\ Own(n, s, e)
       /\ (IF s.array = None THEN <<>> ELSE SubSeq(e, 1, s.len)) = e
  <2>1. Copies(o, n, "links", e, s)
    BY <1>11 DEF Copies
  <2> QED BY <1>5, <1>6, <2>1, Copied
<1>13. /\ f \in Seq(FoundURLs) /\ t \in Slices /\ Own(n, t, f)
       /\ (IF t.array = None THEN <<>> ELSE SubSeq(f, 1, t.len)) = f
  <2>1. Copies(o, n, "noFollowLinks", f, t)
    BY <1>11 DEF Copies
  <2> QED BY <1>5, <1>6, <2>1, Copied
<1>14. PICK r \in Seq(Page) : r = <<>>
  <2>1. <<>> \in Seq(Page)
    OBVIOUS
  <2> QED BY <2>1
<1>15. PICK y, old :
         /\ y = [z EXCEPT !.linkID = x.linkID, !.url = x.url, !.noFollowLinks = t, !.links = s,
                          !.title = x.title, !.textContent = x.textContent, !.rawContent = r]
         /\ old = [x EXCEPT !.rawContent = r]
  OBVIOUS
<1>16. /\ y \in Payloads /\ y.linkID = x.linkID /\ y.url = x.url /\ y.noFollowLinks = t /\ y.links = s
       /\ y.title = x.title /\ y.textContent = x.textContent /\ y.rawContent = <<>>
  BY <1>12, <1>13, <1>14, <1>15 DEF Payloads
<1>17. old = x
  BY <1>8, <1>9, <1>14, <1>15 DEF Payloads
<1>18. obj' = [obj EXCEPT ![n] = y, ![o] = old]
  <2>1. z.rawContent \o x.rawContent = r
    BY <1>8, <1>9, <1>10, <1>14, Prefix
  <2>2. obj' = [obj EXCEPT ![n] = [z EXCEPT !.linkID = x.linkID, !.url = x.url, !.noFollowLinks = t, !.links = s,
                                           !.title = x.title, !.textContent = x.textContent,
                                           !.rawContent = @ \o x.rawContent],
                           ![o].rawContent = r]
    BY <1>4, <1>9, <1>10, <1>11, <1>14 DEF ClonedFields
  <2>3. obj' = [obj EXCEPT ![n] = [z EXCEPT !.linkID = x.linkID, !.url = x.url, !.noFollowLinks = t, !.links = s,
                                           !.title = x.title, !.textContent = x.textContent,
                                           !.rawContent = z.rawContent \o x.rawContent],
                           ![o] = [x EXCEPT !.rawContent = r]]
    BY <1>1, <1>5, <1>9, <2>2 DEF TypeOK
  <2> QED BY <1>15, <2>1, <2>3
<1>19. obj'[n] = y /\ \A q \in Object \ {n} : obj'[q] = obj[q]
  BY <1>1, <1>5, <1>9, <1>17, <1>18 DEF TypeOK
<1>20. /\ array'[n] \in Arrays /\ array'[n].links = e /\ array'[n].noFollowLinks = f
       /\ array' = [q \in Object |-> array'[q]]
       /\ \A q \in Object \ {n} : array'[q] = array[q]
  <2>1. PICK b \in Arrays : b = [noFollowLinks |-> f, links |-> e]
    BY <1>12, <1>13 DEF Arrays
  <2>2. array' = [array EXCEPT ![n] = b]
    BY <1>4, <1>11, <2>1 DEF ClonedArrays
  <2> QED BY <1>5, <1>6, <2>1, <2>2
<1>21. Sound(n)'
  BY <1>12, <1>13, <1>16, <1>19, <1>20 DEF Sound
<1>22. HasLinks(n)'
  <2>1. obj'[n].links = s /\ obj'[n].noFollowLinks = t /\ obj'[n].linkID = obj[o].linkID
    BY <1>9, <1>16, <1>19
  <2>2. s.array \in {None, n} /\ t.array \in {None, n}
    BY <1>12, <1>13 DEF Own
  <2>3. Elements(obj[n].links, "links")' = e
    BY <1>12, <1>20, <2>1, <2>2 DEF Elements
  <2>4. Elements(obj[n].noFollowLinks, "noFollowLinks")' = f
    BY <1>13, <1>20, <2>1, <2>2 DEF Elements
  <2> QED BY <1>8, <1>11, <2>1, <2>3, <2>4 DEF HasLinks
<1>23. HasText(n)'
  BY <1>8, <1>9, <1>16, <1>19 DEF HasText
<1>24. Progress(n, "clone")'
  BY <1>1, <1>7, <1>8, <1>9, <1>16, <1>19, <1>22, <1>23 DEF Progress
<1>25. Sound(o)' /\ Progress(o, "original")'
  <2>1. Progress(o, "original")
    BY <1>1, <1>6 DEF Progress
  <2>2. "original" \in Worker /\ obj'[o] = obj[o] /\ array'[o] = array[o]
    BY <1>5, <1>19, <1>20, Workers
  <2> QED BY <1>6, <2>1, <2>2, Untouched
<1>26. /\ hand'[c]["text"] = None /\ hand'[c]["clone"] = n /\ hand'[c]["original"] = o
       /\ HandsBut(c, {"text", "clone", "original"})
  BY <1>1, <1>4, <1>5, HandedOut
<1>27. \A d \in Crawl, u \in Worker : hand'[d][u] # None =>
          \/ hand'[d][u] = hand[d][u] /\ hand[d][u] \notin {n}
          \/ \E q \in Object : hand'[d][u] = q /\ Progress(q, u)'
  BY <1>5, <1>24, <1>25, <1>26 DEF HandsBut
<1>28. /\ \A q \in {n} : Sound(q)' /\ (q \in pool' => Blank(q)')
       /\ pool' \ {n} \subseteq pool
       /\ \A q \in Object \ {n} : obj'[q] = obj[q] /\ array'[q] = array[q]
  BY <1>4, <1>19, <1>20, <1>21
<1> QED BY <1>1, <1>5, <1>20, <1>27, <1>28, Touches

LEMMA SeparateInit == Init => Separate
<1> SUFFICES ASSUME Init PROVE Separate
  OBVIOUS
<1>1. NoSlice \in Slices /\ NoSlice.len = 0 /\ NoSlice.array = None
  BY DEF NoSlice, Slices
<1>2. PICK s \in Slices : s = NoSlice
  BY <1>1
<1>3. NewObject = [linkID |-> None, url |-> None, rawContent |-> <<>>, noFollowLinks |-> s, links |-> s,
                   title |-> None, textContent |-> <<>>]
  BY <1>2 DEF NewObject
<1>4. NewObject \in Payloads /\ NewObject.links = s /\ NewObject.noFollowLinks = s
  BY <1>3 DEF Payloads
<1>5. NoArrays \in Arrays /\ NoArrays.links = <<>> /\ NoArrays.noFollowLinks = <<>> /\ Len(<<>>) = 0
  BY DEF NoArrays, Arrays
<1>6. ASSUME NEW o \in Object PROVE obj[o] = NewObject /\ array[o] = NoArrays
  BY DEF Init
<1>7. \A o \in Object : Own(o, s, <<>>)
  BY <1>1, <1>2, <1>5 DEF Own
<1>8. \A o \in Object : Sound(o)
  BY <1>4, <1>5, <1>6, <1>7 DEF Sound
<1>9. array = [o \in Object |-> array[o]]
  BY DEF Init
<1>10. pool = {} /\ \A c \in Crawl, t \in Worker : hand[c][t] = None
  BY DEF Init
<1> QED BY <1>8, <1>9, <1>10 DEF Separate

LEMMA SeparateStep ==
    ASSUME IInv, IInv', Separate, [Next]_vars
    PROVE  Separate'
<1>1. TypeOK /\ TypeOK'
  BY DEF IInv
<1>2. CASE UNCHANGED vars
  <2>1. UNCHANGED <<obj, array, pool, hand>>
    BY <1>2 DEF vars
  <2> QED BY <1>1, <2>1, SeparateKept
<1>3. ASSUME NEW c \in Crawl, SourceFails(c) \/ Cancel(c) \/ Return(c) PROVE Separate'
  <2>1. UNCHANGED <<obj, array, pool, hand>>
    BY <1>3 DEF SourceFails, Cancel, Return
  <2> QED BY <1>1, <2>1, SeparateKept
<1>4. ASSUME NEW c \in Crawl, NEW w \in Fetcher, FetchNothing(c, w) \/ FetchPage(c, w) PROVE Separate'
  <2>1. "source" \in Worker /\ hand[c]["source"] # None
    BY <1>4, Workers DEF FetchNothing, FetchPage, Takes
  <2>2. \/ MarkAsProcessed(hand[c]["source"]) /\ hand' = [hand EXCEPT ![c]["source"] = None] /\ UNCHANGED array
        \/ Fetches(c, w, hand[c]["source"]) /\ UNCHANGED <<pool, array>>
    BY <1>4 DEF FetchNothing, FetchPage, Fetches
  <2> QED BY <1>1, <2>1, <2>2, SeparateRecycled, SeparateFetched
<1>5. ASSUME NEW c \in Crawl, NEW w \in Fetcher, ExtractLinks(c, w) PROVE Separate'
  <2>1. hand[c][w] # None /\ UNCHANGED pool
    BY <1>5 DEF ExtractLinks, Takes
  <2>2. UNCHANGED <<obj, array, hand>> \/ Extracts(c, w, hand[c][w])
    BY <1>5 DEF ExtractLinks, Extracts
  <2> QED BY <1>1, <2>1, <2>2, SeparateKept, SeparateExtracted
<1>6. ASSUME NEW c \in Crawl, NEW s \in {"update", "index"}, Finish(c, s) PROVE Separate'
  <2>1. /\ s \in Worker /\ hand[c][s] # None /\ MarkAsProcessed(hand[c][s])
        /\ hand' = [hand EXCEPT ![c][s] = None] /\ UNCHANGED array
    BY <1>6, Workers DEF Finish
  <2> QED BY <1>1, <2>1, SeparateRecycled
<1>7. ASSUME NEW c \in Crawl, NEW s \in Worker, Leave(c, s) PROVE Separate'
  <2>1. UNCHANGED <<obj, array, pool>>
    BY <1>7 DEF Leave
  <2>2. PICK S : hand' = [hand EXCEPT ![c] = [t \in Worker |-> IF t \in S THEN None ELSE @[t]]]
    BY <1>7 DEF Leave
  <2>3. \A d \in Crawl, t \in Worker : hand'[d][t] \in {None, hand[d][t]}
    BY <1>1, <2>2 DEF TypeOK
  <2> QED BY <1>1, <2>1, <2>3, SeparateKept
<1>8. CASE Next
  BY <1>1, <1>3, <1>4, <1>5, <1>6, <1>7, <1>8, SeparateSource, SeparateText, SeparateBroadcast, SeparateSend DEF Next
<1> QED BY <1>2, <1>8

LEMMA UnmixedFollows == IInv /\ Separate => Unmixed
<1> SUFFICES ASSUME IInv, Separate, NEW c \in Crawl, NEW s \in Worker, hand[c][s] # None
             PROVE  LET x == obj[hand[c][s]]
                    IN  /\ x.linkID # None /\ x.url = URLOf[x.linkID]
                        /\ s \in {"original", "update"} =>
                              /\ Elements(x.links, "links") = LinksOf[x.linkID][FALSE]
                              /\ Elements(x.noFollowLinks, "noFollowLinks") = LinksOf[x.linkID][TRUE]
                        /\ s \in {"clone", "index"} =>
                              /\ x.title = IF ContentOf[x.linkID].titled THEN x.linkID ELSE None
                              /\ x.textContent = <<x.linkID>>
  BY DEF Unmixed
<1>1. PICK o \in Object : o = hand[c][s]
  BY DEF IInv, TypeOK
<1>2. Progress(o, s)
  BY <1>1 DEF Separate
<1>3. PICK p \in Page : p = obj[o].linkID
  BY <1>2 DEF Progress
<1>4. p # None /\ obj[o].url = URLOf[p]
  BY <1>2, <1>3, Workers DEF Progress
<1>5. ASSUME s \in {"original", "update"}
      PROVE  /\ Elements(obj[o].links, "links") = LinksOf[p][FALSE]
             /\ Elements(obj[o].noFollowLinks, "noFollowLinks") = LinksOf[p][TRUE]
  <2>1. s \notin Fetcher \union {"source"}
    BY <1>5, Workers
  <2> QED BY <1>2, <1>3, <2>1, FoundAreLinks DEF Progress, HasLinks
<1>6. ASSUME s \in {"clone", "index"}
      PROVE  /\ obj[o].title = IF ContentOf[p].titled THEN p ELSE None
             /\ obj[o].textContent = <<p>>
  <2>1. s \notin Fetcher \union {"source", "links"}
    BY <1>6, Workers
  <2> QED BY <1>2, <1>3, <2>1 DEF Progress, HasText
<1> QED BY <1>1, <1>3, <1>4, <1>5, <1>6

LEMMA SeparateInvariant == Spec => [](IInv /\ Separate)
<1>1. Init => IInv /\ Separate
  BY IInvInit, SeparateInit
<1>2. IInv /\ Separate /\ [Next]_vars => (IInv /\ Separate)'
  BY IInvStep, SeparateStep
<1> QED BY <1>1, <1>2, PTL DEF Spec

(* Recycling leaves nothing behind: whichever object a page is in, and     *)
(* whatever other pages were in it before, the graph updater gets the page *)
(* with its own links, each once and in order, and the indexer gets its    *)
(* own title and text, at any number of crawls, workers and pages.         *)
THEOREM PagesStayUnmixed == Spec => []Unmixed
BY SeparateInvariant, UnmixedFollows, PTL
===============================================================================
