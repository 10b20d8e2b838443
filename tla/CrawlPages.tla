------------------------------ MODULE CrawlPages ------------------------------
(***************************************************************************)
(* What the processors of src/crawler do to a page on its way through the  *)
(* pipeline of a crawl, and to the payload objects, which all crawls of    *)
(* the process take from one pool and give back to it.  Crawls run at the  *)
(* same time, as Crawler.Crawl allows.                                     *)
(*                                                                         *)
(* Goroutines and channels are those of module Pipeline; here a payload is *)
(* in the hands of one worker, which has processed it, until the worker    *)
(* after it is free to take it.  The fields of a payload tell which page   *)
(* their contents come from.  A slice is a length and an array, which may  *)
(* be written again while another slice still refers to it.                *)
(***************************************************************************)
EXTENDS PageLinks, FiniteSets, FiniteSetsExt

CONSTANTS Crawl,        \* calls of Crawler.Crawl
          Page,         \* links that are crawled
          Inputs,       \* what the link iterators may yield: [c |-> sequence of pages]
          URLOf,        \* URLOf[p]: URL of link p
          ContentOf,    \* ContentOf[p]: what is found there
          Fetcher,      \* fetch workers of a crawl
          Object        \* payload objects; bounds how many are in use at a time

(* An iterator yields a link once, and the link graph has one link for a   *)
(* URL; the names below are no fetch workers'.                             *)
ASSUME PagesAssumption ==
    /\ \A i \in Inputs : i \in [Crawl -> Seq(Page)] /\ \A c \in Crawl : IsInjective(i[c])
    /\ \A p, q \in Page : URLOf[p] = URLOf[q] => p = q
    /\ \A p \in Page :
          LET tags == ContentOf[p].tags
          IN  tags \in Seq(Range(tags)) /\ \A t \in Range(tags) : t.nofollow \in BOOLEAN
    /\ None \notin Page \union Object
    /\ Fetcher \intersect {"source", "links", "text", "clone", "original", "update", "index"} = {}

VARIABLES
    obj,        \* obj[o]: the fields of payload object o
    array,      \* array[o]: the arrays of the slices that were made for object o
    pool,       \* objects in payloadPool
    todo,       \* todo[c]: links the source has not read yet
    hand,       \* hand[c][s]: the object that worker s of crawl c holds, or None
    exited,     \* exited[c]: workers of crawl c that left when its context ended
    failed,     \* crawls in which an error was emitted
    cancelled,  \* crawls whose context was cancelled by the caller
    count,      \* count[c]: payloads that reached the sink
    result,     \* result[c]: "running", "nil" or "error"
    crashed,    \* a processor panicked
    seen        \* history: seen[c][s]: pages that worker s has finished

vars == <<obj, array, pool, todo, hand, exited, failed, cancelled, count, result, crashed, seen>>

(* One fetch worker, extractor, etc. holds one payload.  The broadcaster   *)
(* has the original and the clone of it in its hands.                      *)
Worker == Fetcher \union {"source", "links", "text", "clone", "original", "update", "index"}

NoSlice == [array |-> None, len |-> 0]
NewObject == [linkID |-> None, url |-> None, rawContent |-> <<>>,
              noFollowLinks |-> NoSlice, links |-> NoSlice,
              title |-> None, textContent |-> <<>>]
NoArrays == [noFollowLinks |-> <<>>, links |-> <<>>]

InHand == {o \in Object : \E c \in Crawl, s \in Worker : hand[c][s] = o}

Init ==
    /\ obj = [o \in Object |-> NewObject]
    /\ array = [o \in Object |-> NoArrays]
    /\ pool = {}
    /\ todo \in Inputs
    /\ hand = [c \in Crawl |-> [s \in Worker |-> None]]
    /\ exited = [c \in Crawl |-> {}]
    /\ failed = {} /\ cancelled = {}
    /\ count = [c \in Crawl |-> 0]
    /\ result = [c \in Crawl |-> "running"]
    /\ crashed = FALSE
    /\ seen = [c \in Crawl |-> [s \in {"fetch", "update", "index"} |-> {}]]

(* payloadPool.Get: an object of the pool, or a new one.                    *)
Obtainable == pool \union (Object \ (pool \union InHand))
Obtained(o) == IF o \in pool THEN obj[o] ELSE NewObject

(* MarkAsProcessed.                                                         *)
Cleaned(x) ==
    [x EXCEPT !.url = None, !.rawContent = <<>>, !.noFollowLinks.len = 0, !.links.len = 0,
              !.title = None, !.textContent = <<>>]

MarkAsProcessed(o) ==
    /\ obj' = [obj EXCEPT ![o] = Cleaned(@)]
    /\ pool' = pool \union {o}

Elements(slice, kind) == IF slice.array = None THEN <<>> ELSE SubSeq(array[slice.array][kind], 1, slice.len)

(* Worker t takes what worker s holds.                                      *)
Takes(c, s, t) ==
    /\ hand[c][s] # None
    /\ hand[c][t] = None
    /\ t \notin exited[c]

(* The error of a processor is emitted, and the worker goes on; the first  *)
(* one that is collected ends the context.  Mutant: it is swallowed.       *)
SwallowsError(c) == UNCHANGED failed
EmitsError(c) == failed' = failed \union {c}
-----------------------------------------------------------------------------
(* linkSource: Next and Payload.                                            *)
SourcePayload(c) ==
    /\ result[c] = "running"
    /\ todo[c] # <<>>
    /\ hand[c]["source"] = None /\ "source" \notin exited[c]
    /\ \E o \in Obtainable :
          /\ obj' = [obj EXCEPT ![o] = [Obtained(o) EXCEPT !.linkID = Head(todo[c]),
                                                           !.url = URLOf[Head(todo[c])]]]
          /\ array' = IF o \in pool THEN array ELSE [array EXCEPT ![o] = NoArrays]
          /\ pool' = pool \ {o}
          /\ hand' = [hand EXCEPT ![c]["source"] = o]
    /\ todo' = [todo EXCEPT ![c] = Tail(@)]
    /\ UNCHANGED <<exited, failed, cancelled, count, result, crashed, seen>>

(* The link iterator ends with an error.                                    *)
SourceFails(c) ==
    /\ result[c] = "running"
    /\ hand[c]["source"] = None /\ "source" \notin exited[c]
    /\ exited' = [exited EXCEPT ![c] = @ \union {"source"}]
    /\ EmitsError(c)
    /\ UNCHANGED <<obj, array, pool, todo, hand, cancelled, count, result, crashed, seen>>

(* linkFetcher: the page is passed over ...                                 *)
FetchNothing(c, w) ==
    /\ Takes(c, "source", w)
    /\ MarkAsProcessed(hand[c]["source"])
    /\ hand' = [hand EXCEPT ![c]["source"] = None]
    /\ UNCHANGED <<array, todo, exited, failed, cancelled, count, result, crashed, seen>>

(* ... unless it is read, to its end or to an error on the way.            *)
Retrievable(url) == ~IsExcluded(url) /\ url.host \notin Private

FetchPage(c, w) ==
    LET o == hand[c]["source"]
    IN  /\ Takes(c, "source", w)
        /\ Retrievable(obj[o].url)
        /\ \/ /\ obj' = [obj EXCEPT ![o].rawContent = Append(@, CHOOSE p \in Page : URLOf[p] = obj[o].url)]
              /\ hand' = [hand EXCEPT ![c]["source"] = None, ![c][w] = o]
              /\ seen' = [seen EXCEPT ![c]["fetch"] = @ \union {obj[o].linkID}]
              /\ UNCHANGED <<pool, failed>>
           \/ /\ hand' = [hand EXCEPT ![c]["source"] = None]
              /\ MarkAsProcessed(o)
              /\ EmitsError(c)
              /\ UNCHANGED seen
        /\ UNCHANGED <<array, todo, exited, cancelled, count, result, crashed>>

(* What is in the buffer, be it one page or more.                           *)
Content(raw) ==
    [base |-> LET bases == {i \in DOMAIN raw : ContentOf[raw[i]].base # None}
              IN  IF bases = {} THEN None ELSE ContentOf[raw[Min(bases)]].base,
     tags |-> FlattenSeq([i \in DOMAIN raw |-> ContentOf[raw[i]].tags])]

(* append, which writes to the array the slice has, whoever else refers to *)
(* it, and makes an array if there is none.                                *)
ArrayOf(o, kind) == IF obj[o][kind].array = None THEN o ELSE obj[o][kind].array

Appended(o, kind, new) ==
    LET old == Elements(obj[o][kind], kind)
        rest == array[ArrayOf(o, kind)][kind]
    IN  old \o new \o SubSeq(rest, Len(old) + Len(new) + 1, Len(rest))

(* linkExtractor.                                                           *)
ExtractLinks(c, w) ==
    LET o == hand[c][w]
        content == Content(obj[o].rawContent)
        found == FindLinks(obj[o].url, content)
    IN  /\ Takes(c, w, "links")
        /\ \/ /\ Panics(content)
              /\ crashed' = TRUE
              /\ UNCHANGED <<obj, array, hand>>
           \/ /\ ~Panics(content)
              /\ array' = [array EXCEPT
                    ![ArrayOf(o, "noFollowLinks")].noFollowLinks = Appended(o, "noFollowLinks", found.noFollowLinks),
                    ![ArrayOf(o, "links")].links = Appended(o, "links", found.links)]
              /\ obj' = [obj EXCEPT
                    ![o].noFollowLinks = [array |-> ArrayOf(o, "noFollowLinks"), len |-> @.len + Len(found.noFollowLinks)],
                    ![o].links = [array |-> ArrayOf(o, "links"), len |-> @.len + Len(found.links)]]
              /\ hand' = [hand EXCEPT ![c][w] = None, ![c]["links"] = o]
              /\ UNCHANGED crashed
        /\ UNCHANGED <<pool, todo, exited, failed, cancelled, count, result, seen>>

(* textExtractor: the title of the page if it has one, and its text, which *)
(* takes the contents out of the buffer.                                   *)
ExtractText(c) ==
    LET o == hand[c]["links"]
        raw == obj[o].rawContent
        titles == {i \in DOMAIN raw : ContentOf[raw[i]].titled}
    IN  /\ Takes(c, "links", "text")
        /\ obj' = [obj EXCEPT ![o].title = IF titles = {} THEN @ ELSE raw[Min(titles)],
                              ![o].textContent = raw,
                              ![o].rawContent = <<>>]
        /\ hand' = [hand EXCEPT ![c]["links"] = None, ![c]["text"] = o]
        /\ UNCHANGED <<array, pool, todo, exited, failed, cancelled, count, result, crashed, seen>>
-----------------------------------------------------------------------------
(* Clone: fields are copied, slices to new arrays, and the contents of the *)
(* buffer are taken out of the original.  Mutant: slices are shared.       *)
ShareSlice(n, s) == s
CopySlice(n, s) == IF s.len = 0 THEN NoSlice ELSE [array |-> n, len |-> s.len]

ClonedFields(o, n) ==
    [obj EXCEPT ![n] = [Obtained(n) EXCEPT
                            !.linkID = obj[o].linkID, !.url = obj[o].url,
                            !.noFollowLinks = CopySlice(n, obj[o].noFollowLinks),
                            !.links = CopySlice(n, obj[o].links),
                            !.title = obj[o].title, !.textContent = obj[o].textContent,
                            !.rawContent = @ \o obj[o].rawContent],
                ![o].rawContent = <<>>]

ClonedArrays(o, n) ==
    [array EXCEPT ![n] = [noFollowLinks |-> Elements(obj[o].noFollowLinks, "noFollowLinks"),
                          links |-> Elements(obj[o].links, "links")]]

(* The broadcaster clones the payload for the indexer first.  Mutant: it   *)
(* hands out the original twice.                                           *)
BroadcastOriginal(c) ==
    LET o == hand[c]["text"]
    IN  /\ Takes(c, "text", "clone")
        /\ hand[c]["original"] = None
        /\ hand' = [hand EXCEPT ![c]["text"] = None, ![c]["clone"] = o, ![c]["original"] = o]
        /\ UNCHANGED <<obj, array, pool, todo, exited, failed, cancelled, count, result, crashed, seen>>

Broadcast(c) ==
    LET o == hand[c]["text"]
    IN  /\ Takes(c, "text", "clone")
        /\ hand[c]["original"] = None
        /\ \E n \in Obtainable :
              /\ obj' = ClonedFields(o, n)
              /\ array' = ClonedArrays(o, n)
              /\ pool' = pool \ {n}
              /\ hand' = [hand EXCEPT ![c]["text"] = None, ![c]["clone"] = n, ![c]["original"] = o]
        /\ UNCHANGED <<todo, exited, failed, cancelled, count, result, crashed, seen>>

Send(c, s, t) ==
    /\ Takes(c, s, t)
    /\ hand' = [hand EXCEPT ![c][s] = None, ![c][t] = hand[c][s]]
    /\ UNCHANGED <<obj, array, pool, todo, exited, failed, cancelled, count, result, crashed, seen>>

SendClone(c) == Send(c, "clone", "index")
SendOriginal(c) == hand[c]["clone"] = None /\ Send(c, "original", "update")

(* The graph updater and the text indexer succeed, and the sink counts the *)
(* payload, or they fail; in either case it is marked.                     *)
Finish(c, s) ==
    LET o == hand[c][s]
    IN  /\ o # None
        /\ hand' = [hand EXCEPT ![c][s] = None]
        /\ MarkAsProcessed(o)
        /\ \/ /\ count' = [count EXCEPT ![c] = @ + 1]
              /\ seen' = [seen EXCEPT ![c][s] = @ \union {obj[o].linkID}]
              /\ UNCHANGED failed
           \/ /\ EmitsError(c)
              /\ UNCHANGED <<count, seen>>
        /\ UNCHANGED <<array, todo, exited, cancelled, result, crashed>>

Cancel(c) ==
    /\ result[c] = "running"
    /\ cancelled' = cancelled \union {c}
    /\ UNCHANGED <<obj, array, pool, todo, hand, exited, failed, count, result, crashed, seen>>

(* When the context has ended a worker that holds a payload may drop it    *)
(* and exit; the broadcaster drops the clone and the original at once.     *)
Stopping(c) == c \in cancelled \union failed

Leave(c, s) ==
    LET left == IF s \in {"clone", "original"} THEN {"clone", "original"} ELSE {s}
    IN  /\ Stopping(c)
        /\ hand[c][s] # None
        /\ hand' = [hand EXCEPT ![c] = [t \in Worker |-> IF t \in left THEN None ELSE @[t]]]
        /\ exited' = [exited EXCEPT ![c] = @ \union left]
        /\ UNCHANGED <<obj, array, pool, todo, failed, cancelled, count, result, crashed, seen>>

Return(c) ==
    /\ result[c] = "running"
    /\ \A s \in Worker : hand[c][s] = None
    /\ todo[c] = <<>> \/ Stopping(c)
    /\ result' = [result EXCEPT ![c] = IF c \in failed THEN "error" ELSE "nil"]
    /\ UNCHANGED <<obj, array, pool, todo, hand, exited, failed, cancelled, count, crashed, seen>>

Next ==
    /\ ~crashed
    /\ \E c \in Crawl :
          \/ SourcePayload(c) \/ SourceFails(c) \/ ExtractText(c) \/ Broadcast(c) \/ SendClone(c) \/ SendOriginal(c)
          \/ Cancel(c) \/ Return(c)
          \/ \E w \in Fetcher : FetchNothing(c, w) \/ FetchPage(c, w) \/ ExtractLinks(c, w)
          \/ \E s \in {"update", "index"} : Finish(c, s)
          \/ \E s \in Worker : Leave(c, s)

Spec == Init /\ [][Next]_vars
-----------------------------------------------------------------------------
(* What getCount returns.                                                   *)
GetCount(c) == count[c] \div 2

(* The links of a page are those of its a tags, each at its first          *)
(* occurrence, which also decides whether it is to be followed.            *)
TagLink(p, i) == ResolveURL(RelTo(URLOf[p], ContentOf[p]), ContentOf[p].tags[i].href)

Retained(p, i) == RetainLink(RelTo(URLOf[p], ContentOf[p]).host, TagLink(p, i)) /\ ~IsExcluded(TagLink(p, i))

FirstTags(p) ==
    {i \in DOMAIN ContentOf[p].tags :
        /\ Retained(p, i)
        /\ \A j \in 1..(i - 1) : Retained(p, j) => Unfragmented(TagLink(p, j)) # Unfragmented(TagLink(p, i))}

(* How many numbers of F are at most n; and the k-th number of F.           *)
Rank(F, n) == Cardinality({j \in F : j <= n})
Kth(F, k) == CHOOSE i \in F : Rank(F, i) = k

LinksOf ==
    [p \in Page |-> [nofollow \in BOOLEAN |->
        LET first == {i \in FirstTags(p) : ContentOf[p].tags[i].nofollow = nofollow}
        IN  [k \in 1..Cardinality(first) |-> Unfragmented(TagLink(p, Kth(first, k)))]]]

(* Whatever object it is in, and however its neighbours are recycled, a    *)
(* page arrives at the graph updater with its own links, each of them once *)
(* and in order, and at the indexer with its own title and text.           *)
Unmixed ==
    \A c \in Crawl, s \in Worker :
        hand[c][s] # None =>
            LET x == obj[hand[c][s]]
            IN  /\ x.linkID # None /\ x.url = URLOf[x.linkID]
                /\ s \in {"original", "update"} =>
                      /\ Elements(x.links, "links") = LinksOf[x.linkID][FALSE]
                      /\ Elements(x.noFollowLinks, "noFollowLinks") = LinksOf[x.linkID][TRUE]
                /\ s \in {"clone", "index"} =>
                      /\ x.title = IF ContentOf[x.linkID].titled THEN x.linkID ELSE None
                      /\ x.textContent = <<x.linkID>>

(* An object is in the hands of one worker of one crawl, or in the pool.   *)
OneUser ==
    \A o \in Object :
        LET holders == {h \in Crawl \X Worker : hand[h[1]][h[2]] = o}
        IN  Cardinality(holders) + (IF o \in pool THEN 1 ELSE 0) <= 1

(* The result of a crawl that ended by itself and with no error is the     *)
(* number of links whose pages were retrieved; all of those, and none      *)
(* else, went to the graph and to the index.                               *)
CountIsPages ==
    \A c \in Crawl :
        result[c] = "nil" /\ c \notin cancelled =>
            /\ GetCount(c) = Cardinality(seen[c]["fetch"])
            /\ seen[c]["update"] = seen[c]["fetch"]
            /\ seen[c]["index"] = seen[c]["fetch"]
=============================================================================
