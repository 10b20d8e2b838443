--------------------------------- MODULE Search ---------------------------------
(***************************************************************************)
(* A search, from the request of a user to the page of results: the        *)
(* frontend, the text index in memory or in Elasticsearch, its iterator    *)
(* over batches of hits, and the stream of src/api/indexer when the index  *)
(* is in another process.  The crawler and the ranker go on changing the   *)
(* index at the same time.                                                  *)
(***************************************************************************)
EXTENDS Summary, GRPCStream, FiniteSetsExt

CONSTANTS NumDocs,           \* link ids
          Content,           \* what a text may hold of a query
          Texts,             \* texts that Content stands for
          MaxScore,          \* bound on the PageRank scores
          Stores,            \* the contents of the index to begin with
          Offsets,           \* offsets that are asked for
          BatchSize,         \* hits of one search
          ResultsPageSize, MaxSummaryLength,
          MaxWrites,         \* bound: writes that go on
          Nil

Doc == 1..NumDocs
Score == 0..MaxScore

(* What is stored under an id, if anything is, and the query of a user.     *)
Document == [content : Content \union {"none"}, rank : Score]
NoDoc == [content |-> Nil, rank |-> 0]
Query == [type : {"match", "phrase"}, offset : Offsets]

(* The query of a link: the terms without the quotes around a phrase, so   *)
(* that it is a match query, whatever the request was.                      *)
Link == [type : {"match"}, offset : Nat]

(* What a writer has yet to do; a hit of the index; a document that is read;*)
(* and an iterator.                                                          *)
Job == [op : {"index"}, id : Doc, doc : Document] \union [op : {"score"}, id : Doc]
Hit == [id : Doc, doc : Document \union {NoDoc}]
Result == [id : Doc, content : Content \union {"none"}]
Iter == [hits : Seq(Hit), total : Nat, from : Nat, resIdx : Nat, cumIdx : Nat,
         latched : Result \union {Nil}, error : {"none", "search", "panic", "not found"},
         counted : BOOLEAN]

ASSUME SizesAssumption ==
    /\ {BatchSize, ResultsPageSize, MaxSummaryLength} \subseteq Nat \ {0}
    /\ {NumDocs, MaxScore, MaxWrites} \union Offsets \subseteq Nat
ASSUME ContentAssumption == Content \subseteq {"none", "words", "phrase"}
ASSUME TextsAssumption ==     \* a character is a byte at least
    Texts \in [Content \union {"none"} ->
                 SUBSET {text \in Seq(Sentence) : \A i \in DOMAIN text : text[i].runes <= text[i].bytes}]
ASSUME StoresAssumption == Stores \subseteq [Doc -> Document \union {NoDoc}]
ASSUME NilAssumption ==
    Nil \notin {"none", "words", "phrase"} \union Job \union Result \union Iter \union Query \union Link

VARIABLES
    backend,    \* "memory" or "es"
    remote,     \* the frontend reaches the index through the stream
    documents,  \* documents[d]: the stored document
    idx,        \* idx[d]: as the search sees it
    writer,     \* what the writer that has the lock has yet to do, or Nil
    dirty,      \* documents whose last score the index in memory refused
    writes,     \* writes that were begun
    it,         \* the iterator of the index, or Nil
    req,        \* the query of the user, or Nil
    stage,      \* of the frontend: "idle", "search", "count", "read", "summarise",
                \* "highlight" or "done"
    total,      \* the number of results that the frontend was told
    results,    \* the documents of the page
    summary,    \* of the last of them, with its text
    answer,     \* "none", "page", "error", or "aborted" by a panic
    page,       \* the links that the page shows, with the last result of it
    steady,     \* the index was not changed since the request
    shrunk      \* a document has ceased to match since then

storeVars == <<backend, remote, documents, idx, writer, dirty, writes, steady, shrunk>>
siteVars == <<req, stage, total, results, summary, answer, page>>
vars == <<storeVars, it, siteVars, streamVars>>

NoPage == [to |-> 0, prev |-> Nil, next |-> Nil]
NoSummary == [text |-> <<>>, parts |-> <<>>, overrun |-> FALSE]

Init ==
    /\ backend \in {"memory", "es"} /\ remote \in BOOLEAN
    /\ documents \in Stores /\ idx = documents
    /\ writer = Nil /\ dirty = {} /\ writes = 0
    /\ it = Nil /\ NoStream
    /\ req = Nil /\ stage = "idle" /\ total = 0 /\ results = <<>>
    /\ summary = NoSummary /\ answer = "none" /\ page = NoPage
    /\ steady = TRUE /\ shrunk = FALSE
-----------------------------------------------------------------------------
(* A phrase is looked for as such, and in a match query any of its words.  *)
Found(q, doc) ==
    doc.content \in IF q.type = "match" THEN {"words", "phrase"} ELSE {"phrase"}

(* Hits are sorted by PageRank; of equal ones the index has an order.       *)
Above(d, e) == \/ idx[d].rank > idx[e].rank
               \/ idx[d].rank = idx[e].rank /\ d < e

Matching(q) == {d \in Doc : Found(q, idx[d])}

Ranking(q) ==
    LET hits == Matching(q)
    IN  [i \in 1..Cardinality(hits) |->
            CHOOSE d \in hits : Cardinality({e \in hits : Above(e, d)}) = i - 1]

(* At most n elements of s, from the one at a zero-based offset on.         *)
Slice(s, from, n) == [i \in 1..Min({n, Len(s) - Min({from, Len(s)})}) |-> s[from + i]]

(* idx.Search, or doSearch: the number of all hits and one batch of them.  *)
(* Elasticsearch sends the documents along.                                 *)
Batch(q, from) ==
    LET all == Ranking(q)
        hits == Slice(all, from, BatchSize)
    IN  [total |-> Len(all), hits |-> [i \in DOMAIN hits |-> [id |-> hits[i], doc |-> idx[hits[i]]]]]

(* Whether the index still has what matched before the step.                *)
Watch ==
    /\ steady' = (steady /\ (req = Nil \/ idx' = idx))
    /\ shrunk' = (shrunk \/ (req # Nil /\ \E d \in Matching(req) : ~Found(req, idx'[d])))

(* What goes on as long as it can matter to the request.                    *)
Counted ==
    /\ answer = "none" \/ handler = "running"
    /\ writes < MaxWrites
    /\ writes' = writes + 1
    /\ UNCHANGED <<backend, remote, it, siteVars, streamVars>>

(* The document that Index puts into the index.  Mutant: the score of the  *)
(* known one is taken over too late.                                        *)
IndexedLate(d, c) == [content |-> c, rank |-> 0]
Indexed(d, c) == [content |-> c, rank |-> documents[d].rank]

(* Index in memory, under the lock: the index first, then the documents.   *)
(* If the index refuses the document, nothing changes.                      *)
IndexBegin(d, c) ==
    /\ backend = "memory" /\ writer = Nil
    /\ Counted
    /\ idx' = [idx EXCEPT ![d] = Indexed(d, c)]
    /\ writer' = [op |-> "index", id |-> d, doc |-> [documents[d] EXCEPT !.content = c]]
    /\ UNCHANGED <<documents, dirty>>
    /\ Watch

IndexEnd ==
    /\ writer # Nil /\ writer.op = "index"
    /\ documents' = [documents EXCEPT ![writer.id] = writer.doc]
    /\ dirty' = dirty \ {writer.id}
    /\ writer' = Nil
    /\ UNCHANGED <<backend, remote, idx, writes, steady, shrunk, it, siteVars, streamVars>>

(* A document with no content, as UpdateScore makes it if there is none.    *)
Scored(d, score) ==
    [content |-> IF documents[d] = NoDoc THEN "none" ELSE documents[d].content, rank |-> score]

(* UpdateScore in memory: the other way round.                              *)
ScoreBegin(d, score) ==
    /\ backend = "memory" /\ writer = Nil
    /\ Counted
    /\ documents' = [documents EXCEPT ![d] = Scored(d, score)]
    /\ writer' = [op |-> "score", id |-> d]
    /\ UNCHANGED <<idx, dirty, steady, shrunk>>

(* The lock is released in any case.  Mutant: not after a failure.          *)
ReleasedUnlessFailed(failed) == IF failed THEN [op |-> "failed"] ELSE Nil
Released(failed) == Nil

ScoreEnd ==
    /\ writer # Nil /\ writer.op = "score"
    /\ \E failed \in BOOLEAN :
          /\ idx' = IF failed THEN idx ELSE [idx EXCEPT ![writer.id] = documents[writer.id]]
          /\ dirty' = IF failed THEN dirty \union {writer.id} ELSE dirty \ {writer.id}
          /\ writer' = Released(failed)
    /\ UNCHANGED <<backend, remote, documents, writes, it, siteVars, streamVars>>
    /\ Watch

(* An update in Elasticsearch, of some fields of one document, which may   *)
(* have been made even if the call fails.                                   *)
ESUpdate(d, doc) ==
    /\ backend = "es"
    /\ Counted
    /\ documents' = [documents EXCEPT ![d] = doc]
    /\ UNCHANGED <<idx, writer, dirty, steady, shrunk>>

(* Index sends no score, and UpdateScore nothing but.                       *)
ESIndex(d, c) == ESUpdate(d, [documents[d] EXCEPT !.content = c])
ESUpdateScore(d, score) == ESUpdate(d, Scored(d, score))

(* It is seen by searches after a refresh.                                  *)
ESRefresh ==
    /\ backend = "es" /\ idx # documents
    /\ answer = "none" \/ handler = "running"
    /\ idx' = documents
    /\ UNCHANGED <<backend, remote, documents, writer, dirty, writes, it, siteVars, streamVars>>
    /\ Watch
-----------------------------------------------------------------------------
(* Where Search starts to count.  Mutant: at the first hit it asks for.     *)
StartZero(offset) == 0
Start(offset) == offset

(* Search.                                                                   *)
Iterator ==
    LET batch == Batch(req, req.offset)
    IN  [hits |-> batch.hits, total |-> batch.total, from |-> req.offset, resIdx |-> 0,
         cumIdx |-> Start(req.offset), latched |-> Nil, error |-> "none", counted |-> FALSE]

AtEnd == it.error # "none" \/ it.cumIdx >= it.total

(* Next is called by the frontend or, for it, by the handler of the server. *)
Wanted ==
    /\ it # Nil /\ it.latched = Nil /\ ~AtEnd
    /\ IF remote THEN handler = "running" /\ it.counted ELSE stage = "read"

(* It may have to go for another batch.                                     *)
AtBatchEnd == it.resIdx >= Len(it.hits)

NextBatch == Batch(req, it.from + BatchSize)

Fetch ==
    /\ Wanted /\ AtBatchEnd
    /\ \/ /\ NextBatch.hits # <<>>
          /\ it' = [it EXCEPT !.from = @ + BatchSize, !.hits = NextBatch.hits,
                             !.total = NextBatch.total, !.resIdx = 0]
       \/ it' = [it EXCEPT !.from = @ + BatchSize, !.error = "search"]
    /\ UNCHANGED <<storeVars, siteVars, streamVars>>

(* The first hit of a batch is taken without a look at their number.  In   *)
(* the frontend, the HTTP server recovers; the server of the index does not.*)
Panic ==
    /\ Wanted /\ AtBatchEnd
    /\ NextBatch.hits = <<>>
    /\ it' = [it EXCEPT !.error = "panic"]
    /\ IF remote
       THEN ServerCrash /\ UNCHANGED siteVars
       ELSE /\ answer' = "aborted" /\ stage' = "done"
            /\ UNCHANGED <<req, total, results, summary, page, streamVars>>
    /\ UNCHANGED storeVars

(* The document of a hit, which in memory is looked up under the lock.      *)
FindByID(hit) == documents[hit.id]
MapESDoc(hit) == hit.doc

Take ==
    /\ Wanted /\ ~AtBatchEnd
    /\ backend = "memory" => writer = Nil
    /\ LET hit == it.hits[it.resIdx + 1]
           doc == IF backend = "memory" THEN FindByID(hit) ELSE MapESDoc(hit)
       IN  it' = IF doc = NoDoc THEN [it EXCEPT !.error = "not found"]
                 ELSE [it EXCEPT !.latched = [id |-> hit.id, content |-> doc.content],
                                 !.cumIdx = @ + 1, !.resIdx = @ + 1]
    /\ UNCHANGED <<storeVars, siteVars, streamVars>>

IteratorSteps == Fetch \/ Panic \/ Take
-----------------------------------------------------------------------------
(* IndexerServer.Search: the query, the number of results, the results, the *)
(* end.                                                                      *)
ServerSearch ==
    /\ handler = "running" /\ it = Nil
    /\ \/ it' = Iterator /\ UNCHANGED streamVars
       \/ Finish("error") /\ UNCHANGED it
    /\ UNCHANGED <<storeVars, siteVars>>

ServerSend ==
    /\ handler = "running" /\ it # Nil
    /\ \/ /\ ~it.counted
          /\ Send([total |-> it.total])
          /\ it' = [it EXCEPT !.counted = TRUE]
       \/ /\ it.latched # Nil
          /\ Send(it.latched)
          /\ it' = [it EXCEPT !.latched = Nil]
       \/ /\ ~it.counted \/ it.latched # Nil
          /\ SendFails
          /\ UNCHANGED it
    /\ UNCHANGED <<storeVars, siteVars>>

ServerReturn ==
    /\ handler = "running" /\ it # Nil
    /\ it.counted /\ it.latched = Nil /\ AtEnd
    /\ Finish(IF it.error = "none" THEN "ok" ELSE "error")
    /\ UNCHANGED <<storeVars, it, siteVars>>

Serve == ServerSearch \/ ServerSend \/ ServerReturn
-----------------------------------------------------------------------------
Submit(q) ==
    /\ stage = "idle"
    /\ req' = q /\ stage' = "search"
    /\ UNCHANGED <<storeVars, it, total, results, summary, answer, page, streamVars>>

(* The end of renderSearchResults: Close and the page, or an error page.    *)
Answer(kind, links) ==
    /\ answer' = kind /\ page' = links
    /\ stage' = "done"
    /\ IF remote THEN Cancel ELSE UNCHANGED streamVars
    /\ UNCHANGED <<storeVars, it, req, total, results, summary>>

(* Search, at the index.                                                     *)
LocalSearch ==
    /\ stage = "search" /\ ~remote
    /\ \/ /\ it' = Iterator
          /\ total' = it'.total
          /\ stage' = "read"
          /\ UNCHANGED <<storeVars, req, results, summary, answer, page, streamVars>>
       \/ Answer("error", NoPage)

(* IndexerClient.Search: the call, then the number of results.               *)
RemoteSearch ==
    /\ stage = "search" /\ remote
    /\ \/ /\ Call
          /\ stage' = "count"
          /\ UNCHANGED <<storeVars, it, req, total, results, summary, answer, page>>
       \/ Answer("error", NoPage)

ReceiveCount ==
    /\ stage = "count"
    /\ \/ /\ Receive
          /\ total' = Head(wire).total
          /\ stage' = "read"
          /\ UNCHANGED <<storeVars, it, req, results, summary, answer, page>>
       \/ /\ AtEOF \/ AtError
          /\ Answer("error", NoPage)

(* Next finds a document, in the iterator or in the stream.                  *)
NextDoc(doc) ==
    IF remote THEN wire # <<>> /\ doc = Head(wire) ELSE it.latched # Nil /\ doc = it.latched

ReadDoc ==
    /\ stage = "read" /\ Len(results) < ResultsPageSize
    /\ \E doc \in Result :
          /\ NextDoc(doc)
          /\ results' = Append(results, doc)
    /\ IF remote THEN Receive /\ UNCHANGED it
       ELSE it' = [it EXCEPT !.latched = Nil] /\ UNCHANGED streamVars
    /\ stage' = "summarise"
    /\ UNCHANGED <<storeVars, req, total, summary, answer, page>>

(* The summaries that a document may be given, for what it holds of the     *)
(* query.                                                                    *)
Summaries ==
    [c \in DOMAIN Texts |->
        UNION {{[text |-> text, parts |-> MatchSummary(snippets), overrun |-> MayPanic(snippets)] :
                   snippets \in SnippetsForSummary(text, MaxSummaryLength)} : text \in Texts[c]}]

Summarise ==
    /\ stage = "summarise"
    /\ \E s \in Summaries[results[Len(results)].content] :
          \/ /\ summary' = s
             /\ stage' = "highlight"
             /\ UNCHANGED <<storeVars, it, req, total, results, answer, page, streamVars>>
          \/ /\ s.overrun
             /\ Answer("aborted", NoPage)

(* The terms are highlighted and the result is done.                        *)
Highlight ==
    /\ stage = "highlight"
    /\ stage' = "read" /\ summary' = NoSummary
    /\ UNCHANGED <<storeVars, it, req, total, results, answer, page, streamVars>>

(* Where the next page starts.  Mutant: as the number that is shown for it. *)
NextOffsetShown == req.offset + Len(results) + 1
NextOffset == req.offset + Len(results)

LinkTo(offset) == [type |-> "match", offset |-> offset]

(* The template shows no links on a page without results.                   *)
Pagination(count) ==
    IF results = <<>> THEN NoPage
    ELSE [to |-> req.offset + Len(results),
          prev |-> IF req.offset = 0 THEN Nil
                   ELSE LinkTo(IF req.offset > ResultsPageSize THEN req.offset - ResultsPageSize ELSE 0),
          next |-> IF req.offset + Len(results) < count THEN LinkTo(NextOffset) ELSE Nil]

(* The page is full when Next has found one more, or Next finds no more.    *)
Complete ==
    /\ stage = "read"
    /\ IF remote
       THEN \/ Len(results) = ResultsPageSize /\ wire # <<>>
            \/ AtEOF
       ELSE \/ Len(results) = ResultsPageSize /\ it.latched # Nil
            \/ it.latched = Nil /\ AtEnd /\ it.error = "none"
    /\ Answer("page", Pagination(IF remote THEN total ELSE it.total))

Fails ==
    /\ stage = "read"
    /\ IF remote THEN AtError ELSE it.latched = Nil /\ it.error # "none"
    /\ Answer("error", NoPage)

Browse == LocalSearch \/ RemoteSearch \/ ReceiveCount \/ ReadDoc \/ Summarise \/ Highlight \/ Complete \/ Fails

Lost ==
    /\ remote /\ answer = "none"
    /\ Disconnect
    /\ UNCHANGED <<storeVars, it, siteVars>>

Write ==
    \/ \E d \in Doc, c \in Content : IndexBegin(d, c)
    \/ \E d \in Doc, score \in Score : ScoreBegin(d, score)
    \/ \E d \in Doc, c \in Content : ESIndex(d, c)
    \/ \E d \in Doc, score \in Score : ESUpdateScore(d, score)

Next ==
    \/ Write \/ IndexEnd \/ ScoreEnd \/ ESRefresh
    \/ \E q \in Query : Submit(q)
    \/ IteratorSteps \/ Serve \/ Browse \/ Lost

(* A writer that has the lock goes on, and so does one of the goroutines    *)
(* that serve the request.                                                   *)
Spec ==
    /\ Init /\ [][Next]_vars
    /\ WF_vars(IndexEnd \/ ScoreEnd)
    /\ WF_vars(IteratorSteps \/ Serve \/ Browse)
-----------------------------------------------------------------------------
(* In memory, the documents and the index are two stores: when no writer   *)
(* is at work they hold the same, but for a document whose score the index *)
(* refused, which has the new one.                                           *)
StoresAgree ==
    backend = "memory" /\ writer = Nil =>
        \A d \in Doc :
            /\ d \notin dirty => idx[d] = documents[d]
            /\ idx[d].content # documents[d].content => idx[d] = NoDoc /\ documents[d].content = "none"

(* Although searches take no lock, a hit always has its document, and the  *)
(* iterator does not run out of hits too early unless documents that       *)
(* matched have ceased to.                                                   *)
IteratorSound ==
    it # Nil => it.error # "not found" /\ (it.error = "panic" => shrunk)

(* If the index does not change meanwhile, a page shows the results that   *)
(* follow upon its offset, in their order.  It links to those behind them  *)
(* just if there are more, and from any results to those before just if    *)
(* there are any, so that no result is passed over.  The links on a page of*)
(* a match query are of that query; on the page of a phrase query only     *)
(* their offsets are right, as they search for the words.                   *)
PageIsSlice ==
    answer = "page" /\ steady =>
        LET all == Ranking(req)
            Ids == [i \in DOMAIN results |-> results[i].id]
        IN  /\ Ids = Slice(all, req.offset, ResultsPageSize)
            /\ page.next # Nil <=> Len(all) > req.offset + ResultsPageSize
            /\ page.next # Nil => page.next.offset = req.offset + ResultsPageSize
            /\ page.prev # Nil <=> req.offset > 0 /\ results # <<>>
            /\ page.prev # Nil => /\ page.prev.offset < req.offset
                                 /\ page.prev.offset + ResultsPageSize >= req.offset
            /\ req.type = "match" =>
                   \A link \in {page.prev, page.next} \ {Nil} : link.type = req.type

(* What is shown of a document is a summary of it.                           *)
SummaryFits ==
    stage = "highlight" => IsSummary(summary.text, MaxSummaryLength, summary.parts)

(* Every request is answered, and the handler that served it returns.       *)
RequestAnswered == (req # Nil) ~> (answer # "none" /\ handler # "running")
=============================================================================
