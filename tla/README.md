# go-crawler in TLA+

A verification development for the web crawler in `src/`: TLA+ models of its concurrent parts, TLC
instances that check them, and proofs of the most important theorems for TLAPS.

## 1. The system

The program (`src/main.go`) is a group of three services in one process, any number of which may run
side by side: a *crawler* that walks the link graph and fetches pages, a *ranker* that computes
PageRank scores, and a *frontend* that takes links and answers searches. They share two stores, the
link graph and the text index.

| Component | State it keeps | Operations | Talks to |
|---|---|---|---|
| BSP graph processor, `bsp/graph.go` | vertices, edges, two message queues per vertex, superstep, `activeInStep`, `pendingInStep`, `vertexCh`, `errCh`, `stepCompletedCh`, workers | `NewGraph`, `AddVertex`, `AddEdge`, `SendMessage`, `BroadcastToNeighbors`, `Freeze`, `step`, `Reset`, `Close` | executor (caller), compute functions (callbacks), relayer |
| BSP executor, `bsp/executor.go` | the graph's superstep, step budget, context | `NewExecutor`, `RunSteps`, `RunToCompletion` | graph, three hooks |
| Message queue, `bsp/message` | a slice under a mutex, the latched message | `Enqueue`, `Next`, `Message`, `PendingMessages`, `DiscardMessages` | graph workers |
| Aggregators, `bsp/aggregators` | `curSum`, `prevSum`, atomics | `Get`, `Set`, `Aggregate`, `Delta` | compute functions, hooks |
| PageRank, `ranker` | scores, SAD and two residual aggregators | `AddVertex`, `AddEdge`, `Executor`, `Scores` | BSP |
| Shortest paths, `shortestpath` | distance and predecessor of each vertex | `AddVertex`, `AddEdge`, `CalculateShortestPaths`, `ShortestPathTo` | BSP |
| Pipeline, `pipeline` | one unbuffered channel per stage, an error channel, a context, goroutines | `Process` | source, sink, stages |
| Stage runners, `pipeline/runners` | private channels, tokens | FIFO, FixedWorkerPool, Broadcast, DynamicWorkerPool | processors (callbacks) |
| Link graph, `graph/store` | links, edges, indexes; tables in CockroachDB | `UpsertLink`, `UpsertEdge`, `FindLink`, `Links`, `Edges`, `RemoveStaleEdges` | crawlers, ranker, frontend |
| Graph updater, `crawler/graph_updater.go` | none between pages | `Process`: a sequence of store calls | link graph |
| Crawler pipeline, `crawler` | payload objects and their pool, count of the sink | `Crawl` | pipeline, page processors, updater, index |
| Page processing, `crawler` | none between pages | `Process` of fetcher, link extractor, text extractor | web servers, payloads |
| Text index, `indexer/store` | documents and scores; index | `Index`, `UpdateScore`, `FindByID`, `Search`, iterators | crawlers, ranker, frontend |
| Partition, `partition` | none | `NewRange`, `PartitionExtents`, `PartitionInfo` | services |
| Frontend, `service/frontend` | none between requests | search, pagination, summaries, submission | text index, link graph |
| Services, `service` | timers, contexts | `Run`, one pass of crawling or ranking, HTTP handlers | everything above |
| gRPC interfaces, `api` | streams | one call or stream per store operation | stores |

What is hard in it:

* **Interleaving.** The BSP workers share the graph without locks and rely on a counter, three
  channels and the parity of the superstep. The pipeline is one goroutine per source, sink, worker and
  dispatcher, each of which may stop on the end of its input, an expired context or an error.
* **Partial failure.** Compute functions, processors, sources, sinks, hooks and store calls fail;
  errors pass through bounded channels that drop what does not fit.
* **Ordering and stale state.** Messages must be read one superstep after they were sent; edges are
  removed by comparing time stamps of two clocks; the graph updater reads, then writes, with no
  transaction.
* **Reading what changes.** Iterators hand out objects or batches of a store that others go on writing to,
  some of them over a stream that may break off.
* **Recycling.** Payload objects of all crawls come from one pool; slices share arrays.
* **Protocols of use.** A graph that is run again without `Reset`, a calculator used for a second
  source, a runner whose constructor blocks.

What makes each part correct:

* BSP: a superstep computes exactly the vertices that are active or have a message, each once, by one
  worker; messages are read in the next superstep only; nothing of a superstep runs outside it; an error
  is reported by the step it happened in; steps and `Close` return.
* Executor: at most the given number of supersteps; hooks run at the barrier; an error exactly if any hook or
  computation of the run failed; stops when the context has expired.
* Pipeline: no payload in two hands, none used after it was marked, no send on a closed channel, nil only
  after complete work, an error exactly if one was reported, `Process` returns.
* Link graph: one link per URL, one edge per pair, no dangling edge, retrieval times only advance, indexes
  agree; both stores behave alike; a reader that is told it has reached the end was given all that its query
  selected, also through a stream.
* Graph updater: an undisturbed update leaves exactly the page's edges; no update deletes an edge it has
  just upserted.
* PageRank: no addition to an accumulator is lost; a superstep is one step of the power iteration, with the
  residual of the superstep before; the scores have sum 1; the run ends, and not before a step has changed little.
* Partitions: disjoint, and together they cover the id space.
* Services: with one view of the cluster no page is crawled again too soon; every link is retrieved or
  refused in the end, whichever instances are killed; the group returns when its context is done or a service fails; a ranking
  pass that reads while crawlers write overlooks nothing and fails only for a known reason.
* Shortest paths: distances, paths and costs are those of the graph; a calculation ends.
* Crawler pipeline: a page keeps its own links, title and text whatever object it is in; no object has two
  users; the count of a crawl is the number of pages that were retrieved.
* Search: the two stores of the in-memory index agree; a page of results is the part of the ranking it claims
  to be, its links lead to the parts behind and before it; a summary is one; every request is answered and leaves no handler behind.

## 2. Modules

| Module | Models | Role |
|---|---|---|
| `Superstep` | what BSP promises: plain supersteps, no workers | abstract specification |
| `BSPGraph` | `bsp/graph.go`, `bsp/message/in_memory_queue.go` | detailed specification, implements `Superstep` |
| `BSPExecutor` | `bsp/executor.go`, on top of `BSPGraph` | composition |
| `BSPProofs` | | theorems about `BSPGraph`, that it implements `Superstep`, and about `BSPExecutor` |
| `Pipeline` | `pipeline/*.go`, `pipeline/runners/{fifo,fixed_worker_pool,broadcast,runners}.go` | detailed specification |
| `PipelineProofs` | | theorems about `Pipeline` |
| `LinkStore` | `graph/store/cdb/cdb.go`, the SQL statements | abstract specification of the link graph |
| `InMemoryGraph` | `graph/store/memory/memory.go` | implements `LinkStore` |
| `GRPCStream` | a server-streaming call, as `api` uses it | external interface |
| `RemoteGraph` | `graph/store/memory/iter.go`, queries of `api/graph/{client,server}.go`, on top of `InMemoryGraph` and `GRPCStream` | composition |
| `LinkGraphProofs` | | theorems about `InMemoryGraph`, that it implements `LinkStore`, and about `RemoteGraph` |
| `GraphUpdater` | `crawler/graph_updater.go`, on top of `LinkStore` | composition |
| `PageRank` | `ranker/*.go`, `Aggregate` of `bsp/aggregators/float64_aggr.go` | detailed specification over supersteps |
| `PageRankProofs` | | theorems about `PageRank` |
| `RankerService` | a pass of `service/ranker/ranker.go`, on top of `LinkStore` | composition |
| `StoreClients` | updaters, ranking passes and front ends at work on one store, as `main.go` wires them | composition of `GraphUpdater` and `RankerService` |
| `ShortestPath` | `shortestpath/shortestpath.go` | detailed specification over supersteps |
| `ShortestPathProofs` | | theorems about `ShortestPath` |
| `PageLinks` | `crawler/link_extractor.go` | operators |
| `CrawlPages` | `crawler/{payload,source_and_sink,link_fetcher,text_extractor,text_indexer,crawler}.go`, on top of `PageLinks` | several crawls and their pool |
| `CrawlPagesProofs` | | theorems about `CrawlPages` |
| `Summary` | `service/frontend/summarizer.go` | operators |
| `Search` | `indexer/store/{memory,es}`, search in `service/frontend/frontend.go`, `api/indexer/{client,server}.go`, on top of `Summary` and `GRPCStream` | composition |
| `SearchProofs` | | theorems about `Search` and `Summary` |
| `Partition` | `partition/partition.go` | operators |
| `Cluster` | `main.go`, `service/service.go`, the `Run` loops of `service/{crawler,ranker,frontend}`, on top of `LinkStore` and `Partition` | composition |
| `StoreProofs` | | theorems about the clients of the tables: `GraphUpdater`, `RankerService`, `Partition` and `Cluster` |
| `MC*` | | constants and symmetry for TLC |

How the models correspond to the code is in the comment of each definition, and line by line in
`PROJECT.json` under `map`. In short:

**BSPGraph.** The caller's goroutine is `mainPC`: `idle` (may call `step`), `feeding` (the `range` over
the vertices, writing `vertexCh`), `awaiting` (`<-stepCompletedCh`), `collect` (the read of `errCh`),
`ended`, and `closing`/`closed`. A worker is `wpc[w]`: `recv` (on `vertexCh`), `check` (the `if` of
`stepWorker`), `compute` (inside the compute function), `failing` (a send returned an error), `done`
(about to decrement `pendingInStep`), `signal` (writing `stepCompletedCh`), `exited`. Unbuffered channels
are rendezvous actions (`Feed`, `StepCompleted`). The order in which `range` visits the map is any order.
The compute function is arbitrary client code made of the calls the interface offers. A message is
represented by the superstep it was sent in, which is what the isolation of supersteps is about. A send
takes several steps when it is a broadcast. Vertex and edge values are left out.

**BSPExecutor** extends `BSPGraph` with the loop of `run`: one `exPC` label per call in the loop, every
outcome of every hook, a context that may expire at any time, a client that edits, resets and closes the
graph. Between two `Reset`s it
may, up to `MaxReuses` times, build another executor for a graph that has run (as `CalculateShortestPaths` does on its second
call) or run an executor again; the properties about messages say what holds while it does not.

**Pipeline.** One goroutine per source, sink, worker and dispatcher (`<<stage, worker>>`, worker 0 is
the dispatcher of a broadcast). `pc[g]`: `recv` (in the select that reads), `work` (in client code),
`send` (in the select that writes), `join` (a dispatcher in `wg.Wait`), `done`. `FixedWorkerPool` is
several workers that read the same channel; FIFO is a pool of one. `errCh` is a bounded buffer with a
non-blocking write. The guarding goroutine, the collecting loop and the return of `Process` are actions.
A payload is a sequence: the number the source gave it, and a step for each clone.

**LinkStore, InMemoryGraph.** Operations are atomic: one SQL statement, or one critical section under
the mutex. Ids are drawn from finite sets, times are numbers, and the clock may stand still between two
calls. `InMemoryGraph` keeps the four maps of the code; the refinement mapping reads the two tables off
two of them.

**GRPCStream, RemoteGraph.** `handler` is where the goroutine of the server is, `wire` the messages under way (at
most `Window`, after which `Send` blocks), `status` what the client learns when it has read them. `list` is
what an iterator has pointers to and `curIdx` its position; `Current` reads a pointer, so that a
reader gets what the object holds *now*, a deleted edge included (`Detached`). The same iterator is read by
a caller in the process (`LocalNext`) or by the handler of a call (`ServerSend`). A connection may be lost
at any time, with any number of messages; a client may close its iterator at any time.

**GraphUpdater.** `upc[u]` is the store call at which `Process` of updater `u` is. Between two calls
other updaters run, time passes, or the call fails. Store calls of the crawler's time use `now + Ahead`, where `now` is the
store's clock.

**PageRank.** The engine is used by what `Superstep` promises of it: `phase` is where the executor is,
and `vpc[v]` where the computation of vertex `v` is: `Aggregate` is a load (`loadSAD`, `loadResidual`) and a
compare-and-swap (`swapSAD`, `swapResidual`) that goes back to the load when it fails. Scores are
multiples of `1/Scale` and divisions round down, in the model as in the definition it is compared with (`Walk`); how
floating-point numbers are rounded is left out. The history variable `exact` is true as long as no division has left a
remainder, which is when the scores have sum 1; `before` are the scores when the superstep began.

**ShortestPath.** A superstep is one step, as `Superstep` allows: computations of a superstep do not affect each
other. `queue[b]` are the queues of each parity, as sets, because of equal costs any may be read first. A
calculator is a library object: clients may add vertices and edges and calculate again, with the state that
the first calculation left. Costs are ints of a small width that wrap around.

**PageLinks, CrawlPages.** A page is what the regular expressions find in it: a base tag, `a` tags with the URL
in them as `url.Parse` splits it, a title. `obj[o]` are the fields of a payload object, `array[o]` the
arrays behind its slices, which `MarkAsProcessed` leaves in place and `append` writes again. `hand[c][s]` is the
object that a goroutine holds; that `Process` wires goroutines so, and ends, is the matter of `Pipeline`. An
empty base tag makes the extractor panic, which ends the behaviour. The loop over the tags (`LinksIn`) appends
links and remembers those it has seen; `Unmixed` compares its outcome with a definition that has no loop (`LinksOf`): the
retained tags whose URL no earlier retained tag has, in order of their numbers.

**Search, Summary.** `documents` and `idx` are the two stores of the in-memory index; a writer holds its lock
between the two writes (`writer`), searches take none. For Elasticsearch they are the stored document
and what a search sees since the last refresh. `it` is the iterator with its batch, read by the frontend or
by the handler of a stream. `stage` is where the request is. A document is reduced to whether it matches as
words, as a phrase or not at all, a hit to its score, and a sentence to its words, its matching words and its
length in characters and in bytes. The first sort of the summarizer is not stable: it may leave any order that `Ranked` allows.
The loop that selects sentences and the sort that puts them into the order of the text are written as what they compute:
the n-th sentence is taken if those before it have left room (`Taken`), and the one that j-1 others precede is the j-th (`InTextOrder`).

**RankerService.** `rpc` is the call of `updateGraphScores` that comes next. The two queries are atomic, as
each is one SQL statement; between them any client of the store may do anything `LinkStore` allows. The filter of a pass
is the time of the ranker's machine (`service/ranker/ranker.go:137`) and edges are stamped by the database, so that there are two clocks, besides those of
the crawlers: `lead` is by how much the first is ahead when a pass begins, any number of `Leads`, negative ones included. It may be
another for each pass.
`AddEdge` looks at the source of an edge only. What follows from an unknown destination, an error of
`SendMessage` in superstep 1, is the guard of `Compute`.

**StoreClients.** Each step is one of an updater, of the ranker, or the upsert of a link from elsewhere (`UpsertElsewhere`), such as a
submission at a front end. The theorems are about `SpecUpdater`, whose environment is those upserts and any number of other
updaters, and `SpecRanker`, whose environment may do anything `LinkStore` allows; this module joins the two for TLC.

**Partition, Cluster.** `Partition` keeps the arithmetic of `NewRange`, including that the end of a
partition is made an id only if it has all 16 bytes (`ShortBelow`). `Cluster` runs `NumInstances` groups
of three services. `crawler[i]`, `ranker[i]` and `frontend[i]` are where each `Run` is, `told[i]` is the number
of partitions the current pass was given, `left[i]` the links it still has to read and `taken[i]` those in its pipeline: a link is read from
the iterator (`Read`), and later refused by the link fetcher (`Refuse`) or given the time of its retrieval (`Retrieve`). In between, and at
any time, an instance may be signalled, killed or cancelled, which drops what it had read; it is started again. It may be missing from the DNS. The
steps after the time of retrieval was stored, and the links found on a page, are reduced to upserts at any time (`Find`). Instances are told
the time by one clock; what differing clocks do is the matter of `GraphUpdater` and `RankerService`.

## 3. What is checked

All runs use TLC with the bounds given; each run is listed in `PROJECT.json`.

| Run | Instance | Shows |
|---|---|---|
| `bsp` | 2 vertices, a remote one, 2 workers, 3 supersteps, 1 edge per vertex, one send or broadcast per computation; fairness | the counter is exact, the barrier holds, one owner per vertex, exactly the due vertices are computed with the messages of the superstep before, as the engine implements `Superstep`; supersteps and `Close` return |
| `executor` | 2 vertices, 2 workers, 2 supersteps, one reuse; fairness | at most the given number of supersteps and an error exactly if any hook or computation of the run failed, however the graph is reused; without reuse no message waits longer than a superstep; `run` returns |
| `pipeline` | pool of 2, then a broadcast to 2; 2 payloads; fairness | the safety properties of `Pipeline`; `Process` returns |
| `memory_graph` | 2 URLs, 2 links, 2 edges, times 0 and 1; one query, of links or edges, local or over a stream with room for one message; one write while it is read; fairness | the maps agree and behave as the tables do; a reader gets what was selected and, if not told of an error, all of it; handlers return |
| `store_clients` | 2 updaters, 2 URLs, all edges between them, 2 pages or passes in all, times 1 and 2, a ranker's clock that is behind, exact or ahead | what concurrent and failing updates leave behind; a pass that reads while others write fails, or leaves out an edge, only because of a link crawled again or, with a clock that is ahead, found between its two queries |
| `cluster` | 2 instances, 2 links, 4 times, threshold 1, one kill, signal, failure or change of the DNS; fairness | no link is crawled again too soon while the number of partitions stands still; every link is retrieved or refused, also if an instance is killed that had read it; the group returns |
| `pagerank` | all graphs of up to 2 pages, 3 of 4 pages with a cycle, one and two dead ends, 1 of 3 pages; scores in 2^-24, convergence at 2^-5; fairness | every superstep is one step of the power iteration whatever the interleaving; the run ends, after a step that changed less than the threshold |
| `shortest_path` | 6 graphs of up to 4 vertices, one vertex or edge added, 2 calculations, ints of 5 bits; fairness | distances, paths and costs against the paths of the graph; calculations end |
| `shortest_path_again` | the same graphs, nothing added, 2 calculations | the second finding below |
| `crawl` | 2 crawls of 1 or 2 pages each out of 4 and 3 payload objects, any error and cancellation | pages do not mix, objects have one user, the count is right |
| `search` | an empty index or 3 documents, either index, locally or over a stream; batches of 2, pages of 2, offsets 0, 1 and 3; one concurrent write; summaries of 4 bytes of texts of 3 sentences; fairness | see the properties of search above |
| `executor_expiry` | small | the first finding below |

Why the bounds are enough. Two workers and two vertices already give every pairwise interleaving of the
BSP workers: one computes, sends or fails while the other picks a vertex, signals or exits, or while the
other vertex is still to be handed out. Three supersteps are one more than the period of the queues'
parity. Where section 4 proves a property, the instance is there to fire every action and every mutant, and
the proof covers the other sizes. In the pipeline two payloads give a payload that is sent, dropped or cloned while its
successor is elsewhere, and the stages cover several readers of one channel (the pool), several writers
to one channel (pool and broadcast), and a dispatcher with its private channels. For the clients of the store two
URLs give all four possible edges. Two pages or passes, one after the other or at once, give every relation of an
update to an earlier, a failed and a concurrent one, and of a pass to an update; links are upserted from elsewhere besides. Two times of the store
and a ranker's clock that differs by one either way give before, at and after for what a pass compares. Two instances with a link in
each partition give every disagreement of two crawlers about the number of partitions. In `pagerank` the
number of supersteps is not bounded: SAD falls at least by the damping factor with each superstep. The numbers of pages and
of links on a page are powers of 2 but in one graph, so that all divisions up to convergence are exact in the others and have remainders in that one. `Workers` is
the number of vertices, so that all computations of a superstep may overlap. A query of the link graph that selects two
objects has one that was read and one that was not when a write (an update or a deletion) happens between
any two steps. In `shortest_path` the graphs have two ways of the same cost, a longer way that is
cheaper, cycles of cost zero, unreachable vertices and edges to nowhere. Three payload objects let a
page be cloned into an object that the other crawl has just given back. Three documents are a full batch and a
rest, and a full page and a rest, from each offset; one write between any two steps of a
request removes, adds or moves a hit.

**Fairness.** `BSPGraph!FairSpec` asks for weak fairness of each worker goroutine and of the caller's
goroutine while it is inside the engine: the Go scheduler runs every runnable goroutine, and a channel
operation whose partner is waiting takes place. Nothing is assumed about the caller between calls. That
compute functions and hooks return is part of the assumption: a compute function has a bounded number of
sends and its queue is finite. `Pipeline!FairSpec` only asks that something happens when something can
(weak fairness of the disjunction of all goroutine steps); the expiry of the context is not fair.
`PageRank!FairSpec` asks the same. `Cluster!FairSpec` asks that timers fire, that a pass goes on and ends, that
front ends close when told, that an instance which ended is started again (the stateful set for which
`partition.go:107` says it is meant), and that the DNS is right in the end. `SpecRemote` and `Search!Spec` ask that the handler of a call goes on
and that its client does (the callers in `service` read to the end or close; a client that does neither is
not in the program), and `Search` that a writer which has the lock finishes; writes, lost connections and refreshes are not
fair. `ShortestPath!Spec` asks that supersteps go on, which `StepReturns` shows of the engine. `Cluster` does not ask that links are
found, that time passes, or that anything fails; kills, signals, failures and changes of the DNS are at most `MaxTrouble`.

What holds and what does not, where a reader might expect more. A ranking pass fails, and its process with it,
when a page to which an edge leads was crawled again after the pass began and before its links were loaded. If the clock of the ranker's machine
is ahead of the database's, an edge to a link that was found between the two queries does so, too: `DestinationsExplained` says that nothing
else makes a pass fail for want of a link. While the number of addresses in the
DNS changes, two instances may crawl the same link at once; `CrawledOnceADue` is about the time before. A graph
that is run again without `Reset` reads messages of the wrong parity (`bsp/executor.go:29`) a superstep late;
`KeptUnlessReused` says that without reuse none is late. A damping factor of 1 is accepted
(`ranker/config.go:37`) but excluded by `RankAssumption`: the scores of a cycle of pages then need not settle.
`bsp/graph.go:208` speaks of an `UnknownVertexHandler`, which the code does not have. A second call of
`CalculateShortestPaths` computes nothing, as every vertex is frozen and only superstep 0 of an active vertex resets its state
(`shortestpath/shortestpath.go:126`): the distances and costs stay those of the first source (the second finding), and the walk back
ends at the new one, or meets a nil pointer if it does not come by; `DistancesAreCosts` and what `PathIsShortest` says of costs are about the source of the
first calculation. `ShortestPathTo` panics for a vertex that was not reached (`:109`). A crawler whose clock is ahead of
the database's drops edges it has just upserted (`crawler/graph_updater.go:59`; set `Ahead` to 1 in `MCStoreClients` to
see it). The constructor of the dynamic worker pool writes `maxWorkers+1` tokens to a channel of capacity
`maxWorkers` and never returns (`pipeline/runners/dynamic_worker_pool.go:23`); nothing calls it. An `href` of a base
tag that is empty makes the link extractor index a string at -1 (`crawler/link_extractor.go:99`). A result set that
shrinks while it is read makes the iterators of both indexes panic (`indexer/store/memory/iter.go:33`, `indexer/store/es/iter.go:49`):
`IteratorSound` says that nothing else does. A sentence that is short in characters and long in bytes may be cut past its end
(`service/frontend/summarizer.go:81`). The links to the next and the previous page lack the quotes of a phrase search, as
`searchTerms` is trimmed (`service/frontend/frontend.go:228`), so that they lead to pages of a match query (`LinkTo`): `PageIsSlice` says
that links have the right offsets, and that those on a page of a match query keep the query. A page without results has no links
(`service/frontend/templates.go:127`), so that a reader beyond the end does not get back. A kill after the retrieval of a page was stored and
before its edges and its text were leaves it without them until `ReIndexThreshold` has passed (`crawler/graph_updater.go:31`); `EveryLinkCrawled` is
about retrieval. More than 256 partitions are refused (`partition/partition.go:67`), which `ClusterAssumption` excludes and `PartitionLimit` states.

**Findings**, each a run that TLC must find violated. `executor_expiry`: the `break` in the `select` of `run`
(`bsp/executor.go:91`) leaves the select, not the loop; an expired context never stops a run by itself.
`shortest_path_again`: after a calculation for one source, `CalculateShortestPaths` for another leaves all distances as they are
(`shortestpath/shortestpath.go:126`), although it "finds the shortest path costs from srcID to all other vertices" (`:83`) and
`ShortestPathTo` returns the path "together with its cost" (`:96`).

## 4. What is proved

Eight modules hold theorems, which TLAPS proves for every value of the constants that meets the named
assumptions. TLC evaluates those assumptions in the runs of the modules that declare them. A theorem states the property of a run, so that the run
shows it of a small instance, and its mutant that it can fail. Every proof of an invariant has the same shape: the
initial states satisfy an inductive invariant, each action keeps it (one lemma or step per action, and under it one per conjunct that
the action disturbs), it implies the property, and the last step is temporal.

**`BSPProofs`**, the graph: `TypeCorrect`, `PendingIsExact`, `BarrierHolds`, `OneOwner`, for every finite set of
vertices and of workers. `IInv == TypeOK /\ Control /\ Barrier /\ PendingAccounting /\ SingleOwner`. The part of
`TypeOK` that is not routine is `pendingInStep \in Nat`: no worker decrements a counter that is zero.
`PendingAccounting` alone is not inductive: that the worker whose decrement reaches zero is the last one
needs to know which labels of the caller and of a worker go together (`Control`: in particular that a
worker signals only while the caller awaits, with nothing left to feed and no other worker at work), and
that no vertex is held twice (`SingleOwner`), as the counter counts vertices and the holders are workers.
The counting steps use the cardinality of finite sets.

`PoolImplementsSuperstep` is the refinement: `Spec => ImplementsSuperstep`, every step of a caller or worker being one
of plain supersteps or none. It needs `QueueInv` in addition: an error is in `errCh` until `step` returns it
(`ErrorKept`), a computation reads the queue of the parity of its own superstep (`ReadsCurrent`), and a message of
this superstep belongs to a vertex that is still to be computed or is being computed, unless a computation failed
(`Drained`). Assumptions: `WorkerAssumption`, `VertexAssumption`, `BoundAssumption`.

**`BSPProofs`**, the executor: `RunKeepsContract`, `MessagesKept`. The executor and its client take the
place of the caller, and with a graph that is run again without `Reset` they are *not* a caller of `BSPGraph`: such a
step rewinds the graph to `idle` (`Rewinds`). That `IInv` and `QueueInv` survive this (`ExecutorInductive`) is why
`RunContract` holds however often the graph is used again; the rest of `ExecutorInv` says where the graph is at each
point of `run` (`InStep`), that supersteps run and steps left add up to the budget (`Spent`), and that any failure since the run began
is still in `errCh`, or returned by `step`, or returned by `run` (`TroubleNoticed`). `KeptUnlessReused` needs that no message
waits for a later superstep than the next (`NothingAhead`), which a reuse breaks. Further assumption: `BudgetsAssumption`.

**`PipelineProofs`**: `PayloadsHaveOneHolder`, `ClosedChannelsUnused`, `NilMeansComplete`, `ErrorsArrive`, for every
sequence of pools and broadcasts of any width and any number of payloads. `IInv` has six parts. `Control` and `Closing`
say where goroutines may be and that a channel is closed only when all its writers are done; `Errors` relates the
buffer of the error channel, the collected error and what was reported. `Ownership` is the hard part: that a clone
which a broadcast hands out is a new object is not seen from the dispatcher alone. `Lineage` says of a payload that
somebody holds that all its clones were made by stages it has passed, or by the dispatcher that holds it for the
workers it has already served; `OfferFresh` says that the clone to be handed out next is in nobody's hands. `Complete` says
that without an error or an expired context every payload that is not marked is held or about to be handed out. Assumptions:
`StagesAssumption`, `PayloadsAssumption`.

**`LinkGraphProofs`**: for any sets of URLs and ids.
`MapsStayInAgreement` and `MapsImplementTables` are about the in-memory graph: `MapsInv` says that the URL index is the
inverse of the links, that the list of a link has the ids of the edges that leave it once each, that no edge is newer than the
clock and that the maps are finite; then each operation on the four maps is the SQL statement on the tables. The loop over an edge list is a recursive function on the numbers
(`EdgesKept`); what it returns is shown with an induction written out with least elements (`Induction`, `Recursion`).
`ReadersInductive`, `ReadersGetTheSelection` and `ReadersOnlyRead` are about readers. `ReaderInv` says that the objects read,
followed by the messages on the wire, are the first objects of the list, none missing as long as the call was neither
cancelled nor failed (`ReadInOrder`), and that each entry of the list points to the object it was made of, as it is now or was
when it was deleted (`PointsAs`). That retrieval times and update times only advance (`ObjectsAdvance`) makes what is read
later no older. Assumptions: `NilAssumption`, `TimeAssumption`, `NoObjectAssumption` (the value for "none" is no
object), `WindowAssumption`, `RangesAssumption`, `WritesAssumption`.

**`StoreProofs`**, the graph updater: `LinksNeverMissing` for all clocks, `OwnEdgesKept` and `UpdateIsExact` for a crawler whose
clock is not ahead of the store's (`Ahead = 0`; with `Ahead = 1` TLC finds both violated, see section 3). `UpdaterInv` says of
each updater, between any two of its calls, that the links it has upserted are there (`Placed`), that no edge it has upserted
is older than its threshold (`Recent`), and, for one that nobody disturbs, that the edges of its page are those it has upserted and
older ones (`Exact`). They need the keys of the tables, and that no edge is stamped in the future. Assumption:
`UpdaterAssumption`.

**`StoreProofs`**, the ranking pass: `FailureExplained`, `NothingOverlooked`, for any difference of the clocks (`Leads` is any set of
integers) and any clients of the store. `RankerInv` adds to the two properties the type invariant, that no edge is
without its links and that the pass did not begin in the future of the store (`StoreInv`), and what is known after the first
query (`LinksLoaded`): a link that was in the store then is in the graph, or was crawled since the pass began, and an edge that is older than the
pass by the store's clock (`Began`) joins two such links, as an edge that joins a link found later is stamped later. Retrieval times never go back, so
that "crawled since" stays true. An edge selected with a clock that is ahead may be younger, which is the third disjunct of
`DestinationsExplained`. Assumptions: `TimeAssumption`, `LeadsAssumption`.

**`StoreProofs`**, partitions and services: `PartitionsDisjoint`, `PartitionsCover`, `PartitionLimit` for every size of the id space and every
number of partitions: no id is in two partitions, every id but the last is in one, and `NewFullRange` accepts 256
partitions and no more. `CrawledInTime` is the action property `CrawledOnceADue` for any number of instances:
what a crawler has still to read, or in its pipeline, are links of its own partition that are due (`LeftDue`), *also when other crawlers retrieve
links meanwhile*, which is where the disjointness of the partitions enters. Assumptions: `IDAssumption`,
`ClusterAssumption`.

**`CrawlPagesProofs`**: `ObjectsHaveOneUser`, `CountsAreRight`, `PagesStayUnmixed`, for any number of crawls, pages, tags of a
page, objects and fetch workers. An object is in one pair of hands or in the pool (`Exclusive`). For the count, a page that was retrieved travels on two
lines, as the original to the graph updater and as a clone to the indexer: on each of them it is in one place until it has been
counted there, and in none afterwards (`OnTheWay`), and pages that are still to come are new (`ToCome`); this holds until the context of
the crawl ends. For the contents (`Separate`), an object in the pool is blank but for its link, its slices are empty or have
arrays of its own that are long enough (`Sound`), and an object in the hands of a worker has what the workers before it have put
there and nothing else (`Progress`), so that `append` and `Clone` write to no array that anyone else reads. That the extractor finds
`LinksOf` (`FoundAreLinks`) is an induction over the tags, written out with least elements: what has been found after n tags are the first
tags among them, and the k-th link is that of the first tag of rank k. Assumption: `PagesAssumption`, which says that the iterator of a
crawl yields a link once and that there is one link for a URL, as `ReadsSelection` and `IndexesAgree` have it.

**`SearchProofs`**: `StoresStayInAgreement`, `IteratorStaysSound`, `PagesAreSlices`, for any number of documents, any offsets, and
any size of a batch, of a page and of the window of the stream, both indexes, with and without the API in between. `StoresInv` says of
the two stores of the in-memory index what they hold in the middle of `Index` and of `UpdateScore`, one of which writes the index first and
the other last. `HitsInv` is about an iterator while others write: each of its hits has a document, or its writer has the lock and will
store one (`Kept`), so that a reader who gets the lock finds it; a batch ends early only at the end of all hits, so that an empty one
before the end means that documents have ceased to match. For pages, `CountInv` says that each document the iterator has passed is latched, on
the wire or among the results, unless the call was cut off, and `SliceInv` that these are, in their order, places of the ranking
from the offset on; what the frontend takes for the end of the stream is the end of the hits (`FlowInv`). That the ranking has
one document in every place (`Places`) is an induction over the size of a set, written out with least elements. Assumptions:
`SizesAssumption`, `ContentAssumption`, `StoresAssumption`, `NilAssumption`, `WindowAssumption`.

A summary is one by computation: `SummariesFit` (`SummaryFits`), for every text and length. What the loop has taken are the first
sentences of the ranking, and if it left any, those use up the room (`TakenFirst`); only the last one is cut, and what is shown of
the sentences fits the length (`SelectedFacts`). The second sort moves them to other places (`SortedMoves`): a set of
sentences with different numbers has one that exactly j-1 others precede, for each j (`SentencePlaces`). So the sums over the
summary are those over the selection (`SumPermuted`). What sums over finite sets are (`SumOpens`, `SumTakes`, `SumAdds`) is proved from
the definition of `SumFunctionOnSet`, with inductions over sets of subsets written out. Further assumption: `TextsAssumption`, by
which a character is at least one byte.

**`ShortestPathProofs`**: `DistancesAreRight`, `PathsAreShortest`, for every finite graph, any costs, any number of additions and
of calculations, and any order in which messages of equal cost are read. `PathsInvariant` says between two supersteps of a calculation whose
costs fit (`Fits`; otherwise they overflow): a vertex that was reached leads back over an edge to one that is nearer by its cost at
least (`Backwards`), and no way back is a cycle. As edges may cost nothing, distances alone do not show the latter: the vertices
have ranks that decrease along each way back (`Ranked`), and the ranks after a superstep are ordered by the distances
before it and then by the ranks before it. A distance is the cost of a path, of vertices that are no farther away
(`Supported`); an edge that would improve a distance has a message on its way (`Relaxed`), and every message says what its sender has
(`Messages`). When a calculation ends there are no messages, so that no edge improves a distance, and by
induction along a path no path does. `ShortestPathTo` goes back along ranks that decrease and meets the source, or
a vertex that has no way back. After a calculation for another source than the first, only the paths are claimed, not the distances. Assumption: `PathAssumption` (graphs are finite, costs of edges are numbers, the value for "none" is no vertex).

**`PageRankProofs`**: `SuperstepsAreSteps`, for every finite graph, damping factor below 1, precision and number of workers.
`RankInv` says at every moment of a superstep: SAD is the sum of the changes of the vertices whose computation is past
its swap, the sum that waits for a vertex that of the computations that have distributed, and the residual that of
the dead ends that are done (`InStep`): no addition is lost and none is made twice, as a swap succeeds only if the accumulator is what was
loaded. The input of a superstep is what the one before gave, the residual included, which alternates between two accumulators
(`Inputs`). A run that is over ended after such a superstep, with a SAD below the threshold (`Over`). That the scores keep the sum 1 (`SumKept`) is an exchange of two sums, over pages and over the pages they link to
(`SumExchange`), and needs that nothing was rounded (`ExactSoFar`). Assumption: `RankAssumption`.

What is model-checked only: liveness (`ENABLED` and fairness are out of this prover's reach), which are the properties `StepReturns`,
`CloseReturns`, `RunCompletes`, `Returns`, `HandlerReturns`, `EveryLinkCrawled`, `GroupReturns`, `Converges`, `CalculationEnds` and
`RequestAnswered`. Every invariant and action property of a passing run is stated by a theorem. The prover has no induction rule for formulas:
where a proof needs induction it is written out over sets, of numbers or of subsets, each of which is shown to have a least element or to be
closed, and loops are recursive functions on the numbers.

## 5. What is not modelled, and the plan

Not modelled for good: HTTP, regular expressions, sanitising of HTML, matching and ranking of the text
indexes, the highlighter and templates, protocol buffers and generated code, command-line handling, build and deployment files. They
are functions of their input or I/O. External: the database, bleve, Elasticsearch, gRPC, DNS. Unary gRPC calls
are one call of the store, which any client of it may make in the models of the stores. The loss of
a reply to one, after which the caller does not know whether it was made, is a failing call in `GraphUpdater`.

Done: the BSP engine and executor, its two client programs, the pipeline and the crawl that runs on it, the link graph with its two
stores and its streams, the graph updater, the text index and search, partitions, the cluster of services and the ranking pass.

Plan, in order:

1. *BSP.* `Relay` between two graphs; `Set` and `Delta` of the aggregators, which nothing in the
   repository calls while a superstep runs.
2. *Larger instances* of `Search` (two writes) and `CrawlPages` (two fetch workers), whose state
   spaces have to be reduced first.
