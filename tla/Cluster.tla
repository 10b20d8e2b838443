------------------------------- MODULE Cluster -------------------------------
(***************************************************************************)
(* Several instances of the program (src/main.go) on one link store.  Each *)
(* is a group of three services (src/service): a front end, a crawler that *)
(* crawls the links of its partition, and a ranker that works on the first *)
(* instance only.  The number of partitions is the number of instances the *)
(* DNS knows of, which each crawler asks for when a pass begins.           *)
(*                                                                         *)
(* Pages are processed by the modules Pipeline and GraphUpdater, ranking   *)
(* passes by RankerService.  Here a link is read from the iterator of the  *)
(* pass, is in the pipeline, and is refused there or gets the time of its  *)
(* retrieval; other links are found; and a ranking pass is under way or    *)
(* not.                                                                    *)
(***************************************************************************)
EXTENDS LinkStore, Partition

CONSTANTS NumInstances,
          ReIndexThreshold,   \* time before a link is crawled again
          MaxTrouble          \* bound: kills, signals, failures and changes of the DNS

ASSUME ClusterAssumption ==
    /\ NumInstances \in Nat \ {0} /\ MaxTrouble \in Nat /\ ReIndexThreshold \in Nat
    /\ LinkID \subseteq 0..MaxID - 1    \* no UUID generator returns the last id
    /\ ValidFullRange(NumInstances)

Instance == 0..NumInstances - 1     \* the suffix of the host name

VARIABLES
    addresses,   \* number of addresses the DNS has for the service
    crawler,     \* crawler[i]: "timer", in a "pass" or "stopped"
    told,        \* told[i]: numPartitions of the pass of crawler i
    left,        \* left[i]: links of the pass that the pipeline has not read yet
    taken,       \* taken[i]: links that are in the pipeline
    ranker,      \* ranker[i]: the same three
    frontend,    \* frontend[i]: "serving" or "stopped"
    group,       \* group[i]: ServiceGroup.Run has "returned" or is "running"
    cancelled,   \* cancelled[i]: runCtx of the group is done
    errored,     \* errored[i]: a service of the group returned an error
    trouble,     \* counts up to MaxTrouble
    moved,       \* history: the DNS has changed its mind
    settled      \* history: links that were retrieved or refused by a pipeline

instanceVars == <<crawler, told, left, taken, ranker, frontend, group, cancelled, errored>>
clusterVars == <<vars, instanceVars, addresses, trouble, moved, settled>>

InitCluster ==
    /\ links = {} /\ edges = {} /\ now = 1
    /\ addresses = NumInstances
    /\ crawler = [i \in Instance |-> "timer"]
    /\ told = [i \in Instance |-> 0]
    /\ left = [i \in Instance |-> {}]
    /\ taken = [i \in Instance |-> {}]
    /\ ranker = [i \in Instance |-> "timer"]
    /\ frontend = [i \in Instance |-> "serving"]
    /\ group = [i \in Instance |-> "running"]
    /\ cancelled = [i \in Instance |-> FALSE]
    /\ errored = [i \in Instance |-> FALSE]
    /\ trouble = 0
    /\ moved = FALSE
    /\ settled = {}

Trouble == trouble < MaxTrouble /\ trouble' = trouble + 1
-----------------------------------------------------------------------------
(* A service returns an error: it is kept, and the group is cancelled.     *)
(* Mutant: it is not.                                                      *)
ReportOnly(i) ==
    /\ errored' = [errored EXCEPT ![i] = TRUE]
    /\ UNCHANGED cancelled
Report(i) ==
    /\ errored' = [errored EXCEPT ![i] = TRUE]
    /\ cancelled' = [cancelled EXCEPT ![i] = TRUE]

CrawlerStops(i) ==
    /\ crawler' = [crawler EXCEPT ![i] = "stopped"]
    /\ told' = [told EXCEPT ![i] = 0]
    /\ left' = [left EXCEPT ![i] = {}]
    /\ taken' = [taken EXCEPT ![i] = {}]
    /\ UNCHANGED <<vars, addresses, ranker, frontend, group, moved, settled>>

(* retrieved_at < now - ReIndexThreshold, which holds for the zero time.   *)
(* Mutant: the threshold is left out.                                      *)
DueAnytime(row) == row.retrieved <= now
Due(row) == row.retrieved = 0 \/ row.retrieved + ReIndexThreshold < now

(* The links of partition i of n that are due.                             *)
Batch(n, i) == {row.id : row \in {r \in links : r.id \in FullExtent(n, i) /\ Due(r)}}

(* The timer of the crawler fires.  That the DNS does not answer, so that  *)
(* the pass is deferred, is the same as the timer firing later.  After the *)
(* context is done a pass may still begin, but one begun just before it    *)
(* is no different.                                                        *)
CrawlBegin(i) ==
    /\ crawler[i] = "timer" /\ ~cancelled[i]
    /\ ValidFullRange(addresses) /\ ValidPartition(addresses, i)
    /\ crawler' = [crawler EXCEPT ![i] = "pass"]
    /\ told' = [told EXCEPT ![i] = addresses]
    /\ left' = [left EXCEPT ![i] = Batch(addresses, i)]
    /\ taken' = [taken EXCEPT ![i] = {}]
    /\ UNCHANGED <<vars, addresses, ranker, frontend, group, cancelled, errored, trouble, moved, settled>>

(* An instance that the DNS does not count yet has an invalid partition.   *)
CrawlInvalid(i) ==
    /\ crawler[i] = "timer" /\ ~cancelled[i]
    /\ ~(ValidFullRange(addresses) /\ ValidPartition(addresses, i))
    /\ CrawlerStops(i)
    /\ Report(i)
    /\ UNCHANGED trouble

(* The pipeline reads a link from the iterator.  Mutant: the link is given *)
(* the time of its retrieval already.                                      *)
ReadMarked(i, row) ==
    /\ crawler[i] = "pass"
    /\ row.id \in left[i]
    /\ left' = [left EXCEPT ![i] = @ \ {row.id}]
    /\ taken' = [taken EXCEPT ![i] = @ \union {row.id}]
    /\ UpsertLink(row.url, now)
    /\ UNCHANGED <<addresses, crawler, told, ranker, frontend, group, cancelled, errored, trouble, moved,
                   settled>>

Read(i, row) ==
    /\ crawler[i] = "pass"
    /\ row.id \in left[i]
    /\ left' = [left EXCEPT ![i] = @ \ {row.id}]
    /\ taken' = [taken EXCEPT ![i] = @ \union {row.id}]
    /\ UNCHANGED <<vars, addresses, crawler, told, ranker, frontend, group, cancelled, errored, trouble,
                   moved, settled>>

Settle(i, row) ==
    /\ crawler[i] = "pass"
    /\ row.id \in taken[i]
    /\ taken' = [taken EXCEPT ![i] = @ \ {row.id}]
    /\ settled' = settled \union {row.id}
    /\ UNCHANGED <<addresses, crawler, told, left, ranker, frontend, group, cancelled, errored, trouble,
                   moved>>

(* The link fetcher refuses a link (no page, not HTML, private); the page  *)
(* of one that is fetched gets to the graph updater.                       *)
Refuse(i, row) == Settle(i, row) /\ UNCHANGED vars
Retrieve(i, row) == Settle(i, row) /\ UpsertLink(row.url, now)

PipelineStep(i) == \E row \in links : Read(i, row) \/ Refuse(i, row) \/ Retrieve(i, row)

(* A link found on a page of the pass, or submitted at the front end.      *)
Find(i, url) ==
    /\ crawler[i] = "pass" \/ frontend[i] = "serving"
    /\ UpsertLink(url, 0)
    /\ UNCHANGED <<instanceVars, addresses, trouble, moved, settled>>

(* The pipeline is through, or gives up as the context is done, whatever   *)
(* is left and in it then; Process returns nil in both cases.              *)
CrawlEnd(i) ==
    /\ crawler[i] = "pass"
    /\ left[i] \union taken[i] = {} \/ cancelled[i]
    /\ crawler' = [crawler EXCEPT ![i] = "timer"]
    /\ told' = [told EXCEPT ![i] = 0]
    /\ left' = [left EXCEPT ![i] = {}]
    /\ taken' = [taken EXCEPT ![i] = {}]
    /\ UNCHANGED <<vars, addresses, ranker, frontend, group, cancelled, errored, trouble, moved, settled>>

(* The query or the pipeline fails.                                        *)
CrawlFails(i) ==
    /\ Trouble
    /\ crawler[i] = "pass"
    /\ CrawlerStops(i)
    /\ Report(i)

CrawlStop(i) ==
    /\ crawler[i] = "timer" /\ cancelled[i]
    /\ CrawlerStops(i)
    /\ UNCHANGED <<cancelled, errored, trouble>>

RankerBecomes(i, pc) ==
    /\ ranker' = [ranker EXCEPT ![i] = pc]
    /\ UNCHANGED <<vars, addresses, crawler, told, left, taken, frontend, group, moved, settled>>

(* The timer of the ranker fires; only the first instance goes on.         *)
RankBegin(i) ==
    /\ ranker[i] = "timer" /\ ~cancelled[i]
    /\ RankerBecomes(i, IF i = 0 THEN "pass" ELSE "stopped")
    /\ UNCHANGED <<cancelled, errored, trouble>>

(* A pass does not look at the context.                                    *)
RankEnd(i) ==
    /\ ranker[i] = "pass"
    /\ RankerBecomes(i, "timer")
    /\ UNCHANGED <<cancelled, errored, trouble>>

RankFails(i) ==
    /\ Trouble
    /\ ranker[i] = "pass"
    /\ RankerBecomes(i, "stopped")
    /\ Report(i)

RankStop(i) ==
    /\ ranker[i] = "timer" /\ cancelled[i]
    /\ RankerBecomes(i, "stopped")
    /\ UNCHANGED <<cancelled, errored, trouble>>

(* The front end's server is closed when the context is done, or fails.    *)
FrontendStop(i) ==
    /\ frontend[i] = "serving"
    /\ frontend' = [frontend EXCEPT ![i] = "stopped"]
    /\ \/ cancelled[i] /\ UNCHANGED <<cancelled, errored, trouble>>
       \/ ~cancelled[i] /\ Trouble /\ Report(i)
    /\ UNCHANGED <<vars, addresses, crawler, told, left, taken, ranker, group, moved, settled>>

(* Run passes <-runCtx.Done() and wg.Wait().                               *)
GroupReturn(i) ==
    /\ group[i] = "running"
    /\ cancelled[i]
    /\ crawler[i] = "stopped" /\ ranker[i] = "stopped" /\ frontend[i] = "stopped"
    /\ group' = [group EXCEPT ![i] = "returned"]
    /\ UNCHANGED <<vars, addresses, crawler, told, left, taken, ranker, frontend, cancelled,
                   errored, trouble, moved, settled>>

(* SIGINT or SIGHUP.                                                       *)
Signal(i) ==
    /\ Trouble
    /\ ~cancelled[i]
    /\ cancelled' = [cancelled EXCEPT ![i] = TRUE]
    /\ UNCHANGED <<vars, addresses, crawler, told, left, taken, ranker, frontend, group, errored, moved, settled>>

Fresh(i) ==
    /\ crawler' = [crawler EXCEPT ![i] = "timer"]
    /\ told' = [told EXCEPT ![i] = 0]
    /\ left' = [left EXCEPT ![i] = {}]
    /\ taken' = [taken EXCEPT ![i] = {}]
    /\ ranker' = [ranker EXCEPT ![i] = "timer"]
    /\ frontend' = [frontend EXCEPT ![i] = "serving"]
    /\ group' = [group EXCEPT ![i] = "running"]
    /\ cancelled' = [cancelled EXCEPT ![i] = FALSE]
    /\ errored' = [errored EXCEPT ![i] = FALSE]
    /\ UNCHANGED <<vars, addresses, moved, settled>>

(* The instance is started again after its group returned, or was killed.  *)
Restart(i) == group[i] = "returned" /\ Fresh(i) /\ UNCHANGED trouble
Killed(i) == Trouble /\ group[i] = "running" /\ Fresh(i)

(* Instances come and go in the DNS, which in the end knows all of them.   *)
Resolve(n) ==
    /\ addresses # n
    /\ addresses' = n
    /\ moved' = TRUE
    /\ \/ n = NumInstances /\ UNCHANGED trouble
       \/ n # NumInstances /\ Trouble
    /\ UNCHANGED <<vars, instanceVars, settled>>

CrawlerStep(i) == CrawlBegin(i) \/ CrawlInvalid(i) \/ CrawlEnd(i) \/ CrawlStop(i)

NextCluster ==
    \/ \E i \in Instance :
          \/ CrawlerStep(i) \/ CrawlFails(i)
          \/ PipelineStep(i)
          \/ \E url \in URL : Find(i, url)
          \/ RankBegin(i) \/ RankEnd(i) \/ RankFails(i) \/ RankStop(i)
          \/ FrontendStop(i) \/ GroupReturn(i) \/ Signal(i) \/ Restart(i) \/ Killed(i)
    \/ \E n \in 1..NumInstances : Resolve(n)
    \/ Tick /\ UNCHANGED <<instanceVars, addresses, trouble, moved, settled>>

SpecCluster == InitCluster /\ [][NextCluster]_clusterVars

(* Timers fire, passes go on and end, instances are restarted, and the DNS *)
(* is right in the end.  Nothing makes links appear or time pass.          *)
FairSpecCluster ==
    /\ SpecCluster
    /\ WF_clusterVars(Resolve(NumInstances))
    /\ \A i \in Instance :
          /\ WF_clusterVars(CrawlerStep(i))
          /\ WF_clusterVars(PipelineStep(i))
          /\ WF_clusterVars(RankBegin(i) \/ RankEnd(i) \/ RankStop(i))
          /\ WF_clusterVars(cancelled[i] /\ FrontendStop(i))
          /\ WF_clusterVars(GroupReturn(i) \/ Restart(i))
-----------------------------------------------------------------------------
(* As long as all crawlers are told the same number of partitions, no link *)
(* is crawled again before the threshold has passed, by whichever crawler, *)
(* whatever they find meanwhile and however they are restarted.            *)
NotTooSoon ==
    ~moved =>
        \A old \in links, new \in links' :
            old.id = new.id /\ old.retrieved # new.retrieved =>
                old.retrieved = 0 \/ old.retrieved + ReIndexThreshold < now

CrawledOnceADue == [][NotTooSoon]_clusterVars

(* Every link that is found is in the end retrieved, or refused by a link  *)
(* fetcher: the partitions leave none out, and one that was read from the  *)
(* iterator of a pass that was killed, failed or cancelled comes again.    *)
EveryLinkCrawled == \A id \in LinkID : Known(id) ~> id \in settled

(* "all services have completed executing either because the context was   *)
(* cancelled or any of the services reported an error": then Run returns.  *)
GroupReturns ==
    \A i \in Instance :
        (cancelled[i] \/ errored[i]) ~> (group[i] = "returned" \/ ~(cancelled[i] \/ errored[i]))
=============================================================================
