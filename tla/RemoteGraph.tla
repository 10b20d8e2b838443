------------------------------ MODULE RemoteGraph ------------------------------
(***************************************************************************)
(* The iterators of the in-memory link graph (src/graph/store/memory) and  *)
(* the streams by which src/api/graph offers them to other processes: a    *)
(* query over links or edges selects objects, and its result is read one   *)
(* by one while the graph goes on changing.  The reader is in the process  *)
(* of the graph, or is a client whose calls a GraphServer serves.          *)
(***************************************************************************)
EXTENDS InMemoryGraph, GRPCStream, FiniteSets

CONSTANTS Ranges,      \* ranges of ids that are asked for, as sets of ids
          MaxWrites    \* bound: changes of the graph while a query is open

ASSUME RangesAssumption == Ranges \subseteq SUBSET LinkID
ASSUME WritesAssumption == MaxWrites \in Nat

Kinds == {"links", "edges"}
Query(remote) == [remote : {remote}, kind : Kinds, range : Ranges, before : 1..MaxTime]

(* A query without its parameters.                                         *)
Made(q) == [remote |-> q.remote, kind |-> q.kind]

(* What an iterator points to, and what its reader is given: an object,    *)
(* as it was when it was selected and, if it was deleted since, then.      *)
Item == [id : LinkID \union EdgeID, object : Link \union Edge, deleted : Edge \union {Nil}]
Shown == [id : LinkID \union EdgeID, object : Link \union Edge]

(* A nil pointer is no query, no edge and no list of objects.              *)
ASSUME NoObjectAssumption ==
    /\ Nil \notin Query(TRUE) \union [remote : BOOLEAN, kind : Kinds]
    /\ Nil \notin Edge \union Seq(Item)

VARIABLES
    query,    \* the query: whether it is remote, its kind and, until it is made, its parameters; or Nil
    list,     \* the objects the iterator has pointers to, in its order, or Nil
    curIdx,   \* its position
    got,      \* what the reader was given, the last of which is the link or edge it sees now
    outcome,  \* "none", or how reading ended: "end", "error" or "closed"
    writes    \* changes of the graph since the query was made

readerVars == <<query, list, curIdx, got, outcome>>
allVars == <<vars, streamVars, readerVars, writes>>

InitRemote ==
    /\ Init /\ NoStream
    /\ query = Nil /\ list = Nil /\ curIdx = 0
    /\ got = <<>> /\ outcome = "none" /\ writes = 0

(* A pointer: the object as it was when it was selected, and, if it has    *)
(* been deleted since, as it was then.                                     *)
LinkItem(id) == [id |-> id, object |-> links[id], deleted |-> Nil]
EdgeItem(id) == [id |-> id, object |-> edges[id], deleted |-> Nil]

(* Links and Edges: what a query selects, which is listed in an arbitrary  *)
(* order, as maps are walked through.                                      *)
Selected(q) ==
    IF q.kind = "links"
    THEN {LinkItem(id) : id \in {id \in q.range : links[id] # NoLink /\ links[id].retrieved < q.before}}
    ELSE {EdgeItem(id) : id \in {id \in EdgeID : /\ edges[id] # NoEdge
                                                /\ edges[id].src \in q.range
                                                /\ edges[id].updated < q.before}}

Listed(q) ==
    LET items == Selected(q)
    IN  {s \in [1..Cardinality(items) -> items] : {s[i] : i \in DOMAIN s} = items}

(* What a pointer points to is read as it is now.                          *)
Current(item) ==
    [id |-> item.id,
     object |-> IF item.deleted # Nil THEN item.deleted
                ELSE IF query.kind = "links" THEN links[item.id]
                ELSE edges[item.id]]

(* The pointers after a step that may delete edges.                         *)
Detached ==
    IF query = Nil \/ list = Nil \/ query.kind = "links" THEN list
    ELSE [i \in DOMAIN list |->
            IF list[i].deleted = Nil /\ edges[list[i].id] # NoEdge /\ edges'[list[i].id] = NoEdge
            THEN [list[i] EXCEPT !.deleted = edges[list[i].id]]
            ELSE list[i]]

(* The graph changes, as long as that can matter to the query.              *)
Write ==
    /\ outcome = "none" \/ handler = "running"
    /\ writes < MaxWrites
    /\ Next
    /\ list' = Detached
    /\ writes' = IF query = Nil THEN writes ELSE writes + 1
    /\ UNCHANGED <<streamVars, query, curIdx, got, outcome>>

LocalQuery(q) ==
    /\ query = Nil
    /\ query' = Made(q)
    /\ list' \in Listed(q)
    /\ UNCHANGED <<vars, writes, streamVars, curIdx, got, outcome>>

(* Next and Link, or Edge.                                                  *)
LocalNext ==
    /\ query # Nil /\ ~query.remote /\ outcome = "none"
    /\ \/ /\ curIdx < Len(list)
          /\ curIdx' = curIdx + 1
          /\ got' = Append(got, Current(list[curIdx + 1]))
          /\ UNCHANGED outcome
       \/ /\ curIdx = Len(list)
          /\ outcome' = "end"
          /\ UNCHANGED <<curIdx, got>>
    /\ UNCHANGED <<vars, writes, streamVars, query, list>>
-----------------------------------------------------------------------------
(* GraphClient.Links and Edges.                                             *)
ClientQuery(q) ==
    /\ query = Nil
    /\ \/ Call /\ query' = q /\ UNCHANGED outcome
       \/ outcome' = "error" /\ query' = Made(q) /\ UNCHANGED streamVars
    /\ UNCHANGED <<vars, writes, list, curIdx, got>>

(* GraphServer.Links and Edges: the query, the loop over the iterator, and *)
(* how it ends.                                                            *)
ServerQuery ==
    /\ handler = "running" /\ list = Nil
    /\ list' \in Listed(query)
    /\ query' = Made(query)
    /\ UNCHANGED <<vars, writes, streamVars, curIdx, got, outcome>>

ServerSend ==
    /\ handler = "running" /\ list # Nil
    /\ curIdx < Len(list)
    /\ \/ /\ Send(Current(list[curIdx + 1]))
          /\ curIdx' = curIdx + 1
       \/ /\ SendFails
          /\ UNCHANGED curIdx
    /\ UNCHANGED <<vars, writes, query, list, got, outcome>>

ServerReturn ==
    /\ handler = "running" /\ list # Nil
    /\ curIdx = Len(list)
    /\ Finish("ok")
    /\ UNCHANGED <<vars, writes, readerVars>>

(* The client's Next.  Mutant: an error is taken for the end.               *)
OutcomeAlwaysEnd == "end"
OutcomeOf == IF AtEOF THEN "end" ELSE "error"

ClientNext ==
    /\ query # Nil /\ query.remote /\ outcome = "none"
    /\ \/ /\ Receive
          /\ got' = Append(got, Head(wire))
          /\ UNCHANGED outcome
       \/ /\ AtEOF \/ AtError
          /\ Cancel
          /\ outcome' = OutcomeOf
          /\ UNCHANGED got
    /\ UNCHANGED <<vars, writes, query, list, curIdx>>

(* Close, which a client may call at any time.  Mutant: the context goes   *)
(* on, so that the handler is not told.                                    *)
CancelForgotten == UNCHANGED streamVars
CancelCall == Cancel

ClientClose ==
    /\ query # Nil /\ query.remote /\ outcome = "none"
    /\ CancelCall
    /\ outcome' = "closed"
    /\ UNCHANGED <<vars, writes, query, list, curIdx, got>>

Lost ==
    /\ query # Nil /\ query.remote /\ outcome = "none"
    /\ Disconnect
    /\ UNCHANGED <<vars, writes, readerVars>>

Serve == ServerQuery \/ ServerSend \/ ServerReturn
Read == ClientNext \/ ClientClose

NextRemote ==
    \/ Write
    \/ \E q \in Query(FALSE) : LocalQuery(q)
    \/ LocalNext
    \/ \E q \in Query(TRUE) : ClientQuery(q)
    \/ Serve \/ Read \/ Lost

(* The handler is a goroutine; a client reads on or closes its iterator,   *)
(* as the callers in src/service do unless a crawl fails.                  *)
SpecRemote == InitRemote /\ [][NextRemote]_allVars /\ WF_allVars(Serve) /\ WF_allVars(Read)
-----------------------------------------------------------------------------
(* An object that was selected, and what the reader was given for it.      *)
SameObject(old, new) ==
    /\ old.id = new.id
    /\ IF query.kind = "links"
       THEN old.object.url = new.object.url /\ old.object.retrieved <= new.object.retrieved
       ELSE /\ old.object.src = new.object.src /\ old.object.dst = new.object.dst
            /\ old.object.updated <= new.object.updated

(* Whatever happens to the graph, to the connection and to the objects     *)
(* between the query and their reading, the reader is given objects that   *)
(* the query selected, each once and in order, with contents that are not  *)
(* older than they were then; and if reading ends without an error, all of *)
(* them.                                                                   *)
ReadsSelection ==
    list # Nil =>
        /\ Len(got) <= Len(list)
        /\ \A i \in DOMAIN got : SameObject(list[i], got[i])
        /\ outcome = "end" => Len(got) = Len(list)

(* The handler of a call returns once its client has read to the end, has  *)
(* closed the iterator or is gone, so that no iterator of the store stays  *)
(* open.                                                                   *)
HandlerReturns == (handler = "running") ~> (handler = "returned")

=============================================================================
