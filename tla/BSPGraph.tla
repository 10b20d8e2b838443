------------------------------- MODULE BSPGraph -------------------------------
(***************************************************************************)
(* The graph processor of src/bsp/graph.go: a caller goroutine that runs   *)
(* supersteps and a pool of worker goroutines that compute vertices, with  *)
(* the in-memory message queue of src/bsp/message/in_memory_queue.go.      *)
(*                                                                         *)
(* Vertex and edge values are left out: the engine never looks at them.    *)
(* A message is represented by the superstep in which it was sent.  The    *)
(* aggregator registry is left out: the engine only stores it.             *)
(*                                                                         *)
(* The compute function is client code: any finite sequence of reading a   *)
(* message, sending, broadcasting and freezing, ending with nil or with an *)
(* error; as both compute functions of the repository do, it returns the   *)
(* error of a send that failed.                                            *)
(***************************************************************************)
EXTENDS Naturals, Sequences, FiniteSets

CONSTANTS VertexID,      \* ids a local vertex may have
          RemoteID,      \* ids the registered Relayer forwards to other graphs
          Worker,        \* worker goroutines (ComputeWorkers of the config)
          MaxSuperstep,  \* bound: no superstep starts beyond this one
          MaxSends,      \* bound: sends or broadcasts of one computation
          MaxEdges,      \* bound: edges of one vertex
          NoVertex       \* what a worker holds between vertices

ASSUME WorkerAssumption == Worker # {} /\ IsFiniteSet(Worker)
ASSUME VertexAssumption == NoVertex \notin VertexID /\ IsFiniteSet(VertexID)
ASSUME BoundAssumption == MaxSuperstep \in Nat /\ MaxSends \in Nat /\ MaxEdges \in Nat

VARIABLES
    vertices,       \* ids of the vertices added
    edges,          \* edges[v]: destinations of v's edges, in order of AddEdge
    active,         \* active[v]: Vertex.active
    msgQueue,       \* msgQueue[v][0], msgQueue[v][1]: the two queues of v
    superstep,      \* Graph.superstep
    activeInStep,   \* Graph.activeInStep
    pendingInStep,  \* Graph.pendingInStep
    errCh,          \* the buffer of errCh, of capacity one, is full
    mainPC,         \* where the caller's goroutine is
    toFeed,         \* vertices step has not written to vertexCh yet
    stepErr,        \* the last step returned an error
    wpc,            \* wpc[w]: where worker w is
    wv,             \* wv[w]: the vertex w received from vertexCh
    wbuf,           \* wbuf[w]: stepMsgQueueBuffer of w
    wout,           \* wout[w]: destinations w has still to call SendMessage for
    wsends,         \* wsends[w]: sends and broadcasts of this computation so far
    due,            \* history: vertices active or with a message when step began
    computed        \* history: vertices computed since step began

engineVars == <<activeInStep, pendingInStep, errCh, stepErr>>
workerVars == <<wpc, wv, wbuf, wout, wsends>>
histVars   == <<due, computed>>
vars == <<vertices, edges, active, msgQueue, superstep, engineVars, mainPC, toFeed,
          workerVars, histVars>>

Destination == VertexID \union RemoteID
EmptyQueues == [v \in VertexID |-> [b \in 0..1 |-> <<>>]]
Current(v)  == msgQueue[v][superstep % 2]
Upcoming(v) == msgQueue[v][(superstep + 1) % 2]

Held(pcs) == {w \in Worker : wpc[w] \in pcs}
Holders == Held({"check", "compute", "failing", "done"})   \* workers with a vertex to account for

TypeOK ==
    /\ vertices \subseteq VertexID
    /\ edges \in [VertexID -> Seq(Destination)]
    /\ active \in [VertexID -> BOOLEAN]
    /\ msgQueue \in [VertexID -> [0..1 -> Seq(0..MaxSuperstep)]]
    /\ superstep \in 0..MaxSuperstep
    /\ activeInStep \in Nat
    /\ pendingInStep \in Nat
    /\ errCh \in BOOLEAN
    /\ mainPC \in {"idle", "noWork", "feeding", "awaiting", "collect", "ended", "closing", "closed"}
    /\ toFeed \subseteq vertices
    /\ stepErr \in BOOLEAN
    /\ wpc \in [Worker -> {"recv", "check", "compute", "failing", "done", "signal", "exited"}]
    /\ wv \in [Worker -> VertexID \union {NoVertex}]
    /\ wbuf \in [Worker -> 0..1]
    /\ wout \in [Worker -> Seq(Destination)]
    /\ wsends \in [Worker -> Nat]
    /\ due \subseteq VertexID
    /\ computed \subseteq VertexID
-----------------------------------------------------------------------------
(* NewGraph, with the workers that startWorkers spawns waiting on vertexCh. *)
Init ==
    /\ vertices = {}
    /\ edges = [v \in VertexID |-> <<>>]
    /\ active = [v \in VertexID |-> FALSE]
    /\ msgQueue = EmptyQueues
    /\ superstep = 0
    /\ activeInStep = 0
    /\ pendingInStep = 0
    /\ errCh = FALSE
    /\ mainPC = "idle"
    /\ toFeed = {}
    /\ stepErr = FALSE
    /\ wpc = [w \in Worker |-> "recv"]
    /\ wv = [w \in Worker |-> NoVertex]
    /\ wbuf = [w \in Worker |-> 0]
    /\ wout = [w \in Worker |-> <<>>]
    /\ wsends = [w \in Worker |-> 0]
    /\ due = {}
    /\ computed = {}

(* The caller runs other code: "idle" before a step, "ended" after one.    *)
CallerRuns == mainPC \in {"idle", "ended"}

(* AddVertex of a new id; for a known id it only overwrites the value.     *)
AddVertex(v) ==
    /\ CallerRuns
    /\ v \notin vertices
    /\ vertices' = vertices \union {v}
    /\ active' = [active EXCEPT ![v] = TRUE]
    /\ UNCHANGED <<edges, msgQueue, superstep, engineVars, mainPC, toFeed, workerVars, histVars>>

(* AddEdge; an unknown source is an error that changes nothing.            *)
AddEdge(src, dst) ==
    /\ CallerRuns
    /\ src \in vertices
    /\ Len(edges[src]) < MaxEdges
    /\ edges' = [edges EXCEPT ![src] = Append(@, dst)]
    /\ UNCHANGED <<vertices, active, msgQueue, superstep, engineVars, mainPC, toFeed,
                   workerVars, histVars>>

(* What Reset does to the graph: a vertex that is dropped takes its edges  *)
(* and queues with it.                                                     *)
ResetGraph ==
    /\ superstep' = 0
    /\ vertices' = {}
    /\ edges' = [v \in VertexID |-> <<>>]
    /\ active' = [v \in VertexID |-> FALSE]
    /\ msgQueue' = EmptyQueues
    /\ due' = {}
    /\ computed' = {}
    /\ stepErr' = FALSE
    /\ UNCHANGED <<activeInStep, pendingInStep, errCh, toFeed>>

Reset ==
    /\ CallerRuns
    /\ mainPC' = "idle"
    /\ ResetGraph
    /\ UNCHANGED workerVars

(* Close: close(vertexCh), wait for the workers to exit, Reset.            *)
Close ==
    /\ CallerRuns
    /\ mainPC' = "closing"
    /\ UNCHANGED <<vertices, edges, active, msgQueue, superstep, engineVars, toFeed,
                   workerVars, histVars>>

(* Mutant: Close waits for the workers before it closes the channel.       *)
VertexChClosedLate == mainPC = "closed"
VertexChClosed == mainPC = "closing"

WorkerExit(w) ==
    /\ VertexChClosed
    /\ wpc[w] = "recv"
    /\ wpc' = [wpc EXCEPT ![w] = "exited"]
    /\ UNCHANGED <<vertices, edges, active, msgQueue, superstep, engineVars, mainPC, toFeed,
                   wv, wbuf, wout, wsends, histVars>>

CloseDone ==
    /\ mainPC = "closing"
    /\ \A w \in Worker : wpc[w] = "exited"
    /\ mainPC' = "closed"
    /\ ResetGraph
    /\ UNCHANGED workerVars
-----------------------------------------------------------------------------
(* step, on the caller's goroutine.                                        *)

(* Mutant: the counter starts one short.                                   *)
PendingAtStartShort == Cardinality(vertices) - 1
PendingAtStart == Cardinality(vertices)

StepBegin ==
    /\ mainPC = "idle"
    /\ activeInStep' = 0
    /\ pendingInStep' = PendingAtStart
    /\ mainPC' = IF vertices = {} THEN "noWork" ELSE "feeding"
    /\ toFeed' = vertices
    /\ due' = {v \in vertices : active[v] \/ Current(v) # <<>>}
    /\ computed' = {}
    /\ UNCHANGED <<vertices, edges, active, msgQueue, superstep, errCh, stepErr, workerVars>>

(* "no work to do": step returns (0, nil) without looking at errCh.        *)
StepNoWork ==
    /\ mainPC = "noWork"
    /\ mainPC' = "ended"
    /\ stepErr' = FALSE
    /\ UNCHANGED <<vertices, edges, active, msgQueue, superstep, activeInStep, pendingInStep,
                   errCh, toFeed, workerVars, histVars>>

(* Mutant: step writes a vertex and keeps it to be written again.          *)
LeftToFeedKeeping(v) == toFeed
LeftToFeed(v) == toFeed \ {v}

(* The unbuffered vertexCh: step writes v as worker w receives it.         *)
Feed(v, w) ==
    /\ mainPC = "feeding"
    /\ v \in toFeed
    /\ wpc[w] = "recv"
    /\ toFeed' = LeftToFeed(v)
    /\ mainPC' = IF LeftToFeed(v) = {} THEN "awaiting" ELSE "feeding"
    /\ wpc' = [wpc EXCEPT ![w] = "check"]
    /\ wv' = [wv EXCEPT ![w] = v]
    /\ UNCHANGED <<vertices, edges, active, msgQueue, superstep, engineVars,
                   wbuf, wout, wsends, histVars>>

(* The unbuffered stepCompletedCh: step receives what worker w writes.     *)
StepCompleted(w) ==
    /\ mainPC = "awaiting"
    /\ wpc[w] = "signal"
    /\ mainPC' = "collect"
    /\ wpc' = [wpc EXCEPT ![w] = "recv"]
    /\ UNCHANGED <<vertices, edges, active, msgQueue, superstep, engineVars, toFeed,
                   wv, wbuf, wout, wsends, histVars>>

(* Mutant: the error is taken from the channel and not returned.           *)
StepResultDropped == FALSE
StepResult == errCh

(* The non-blocking read of errCh, and step's return.                      *)
Collect ==
    /\ mainPC = "collect"
    /\ mainPC' = "ended"
    /\ stepErr' = StepResult
    /\ errCh' = FALSE
    /\ UNCHANGED <<vertices, edges, active, msgQueue, superstep, activeInStep, pendingInStep,
                   toFeed, workerVars, histVars>>

(* After a step that returned nil, Executor.run moves to the next one.     *)
Advance ==
    /\ mainPC = "ended"
    /\ ~stepErr
    /\ superstep < MaxSuperstep
    /\ superstep' = superstep + 1
    /\ mainPC' = "idle"
    /\ due' = {}
    /\ computed' = {}
    /\ UNCHANGED <<vertices, edges, active, msgQueue, engineVars, toFeed, workerVars>>
-----------------------------------------------------------------------------
(* stepWorker, on a worker's goroutine.                                    *)

(* The vertex is computed if it is active or has a message.                *)
Check(w) ==
    LET v == wv[w]
        due_v == active[v] \/ Current(v) # <<>>
    IN  /\ wpc[w] = "check"
        /\ wbuf' = [wbuf EXCEPT ![w] = superstep % 2]
        /\ \/ /\ due_v
              /\ activeInStep' = activeInStep + 1
              /\ active' = [active EXCEPT ![v] = TRUE]
              /\ computed' = computed \union {v}
              /\ wpc' = [wpc EXCEPT ![w] = "compute"]
           \/ /\ ~due_v
              /\ wpc' = [wpc EXCEPT ![w] = "done"]
              /\ UNCHANGED <<activeInStep, active, computed>>
        /\ UNCHANGED <<vertices, edges, msgQueue, superstep, pendingInStep, errCh, mainPC,
                       toFeed, stepErr, wv, wout, wsends, due>>

(* The compute function takes a message: Next of the queue's iterator      *)
(* removes the one enqueued last.                                          *)
NextMessage(w) ==
    /\ wpc[w] = "compute"
    /\ wout[w] = <<>>
    /\ msgQueue[wv[w]][wbuf[w]] # <<>>
    /\ msgQueue' = [msgQueue EXCEPT ![wv[w]][wbuf[w]] = SubSeq(@, 1, Len(@) - 1)]
    /\ UNCHANGED <<vertices, edges, active, superstep, engineVars, mainPC, toFeed,
                   workerVars, histVars>>

(* The compute function calls SendMessage, or BroadcastToNeighbors, which  *)
(* calls SendMessage for each edge of the vertex.                          *)
StartSend(w) ==
    /\ wpc[w] = "compute"
    /\ wout[w] = <<>>
    /\ wsends[w] < MaxSends
    /\ wsends' = [wsends EXCEPT ![w] = @ + 1]
    /\ \E dsts \in {edges[wv[w]]} \union {<<d>> : d \in Destination} :
          wout' = [wout EXCEPT ![w] = dsts]
    /\ UNCHANGED <<vertices, edges, active, msgQueue, superstep, engineVars, mainPC, toFeed,
                   wpc, wv, wbuf, histVars>>

(* The queue SendMessage writes.  Mutant: the one being read.              *)
SendSlotCurrent == superstep % 2
SendSlot == (superstep + 1) % 2

(* SendMessage to a local vertex: the message goes to the queue of the     *)
(* next superstep.                                                         *)
Enqueue(w) ==
    /\ wpc[w] = "compute"
    /\ wout[w] # <<>>
    /\ Head(wout[w]) \in vertices
    /\ msgQueue' = [msgQueue EXCEPT ![Head(wout[w])][SendSlot] = Append(@, superstep)]
    /\ wout' = [wout EXCEPT ![w] = Tail(@)]
    /\ UNCHANGED <<vertices, edges, active, superstep, engineVars, mainPC, toFeed,
                   wpc, wv, wbuf, wsends, histVars>>

(* SendMessage to a vertex of another graph, which the Relayer accepts.    *)
Relay(w) ==
    /\ wpc[w] = "compute"
    /\ wout[w] # <<>>
    /\ Head(wout[w]) \in RemoteID \ vertices
    /\ wout' = [wout EXCEPT ![w] = Tail(@)]
    /\ UNCHANGED <<vertices, edges, active, msgQueue, superstep, engineVars, mainPC, toFeed,
                   wpc, wv, wbuf, wsends, histVars>>

(* SendMessage to an id that is neither local nor taken by the Relayer; a  *)
(* broadcast stops at the first such error.                                *)
SendFails(w) ==
    /\ wpc[w] = "compute"
    /\ wout[w] # <<>>
    /\ Head(wout[w]) \notin vertices
    /\ wout' = [wout EXCEPT ![w] = <<>>]
    /\ wpc' = [wpc EXCEPT ![w] = "failing"]
    /\ UNCHANGED <<vertices, edges, active, msgQueue, superstep, engineVars, mainPC, toFeed,
                   wv, wbuf, wsends, histVars>>

Freeze(w) ==
    /\ wpc[w] = "compute"
    /\ wout[w] = <<>>
    /\ active[wv[w]]
    /\ active' = [active EXCEPT ![wv[w]] = FALSE]
    /\ UNCHANGED <<vertices, edges, msgQueue, superstep, engineVars, mainPC, toFeed,
                   workerVars, histVars>>

(* What DiscardMessages leaves in the queues.                              *)
Discarded(w) == [msgQueue EXCEPT ![wv[w]][wbuf[w]] = <<>>]

(* The compute function returns nil: the messages it did not read go.      *)
ComputeOK(w) ==
    /\ wpc[w] = "compute"
    /\ wout[w] = <<>>
    /\ msgQueue' = Discarded(w)
    /\ wpc' = [wpc EXCEPT ![w] = "done"]
    /\ wsends' = [wsends EXCEPT ![w] = 0]
    /\ UNCHANGED <<vertices, edges, active, superstep, engineVars, mainPC, toFeed,
                   wv, wbuf, wout, histVars>>

(* The compute function returns an error: emitError puts it in errCh       *)
(* unless one is already there; unread messages stay in the queue.         *)
ComputeErr(w) ==
    /\ \/ wpc[w] = "failing"
       \/ wpc[w] = "compute" /\ wout[w] = <<>>
    /\ errCh' = TRUE
    /\ wpc' = [wpc EXCEPT ![w] = "done"]
    /\ wsends' = [wsends EXCEPT ![w] = 0]
    /\ UNCHANGED <<vertices, edges, active, msgQueue, superstep, activeInStep, pendingInStep,
                   mainPC, toFeed, stepErr, wv, wbuf, wout, histVars>>

(* Whether the decrement reaches zero.  Mutants: a worker signals when one *)
(* vertex may still be in work; no worker signals.                         *)
LastOneEarly == pendingInStep <= 2
LastOneNever == FALSE
LastOne == pendingInStep = 1

(* The atomic decrement: the worker that reaches zero signals.             *)
Done(w) ==
    /\ wpc[w] = "done"
    /\ pendingInStep' = pendingInStep - 1
    /\ wpc' = [wpc EXCEPT ![w] = IF LastOne THEN "signal" ELSE "recv"]
    /\ wv' = [wv EXCEPT ![w] = NoVertex]
    /\ wbuf' = [wbuf EXCEPT ![w] = 0]
    /\ UNCHANGED <<vertices, edges, active, msgQueue, superstep, activeInStep, errCh, mainPC,
                   toFeed, stepErr, wout, wsends, histVars>>
-----------------------------------------------------------------------------
WorkerStep(w) ==
    \/ Check(w) \/ NextMessage(w) \/ StartSend(w) \/ Enqueue(w) \/ Relay(w) \/ SendFails(w)
    \/ Freeze(w) \/ ComputeOK(w) \/ ComputeErr(w) \/ Done(w) \/ WorkerExit(w)

(* What the caller's goroutine does inside step and Close.                 *)
EngineStep ==
    \/ \E w \in Worker : (\E v \in VertexID : Feed(v, w)) \/ StepCompleted(w)
    \/ StepNoWork
    \/ Collect
    \/ CloseDone

(* What the caller does between those calls.                               *)
CallerStep ==
    \/ \E v \in VertexID : AddVertex(v) \/ (\E d \in Destination : AddEdge(v, d))
    \/ Reset
    \/ Close
    \/ StepBegin
    \/ Advance

(* A closed graph is not used again.                                       *)
Terminated == mainPC = "closed" /\ UNCHANGED vars

Next ==
    \/ CallerStep
    \/ EngineStep
    \/ \E w \in Worker : WorkerStep(w)
    \/ Terminated

Spec == Init /\ [][Next]_vars

(* Goroutines are scheduled fairly, and compute functions return.          *)
Fairness ==
    /\ WF_vars(EngineStep)
    /\ \A w \in Worker : WF_vars(WorkerStep(w))

FairSpec == Spec /\ Fairness
-----------------------------------------------------------------------------
(* The counter pendingInStep, which step sets and the workers decrement    *)
(* atomically, is at any time of a superstep the number of vertices still  *)
(* to be handed out or in the hands of a worker: it reaches zero once, when *)
(* the last vertex of the superstep is done, and not before.               *)
PendingAccounting ==
    mainPC \in {"feeding", "awaiting"} =>
        pendingInStep = Cardinality(toFeed) + Cardinality(Holders)

(* The barrier of step: outside the feeding and awaiting of a superstep no *)
(* worker holds a vertex, so that what the caller does between supersteps  *)
(* (hooks, AddVertex, AddEdge, Reset, superstep++), which takes no lock,   *)
(* never meets a running compute function.                                 *)
Barrier ==
    mainPC \notin {"feeding", "awaiting"} => \A w \in Worker : wpc[w] \in {"recv", "exited"}

(* A vertex is in the hands of at most one worker, once per superstep: the *)
(* fields active and value and the current queue's iterator, which take no *)
(* lock, have one user.                                                    *)
SingleOwner ==
    /\ \A w \in Holders : wv[w] \in vertices \ toFeed
    /\ \A w1, w2 \in Holders : wv[w1] = wv[w2] => w1 = w2

(* A superstep that begins ends: the workers and the caller, who wait for  *)
(* each other on unbuffered channels, are never all waiting.               *)
StepReturns == mainPC = "feeding" ~> mainPC = "ended"

(* Close returns: every worker sees the closed channel and exits.          *)
CloseReturns == mainPC = "closing" ~> mainPC = "closed"
-----------------------------------------------------------------------------
(* The goroutines, channels and counters implement the plain supersteps of *)
(* module Superstep.                                                       *)
Phase ==
    CASE mainPC = "idle" -> "ready"
      [] mainPC \in {"noWork", "feeding", "awaiting", "collect"} -> "running"
      [] OTHER -> mainPC

Abstract == INSTANCE Superstep WITH
    Message   <- 0..MaxSuperstep,
    inbox     <- [v \in VertexID |-> Current(v)],
    outbox    <- [v \in VertexID |-> Upcoming(v)],
    phase     <- Phase,
    todo      <- toFeed \union {wv[w] : w \in Held({"check"})},
    computing <- {wv[w] : w \in Held({"compute", "failing"})},
    failed    <- errCh \/ stepErr

(* Every behaviour of the worker pool is one of the plain supersteps: each *)
(* due vertex is computed once, an error of any computation is the error   *)
(* of the step even though errCh keeps only one, and the messages of one   *)
(* superstep are the input of the next.                                    *)
ImplementsSuperstep == Abstract!Spec
=============================================================================
