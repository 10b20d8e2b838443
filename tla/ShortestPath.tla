----------------------------- MODULE ShortestPath -----------------------------
(***************************************************************************)
(* The calculator of src/shortestpath on the BSP engine.  A superstep is   *)
(* one step here, as module Superstep allows: what a computation reads was *)
(* sent in the superstep before, so that the computations of a superstep   *)
(* do not affect each other; of several messages with the least cost, any  *)
(* may be read first.                                                      *)
(*                                                                         *)
(* The calculator is a library: vertices and edges may be added and paths  *)
(* be asked for at any time between calculations, and there may be several *)
(* calculations.  int is a type of -(MaxInt + 1) .. MaxInt here.           *)
(***************************************************************************)
EXTENDS Integers, Sequences, FiniteSets, FiniteSetsExt

CONSTANTS ID,              \* what an id may be
          Graphs,          \* what the graph may be at first: [v |-> sequence of edges]
          Costs,           \* costs that are passed to AddEdge
          MaxInt,          \* math.MaxInt64
          None,            \* the empty string and the nil pointer
          MaxAdds,         \* bound on the calls of AddVertex and AddEdge
          MaxCalculations  \* bound on the calls of CalculateShortestPaths

(* There is no edge of a negative cost.                                    *)
Edge == [dstID : ID, cost : Nat]

ASSUME PathAssumption ==
    /\ MaxInt \in Nat \ {0} /\ MaxAdds \in Nat /\ MaxCalculations \in Nat
    /\ Costs \subseteq Int
    /\ None \notin ID \union [minDist : Int, prevInPath : ID \union {None}]
    /\ \A g \in Graphs :
          /\ DOMAIN g \subseteq ID /\ IsFiniteSet(DOMAIN g)
          /\ g \in [DOMAIN g -> Seq(Edge)]

VARIABLES
    edges,      \* edges[v]: the edges of vertex v, of which there is one for each v in the domain
    active,     \* vertices that are not frozen
    value,      \* value[v]: minDist and prevInPath, or None
    queue,      \* queue[b][v]: messages in buffer b of vertex v
    srcID,      \* the source of the calculation, or None
    superstep,  \* the number of the superstep; 1 and 2 stand for all odd and all even ones but 0
    phase,      \* "idle", "running", or "crashed" after a nil dereference
    answer,     \* what ShortestPathTo returned last, or None if there was another call since
    adds,       \* calls of AddVertex and AddEdge
    sources,    \* history: the sources of all calculations, in order
    tainted     \* history: a calculation failed, or the graph was changed after one

vars == <<edges, active, value, queue, srcID, superstep, phase, answer, adds, sources, tainted>>

Vertices == DOMAIN edges
Buffer == superstep % 2
Fresh == [minDist |-> MaxInt, prevInPath |-> None]

(* Addition of two ints, which may wrap around.                            *)
Plus(a, b) == ((a + b + MaxInt + 1) % (2 * (MaxInt + 1))) - (MaxInt + 1)

Init ==
    /\ edges \in Graphs
    /\ active = Vertices
    /\ value = [v \in Vertices |-> None]
    /\ queue = [b \in 0..1 |-> [v \in Vertices |-> {}]]
    /\ srcID = None
    /\ superstep = 0
    /\ phase = "idle"
    /\ answer = None
    /\ adds = 0
    /\ sources = <<>>
    /\ tainted = FALSE

Extended(f, v, x) == [u \in DOMAIN f \union {v} |-> IF u = v THEN x ELSE f[u]]

Adds ==
    /\ phase = "idle"
    /\ adds < MaxAdds
    /\ adds' = adds + 1
    /\ tainted' = (tainted \/ sources # <<>>)
    /\ answer' = None
    /\ UNCHANGED <<srcID, superstep, phase, sources>>

(* A vertex that exists loses its value and nothing else.                  *)
AddVertex(v) ==
    /\ Adds
    /\ value' = Extended(value, v, None)
    /\ \/ /\ v \in Vertices
          /\ UNCHANGED <<edges, active, queue>>
       \/ /\ v \notin Vertices
          /\ edges' = Extended(edges, v, <<>>)
          /\ active' = active \union {v}
          /\ queue' = [b \in 0..1 |-> Extended(queue[b], v, {})]

(* A negative cost and an unknown source are refused.                      *)
AddEdge(v, u, c) ==
    /\ Adds
    /\ IF c >= 0 /\ v \in Vertices
       THEN edges' = [edges EXCEPT ![v] = Append(@, [dstID |-> u, cost |-> c])]
       ELSE UNCHANGED edges
    /\ UNCHANGED <<active, value, queue>>

(* CalculateShortestPaths makes an executor, which sets superstep.         *)
Calculate(s) ==
    /\ phase = "idle"
    /\ Len(sources) < MaxCalculations
    /\ srcID' = s
    /\ superstep' = 0
    /\ phase' = "running"
    /\ sources' = Append(sources, s)
    /\ answer' = None
    /\ UNCHANGED <<edges, active, value, queue, adds, tainted>>
-----------------------------------------------------------------------------
(* stepWorker: who is computed.                                            *)
Computed == {v \in Vertices : v \in active \/ queue[Buffer][v] # {}}

State(v) == IF superstep = 0 THEN Fresh ELSE value[v]
Own(v) == IF v = srcID THEN 0 ELSE MaxInt
Offered(v) == {m.cost : m \in queue[Buffer][v]}
Best(v) == Min({Own(v)} \union Offered(v))

(* The sender of the message that lowers minDist to its final value.       *)
(* Mutant: the sender of the last message read.                            *)
ViaAny(v) ==
    IF Offered(v) = {} THEN {None} ELSE {m.from : m \in queue[Buffer][v]}

Via(v) ==
    IF Best(v) = Own(v) THEN {None}
    ELSE {m.from : m \in {m \in queue[Buffer][v] : m.cost = Best(v)}}

(* Mutant: a path of the same cost replaces one that is known.             *)
NoWorse(v) == Best(v) <= State(v).minDist /\ Best(v) < MaxInt
Improved(v) == Best(v) < State(v).minDist

(* A message to a vertex that does not exist ends the computation with an  *)
(* error; the messages before it have been sent.                           *)
Bad(v) == {i \in DOMAIN edges[v] : edges[v][i].dstID \notin Vertices}
Fails(v) == Improved(v) /\ Bad(v) # {}
Reached(v) == IF ~Improved(v) THEN {}
              ELSE IF Bad(v) = {} THEN DOMAIN edges[v]
              ELSE 1..(Min(Bad(v)) - 1)

(* Mutant: the cost that is sent on is the one known before.               *)
SentOld(u) ==
    UNION {{[from |-> v, cost |-> Plus(State(v).minDist, edges[v][i].cost)] :
                i \in {i \in Reached(v) : edges[v][i].dstID = u}} : v \in Computed}

Sent(u) ==
    UNION {{[from |-> v, cost |-> Plus(Best(v), edges[v][i].cost)] :
                i \in {i \in Reached(v) : edges[v][i].dstID = u}} : v \in Computed}

(* The superstep, and the hook after it, which goes on until a superstep   *)
(* has computed nothing.                                                   *)
Step ==
    /\ phase = "running"
    /\ \A v \in Computed : State(v) # None
    /\ \E via \in [Computed -> UNION {Via(v) : v \in Computed}] :
          /\ \A v \in Computed : via[v] \in Via(v)
          /\ value' = [v \in Vertices |->
                IF v \notin Computed THEN value[v]
                ELSE IF Improved(v) THEN [minDist |-> Best(v), prevInPath |-> via[v]]
                ELSE State(v)]
    /\ queue' = [queue EXCEPT ![Buffer] = [v \in Vertices |-> {}],
                              ![1 - Buffer] = [u \in Vertices |-> @[u] \union Sent(u)]]
    /\ active' = {v \in Computed : Fails(v)}
    /\ \/ /\ active' = {} /\ Computed # {}
          /\ superstep' = IF superstep = 1 THEN 2 ELSE 1
          /\ UNCHANGED <<phase, tainted>>
       \/ /\ active' # {} \/ Computed = {}
          /\ phase' = "idle"
          /\ tainted' = (tainted \/ active' # {})
          /\ UNCHANGED superstep
    /\ UNCHANGED <<edges, srcID, answer, adds, sources>>

(* A computation of a vertex without value dereferences a nil pointer.     *)
Crash ==
    /\ phase = "running"
    /\ \E v \in Computed : State(v) = None
    /\ phase' = "crashed"
    /\ UNCHANGED <<edges, active, value, queue, srcID, superstep, answer, adds, sources, tainted>>
-----------------------------------------------------------------------------
(* The walk from v towards the source: where it is after n steps, None     *)
(* being a nil pointer.                                                    *)
Back(v) ==
    IF v \in {None, srcID} THEN v ELSE IF value[v] = None THEN None ELSE value[v].prevInPath

Walk(v) ==
    LET at[n \in 0..Cardinality(Vertices)] == IF n = 0 THEN v ELSE Back(at[n - 1])
    IN  at

Reversed(at, n) == [i \in 1..(n + 1) |-> at[n + 1 - i]]

(* A nil pointer on the way, or a vertex with no value to begin with, is a *)
(* panic; the walk is endless if it meets neither that nor the source.     *)
Answer(v) ==
    LET at == Walk(v)
        lengths == {n \in DOMAIN at : at[n] = srcID}
        outcome == IF value[v] = None \/ None \in {at[n] : n \in DOMAIN at} THEN "panic"
                   ELSE IF lengths = {} THEN "endless"
                   ELSE "path"
    IN  [outcome |-> outcome, to |-> v,
         path |-> IF outcome = "path" THEN Reversed(at, Min(lengths)) ELSE <<>>,
         cost |-> IF value[v] = None THEN 0 ELSE value[v].minDist]

ShortestPathTo(v) ==
    /\ phase = "idle"
    /\ v \in Vertices
    /\ answer' = Answer(v)
    /\ UNCHANGED <<edges, active, value, queue, srcID, superstep, phase, adds, sources, tainted>>

Next ==
    \/ \E v \in ID : AddVertex(v) \/ Calculate(v) \/ ShortestPathTo(v)
    \/ \E v, u \in ID, c \in Costs : AddEdge(v, u, c)
    \/ Step
    \/ Crash

Spec == Init /\ [][Next]_vars /\ WF_vars(Step \/ Crash)
-----------------------------------------------------------------------------
(* Paths that visit no vertex twice, and their costs, from the graph alone.*)
Paths ==
    {p \in UNION {[1..n -> Vertices] : n \in 1..Cardinality(Vertices)} :
        /\ \A i, j \in DOMAIN p : i # j => p[i] # p[j]
        /\ \A i \in 2..Len(p) : \E k \in DOMAIN edges[p[i - 1]] : edges[p[i - 1]][k].dstID = p[i]}

PathsTo(s, v) == {p \in Paths : p[1] = s /\ p[Len(p)] = v}

HopCost(u, v) ==
    Min({edges[u][k].cost : k \in {k \in DOMAIN edges[u] : edges[u][k].dstID = v}})

(* The cost of the first n vertices of a path, and of all.                 *)
CostUpTo(p) ==
    LET cost[n \in 1..Len(p)] == IF n = 1 THEN 0 ELSE cost[n - 1] + HopCost(p[n - 1], p[n])
    IN  cost

PathCost(p) == CostUpTo(p)[Len(p)]

Distance(s, v) == Min({PathCost(p) : p \in PathsTo(s, v)} \union {MaxInt})

(* The cost of no path that goes on by one edge reaches MaxInt, which      *)
(* stands for infinity.                                                    *)
Fits ==
    \A p \in Paths : \A k \in DOMAIN edges[p[Len(p)]] :
        PathCost(p) + edges[p[Len(p)]][k].cost < MaxInt

Clean == phase = "idle" /\ sources # <<>> /\ ~tainted /\ Fits

(* However messages of equal cost are ordered, the distances are those from*)
(* the source, if it is the source of the first calculation: in the next,  *)
(* every vertex is frozen and none is computed.                             *)
DistancesAreCosts ==
    Clean /\ srcID = sources[1] => \A v \in Vertices : value[v].minDist = Distance(srcID, v)

(* "CalculateShortestPaths finds the shortest path costs from srcID to all *)
(* other vertices in the graph": also if it was called for another source  *)
(* before.                                                                 *)
DistancesOfSource ==
    Clean /\ (\A i \in DOMAIN sources : sources[i] \in Vertices) =>
        \A v \in Vertices : value[v].minDist = Distance(srcID, v)

(* The path that is found by walking back is a shortest path from the      *)
(* source that was asked for last, even if the walk ends there before it   *)
(* reaches the source of the first calculation; the cost returned is that  *)
(* of the path if the two are the same.  The walk ends, and if they are    *)
(* the same it meets a nil pointer only when there is no path.             *)
PathIsShortest ==
    Clean /\ answer # None =>
        /\ answer.outcome # "endless"
        /\ answer.outcome = "path" =>
              /\ answer.path \in PathsTo(srcID, answer.to)
              /\ PathCost(answer.path) = Distance(srcID, answer.to)
        /\ srcID = sources[1] =>
              /\ answer.outcome = "path" => answer.cost = PathCost(answer.path)
              /\ answer.outcome = "panic" => PathsTo(srcID, answer.to) = {}

(* A calculation ends, also with costs of zero on a cycle.                 *)
CalculationEnds == (phase = "running" /\ Fits) ~> (phase # "running")
=============================================================================
