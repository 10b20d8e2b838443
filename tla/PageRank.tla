------------------------------- MODULE PageRank -------------------------------
(***************************************************************************)
(* The PageRank program of src/ranker on the BSP engine, with the          *)
(* accumulators of src/bsp/aggregators that its computations share: the    *)
(* supersteps are those of module Superstep, the computations of one of    *)
(* them run at the same time, and an addition to an accumulator is a load  *)
(* and a compare-and-swap that is tried again when it fails.               *)
(*                                                                         *)
(* A score is a number of Scale-ths, and divisions round down: how         *)
(* floating-point numbers are rounded is not modelled, but `exact' tells   *)
(* whether there was anything to round.  A vertex adds up what it          *)
(* receives, so its queue is represented by the sum.                       *)
(***************************************************************************)
EXTENDS Integers, FiniteSets, Functions

CONSTANTS Vertex,
          Graphs,       \* graphs to rank: [v |-> set of destinations] for a set of vertices v
          Workers,      \* ComputeWorkers
          Scale,        \* the score 1
          DampingNum, DampingDen,   \* the damping factor, as a fraction
          MinSAD        \* MinSADForConvergence, in Scale-ths

ASSUME RankAssumption ==
    /\ Workers \in Nat \ {0} /\ Scale \in Nat \ {0} /\ MinSAD \in Nat \ {0}
    /\ DampingNum \in Nat /\ DampingDen \in Nat \ {0} /\ DampingNum < DampingDen
    /\ \A g \in Graphs :
          /\ DOMAIN g \subseteq Vertex /\ IsFiniteSet(DOMAIN g)
          /\ g \in [DOMAIN g -> SUBSET DOMAIN g] /\ \A v \in DOMAIN g : v \notin g[v]

VARIABLES
    out,         \* out[v]: destinations of the edges of vertex v
    superstep,
    phase,       \* the executor: "pre" hook, superstep "running", "post" hook, or "done"
    vpc,         \* vpc[v]: where the computation of v is
    score,       \* score[v]: the vertex value
    received,    \* received[v]: sum of the scores v reads in this superstep
    sent,        \* sent[v]: sum of the scores v will read in the next one
    pageCount,   \* the accumulators: page_count,
    residual,    \* residual_0 and residual_1,
    sad,         \* SAD
    newScore,    \* newScore[v]: local variable of the computation
    oldCur,      \* oldCur[v]: local variable of Aggregate
    before,      \* history: score when the superstep began
    exact        \* history: no division has left a remainder so far

vars == <<out, superstep, phase, vpc, score, received, sent, pageCount, residual, sad,
          newScore, oldCur, before, exact>>

Vertices == DOMAIN out
Zero == [v \in Vertices |-> 0]

Init ==
    /\ out \in Graphs
    /\ superstep = 0
    /\ phase = "pre"
    /\ vpc = [v \in Vertices |-> "done"]
    /\ score = Zero /\ received = Zero /\ sent = Zero
    /\ pageCount = 0 /\ residual = [b \in 0..1 |-> 0] /\ sad = 0
    /\ newScore = Zero /\ oldCur = Zero /\ before = Zero
    /\ exact = TRUE

Abs(x) == IF x < 0 THEN -x ELSE x
Damped(x) == (x * DampingNum) \div DampingDen
Base == (Scale - Damped(Scale)) \div pageCount

(* residualOutputAccName and residualInputAccName.                          *)
ResidualOut(s) == s % 2
ResidualIn(s) == (s + 1) % 2
-----------------------------------------------------------------------------
PreStep ==
    /\ phase = "pre"
    /\ sad' = 0
    /\ residual' = [residual EXCEPT ![ResidualOut(superstep)] = 0]
    /\ phase' = "running"
    /\ vpc' = [v \in Vertices |-> "todo"]
    /\ UNCHANGED <<out, superstep, score, received, sent, pageCount, newScore, oldCur, before, exact>>

Start(v) ==
    /\ phase = "running"
    /\ vpc[v] = "todo"
    /\ Cardinality({u \in Vertices : vpc[u] \notin {"todo", "done"}}) < Workers

(* At superstep 0 the vertices are counted, with one atomic addition.      *)
Count(v) ==
    /\ superstep = 0
    /\ Start(v)
    /\ pageCount' = pageCount + 1
    /\ vpc' = [vpc EXCEPT ![v] = "done"]
    /\ UNCHANGED <<out, superstep, phase, score, received, sent, residual, sad, newScore, oldCur, before, exact>>

(* The messages, the page count and the residual of the superstep before.  *)
Score(v) ==
    /\ superstep > 0
    /\ Start(v)
    /\ newScore' = [newScore EXCEPT ![v] =
          IF superstep = 1 THEN Scale \div pageCount
          ELSE Base + Damped(received[v]) + Damped(residual[ResidualIn(superstep)])]
    /\ vpc' = [vpc EXCEPT ![v] = "loadSAD"]
    /\ UNCHANGED <<out, superstep, phase, score, received, sent, pageCount, residual, sad, oldCur, before, exact>>

(* Aggregate: the load, and the comparison of compare-and-swap.  Mutant:   *)
(* the addition is made to the value loaded, whatever came between.        *)
SwapsAlways(v, cur) == TRUE
Swaps(v, cur) == oldCur[v] = cur

LoadSAD(v) ==
    /\ vpc[v] = "loadSAD"
    /\ oldCur' = [oldCur EXCEPT ![v] = sad]
    /\ vpc' = [vpc EXCEPT ![v] = "swapSAD"]
    /\ UNCHANGED <<out, superstep, phase, score, received, sent, pageCount, residual, sad, newScore, before, exact>>

(* Mutant: the loop does not load again.                                   *)
SwapSADOnce(v) ==
    /\ vpc[v] = "swapSAD"
    /\ \/ /\ Swaps(v, sad)
          /\ sad' = oldCur[v] + Abs(score[v] - newScore[v])
          /\ vpc' = [vpc EXCEPT ![v] = "value"]
       \/ /\ ~Swaps(v, sad)
          /\ UNCHANGED <<vpc, sad>>
    /\ UNCHANGED <<out, superstep, phase, score, received, sent, pageCount, residual, newScore, oldCur, before, exact>>

SwapSAD(v) ==
    /\ vpc[v] = "swapSAD"
    /\ \/ /\ Swaps(v, sad)
          /\ sad' = oldCur[v] + Abs(score[v] - newScore[v])
          /\ vpc' = [vpc EXCEPT ![v] = "value"]
       \/ /\ ~Swaps(v, sad)
          /\ vpc' = [vpc EXCEPT ![v] = "loadSAD"]
          /\ UNCHANGED sad
    /\ UNCHANGED <<out, superstep, phase, score, received, sent, pageCount, residual, newScore, oldCur, before, exact>>

(* SetValue, and the broadcast to the neighbours if there are any.         *)
Distribute(v) ==
    /\ vpc[v] = "value"
    /\ score' = [score EXCEPT ![v] = newScore[v]]
    /\ sent' = [u \in Vertices |->
                   IF u \in out[v] THEN sent[u] + newScore[v] \div Cardinality(out[v]) ELSE sent[u]]
    /\ vpc' = [vpc EXCEPT ![v] = IF out[v] = {} THEN "loadResidual" ELSE "done"]
    /\ UNCHANGED <<out, superstep, phase, received, pageCount, residual, sad, newScore, oldCur, before, exact>>

LoadResidual(v) ==
    /\ vpc[v] = "loadResidual"
    /\ oldCur' = [oldCur EXCEPT ![v] = residual[ResidualOut(superstep)]]
    /\ vpc' = [vpc EXCEPT ![v] = "swapResidual"]
    /\ UNCHANGED <<out, superstep, phase, score, received, sent, pageCount, residual, sad, newScore, before, exact>>

SwapResidual(v) ==
    /\ vpc[v] = "swapResidual"
    /\ LET cur == residual[ResidualOut(superstep)]
       IN  \/ /\ Swaps(v, cur)
              /\ residual' = [residual EXCEPT ![ResidualOut(superstep)] =
                                 oldCur[v] + newScore[v] \div pageCount]
              /\ vpc' = [vpc EXCEPT ![v] = "done"]
           \/ /\ ~Swaps(v, cur)
              /\ vpc' = [vpc EXCEPT ![v] = "loadResidual"]
              /\ UNCHANGED residual
    /\ UNCHANGED <<out, superstep, phase, score, received, sent, pageCount, sad, newScore, oldCur, before, exact>>

StepEnds ==
    /\ phase = "running"
    /\ \A v \in Vertices : vpc[v] = "done"
    /\ phase' = "post"
    /\ UNCHANGED <<out, superstep, vpc, score, received, sent, pageCount, residual, sad, newScore, oldCur, before, exact>>

Converged == superstep > 1 /\ sad < MinSAD

(* What is divided in this superstep and the next has no remainder.        *)
Divides(d, x) == x % d = 0
Degree(v) == IF out[v] = {} THEN pageCount ELSE Cardinality(out[v])

Exact ==
    \A v \in Vertices :
        /\ Divides(Degree(v), score[v])
        /\ Divides(pageCount, Scale) /\ Divides(pageCount, Scale - Damped(Scale))
        /\ \A x \in {Scale, sent[v], residual[ResidualOut(superstep)]} :
              Divides(DampingDen, x * DampingNum)

(* PostStepKeepRunning.                                                    *)
KeepRunning ==
    /\ phase = "post" /\ ~Converged
    /\ phase' = "pre"
    /\ superstep' = superstep + 1
    /\ received' = sent
    /\ sent' = Zero
    /\ before' = score
    /\ exact' = (exact /\ Exact)
    /\ UNCHANGED <<out, vpc, score, pageCount, residual, sad, newScore, oldCur>>

Stop ==
    /\ phase = "post" /\ Converged
    /\ phase' = "done"
    /\ UNCHANGED <<out, superstep, vpc, score, received, sent, pageCount, residual, sad, newScore, oldCur, before, exact>>

Finished == phase = "done" /\ UNCHANGED vars

Compute(v) ==
    Count(v) \/ Score(v) \/ LoadSAD(v) \/ SwapSAD(v) \/ Distribute(v) \/ LoadResidual(v) \/ SwapResidual(v)

Next ==
    \/ PreStep \/ StepEnds \/ KeepRunning \/ Stop \/ Finished
    \/ \E v \in Vertices : Compute(v)

Spec == Init /\ [][Next]_vars
FairSpec == Spec /\ WF_vars(Next)
-----------------------------------------------------------------------------
(* The random surfer goes on from page u along one of its links, here to   *)
(* page v, or from a dead end to any page.                                 *)
Followed(u, v) == IF v \in out[u] THEN before[u] \div Cardinality(out[u]) ELSE 0
Lost(u) == IF out[u] = {} THEN before[u] \div Cardinality(Vertices) ELSE 0

Walk(v) ==
    Base + Damped(SumFunction([u \in Vertices |-> Followed(u, v)]))
         + Damped(SumFunction([u \in Vertices |-> Lost(u)]))

(* However the computations interleave, a superstep is one step of the     *)
(* power iteration, SAD is the sum of the absolute differences that the    *)
(* scores changed by, and the scores are probabilities with sum 1, if only *)
(* they can be divided without remainder.  The scores that remain when the *)
(* run is over changed by less than MinSAD in such a step.                 *)
StepAsDefined ==
    phase \in {"post", "done"} =>
        LET change == SumFunction([v \in Vertices |-> Abs(score[v] - before[v])])
        IN  /\ pageCount = Cardinality(Vertices)
            /\ superstep > 0 => sad = change
            /\ superstep > 1 => \A v \in Vertices : score[v] = Walk(v)
            /\ superstep > 0 /\ exact /\ Vertices # {} => SumFunction(score) = Scale
            /\ phase = "done" => superstep > 1 /\ change < MinSAD

(* "until the desired level of convergence is reached": it is.             *)
Converges == <>(phase = "done")
=============================================================================
