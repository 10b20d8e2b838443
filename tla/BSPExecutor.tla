----------------------------- MODULE BSPExecutor -----------------------------
(***************************************************************************)
(* The Executor of src/bsp/executor.go driving the graph of BSPGraph: the  *)
(* loop of run with its hooks, the error exits and the superstep counter,  *)
(* and a client that builds executors, runs them and changes the graph in  *)
(* between.  The hooks are client code: each returns nil or an error, and  *)
(* PostStepKeepRunning true or false.                                      *)
(***************************************************************************)
EXTENDS BSPGraph, Integers

CONSTANTS Budgets,      \* numSteps the client passes to run; -1 is RunToCompletion
          MaxReuses     \* bound: how often, between two Resets, the client builds an
                        \* executor for a graph that already ran, or runs one again
                        \* after it stopped

ASSUME BudgetsAssumption == Budgets \subseteq Nat \union {-1} /\ MaxReuses \in Nat

VARIABLES
    exPC,       \* where the client's goroutine is in run
    maxSteps,   \* maxSteps of run
    ctxDone,    \* the context has expired
    runErr,     \* the last run returned an error
    reuses,     \* counts up to MaxReuses
    ran,        \* history: supersteps run by the current run
    budget,     \* history: numSteps of the current run
    troubled    \* history: a hook or a computation failed since the current run began

exVars  == <<exPC, maxSteps, ctxDone, runErr, reuses, ran, budget, troubled>>
allVars == <<vars, exVars>>

InitExecutor ==
    /\ Init
    /\ exPC = "none"
    /\ maxSteps = 0
    /\ ctxDone = FALSE
    /\ runErr = FALSE
    /\ reuses = 0
    /\ ran = 0
    /\ budget = 0
    /\ troubled = FALSE

NotRunning == exPC \in {"none", "ready"}
-----------------------------------------------------------------------------
(* NewExecutor on a graph that has run no superstep since it was built or  *)
(* reset, as the PageRank service does: superstep = 0 changes nothing.     *)
NewExecutor ==
    /\ NotRunning
    /\ mainPC = "idle" /\ superstep = 0
    /\ exPC' = "ready"
    /\ UNCHANGED <<vars, maxSteps, ctxDone, runErr, reuses, ran, budget, troubled>>

Reuse == reuses < MaxReuses /\ reuses' = reuses + 1

(* NewExecutor on a graph that has run, as the shortest path calculator    *)
(* does: the superstep counter goes back to zero under the queues.         *)
NewExecutorReusing ==
    /\ Reuse
    /\ NotRunning
    /\ CallerRuns
    /\ exPC' = "ready"
    /\ superstep' = 0
    /\ mainPC' = "idle"
    /\ stepErr' = FALSE
    /\ UNCHANGED <<vertices, edges, active, msgQueue, activeInStep, pendingInStep, errCh, toFeed,
                   workerVars, histVars, maxSteps, ctxDone, runErr, ran, budget, troubled>>

(* RunSteps and RunToCompletion.                                           *)
RunBegin(n) ==
    /\ exPC = "ready"
    /\ superstep + n <= MaxSuperstep
    /\ exPC' = "loop"
    /\ maxSteps' = n
    /\ budget' = n
    /\ ran' = 0
    /\ troubled' = FALSE
    /\ runErr' = FALSE
    /\ UNCHANGED ctxDone

Run(n) ==
    /\ mainPC = "idle"
    /\ RunBegin(n)
    /\ UNCHANGED <<vars, reuses>>

(* Running again after a run that stopped early: superstep was not         *)
(* incremented, and the superstep is run anew.                             *)
RunAgain(n) ==
    /\ Reuse
    /\ mainPC = "ended"
    /\ mainPC' = "idle"
    /\ stepErr' = FALSE
    /\ RunBegin(n)
    /\ UNCHANGED <<vertices, edges, active, msgQueue, superstep, activeInStep, pendingInStep,
                   errCh, toFeed, workerVars, histVars>>

RunReturns(err) ==
    /\ exPC' = "ready"
    /\ runErr' = err
    /\ UNCHANGED <<ctxDone, budget, ran>>

(* The loop condition.                                                     *)
MoreSteps == maxSteps # 0

(* The head of the loop; the select on ctx.Done() that follows breaks out of *)
(* the select only, so both its cases lead to PreStep.                     *)
LoopHead ==
    /\ exPC = "loop"
    /\ \/ ~MoreSteps /\ RunReturns(FALSE)
       \/ MoreSteps /\ exPC' = "pre" /\ UNCHANGED <<ctxDone, runErr, ran, budget>>
    /\ UNCHANGED <<vars, maxSteps, reuses, troubled>>

PreStep(ok) ==
    /\ exPC = "pre"
    /\ troubled' = (troubled \/ ~ok)
    /\ UNCHANGED <<maxSteps, reuses>>
    /\ \/ ok /\ StepBegin /\ exPC' = "step" /\ ran' = ran + 1 /\ UNCHANGED <<ctxDone, runErr, budget>>
       \/ ~ok /\ RunReturns(TRUE) /\ UNCHANGED vars

(* The graph's own work while the client waits in step.                    *)
GraphStep ==
    /\ exPC = "step"
    /\ EngineStep \/ \E w \in Worker : WorkerStep(w)
    /\ UNCHANGED <<exPC, maxSteps, ctxDone, runErr, reuses, ran, budget>>
    /\ troubled' = (troubled \/ \E w \in Worker : ComputeErr(w))

StepReturned ==
    /\ exPC = "step"
    /\ mainPC = "ended"
    /\ \/ stepErr /\ RunReturns(TRUE)
       \/ ~stepErr /\ exPC' = "post" /\ UNCHANGED <<ctxDone, runErr, ran, budget>>
    /\ UNCHANGED <<vars, maxSteps, reuses, troubled>>

PostStep(ok) ==
    /\ exPC = "post"
    /\ troubled' = (troubled \/ ~ok)
    /\ UNCHANGED <<vars, maxSteps, reuses>>
    /\ \/ ok /\ exPC' = "keep" /\ UNCHANGED <<ctxDone, runErr, ran, budget>>
       \/ ~ok /\ RunReturns(TRUE)

(* PostStepKeepRunning; on (true, nil) the loop moves to the next          *)
(* superstep.  At the bound MaxSuperstep the hook does not ask for more.   *)
KeepRunning(keep, ok) ==
    /\ exPC = "keep"
    /\ troubled' = (troubled \/ ~ok)
    /\ UNCHANGED reuses
    /\ \/ /\ keep /\ ok
          /\ Advance
          /\ maxSteps' = maxSteps - 1
          /\ exPC' = "loop"
          /\ UNCHANGED <<ctxDone, runErr, ran, budget>>
       \/ /\ ~(keep /\ ok)
          /\ RunReturns(~ok)
          /\ UNCHANGED <<vars, maxSteps>>

(* The client's context expires.                                           *)
Cancel ==
    /\ ~ctxDone
    /\ ctxDone' = TRUE
    /\ UNCHANGED <<vars, exPC, maxSteps, runErr, reuses, ran, budget, troubled>>

(* The client changes the graph between runs; hooks may, too.              *)
ClientEdits ==
    /\ exPC \notin {"step", "loop"}
    /\ \E v \in VertexID : AddVertex(v) \/ (\E d \in Destination : AddEdge(v, d))
    /\ UNCHANGED exVars

ClientResets ==
    /\ NotRunning
    /\ Reset
    /\ reuses' = 0
    /\ UNCHANGED <<exPC, maxSteps, ctxDone, runErr, ran, budget, troubled>>

ClientCloses ==
    /\ NotRunning
    /\ Close \/ CloseDone \/ \E w \in Worker : WorkerExit(w)
    /\ UNCHANGED exVars
-----------------------------------------------------------------------------
RunLoop ==
    \/ LoopHead
    \/ StepReturned
    \/ \E ok \in BOOLEAN : PreStep(ok) \/ PostStep(ok) \/ (\E keep \in BOOLEAN : KeepRunning(keep, ok))

NextExecutor ==
    \/ NewExecutor
    \/ NewExecutorReusing
    \/ \E n \in Budgets : Run(n) \/ RunAgain(n)
    \/ RunLoop
    \/ GraphStep
    \/ Cancel
    \/ ClientEdits
    \/ ClientResets
    \/ ClientCloses
    \/ Terminated /\ UNCHANGED exVars

SpecExecutor == InitExecutor /\ [][NextExecutor]_allVars

(* The goroutines are scheduled fairly, compute functions and hooks return.*)
FairSpecExecutor ==
    /\ SpecExecutor
    /\ WF_allVars(RunLoop)
    /\ WF_allVars(exPC = "step" /\ EngineStep /\ UNCHANGED exVars)
    /\ \A w \in Worker : WF_allVars(GraphStep /\ WorkerStep(w))
-----------------------------------------------------------------------------
(* RunSteps(n) runs at most n supersteps, and run returns an error exactly *)
(* if a hook, or the computation of any vertex in any of its supersteps,   *)
(* failed since it began: no failure is overtaken by what succeeds later.  *)
RunContract ==
    /\ budget >= 0 => ran <= budget
    /\ exPC = "ready" => runErr = troubled

(* A superstep with a message waiting for a vertex computes that vertex:   *)
(* "processed by receipients in the next superstep".  A client that uses a *)
(* graph again without Reset may see one a superstep late.                 *)
BeginsDue ==
    mainPC = "idle" /\ mainPC' = "feeding" =>
        \A v \in vertices : (\E b \in 0..1 : msgQueue[v][b] # <<>>) => v \in due'

KeptUnlessReused == [][reuses = 0 => BeginsDue]_allVars

(* "until the context expires": when the check at the start of an          *)
(* iteration finds the context expired, the iteration does not go on.      *)
StopsOnExpiry == [][exPC = "loop" /\ ctxDone => exPC' # "pre"]_allVars

(* A run with a finite number of supersteps left to it, or with a          *)
(* PostStepKeepRunning that stops asking for more, returns.                *)
RunCompletes == exPC = "loop" ~> exPC = "ready"
=============================================================================
