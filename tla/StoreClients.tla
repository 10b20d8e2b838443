------------------------------ MODULE StoreClients ------------------------------
(***************************************************************************)
(* The clients of the link store at work together: the graph updaters of   *)
(* some crawlers and the front ends (GraphUpdater), and the PageRank passes*)
(* of the ranker (RankerService).                                          *)
(***************************************************************************)
EXTENDS GraphUpdater, RankerService

CONSTANT MaxTasks    \* bound: pages and passes in all

ASSUME TasksAssumption == MaxTasks \in Nat

VARIABLE passes      \* passes that were begun

clientVars == <<allUpVars, rankVars, passes>>

InitClients ==
    /\ InitUpdater
    /\ InitRanker
    /\ passes = 0
-----------------------------------------------------------------------------
Update ==
    /\ NextUpdater
    /\ updates' + passes <= MaxTasks
    /\ UNCHANGED <<rankVars, passes>>

Pass ==
    /\ \/ BeginPass /\ updates + passes < MaxTasks /\ passes' = passes + 1
       \/ PassGoesOn /\ UNCHANGED passes
    /\ UNCHANGED upVars

NextClients == Update \/ Pass

SpecClients == InitClients /\ [][NextClients]_clientVars
=============================================================================
