------------------------------- MODULE BSPProofs -------------------------------
(***************************************************************************)
(* Proofs about BSPGraph and BSPExecutor.                                  *)
(*                                                                         *)
(* BSPGraph: the counter of pending vertices is exact, the superstep is a  *)
(* barrier, and a vertex has one owner; the worker pool implements plain   *)
(* supersteps.                                                             *)
(*                                                                         *)
(* BSPExecutor: executor, hooks and client drive the graph in a way that   *)
(* keeps its invariant, also when a graph is used again without a Reset;   *)
(* what run returns and how many supersteps it runs follow from it.        *)
(***************************************************************************)
EXTENDS BSPExecutor, FiniteSetTheorems, TLAPS

(* How the caller's and the workers' control fit together: step hands out  *)
(* vertices exactly while it is feeding, and a worker waits to signal the  *)
(* end of the superstep only when every vertex is accounted for, alone.    *)
Control ==
    /\ mainPC = "feeding" <=> toFeed # {}
    /\ \A w \in Held({"signal"}) : mainPC = "awaiting" /\ pendingInStep = 0
    /\ \A w1, w2 \in Held({"signal"}) : w1 = w2

IInv == TypeOK /\ Control /\ Barrier /\ PendingAccounting /\ SingleOwner
-----------------------------------------------------------------------------
(* Sets of vertices and of workers are finite, so that their sizes are     *)
(* natural numbers.                                                        *)
LEMMA Finite ==
    ASSUME TypeOK
    PROVE  /\ IsFiniteSet(vertices) /\ Cardinality(vertices) \in Nat
           /\ IsFiniteSet(toFeed) /\ Cardinality(toFeed) \in Nat
           /\ IsFiniteSet(Holders) /\ Cardinality(Holders) \in Nat
<1>1. vertices \subseteq VertexID /\ toFeed \subseteq VertexID
  BY DEF TypeOK
<1>2. Holders \subseteq Worker
  BY DEF Holders, Held
<1>3. IsFiniteSet(vertices) /\ IsFiniteSet(toFeed) /\ IsFiniteSet(Holders)
  BY <1>1, <1>2, FS_Subset, WorkerAssumption, VertexAssumption
<1> QED
  BY <1>3, FS_CardinalityType

LEMMA EmptyQueuesType == EmptyQueues \in [VertexID -> [0..1 -> Seq(0..MaxSuperstep)]]
<1>1. [b \in 0..1 |-> <<>>] \in [0..1 -> Seq(0..MaxSuperstep)]
  OBVIOUS
<1> QED
  BY <1>1 DEF EmptyQueues

LEMMA InitIInv == Init => IInv
<1> SUFFICES ASSUME Init PROVE IInv
  OBVIOUS
<1>1. TypeOK
  <2>1. msgQueue \in [VertexID -> [0..1 -> Seq(0..MaxSuperstep)]]
    BY EmptyQueuesType DEF Init
  <2>2. edges \in [VertexID -> Seq(Destination)] /\ wout \in [Worker -> Seq(Destination)]
    BY DEF Init
  <2>3. superstep \in 0..MaxSuperstep
    BY BoundAssumption DEF Init
  <2>4. /\ vertices \subseteq VertexID /\ toFeed \subseteq vertices
        /\ due \subseteq VertexID /\ computed \subseteq VertexID
        /\ active \in [VertexID -> BOOLEAN] /\ errCh \in BOOLEAN /\ stepErr \in BOOLEAN
        /\ activeInStep \in Nat /\ pendingInStep \in Nat
    BY DEF Init
  <2>5. /\ wv \in [Worker -> VertexID \union {NoVertex}]
        /\ wbuf \in [Worker -> 0..1]
        /\ wsends \in [Worker -> Nat]
    BY DEF Init
  <2>6. /\ wpc \in [Worker -> {"recv", "check", "compute", "failing", "done", "signal", "exited"}]
        /\ mainPC \in {"idle", "noWork", "feeding", "awaiting", "collect", "ended", "closing",
                       "closed"}
    BY DEF Init
  <2> QED
    BY <2>1, <2>2, <2>3, <2>4, <2>5, <2>6 DEF TypeOK
<1>2. Control
  BY DEF Init, Control, Held
<1>3. Barrier
  BY DEF Init, Barrier
<1>4. PendingAccounting
  BY DEF Init, PendingAccounting
<1>5. SingleOwner
  BY DEF Init, SingleOwner, Holders, Held
<1> QED
  BY <1>1, <1>2, <1>3, <1>4, <1>5 DEF IInv
-----------------------------------------------------------------------------
(* Writing one of the two queues of a vertex leaves a pair of queues for   *)
(* every vertex.                                                           *)
LEMMA QueueUpdate ==
    ASSUME msgQueue \in [VertexID -> [0..1 -> Seq(0..MaxSuperstep)]],
           NEW v \in VertexID, NEW b \in 0..1, NEW q \in Seq(0..MaxSuperstep)
    PROVE  [msgQueue EXCEPT ![v][b] = q] \in [VertexID -> [0..1 -> Seq(0..MaxSuperstep)]]
OBVIOUS

(* Next of the in-memory queue's iterator leaves a queue.                  *)
LEMMA ButLastType ==
    ASSUME NEW S, NEW q \in Seq(S), q # <<>>
    PROVE  /\ SubSeq(q, 1, Len(q) - 1) \in Seq(S)
           /\ Len(SubSeq(q, 1, Len(q) - 1)) = Len(q) - 1
           /\ \A i \in 1..(Len(q) - 1) : SubSeq(q, 1, Len(q) - 1)[i] = q[i]
OBVIOUS

LEMMA Parity ==
    ASSUME NEW n \in Nat
    PROVE  n % 2 \in 0..1 /\ (n + 1) % 2 \in 0..1 /\ n % 2 # (n + 1) % 2
OBVIOUS

(* A worker that has received a vertex holds one, during a superstep.      *)
LEMMA HolderFacts ==
    ASSUME IInv, NEW w \in Holders
    PROVE  /\ wv[w] \in vertices /\ wv[w] \in VertexID
           /\ mainPC \in {"feeding", "awaiting"}
           /\ pendingInStep >= 1
<1>1. wv[w] \in vertices /\ wv[w] \in VertexID
  BY DEF IInv, SingleOwner, TypeOK
<1>2. mainPC \in {"feeding", "awaiting"}
  BY DEF IInv, Barrier, Holders, Held
<1>3. Cardinality(Holders) # 0
  BY Finite, FS_EmptySet DEF IInv
<1>4. pendingInStep >= 1
  BY <1>2, <1>3, Finite DEF IInv, PendingAccounting
<1> QED
  BY <1>1, <1>2, <1>4

LEMMA TypeOKStep == IInv /\ [Next]_vars => TypeOK'
<1> SUFFICES ASSUME IInv, [Next]_vars PROVE TypeOK'
  OBVIOUS
<1> USE DEF IInv, engineVars, workerVars, histVars
<1>a. TypeOK
  OBVIOUS
<1>r. ASSUME ResetGraph, UNCHANGED workerVars, CallerRuns \/ mainPC = "closing",
             mainPC' \in {"idle", "closed"}
      PROVE  TypeOK'
  <2>1. msgQueue' \in [VertexID -> [0..1 -> Seq(0..MaxSuperstep)]]
    BY <1>r, EmptyQueuesType DEF ResetGraph
  <2>2. superstep' \in 0..MaxSuperstep
    BY <1>r, BoundAssumption DEF ResetGraph
  <2>3. edges' \in [VertexID -> Seq(Destination)] /\ active' \in [VertexID -> BOOLEAN]
    BY <1>r DEF ResetGraph
  <2>4. toFeed' = {}
    BY <1>r DEF ResetGraph, CallerRuns, Control
  <2> QED
    BY <2>1, <2>2, <2>3, <2>4, <1>a, <1>r DEF ResetGraph, TypeOK
<1>1. ASSUME NEW v \in VertexID, AddVertex(v) PROVE TypeOK'
  BY <1>1 DEF TypeOK, AddVertex
<1>2. ASSUME NEW v \in VertexID, NEW d \in Destination, AddEdge(v, d) PROVE TypeOK'
  BY <1>2 DEF TypeOK, AddEdge
<1>3. CASE Reset
  BY <1>3, <1>r DEF Reset
<1>4. CASE Close
  BY <1>4 DEF TypeOK, Close
<1>5. CASE StepBegin
  BY <1>5, Finite DEF TypeOK, StepBegin, PendingAtStart
<1>6. CASE Advance
  BY <1>6, BoundAssumption DEF TypeOK, Advance
<1>7. ASSUME NEW v \in VertexID, NEW w \in Worker, Feed(v, w) PROVE TypeOK'
  BY <1>7 DEF TypeOK, Feed, LeftToFeed
<1>8. ASSUME NEW w \in Worker, StepCompleted(w) PROVE TypeOK'
  BY <1>8 DEF TypeOK, StepCompleted
<1>9. CASE StepNoWork
  BY <1>9 DEF TypeOK, StepNoWork
<1>10. CASE Collect
  BY <1>10 DEF TypeOK, Collect, StepResult
<1>11. CASE CloseDone
  BY <1>11, <1>r DEF CloseDone
<1>12. ASSUME NEW w \in Worker, Check(w) PROVE TypeOK'
  <2>1. w \in Holders
    BY <1>12 DEF Check, Holders, Held
  <2>2. wv[w] \in VertexID
    BY <2>1, HolderFacts
  <2>3. wbuf' \in [Worker -> 0..1]
    BY <1>12, <1>a, Parity DEF Check, TypeOK
  <2>4. wpc' \in [Worker -> {"recv", "check", "compute", "failing", "done", "signal", "exited"}]
    BY <1>12, <1>a DEF Check, TypeOK
  <2>5. active' \in [VertexID -> BOOLEAN] /\ activeInStep' \in Nat /\ computed' \subseteq VertexID
    <3>1. CASE UNCHANGED <<activeInStep, active, computed>>
      BY <3>1, <1>a DEF TypeOK
    <3>2. CASE activeInStep' = activeInStep + 1
      <4>1. /\ active' = [active EXCEPT ![wv[w]] = TRUE] \/ active' = active
            /\ computed' = computed \union {wv[w]} \/ computed' = computed
        BY <1>12 DEF Check
      <4>2. active \in [VertexID -> BOOLEAN] /\ activeInStep \in Nat /\ computed \subseteq VertexID
        BY <1>a DEF TypeOK
      <4>3. active' \in [VertexID -> BOOLEAN]
        BY <4>1, <4>2
      <4>4. activeInStep' \in Nat
        BY <3>2, <4>2
      <4>5. computed' \subseteq VertexID
        BY <4>1, <4>2, <2>2
      <4> QED
        BY <4>3, <4>4, <4>5
    <3> QED
      BY <1>12, <3>1, <3>2 DEF Check
  <2> QED
    BY <1>12, <1>a, <2>3, <2>4, <2>5 DEF Check, TypeOK
<1>13. ASSUME NEW w \in Worker, NextMessage(w) PROVE TypeOK'
  <2>1. wv[w] \in VertexID /\ wbuf[w] \in 0..1
    BY <1>13, HolderFacts DEF TypeOK, NextMessage, Holders, Held
  <2> DEFINE q == msgQueue[wv[w]][wbuf[w]]
  <2>2. q \in Seq(0..MaxSuperstep)
    BY <2>1 DEF TypeOK
  <2>3. SubSeq(q, 1, Len(q) - 1) \in Seq(0..MaxSuperstep)
    BY <1>13, <2>2, ButLastType DEF NextMessage
  <2>4. msgQueue' \in [VertexID -> [0..1 -> Seq(0..MaxSuperstep)]]
    BY <1>13, <1>a, <2>1, <2>3, QueueUpdate DEF NextMessage, TypeOK
  <2> QED
    BY <1>13, <1>a, <2>4 DEF NextMessage, TypeOK
<1>14. ASSUME NEW w \in Worker, StartSend(w) PROVE TypeOK'
  <2>1. wv[w] \in VertexID
    BY <1>14, HolderFacts DEF StartSend, Holders, Held
  <2>2. \A d \in Destination : <<d>> \in Seq(Destination)
    OBVIOUS
  <2>3. edges[wv[w]] \in Seq(Destination)
    BY <2>1 DEF TypeOK
  <2>4. wout' \in [Worker -> Seq(Destination)]
    <3>1. PICK dsts \in {edges[wv[w]]} \union {<<d>> : d \in Destination} :
              wout' = [wout EXCEPT ![w] = dsts]
      BY <1>14 DEF StartSend
    <3>2. dsts \in Seq(Destination)
      BY <2>2, <2>3
    <3> QED
      BY <1>a, <3>1, <3>2 DEF TypeOK
  <2> QED
    BY <1>14, <1>a, <2>4 DEF StartSend, TypeOK
<1>15. ASSUME NEW w \in Worker, Enqueue(w) PROVE TypeOK'
  BY <1>15, QueueUpdate, Parity DEF TypeOK, Enqueue, SendSlot
<1>16. ASSUME NEW w \in Worker, Relay(w) PROVE TypeOK'
  BY <1>16 DEF TypeOK, Relay
<1>17. ASSUME NEW w \in Worker, SendFails(w) PROVE TypeOK'
  BY <1>17 DEF TypeOK, SendFails
<1>18. ASSUME NEW w \in Worker, Freeze(w) PROVE TypeOK'
  BY <1>18 DEF TypeOK, Freeze
<1>19. ASSUME NEW w \in Worker, ComputeOK(w) PROVE TypeOK'
  BY <1>19, QueueUpdate, HolderFacts DEF TypeOK, ComputeOK, Discarded, Holders, Held
<1>20. ASSUME NEW w \in Worker, ComputeErr(w) PROVE TypeOK'
  BY <1>20 DEF TypeOK, ComputeErr
<1>21. ASSUME NEW w \in Worker, Done(w) PROVE TypeOK'
  BY <1>21, HolderFacts DEF TypeOK, Done, LastOne, Holders, Held
<1>22. ASSUME NEW w \in Worker, WorkerExit(w) PROVE TypeOK'
  BY <1>22 DEF TypeOK, WorkerExit
<1>23. CASE UNCHANGED vars
  BY <1>23 DEF TypeOK, vars
<1> QED
  BY <1>1, <1>2, <1>3, <1>4, <1>5, <1>6, <1>7, <1>8, <1>9, <1>10, <1>11, <1>12, <1>13, <1>14,
     <1>15, <1>16, <1>17, <1>18, <1>19, <1>20, <1>21, <1>22, <1>23
  DEF Next, CallerStep, EngineStep, WorkerStep, Terminated
-----------------------------------------------------------------------------
(* The rest of the invariant is about who holds which vertex: one part for *)
(* each way in which that changes.                                         *)
Custody == Control /\ Barrier /\ PendingAccounting /\ SingleOwner

(* A worker at work on its vertex, between receiving it and the decrement. *)
WorkOnVertex(w) ==
    \/ Check(w) \/ NextMessage(w) \/ StartSend(w) \/ Enqueue(w) \/ Relay(w) \/ SendFails(w)
    \/ Freeze(w) \/ ComputeOK(w) \/ ComputeErr(w)

LEMMA WorkOnVertexCustody ==
    ASSUME IInv, NEW w \in Worker, WorkOnVertex(w)
    PROVE  Custody'
<1> USE DEF engineVars, workerVars, histVars
<1>1. w \in Holders
  BY DEF WorkOnVertex, Holders, Held, Check, NextMessage, StartSend, Enqueue, Relay, SendFails,
         Freeze, ComputeOK, ComputeErr
<1>2. UNCHANGED <<mainPC, toFeed, pendingInStep, wv, vertices>>
  BY DEF WorkOnVertex, Check, NextMessage, StartSend, Enqueue, Relay, SendFails,
         Freeze, ComputeOK, ComputeErr
<1>3. \E pc \in {"check", "compute", "failing", "done"} : wpc' = [wpc EXCEPT ![w] = pc]
  BY <1>1
  DEF WorkOnVertex, Check, NextMessage, StartSend, Enqueue, Relay, SendFails,
      Freeze, ComputeOK, ComputeErr, IInv, TypeOK, Holders, Held
<1>4. Holders' = Holders /\ Held({"signal"})' = Held({"signal"})
  BY <1>1, <1>3 DEF Holders, Held, IInv, TypeOK
<1>5. mainPC \in {"feeding", "awaiting"}
  BY <1>1, HolderFacts
<1>6. Control'
  BY <1>2, <1>4 DEF Control, IInv
<1>7. Barrier'
  BY <1>2, <1>5 DEF Barrier
<1>8. PendingAccounting'
  BY <1>2, <1>4 DEF PendingAccounting, IInv
<1>9. SingleOwner'
  BY <1>2, <1>4 DEF SingleOwner, IInv
<1> QED
  BY <1>6, <1>7, <1>8, <1>9 DEF Custody

(* Outside feeding and awaiting there is nothing in anybody's hands.       *)
LEMMA QuietPool ==
    ASSUME IInv, mainPC \notin {"feeding", "awaiting"}
    PROVE  Holders = {} /\ Held({"signal"}) = {} /\ toFeed = {}
BY DEF IInv, Barrier, Control, Holders, Held

(* A step of the caller that starts no superstep.                          *)
LEMMA CallerCustody ==
    ASSUME IInv, mainPC \notin {"feeding", "awaiting"}, mainPC' \notin {"feeding", "awaiting"},
           UNCHANGED <<toFeed, wv>>,
           wpc' \in [Worker -> {"recv", "exited"}]
    PROVE  Custody'
<1>1. Holders' = {} /\ Held({"signal"})' = {}
  BY DEF Holders, Held
<1>2. Control' /\ Barrier' /\ PendingAccounting' /\ SingleOwner'
  BY <1>1, QuietPool DEF Control, Barrier, PendingAccounting, SingleOwner
<1> QED
  BY <1>2 DEF Custody

LEMMA CallerPool ==
    ASSUME IInv, mainPC \notin {"feeding", "awaiting"}
    PROVE  wpc \in [Worker -> {"recv", "exited"}]
BY DEF IInv, Barrier, TypeOK

LEMMA StepBeginCustody ==
    ASSUME IInv, StepBegin
    PROVE  Custody'
<1> USE DEF StepBegin, workerVars
<1>1. Holders' = {} /\ Held({"signal"})' = {} /\ Holders = {}
  BY QuietPool DEF Holders, Held
<1>2. Control'
  BY <1>1 DEF Control
<1>3. Barrier'
  BY DEF Barrier, IInv
<1>4. PendingAccounting'
  <2>1. pendingInStep' = Cardinality(toFeed') /\ Cardinality(toFeed') \in Nat
    BY Finite DEF PendingAtStart, IInv
  <2>2. Cardinality(Holders') = 0
    BY <1>1, FS_EmptySet
  <2> QED
    BY <2>1, <2>2 DEF PendingAccounting
<1>5. SingleOwner'
  BY <1>1 DEF SingleOwner
<1> QED
  BY <1>2, <1>3, <1>4, <1>5 DEF Custody

LEMMA FeedCustody ==
    ASSUME IInv, NEW v \in VertexID, NEW w \in Worker, Feed(v, w)
    PROVE  Custody'
<1> USE DEF Feed, LeftToFeed, engineVars
<1>1. /\ Holders' = Holders \union {w} /\ w \notin Holders
      /\ Held({"signal"})' = Held({"signal"})
  BY DEF IInv, TypeOK, Holders, Held
<1>2. Cardinality(Holders') = Cardinality(Holders) + 1
  BY <1>1, Finite, FS_AddElement DEF IInv
<1>3. Cardinality(toFeed') = Cardinality(toFeed) - 1
  BY Finite, FS_RemoveElement DEF IInv
<1>4. Control'
  BY <1>1 DEF Control, IInv
<1>5. Barrier'
  BY DEF Barrier
<1>6. PendingAccounting'
  BY <1>2, <1>3, Finite DEF PendingAccounting, IInv
<1>7. SingleOwner'
  <2>1. wv'[w] = v /\ \A u \in Worker : u # w => wv'[u] = wv[u]
    BY DEF IInv, TypeOK
  <2>2. v \in vertices /\ v \in toFeed
    BY DEF IInv, TypeOK
  <2>3. \A u \in Holders : wv[u] # v
    BY <2>2 DEF IInv, SingleOwner
  <2> QED
    BY <1>1, <2>1, <2>2, <2>3 DEF SingleOwner, IInv, Holders, Held
<1> QED
  BY <1>4, <1>5, <1>6, <1>7 DEF Custody

LEMMA StepCompletedCustody ==
    ASSUME IInv, NEW w \in Worker, StepCompleted(w)
    PROVE  Custody'
<1> USE DEF StepCompleted, engineVars
<1>1. w \in Held({"signal"}) /\ pendingInStep = 0
  BY DEF Held, IInv, Control
<1>2. toFeed = {} /\ Cardinality(toFeed) = 0
  BY FS_EmptySet DEF IInv, Control
<1>3. Cardinality(Holders) = 0
  BY <1>1, <1>2, Finite DEF IInv, PendingAccounting
<1>4. Holders = {}
  BY <1>3, Finite, FS_EmptySet DEF IInv
<1>5. wpc' \in [Worker -> {"recv", "exited"}]
  BY <1>1, <1>4 DEF IInv, TypeOK, Control, Holders, Held
<1>6. Holders' = {} /\ Held({"signal"})' = {}
  BY <1>5 DEF Holders, Held
<1> QED
  BY <1>2, <1>5, <1>6 DEF Custody, Control, Barrier, PendingAccounting, SingleOwner

LEMMA DoneCustody ==
    ASSUME IInv, NEW w \in Worker, Done(w)
    PROVE  Custody'
<1> USE DEF Done, LastOne
<1>1. w \in Holders
  BY DEF Holders, Held
<1>2. mainPC \in {"feeding", "awaiting"} /\ pendingInStep >= 1
  BY <1>1, HolderFacts
<1>3. Holders' = Holders \ {w}
  BY <1>1 DEF Holders, Held, IInv, TypeOK
<1>4. Cardinality(Holders') = Cardinality(Holders) - 1
  BY <1>1, <1>3, Finite, FS_RemoveElement DEF IInv
<1>5. PendingAccounting'
  BY <1>2, <1>4, Finite DEF PendingAccounting, IInv, TypeOK
<1>6. Held({"signal"}) = {}
  BY <1>2 DEF IInv, Control
<1>7. pendingInStep = 1 => mainPC = "awaiting"
  <2>1. Cardinality(Holders) >= 1
    BY <1>1, Finite, FS_EmptySet DEF IInv
  <2>2. pendingInStep = 1 => Cardinality(toFeed) = 0
    BY <1>2, <2>1, Finite DEF IInv, PendingAccounting
  <2>3. pendingInStep = 1 => toFeed = {}
    BY <2>2, Finite, FS_EmptySet DEF IInv
  <2> QED
    BY <1>2, <2>3 DEF IInv, Control
<1>8. Held({"signal"})' = IF pendingInStep = 1 THEN {w} ELSE {}
  BY <1>6 DEF Held, IInv, TypeOK
<1>9. Control'
  BY <1>7, <1>8 DEF Control, IInv, TypeOK
<1>10. Barrier'
  BY <1>2 DEF Barrier
<1>11. SingleOwner'
  BY <1>3 DEF SingleOwner, IInv, TypeOK, Holders, Held
<1> QED
  BY <1>5, <1>9, <1>10, <1>11 DEF Custody

LEMMA CustodyStep == IInv /\ [Next]_vars => Custody'
<1> SUFFICES ASSUME IInv, [Next]_vars PROVE Custody'
  OBVIOUS
<1> USE DEF engineVars, workerVars, histVars
<1>1. CASE \/ \E v \in VertexID : AddVertex(v) \/ (\E d \in Destination : AddEdge(v, d))
           \/ Reset \/ Close \/ Advance \/ StepNoWork \/ Collect \/ CloseDone
  <2>1. /\ mainPC \notin {"feeding", "awaiting"} /\ mainPC' \notin {"feeding", "awaiting"}
        /\ UNCHANGED <<toFeed, wv, wpc>>
    BY <1>1 DEF AddVertex, AddEdge, Reset, Close, Advance, StepNoWork, Collect, CloseDone,
                ResetGraph, CallerRuns
  <2> QED
    BY <2>1, CallerCustody, CallerPool
<1>2. CASE StepBegin
  BY <1>2, StepBeginCustody
<1>3. ASSUME NEW v \in VertexID, NEW w \in Worker, Feed(v, w) PROVE Custody'
  BY <1>3, FeedCustody
<1>4. ASSUME NEW w \in Worker, StepCompleted(w) PROVE Custody'
  BY <1>4, StepCompletedCustody
<1>5. ASSUME NEW w \in Worker, WorkOnVertex(w) PROVE Custody'
  BY <1>5, WorkOnVertexCustody
<1>6. ASSUME NEW w \in Worker, Done(w) PROVE Custody'
  BY <1>6, DoneCustody
<1>7. ASSUME NEW w \in Worker, WorkerExit(w) PROVE Custody'
  <2>1. mainPC \notin {"feeding", "awaiting"} /\ UNCHANGED <<mainPC, toFeed, wv>>
    BY <1>7 DEF WorkerExit, VertexChClosed
  <2>2. wpc' \in [Worker -> {"recv", "exited"}]
    BY <1>7, <2>1, CallerPool DEF WorkerExit
  <2> QED
    BY <2>1, <2>2, CallerCustody
<1>8. CASE UNCHANGED vars
  BY <1>8 DEF vars, IInv, Custody, Control, Barrier, PendingAccounting, SingleOwner, Holders, Held
<1> QED
  BY <1>1, <1>2, <1>3, <1>4, <1>5, <1>6, <1>7, <1>8
  DEF Next, CallerStep, EngineStep, WorkerStep, WorkOnVertex, Terminated

(* IInv is inductive: type correctness needs the accounting (the decrement *)
(* stays in the natural numbers), the accounting needs the barrier and the *)
(* way in which the caller and the workers take turns.                     *)
THEOREM Inductive == Spec => []IInv
<1>1. Init => IInv
  BY InitIInv
<1>2. IInv /\ [Next]_vars => IInv'
  BY TypeOKStep, CustodyStep DEF IInv, Custody
<1> QED
  BY <1>1, <1>2, PTL DEF Spec

(* Type correctness.                                                       *)
THEOREM TypeCorrect == Spec => []TypeOK
BY Inductive, PTL DEF IInv

(* The atomic counter of step counts the vertices not handed out and those *)
(* in the hands of a worker, for any number of workers.                    *)
THEOREM PendingIsExact == Spec => []PendingAccounting
BY Inductive, PTL DEF IInv

(* No compute function runs outside a superstep: the caller's unlocked     *)
(* accesses to the graph between supersteps meet no worker.                *)
THEOREM BarrierHolds == Spec => []Barrier
BY Inductive, PTL DEF IInv

(* A vertex has one user at a time, and is handed out once per superstep.  *)
THEOREM OneOwner == Spec => []SingleOwner
BY Inductive, PTL DEF IInv
-----------------------------------------------------------------------------
(* What a superstep leaves.  An error is in errCh until step returns it;   *)
(* a computation reads the queue of this superstep; a message to be read   *)
(* in this superstep is one of a vertex that is still to be computed or is *)
(* being computed, unless an error made a computation leave it there; and  *)
(* between supersteps no message waits for a later one than the next.      *)
ErrorKept ==
    /\ errCh => mainPC \in {"feeding", "awaiting", "collect"}
    /\ stepErr => mainPC \in {"ended", "closing"}

ReadsCurrent == \A w \in Held({"compute", "failing"}) : wbuf[w] = superstep % 2

Todo == toFeed \union {wv[w] : w \in Held({"check"})}
Computing == {wv[w] : w \in Held({"compute", "failing"})}

Drained ==
    /\ \A v \in VertexID \ vertices : Current(v) = <<>> /\ Upcoming(v) = <<>>
    /\ mainPC \in {"noWork", "feeding", "awaiting", "collect", "ended"} =>
          \A v \in VertexID : Current(v) # <<>> => errCh \/ stepErr \/ v \in Todo \union Computing
    /\ mainPC = "noWork" => vertices = {}

NothingAhead == mainPC = "idle" => \A v \in VertexID : Upcoming(v) = <<>>

QueueInv == ErrorKept /\ ReadsCurrent /\ Drained

(* A worker alone decides whether its vertex is still to be looked at or   *)
(* is being computed.                                                      *)
LEMMA VertexMoves ==
    ASSUME IInv, NEW w \in Holders, NEW pc \in {"check", "compute", "failing", "done"},
           wpc' = [wpc EXCEPT ![w] = pc], UNCHANGED <<wv, toFeed>>
    PROVE  /\ wv[w] \in VertexID /\ wv[w] \in vertices
           /\ wv[w] \in Todo <=> wpc[w] = "check"
           /\ wv[w] \in Computing <=> wpc[w] \in {"compute", "failing"}
           /\ Todo' = IF pc = "check" THEN Todo \union {wv[w]} ELSE Todo \ {wv[w]}
           /\ Computing' = IF pc \in {"compute", "failing"} THEN Computing \union {wv[w]}
                           ELSE Computing \ {wv[w]}
<1> DEFINE v == wv[w]
<1>1. v \in VertexID /\ v \in vertices /\ v \notin toFeed
  BY HolderFacts DEF IInv, SingleOwner
<1>2. \A u \in Holders : wv[u] = v => u = w
  BY DEF IInv, SingleOwner
<1>3. /\ w \in Worker
      /\ \A u \in Worker : wpc'[u] = IF u = w THEN pc ELSE wpc[u]
  BY DEF IInv, TypeOK, Holders, Held
<1>4. /\ \A u : u \in Held({"check"}) <=> u \in Worker /\ wpc[u] = "check"
      /\ \A u : u \in Held({"compute", "failing"}) <=> u \in Worker /\ wpc[u] \in {"compute", "failing"}
      /\ \A u : u \in Held({"check"})' <=> u \in Worker /\ wpc'[u] = "check"
      /\ \A u : u \in Held({"compute", "failing"})' <=> u \in Worker /\ wpc'[u] \in {"compute", "failing"}
      /\ \A u \in Worker : wpc[u] \in {"check", "compute", "failing"} => u \in Holders
  BY DEF Held, Holders
<1>5. v \in Todo <=> wpc[w] = "check"
  BY <1>1, <1>2, <1>3, <1>4 DEF Todo
<1>6. v \in Computing <=> wpc[w] \in {"compute", "failing"}
  BY <1>2, <1>3, <1>4 DEF Computing
<1>7. \A u : u \in Todo' <=> IF u = v THEN pc = "check" ELSE u \in Todo
  <2>1. v \in Todo' <=> pc = "check"
    BY <1>1, <1>2, <1>3, <1>4 DEF Todo
  <2>2. ASSUME NEW u, u # v PROVE u \in Todo' <=> u \in Todo
    BY <2>2, <1>3, <1>4 DEF Todo
  <2> QED BY <2>1, <2>2
<1>8. \A u : u \in Computing' <=> IF u = v THEN pc \in {"compute", "failing"} ELSE u \in Computing
  <2>1. v \in Computing' <=> pc \in {"compute", "failing"}
    BY <1>2, <1>3, <1>4 DEF Computing
  <2>2. ASSUME NEW u, u # v PROVE u \in Computing' <=> u \in Computing
    BY <2>2, <1>3, <1>4 DEF Computing
  <2> QED BY <2>1, <2>2
<1> QED BY <1>1, <1>5, <1>6, <1>7, <1>8

LEMMA Handed ==
    ASSUME IInv, NEW v \in VertexID, NEW w \in Worker, Feed(v, w)
    PROVE  Todo' = Todo /\ Computing' = Computing
<1>1. /\ wpc[w] = "recv" /\ v \in toFeed /\ toFeed' = toFeed \ {v}
      /\ \A u \in Worker : /\ wpc'[u] = IF u = w THEN "check" ELSE wpc[u]
                           /\ wv'[u] = IF u = w THEN v ELSE wv[u]
  BY DEF Feed, LeftToFeed, IInv, TypeOK
<1>2. /\ \A u : u \in Held({"check"}) <=> u \in Worker /\ wpc[u] = "check"
      /\ \A u : u \in Held({"compute", "failing"}) <=> u \in Worker /\ wpc[u] \in {"compute", "failing"}
      /\ \A u : u \in Held({"check"})' <=> u \in Worker /\ wpc'[u] = "check"
      /\ \A u : u \in Held({"compute", "failing"})' <=> u \in Worker /\ wpc'[u] \in {"compute", "failing"}
  BY DEF Held
<1>3. \A u : u \in Todo' <=> u \in Todo
  BY <1>1, <1>2 DEF Todo
<1>4. \A u : u \in Computing' <=> u \in Computing
  BY <1>1, <1>2 DEF Computing
<1> QED BY <1>3, <1>4

(* Whoever has no vertex may come and go.                                  *)
LEMMA NothingMoves ==
    ASSUME IInv, UNCHANGED toFeed,
           \A w \in Worker : \/ wpc'[w] = wpc[w] /\ wv'[w] = wv[w]
                             \/ {wpc[w], wpc'[w]} \subseteq {"recv", "done", "signal", "exited"}
    PROVE  Todo' = Todo /\ Computing' = Computing
<1>1. /\ \A u : u \in Held({"check"}) <=> u \in Worker /\ wpc[u] = "check"
      /\ \A u : u \in Held({"compute", "failing"}) <=> u \in Worker /\ wpc[u] \in {"compute", "failing"}
      /\ \A u : u \in Held({"check"})' <=> u \in Worker /\ wpc'[u] = "check"
      /\ \A u : u \in Held({"compute", "failing"})' <=> u \in Worker /\ wpc'[u] \in {"compute", "failing"}
  BY DEF Held
<1>2. \A u : u \in Todo' <=> u \in Todo
  BY <1>1 DEF Todo
<1>3. \A u : u \in Computing' <=> u \in Computing
  BY <1>1 DEF Computing
<1> QED BY <1>2, <1>3

LEMMA QuietSets ==
    ASSUME IInv, mainPC \notin {"feeding", "awaiting"}
    PROVE  Todo = {} /\ Computing = {}
<1>1. toFeed = {} /\ Held({"check"}) = {} /\ Held({"compute", "failing"}) = {}
  BY QuietPool DEF Holders, Held
<1> QED BY <1>1 DEF Todo, Computing

LEMMA QueueWritten ==
    ASSUME IInv, NEW v \in VertexID, NEW b \in 0..1, NEW q,
           msgQueue' = [msgQueue EXCEPT ![v][b] = q]
    PROVE  \A u \in VertexID : \A c \in 0..1 :
               msgQueue'[u][c] = IF u = v /\ c = b THEN q ELSE msgQueue[u][c]
BY DEF IInv, TypeOK

LEMMA Slots ==
    ASSUME IInv
    PROVE  superstep \in Nat /\ superstep % 2 \in 0..1 /\ (superstep + 1) % 2 \in 0..1
           /\ superstep % 2 # (superstep + 1) % 2
BY Parity DEF IInv, TypeOK

(* A worker in its compute function has the vertex and its queue.          *)
LEMMA AtWork ==
    ASSUME IInv, ReadsCurrent, NEW w \in Worker, wpc[w] \in {"compute", "failing"}
    PROVE  /\ w \in Holders /\ wv[w] \in VertexID /\ wv[w] \in vertices /\ wv[w] \in Computing
           /\ mainPC \in {"feeding", "awaiting"} /\ wbuf[w] = superstep % 2
<1>1. w \in Holders /\ w \in Held({"compute", "failing"})
  BY DEF Holders, Held
<1> QED BY <1>1, HolderFacts DEF ReadsCurrent, Computing

LEMMA ErrorKeptStep ==
    ASSUME IInv, ErrorKept, [Next]_vars
    PROVE  ErrorKept'
<1> USE DEF engineVars, workerVars, histVars, ErrorKept
<1>1. ASSUME NEW v \in VertexID, AddVertex(v) \/ (\E d \in Destination : AddEdge(v, d))
      PROVE  ErrorKept'
  BY <1>1 DEF AddVertex, AddEdge
<1>2. CASE Reset \/ CloseDone
  BY <1>2 DEF Reset, CloseDone, ResetGraph, CallerRuns
<1>3. CASE Close \/ StepBegin \/ Advance
  BY <1>3 DEF Close, StepBegin, Advance, CallerRuns
<1>4. CASE StepNoWork \/ Collect
  BY <1>4 DEF StepNoWork, Collect, StepResult
<1>5. ASSUME NEW w \in Worker, StepCompleted(w) \/ (\E v \in VertexID : Feed(v, w))
      PROVE  ErrorKept'
  BY <1>5 DEF StepCompleted, Feed
<1>6. ASSUME NEW w \in Worker, WorkerStep(w) PROVE ErrorKept'
  <2>1. CASE ComputeErr(w)
    <3>1. w \in Holders
      BY <2>1 DEF ComputeErr, Holders, Held
    <3> QED BY <2>1, <3>1, HolderFacts DEF ComputeErr
  <2>2. CASE ~ComputeErr(w)
    <3>1. UNCHANGED <<mainPC, errCh, stepErr>>
      BY <1>6, <2>2 DEF WorkerStep, Check, NextMessage, StartSend, Enqueue, Relay, SendFails, Freeze,
                        ComputeOK, Done, WorkerExit
    <3> QED BY <3>1
  <2> QED BY <2>1, <2>2
<1>7. CASE UNCHANGED vars
  BY <1>7 DEF vars
<1> QED BY <1>1, <1>2, <1>3, <1>4, <1>5, <1>6, <1>7 DEF Next, CallerStep, EngineStep, Terminated

LEMMA ReadsCurrentStep ==
    ASSUME IInv, ReadsCurrent, [Next]_vars
    PROVE  ReadsCurrent'
<1> USE DEF engineVars, workerVars, histVars
<1>h. /\ \A u : u \in Held({"compute", "failing"}) <=> u \in Worker /\ wpc[u] \in {"compute", "failing"}
      /\ \A u : u \in Held({"compute", "failing"})' <=> u \in Worker /\ wpc'[u] \in {"compute", "failing"}
  BY DEF Held
<1>t. wpc \in [Worker -> {"recv", "check", "compute", "failing", "done", "signal", "exited"}]
      /\ wbuf \in [Worker -> 0..1]
  BY DEF IInv, TypeOK
<1>1. CASE CallerStep \/ StepNoWork \/ Collect \/ CloseDone
  <2>1. mainPC \notin {"feeding", "awaiting"} /\ wpc' = wpc
    BY <1>1 DEF CallerStep, AddVertex, AddEdge, Reset, Close, StepBegin, Advance, StepNoWork,
                Collect, CloseDone, CallerRuns
  <2>2. Held({"compute", "failing"}) = {}
    BY <2>1, QuietPool DEF Holders, Held
  <2> QED BY <1>h, <2>1, <2>2 DEF ReadsCurrent
<1>2. ASSUME NEW w \in Worker, StepCompleted(w) \/ (\E v \in VertexID : Feed(v, w))
      PROVE  ReadsCurrent'
  <2>1. /\ UNCHANGED <<superstep, wbuf>>
        /\ \A u \in Worker : wpc'[u] \in {"compute", "failing"} => wpc[u] \in {"compute", "failing"}
    BY <1>2, <1>t DEF StepCompleted, Feed
  <2> QED BY <1>h, <2>1 DEF ReadsCurrent
<1>3. ASSUME NEW w \in Worker, WorkerStep(w) PROVE ReadsCurrent'
  <2>1. CASE Check(w)
    <3>1. /\ superstep' = superstep
          /\ \A u \in Worker : wbuf'[u] = IF u = w THEN superstep % 2 ELSE wbuf[u]
          /\ \A u \in Worker : u # w => wpc'[u] = wpc[u]
      BY <2>1, <1>t DEF Check
    <3> QED BY <1>h, <3>1 DEF ReadsCurrent
  <2>2. CASE Done(w)
    <3>1. /\ superstep' = superstep
          /\ \A u \in Worker : u # w => wbuf'[u] = wbuf[u] /\ wpc'[u] = wpc[u]
          /\ wpc'[w] \in {"signal", "recv"}
      BY <2>2, <1>t DEF Done
    <3> QED BY <1>h, <3>1 DEF ReadsCurrent
  <2>3. CASE ~Check(w) /\ ~Done(w)
    <3>1. /\ UNCHANGED <<superstep, wbuf>>
          /\ \A u \in Worker : wpc'[u] \in {"compute", "failing"} => wpc[u] \in {"compute", "failing"}
      BY <1>3, <2>3, <1>t DEF WorkerStep, NextMessage, StartSend, Enqueue, Relay, SendFails, Freeze,
                              ComputeOK, ComputeErr, WorkerExit
    <3> QED BY <1>h, <3>1 DEF ReadsCurrent
  <2> QED BY <2>1, <2>2, <2>3
<1>4. CASE UNCHANGED vars
  BY <1>4, <1>h DEF vars, ReadsCurrent
<1> QED BY <1>1, <1>2, <1>3, <1>4 DEF Next, EngineStep, Terminated

(* While a superstep runs, only computations read, and nothing is added    *)
(* to what they read.                                                      *)
LEMMA DrainedKept ==
    ASSUME IInv, Drained, mainPC \in {"feeding", "awaiting"},
           mainPC' \in {"feeding", "awaiting", "collect"},
           superstep' = superstep, vertices' = vertices, stepErr' = stepErr,
           errCh => errCh',
           \A v \in VertexID \ vertices : Current(v)' = Current(v) /\ Upcoming(v)' = Upcoming(v),
           \A v \in VertexID : \/ Current(v)' = <<>>
                               \/ errCh'
                               \/ Current(v)' = Current(v) /\ (v \in Todo \union Computing
                                                                => v \in Todo' \union Computing')
                               \/ v \in Todo' \union Computing'
    PROVE  Drained'
BY DEF Drained

LEMMA WorkerDrained ==
    ASSUME IInv, ReadsCurrent, Drained, NEW w \in Worker, WorkerStep(w)
    PROVE  Drained'
<1> USE DEF engineVars, workerVars, histVars
<1>s. superstep \in Nat /\ superstep % 2 \in 0..1 /\ (superstep + 1) % 2 \in 0..1
      /\ superstep % 2 # (superstep + 1) % 2
  BY Slots
<1>t. wpc \in [Worker -> {"recv", "check", "compute", "failing", "done", "signal", "exited"}]
      /\ wv \in [Worker -> VertexID \union {NoVertex}]
  BY DEF IInv, TypeOK
<1>1. CASE Check(w)
  <2>1. PICK pc \in {"compute", "done"} : wpc' = [wpc EXCEPT ![w] = pc]
    BY <1>1 DEF Check
  <2>2. w \in Holders /\ wpc[w] = "check"
        /\ UNCHANGED <<wv, toFeed, vertices, msgQueue, superstep, mainPC, errCh, stepErr>>
    BY <1>1 DEF Check, Holders, Held
  <2>3. /\ wv[w] \in VertexID
        /\ Todo' = Todo \ {wv[w]}
        /\ Computing' = IF pc = "compute" THEN Computing \union {wv[w]} ELSE Computing \ {wv[w]}
        /\ wv[w] \notin Computing
    BY <2>1, <2>2, VertexMoves
  <2>4. pc = "done" => Current(wv[w]) = <<>>
    BY <1>1, <1>t, <2>1, <2>2 DEF Check
  <2>5. mainPC \in {"feeding", "awaiting"}
    BY <2>2, HolderFacts
  <2>6. \A v \in VertexID : Current(v)' = Current(v) /\ Upcoming(v)' = Upcoming(v)
    BY <2>2 DEF Current, Upcoming
  <2> QED BY <2>1, <2>2, <2>3, <2>4, <2>5, <2>6, DrainedKept
<1>2. CASE NextMessage(w) \/ ComputeOK(w) \/ Enqueue(w)
  <2>1. wpc[w] = "compute"
    BY <1>2 DEF NextMessage, ComputeOK, Enqueue
  <2>2. /\ w \in Holders /\ wv[w] \in VertexID /\ wv[w] \in vertices /\ wv[w] \in Computing
        /\ mainPC \in {"feeding", "awaiting"} /\ wbuf[w] = superstep % 2
    BY <2>1, AtWork
  <2>3. UNCHANGED <<wv, toFeed, vertices, superstep, mainPC, errCh, stepErr>>
    BY <1>2 DEF NextMessage, ComputeOK, Enqueue
  <2>4. CASE NextMessage(w)
    <3>1. PICK q : msgQueue' = [msgQueue EXCEPT ![wv[w]][superstep % 2] = q]
      BY <2>4, <2>2 DEF NextMessage
    <3>4. wpc' = wpc
      BY <2>4 DEF NextMessage
    <3>2. \A u \in VertexID : u # wv[w] => Current(u)' = Current(u) /\ Upcoming(u)' = Upcoming(u)
      BY <1>s, <2>2, <2>3, <3>1, QueueWritten DEF Current, Upcoming
    <3>3. Todo' = Todo /\ Computing' = Computing
      BY <2>3, <3>4, NothingMoves
    <3> QED BY <2>2, <2>3, <3>2, <3>3, DrainedKept
  <2>5. CASE ComputeOK(w)
    <3>1. msgQueue' = [msgQueue EXCEPT ![wv[w]][superstep % 2] = <<>>]
          /\ wpc' = [wpc EXCEPT ![w] = "done"]
      BY <2>5, <2>2 DEF ComputeOK, Discarded
    <3>4. \A u \in VertexID : \A c \in 0..1 :
             msgQueue'[u][c] = IF u = wv[w] /\ c = superstep % 2 THEN <<>> ELSE msgQueue[u][c]
      BY <1>s, <2>2, <3>1 DEF IInv, TypeOK
    <3>2. /\ Current(wv[w])' = <<>>
          /\ \A u \in VertexID : u # wv[w] => Current(u)' = Current(u) /\ Upcoming(u)' = Upcoming(u)
      BY <1>s, <2>2, <2>3, <3>4 DEF Current, Upcoming
    <3>3. Todo' = Todo \ {wv[w]} /\ Computing' = Computing \ {wv[w]}
      BY <2>2, <2>3, <3>1, VertexMoves
    <3> QED BY <2>2, <2>3, <3>2, <3>3, DrainedKept
  <2>6. CASE Enqueue(w)
    <3> DEFINE u == Head(wout[w])
    <3>1. /\ u \in vertices
          /\ msgQueue' = [msgQueue EXCEPT ![u][(superstep + 1) % 2] =
                             Append(msgQueue[u][(superstep + 1) % 2], superstep)]
          /\ wpc' = wpc
      BY <2>6 DEF Enqueue, SendSlot
    <3>2. u \in VertexID
      BY <3>1 DEF IInv, TypeOK
    <3>3. /\ \A v \in VertexID : Current(v)' = Current(v)
          /\ \A v \in VertexID \ vertices : Upcoming(v)' = Upcoming(v)
      <4> HIDE DEF u
      <4> QED BY <1>s, <2>3, <3>1, <3>2, QueueWritten DEF Current, Upcoming
    <3>4. Todo' = Todo /\ Computing' = Computing
      BY <2>3, <3>1, NothingMoves
    <3> QED BY <2>2, <2>3, <3>3, <3>4, DrainedKept
  <2> QED BY <1>2, <2>4, <2>5, <2>6
<1>3. CASE StartSend(w) \/ Relay(w) \/ SendFails(w) \/ Freeze(w)
  <2>1. wpc[w] = "compute"
    BY <1>3 DEF StartSend, Relay, SendFails, Freeze
  <2>2. w \in Holders /\ wv[w] \in Computing /\ mainPC \in {"feeding", "awaiting"}
    BY <2>1, AtWork
  <2>3. UNCHANGED <<wv, toFeed, vertices, msgQueue, superstep, mainPC, errCh, stepErr>>
    BY <1>3 DEF StartSend, Relay, SendFails, Freeze
  <2>4. PICK pc \in {"compute", "failing"} : wpc' = [wpc EXCEPT ![w] = pc]
    BY <1>3, <1>t, <2>1 DEF StartSend, Relay, SendFails, Freeze
  <2>5. Todo' = Todo \ {wv[w]} /\ wv[w] \notin Todo /\ Computing' = Computing \union {wv[w]}
    BY <2>1, <2>2, <2>3, <2>4, VertexMoves
  <2>6. \A v \in VertexID : Current(v)' = Current(v) /\ Upcoming(v)' = Upcoming(v)
    BY <2>3 DEF Current, Upcoming
  <2> QED BY <2>2, <2>3, <2>5, <2>6, DrainedKept
<1>4. CASE ComputeErr(w)
  <2>1. wpc[w] \in {"compute", "failing"} /\ errCh' /\ wpc' = [wpc EXCEPT ![w] = "done"]
        /\ UNCHANGED <<vertices, msgQueue, superstep, mainPC, stepErr>>
    BY <1>4 DEF ComputeErr
  <2>2. mainPC \in {"feeding", "awaiting"}
    BY <2>1, AtWork
  <2>3. \A v \in VertexID : Current(v)' = Current(v) /\ Upcoming(v)' = Upcoming(v)
    BY <2>1 DEF Current, Upcoming
  <2> QED BY <2>1, <2>2, <2>3, DrainedKept
<1>5. CASE Done(w)
  <2>1. /\ wpc[w] = "done" /\ wpc'[w] \in {"signal", "recv"}
        /\ \A u \in Worker : u # w => wpc'[u] = wpc[u] /\ wv'[u] = wv[u]
        /\ UNCHANGED <<toFeed, vertices, msgQueue, superstep, mainPC, errCh, stepErr>>
    BY <1>5, <1>t DEF Done
  <2>2. Todo' = Todo /\ Computing' = Computing
    BY <2>1, NothingMoves
  <2>3. w \in Holders
    BY <2>1 DEF Holders, Held
  <2>4. mainPC \in {"feeding", "awaiting"}
    BY <2>3, HolderFacts
  <2>5. \A v \in VertexID : Current(v)' = Current(v) /\ Upcoming(v)' = Upcoming(v)
    BY <2>1 DEF Current, Upcoming
  <2> QED BY <2>1, <2>2, <2>4, <2>5, DrainedKept
<1>6. CASE WorkerExit(w)
  <2>1. mainPC' = "closing" /\ UNCHANGED <<vertices, msgQueue, superstep>>
    BY <1>6 DEF WorkerExit, VertexChClosed
  <2> QED BY <2>1 DEF Drained, Current, Upcoming
<1> QED BY <1>1, <1>2, <1>3, <1>4, <1>5, <1>6 DEF WorkerStep

(* Outside a superstep, what is left over is what an error left.           *)
LEMMA DrainedBetween ==
    ASSUME Drained, UNCHANGED <<msgQueue, superstep>>,
           vertices \subseteq vertices', mainPC' = "noWork" => vertices' = {},
           mainPC' \in {"noWork", "feeding", "awaiting", "collect", "ended"} =>
               \/ Todo' = vertices'
               \/ /\ mainPC \in {"noWork", "feeding", "awaiting", "collect", "ended"}
                  /\ errCh \/ stepErr => errCh' \/ stepErr'
                  /\ Todo \union Computing \subseteq Todo' \union Computing'
    PROVE  Drained'
<1>1. \A v \in VertexID : Current(v)' = Current(v) /\ Upcoming(v)' = Upcoming(v)
  BY DEF Current, Upcoming
<1> QED BY <1>1 DEF Drained

LEMMA AllEmpty ==
    ASSUME IInv, ResetGraph
    PROVE  /\ \A v \in VertexID : Current(v)' = <<>> /\ Upcoming(v)' = <<>>
           /\ vertices' = {}
<1>1. superstep' = 0 /\ msgQueue' = EmptyQueues /\ vertices' = {}
  BY DEF ResetGraph
<1>2. superstep' % 2 \in 0..1 /\ (superstep' + 1) % 2 \in 0..1
  BY <1>1
<1>3. \A v \in VertexID : \A b \in 0..1 : EmptyQueues[v][b] = <<>>
  BY DEF EmptyQueues
<1> QED BY <1>1, <1>2, <1>3 DEF Current, Upcoming

(* At the end of a superstep without an error there is nothing left to     *)
(* read, and the other queues become those of the next superstep.          *)
LEMMA QueuesSwap ==
    ASSUME IInv, Drained, Advance, ErrorKept
    PROVE  \A v \in VertexID : /\ Current(v)' = Upcoming(v)
                               /\ Upcoming(v)' = <<>> /\ Current(v) = <<>>
<1>1. mainPC = "ended" /\ ~stepErr /\ superstep' = superstep + 1 /\ msgQueue' = msgQueue
  BY DEF Advance
<1>2. superstep \in Nat
  BY DEF IInv, TypeOK
<1>3. (superstep + 1 + 1) % 2 = superstep % 2
  BY <1>2
<1>4. \A v \in VertexID : Current(v)' = Upcoming(v) /\ Upcoming(v)' = Current(v)
  BY <1>1, <1>3 DEF Current, Upcoming
<1>5. Todo = {} /\ Computing = {}
  BY <1>1, QuietSets
<1>6. \A v \in VertexID : Current(v) = <<>>
  BY <1>1, <1>5 DEF Drained, ErrorKept
<1> QED BY <1>4, <1>6

LEMMA DrainedStep ==
    ASSUME IInv, QueueInv, [Next]_vars
    PROVE  Drained'
<1> USE DEF engineVars, workerVars, histVars, QueueInv
<1>1. ASSUME NEW v \in VertexID, AddVertex(v) \/ (\E d \in Destination : AddEdge(v, d))
      PROVE  Drained'
  <2>1. /\ CallerRuns /\ vertices \subseteq vertices'
        /\ UNCHANGED <<msgQueue, superstep, errCh, stepErr, toFeed, wpc, wv, mainPC>>
    BY <1>1 DEF AddVertex, AddEdge
  <2>2. Todo' = Todo /\ Computing' = Computing
    BY <2>1, NothingMoves
  <2> QED BY <2>1, <2>2, DrainedBetween DEF CallerRuns
<1>2. CASE Reset \/ CloseDone
  <2>1. ResetGraph /\ mainPC' \in {"idle", "closed"}
    BY <1>2 DEF Reset, CloseDone
  <2> QED BY <2>1, AllEmpty DEF Drained
<1>3. CASE Close
  BY <1>3, DrainedBetween DEF Close
<1>4. CASE StepBegin
  <2>1. /\ toFeed' = vertices /\ wpc' = wpc /\ vertices' = vertices
        /\ UNCHANGED <<msgQueue, superstep>>
        /\ mainPC = "idle" /\ mainPC' = IF vertices = {} THEN "noWork" ELSE "feeding"
    BY <1>4 DEF StepBegin
  <2>2. Held({"check"})' = {}
    BY <2>1, CallerPool DEF Held
  <2>3. Todo' = vertices'
    BY <2>1, <2>2 DEF Todo
  <2> QED BY <2>1, <2>3, DrainedBetween
<1>5. CASE Advance
  <2>1. vertices' = vertices /\ mainPC' = "idle"
    BY <1>5 DEF Advance
  <2> QED BY <1>5, <2>1, QueuesSwap DEF Drained
<1>6. CASE StepNoWork \/ Collect
  <2>1. /\ UNCHANGED <<msgQueue, superstep, vertices, toFeed, wpc, wv>>
        /\ mainPC \in {"noWork", "collect"} /\ mainPC' = "ended"
        /\ errCh \/ stepErr => errCh' \/ stepErr'
    BY <1>6 DEF StepNoWork, Collect, StepResult, ErrorKept
  <2>2. Todo' = Todo /\ Computing' = Computing
    BY <2>1, NothingMoves
  <2> QED BY <2>1, <2>2, DrainedBetween
<1>7. ASSUME NEW w \in Worker, NEW v \in VertexID, Feed(v, w) PROVE Drained'
  <2>1. /\ UNCHANGED <<msgQueue, superstep, vertices, errCh, stepErr>>
        /\ mainPC = "feeding" /\ mainPC' \in {"feeding", "awaiting"}
    BY <1>7 DEF Feed
  <2> QED BY <1>7, <2>1, Handed, DrainedBetween
<1>8. ASSUME NEW w \in Worker, StepCompleted(w) PROVE Drained'
  <2>1. /\ UNCHANGED <<msgQueue, superstep, vertices, errCh, stepErr, toFeed, wv>>
        /\ mainPC = "awaiting" /\ mainPC' = "collect"
        /\ \A u \in Worker : wpc'[u] = wpc[u] \/ {wpc[u], wpc'[u]} \subseteq {"signal", "recv"}
    BY <1>8 DEF StepCompleted, IInv, TypeOK
  <2>2. Todo' = Todo /\ Computing' = Computing
    BY <2>1, NothingMoves
  <2> QED BY <2>1, <2>2, DrainedBetween
<1>9. ASSUME NEW w \in Worker, WorkerStep(w) PROVE Drained'
  BY <1>9, WorkerDrained
<1>10. CASE UNCHANGED vars
  <2>1. UNCHANGED <<msgQueue, superstep, vertices, errCh, stepErr, toFeed, wv, wpc, mainPC>>
    BY <1>10 DEF vars
  <2>2. Todo' = Todo /\ Computing' = Computing
    BY <2>1, NothingMoves
  <2> QED BY <2>1, <2>2, DrainedBetween DEF Drained
<1> QED BY <1>1, <1>2, <1>3, <1>4, <1>5, <1>6, <1>7, <1>8, <1>9, <1>10
        DEF Next, CallerStep, EngineStep, Terminated

LEMMA QueueInvInit == Init => QueueInv /\ NothingAhead
<1> SUFFICES ASSUME Init PROVE QueueInv /\ NothingAhead
  OBVIOUS
<1>1. ErrorKept
  BY DEF Init, ErrorKept
<1>2. ReadsCurrent
  BY DEF Init, ReadsCurrent, Held
<1>3. \A v \in VertexID : Current(v) = <<>> /\ Upcoming(v) = <<>>
  <2>1. superstep % 2 \in 0..1 /\ (superstep + 1) % 2 \in 0..1
    BY DEF Init
  <2> QED BY <2>1 DEF Init, EmptyQueues, Current, Upcoming
<1>4. Drained /\ NothingAhead
  BY <1>3 DEF Init, Drained, NothingAhead
<1> QED BY <1>1, <1>2, <1>4 DEF QueueInv

LEMMA QueueInvStep ==
    ASSUME IInv, QueueInv, [Next]_vars
    PROVE  QueueInv'
BY ErrorKeptStep, ReadsCurrentStep, DrainedStep DEF QueueInv

LEMMA NothingAheadStep ==
    ASSUME IInv, QueueInv, NothingAhead, [Next]_vars
    PROVE  NothingAhead'
<1> USE DEF engineVars, workerVars, histVars, QueueInv
<1> SUFFICES ASSUME mainPC' = "idle" PROVE \A v \in VertexID : Upcoming(v)' = <<>>
  BY DEF NothingAhead
<1>1. CASE Reset
  BY <1>1, AllEmpty DEF Reset
<1>2. CASE Advance
  BY <1>2, QueuesSwap
<1>3. CASE mainPC = "idle" /\ UNCHANGED <<msgQueue, superstep>>
  BY <1>3 DEF NothingAhead, Upcoming
<1>4. ASSUME NEW w \in Worker, WorkerStep(w) PROVE mainPC' # "idle"
  <2>1. CASE WorkerExit(w)
    BY <2>1 DEF WorkerExit, VertexChClosed
  <2>2. CASE ~WorkerExit(w)
    <3>1. w \in Holders /\ mainPC' = mainPC
      BY <1>4, <2>2 DEF WorkerStep, Check, NextMessage, StartSend, Enqueue, Relay, SendFails, Freeze,
                        ComputeOK, ComputeErr, Done, Holders, Held
    <3> QED BY <3>1, HolderFacts
  <2> QED BY <2>1, <2>2
<1> QED BY <1>1, <1>2, <1>3, <1>4
        DEF Next, CallerStep, EngineStep, Terminated, AddVertex, AddEdge, Close, StepBegin,
            StepNoWork, Collect, CloseDone, Feed, StepCompleted, CallerRuns, vars
-----------------------------------------------------------------------------
(* The worker pool implements plain supersteps.  What a computation does   *)
(* to its queue is what it does to the inbox of its vertex, and a message  *)
(* that it sends goes to the outbox of another.                            *)
Inbox == [v \in VertexID |-> Current(v)]
Outbox == [v \in VertexID |-> Upcoming(v)]
Failed == errCh \/ stepErr

LEMMA Mapping ==
    ASSUME IInv
    PROVE  /\ Inbox \in [VertexID -> Seq(0..MaxSuperstep)]
           /\ Outbox \in [VertexID -> Seq(0..MaxSuperstep)]
           /\ \A v \in VertexID : Inbox[v] = Current(v) /\ Outbox[v] = Upcoming(v)
BY Slots DEF IInv, TypeOK, Inbox, Outbox, Current, Upcoming

LEMMA SameQueues ==
    ASSUME UNCHANGED <<msgQueue, superstep>>
    PROVE  UNCHANGED <<Inbox, Outbox>>
BY DEF Inbox, Outbox, Current, Upcoming

(* Everything that the abstract variables stand for.                       *)
Unmoved == UNCHANGED <<vertices, active, Inbox, Outbox, Phase, Todo, Computing, Failed>>

LEMMA UnmovedStutters == Unmoved => UNCHANGED Abstract!vars
BY DEF Unmoved, Abstract!vars, Inbox, Outbox, Todo, Computing, Failed

LEMMA CheckRefines ==
    ASSUME IInv, NEW w \in Worker, Check(w)
    PROVE  Abstract!Next
<1> USE DEF engineVars, workerVars, histVars
<1>1. w \in Holders /\ wpc[w] = "check"
      /\ UNCHANGED <<wv, toFeed, vertices, msgQueue, superstep, mainPC, errCh, stepErr>>
  BY DEF Check, Holders, Held
<1>2. UNCHANGED <<vertices, Inbox, Outbox, Phase, Failed>>
  BY <1>1, SameQueues DEF Phase, Failed
<1>3. PICK v \in VertexID : v = wv[w]
  BY <1>1, HolderFacts
<1>4. PICK pc \in {"compute", "done"} : wpc' = [wpc EXCEPT ![w] = pc]
  BY DEF Check
<1>5. /\ v \in Todo /\ v \notin Computing
      /\ Todo' = Todo \ {v}
      /\ Computing' = IF pc = "compute" THEN Computing \union {v} ELSE Computing
  <2>1. /\ v \in Todo /\ v \notin Computing
        /\ Todo' = Todo \ {v}
        /\ Computing' = IF pc = "compute" THEN Computing \union {v} ELSE Computing \ {v}
    BY <1>1, <1>3, <1>4, VertexMoves
  <2> QED BY <2>1
<1>6. CASE /\ active[v] \/ Current(v) # <<>>
           /\ active' = [active EXCEPT ![v] = TRUE] /\ pc = "compute"
  <2>1. Abstract!Compute(v)
    BY <1>2, <1>3, <1>5, <1>6 DEF Abstract!Compute, Inbox, Outbox, Todo, Computing, Failed
  <2> QED BY <2>1 DEF Abstract!Next
<1>7. CASE ~(active[v] \/ Current(v) # <<>>) /\ active' = active /\ pc = "done"
  <2>1. Abstract!Skip(v)
    BY <1>2, <1>3, <1>5, <1>7 DEF Abstract!Skip, Inbox, Outbox, Todo, Computing, Failed
  <2> QED BY <2>1 DEF Abstract!Next
<1>8. wpc'[w] = pc
  BY <1>1, <1>4 DEF IInv, TypeOK, Holders, Held
<1> QED BY <1>3, <1>6, <1>7, <1>8 DEF Check, IInv, TypeOK

LEMMA ReadRefines ==
    ASSUME IInv, ReadsCurrent, NEW w \in Worker, NextMessage(w)
    PROVE  Abstract!Next
<1> USE DEF engineVars, workerVars, histVars
<1>1. wpc[w] = "compute" /\ UNCHANGED <<vertices, active, superstep, mainPC, errCh, stepErr, toFeed, wpc, wv>>
  BY DEF NextMessage
<1>2. PICK v \in VertexID : v = wv[w] /\ v \in Computing /\ wbuf[w] = superstep % 2
  BY <1>1, AtWork
<1>3. PICK q \in Seq(0..MaxSuperstep) : q = Current(v)
  BY <1>2, Mapping
<1>4. PICK rest : rest = SubSeq(q, 1, Len(q) - 1)
  OBVIOUS
<1>5. q # <<>> /\ msgQueue' = [msgQueue EXCEPT ![v][superstep % 2] = rest]
  BY <1>2, <1>3, <1>4 DEF NextMessage, Current
<1>6. UNCHANGED <<Phase, Todo, Computing, Failed>>
  BY <1>1, NothingMoves DEF Phase, Failed
<1>7. Len(q) \in DOMAIN q /\ rest = SubSeq(q, 1, Len(q) - 1) \o SubSeq(q, Len(q) + 1, Len(q))
  BY <1>4, <1>5
<1>8. Inbox' = [Inbox EXCEPT ![v] = rest] /\ Outbox' = Outbox
  <2>1. \A u \in VertexID : \A c \in 0..1 :
             msgQueue'[u][c] = IF u = v /\ c = superstep % 2 THEN rest ELSE msgQueue[u][c]
    BY <1>5, Slots DEF IInv, TypeOK
  <2> QED BY <1>1, <2>1, Slots DEF Inbox, Outbox, Current, Upcoming
<1>9. \E i \in DOMAIN Inbox[v] :
          Inbox' = [Inbox EXCEPT ![v] = SubSeq(@, 1, i - 1) \o SubSeq(@, i + 1, Len(@))]
  <2>1. Inbox[v] = q
    BY <1>3 DEF Inbox
  <2>2. Inbox' = [Inbox EXCEPT ![v] = SubSeq(@, 1, Len(q) - 1) \o SubSeq(@, Len(q) + 1, Len(@))]
    BY <1>7, <1>8, <2>1
  <2> QED BY <1>7, <2>1, <2>2
<1>10. Abstract!Read(v)
  BY <1>1, <1>2, <1>6, <1>8, <1>9 DEF Abstract!Read, Inbox, Outbox, Todo, Computing, Failed
<1> QED BY <1>10 DEF Abstract!Next

LEMMA SendRefines ==
    ASSUME IInv, ReadsCurrent, NEW w \in Worker, Enqueue(w)
    PROVE  Abstract!Next
<1> USE DEF engineVars, workerVars, histVars
<1>1. /\ wpc[w] = "compute" /\ Head(wout[w]) \in vertices
      /\ UNCHANGED <<vertices, active, superstep, mainPC, errCh, stepErr, toFeed, wpc, wv>>
  BY DEF Enqueue
<1>2. PICK v \in VertexID : v = wv[w] /\ v \in Computing
  BY <1>1, AtWork
<1>3. PICK u \in VertexID : u = Head(wout[w]) /\ u \in vertices
  BY <1>1 DEF IInv, TypeOK
<1>4. superstep \in 0..MaxSuperstep
  BY DEF IInv, TypeOK
<1>5. UNCHANGED <<Phase, Todo, Computing, Failed>>
  BY <1>1, NothingMoves DEF Phase, Failed
<1>6. PICK longer : longer = Append(Upcoming(u), superstep)
  OBVIOUS
<1>7. msgQueue' = [msgQueue EXCEPT ![u][(superstep + 1) % 2] = longer]
  BY <1>3, <1>6 DEF Enqueue, SendSlot, Upcoming
<1>8. Outbox' = [Outbox EXCEPT ![u] = longer] /\ Inbox' = Inbox
  <2>1. \A x \in VertexID : \A c \in 0..1 :
             msgQueue'[x][c] = IF x = u /\ c = (superstep + 1) % 2 THEN longer ELSE msgQueue[x][c]
    BY <1>7, Slots DEF IInv, TypeOK
  <2> QED BY <1>1, <2>1, Slots DEF Inbox, Outbox, Current, Upcoming
<1>9. \E x \in vertices, m \in 0..MaxSuperstep : Outbox' = [Outbox EXCEPT ![x] = Append(@, m)]
  <2>1. Outbox[u] = Upcoming(u)
    BY DEF Outbox
  <2>2. Outbox' = [Outbox EXCEPT ![u] = Append(@, superstep)]
    BY <1>6, <1>8, <2>1
  <2> QED BY <1>3, <1>4, <2>2
<1>10. Abstract!Send(v)
  BY <1>1, <1>2, <1>5, <1>8, <1>9 DEF Abstract!Send, Inbox, Outbox, Todo, Computing, Failed
<1> QED BY <1>10 DEF Abstract!Next

LEMMA EndRefines ==
    ASSUME IInv, ReadsCurrent, NEW w \in Worker, ComputeOK(w) \/ ComputeErr(w)
    PROVE  Abstract!Next
<1> USE DEF engineVars, workerVars, histVars
<1>1. /\ wpc[w] \in {"compute", "failing"} /\ wpc' = [wpc EXCEPT ![w] = "done"]
      /\ UNCHANGED <<vertices, active, superstep, mainPC, stepErr, toFeed, wv>>
  BY DEF ComputeOK, ComputeErr
<1>2. PICK v \in VertexID : v = wv[w] /\ v \in Computing /\ wbuf[w] = superstep % 2
  BY <1>1, AtWork
<1>3. Todo' = Todo /\ Computing' = Computing \ {v}
  <2>1. w \in Holders /\ wv[w] \notin Todo
    BY <1>1, VertexMoves, AtWork
  <2>2. Todo' = Todo \ {v} /\ Computing' = Computing \ {v}
    BY <1>1, <1>2, <2>1, VertexMoves
  <2> QED BY <1>2, <2>1, <2>2
<1>4. Phase' = Phase
  BY <1>1 DEF Phase
<1>5. CASE ComputeOK(w)
  <2>1. msgQueue' = [msgQueue EXCEPT ![v][superstep % 2] = <<>>] /\ errCh' = errCh
    BY <1>2, <1>5 DEF ComputeOK, Discarded
  <2>2. Inbox' = [Inbox EXCEPT ![v] = <<>>] /\ Outbox' = Outbox
    <3>1. \A u \in VertexID : \A c \in 0..1 :
             msgQueue'[u][c] = IF u = v /\ c = superstep % 2 THEN <<>> ELSE msgQueue[u][c]
      BY <2>1, Slots DEF IInv, TypeOK
    <3> QED BY <1>1, <3>1, Slots DEF Inbox, Outbox, Current, Upcoming
  <2>3. Abstract!Succeed(v)
    BY <1>1, <1>2, <1>3, <1>4, <2>1, <2>2
    DEF Abstract!Succeed, Inbox, Outbox, Todo, Computing, Failed
  <2> QED BY <2>3 DEF Abstract!Next
<1>6. CASE ComputeErr(w)
  <2>1. errCh' = TRUE /\ msgQueue' = msgQueue
    BY <1>6 DEF ComputeErr
  <2>2. UNCHANGED <<Inbox, Outbox>>
    BY <1>1, <2>1, SameQueues
  <2>3. Abstract!Fail(v)
    BY <1>1, <1>2, <1>3, <1>4, <2>1, <2>2
    DEF Abstract!Fail, Inbox, Outbox, Todo, Computing, Failed
  <2> QED BY <2>3 DEF Abstract!Next
<1> QED BY <1>5, <1>6

LEMMA WorkerRefines ==
    ASSUME IInv, QueueInv, NEW w \in Worker, WorkerStep(w)
    PROVE  Abstract!Next \/ Unmoved
<1> USE DEF engineVars, workerVars, histVars, QueueInv
<1>t. wpc \in [Worker -> {"recv", "check", "compute", "failing", "done", "signal", "exited"}]
  BY DEF IInv, TypeOK
<1>1. CASE Check(w) \/ NextMessage(w) \/ Enqueue(w) \/ ComputeOK(w) \/ ComputeErr(w)
  BY <1>1, CheckRefines, ReadRefines, SendRefines, EndRefines
<1>2. CASE StartSend(w) \/ Relay(w) \/ SendFails(w)
  <2>1. wpc[w] = "compute" /\ UNCHANGED <<vertices, active, msgQueue, superstep, mainPC, errCh, stepErr, toFeed, wv>>
    BY <1>2 DEF StartSend, Relay, SendFails
  <2>2. PICK pc \in {"compute", "failing"} : wpc' = [wpc EXCEPT ![w] = pc]
    BY <1>2, <1>t DEF StartSend, Relay, SendFails
  <2>3. wv[w] \in Computing /\ w \in Holders
    BY <2>1, AtWork
  <2>4. /\ wv[w] \notin Todo /\ Todo' = Todo \ {wv[w]}
        /\ Computing' = Computing \union {wv[w]}
    BY <2>1, <2>2, <2>3, VertexMoves
  <2>5. Todo' = Todo /\ Computing' = Computing
    BY <2>3, <2>4
  <2> QED BY <2>1, <2>5, SameQueues DEF Unmoved, Phase, Failed
<1>3. CASE Freeze(w)
  <2>1. /\ wpc[w] = "compute" /\ active' = [active EXCEPT ![wv[w]] = FALSE]
        /\ UNCHANGED <<vertices, msgQueue, superstep, mainPC, errCh, stepErr, toFeed, wv, wpc>>
    BY <1>3 DEF Freeze
  <2>2. PICK v \in VertexID : v = wv[w] /\ v \in Computing
    BY <2>1, AtWork
  <2>3. UNCHANGED <<Inbox, Outbox, Phase, Todo, Computing, Failed>>
    BY <2>1, SameQueues, NothingMoves DEF Phase, Failed
  <2>4. Abstract!Freeze(v)
    BY <2>1, <2>2, <2>3 DEF Abstract!Freeze, Inbox, Outbox, Todo, Computing, Failed
  <2> QED BY <2>4 DEF Abstract!Next
<1>4. CASE Done(w) \/ WorkerExit(w)
  <2>1. /\ UNCHANGED <<vertices, active, msgQueue, superstep, mainPC, errCh, stepErr, toFeed>>
        /\ \A u \in Worker : \/ wpc'[u] = wpc[u] /\ wv'[u] = wv[u]
                             \/ {wpc[u], wpc'[u]} \subseteq {"recv", "done", "signal", "exited"}
    BY <1>4 DEF Done, WorkerExit, IInv, TypeOK
  <2>2. Todo' = Todo /\ Computing' = Computing
    BY <2>1, NothingMoves
  <2> QED BY <2>1, <2>2, SameQueues DEF Unmoved, Phase, Failed
<1> QED BY <1>1, <1>2, <1>3, <1>4 DEF WorkerStep

(* The caller's steps, between the supersteps and around them.             *)
LEMMA ResetRefines ==
    ASSUME IInv, QueueInv, Reset \/ CloseDone
    PROVE  Abstract!Next
<1> USE DEF engineVars, workerVars, histVars
<1>1. /\ ResetGraph /\ UNCHANGED <<toFeed, wpc, wv>>
      /\ \/ mainPC \in {"idle", "ended"} /\ mainPC' = "idle"
         \/ mainPC = "closing" /\ mainPC' = "closed"
  BY DEF Reset, CloseDone, CallerRuns, ResetGraph
<1>2. ~errCh' /\ ~stepErr'
  BY <1>1 DEF ResetGraph, QueueInv, ErrorKept
<1>3. vertices' = {} /\ active' = [v \in VertexID |-> FALSE]
      /\ Inbox' = [v \in VertexID |-> <<>>] /\ Outbox' = [v \in VertexID |-> <<>>]
  BY <1>1, AllEmpty DEF ResetGraph, Inbox, Outbox
<1>4. Todo' = Todo /\ Computing' = Computing
  BY <1>1, NothingMoves
<1>5. \/ Phase \in {"ready", "ended"} /\ Phase' = "ready"
      \/ Phase = "closing" /\ Phase' = "closed"
  BY <1>1 DEF Phase
<1>6. Abstract!Empty
  BY <1>2, <1>3, <1>4, <1>5
  DEF Abstract!Empty, Abstract!NoMessages, Inbox, Outbox, Todo, Computing, Failed
<1> QED BY <1>6 DEF Abstract!Next

LEMMA CallerRefines ==
    ASSUME IInv, QueueInv, CallerStep \/ StepNoWork \/ Collect \/ CloseDone
    PROVE  Abstract!Next \/ Unmoved
<1> USE DEF engineVars, workerVars, histVars
<1>1. CASE Reset \/ CloseDone
  BY <1>1, ResetRefines
<1>2. ASSUME NEW v \in VertexID, AddVertex(v) PROVE Abstract!Next
  <2>1. /\ CallerRuns /\ UNCHANGED <<msgQueue, superstep, mainPC, errCh, stepErr, toFeed, wv, wpc>>
        /\ v \notin vertices /\ vertices' = vertices \union {v} /\ active' = [active EXCEPT ![v] = TRUE]
    BY <1>2 DEF AddVertex
  <2>2. UNCHANGED <<Inbox, Outbox, Phase, Todo, Computing, Failed>> /\ Phase \in {"ready", "ended"}
    BY <2>1, SameQueues, NothingMoves DEF Phase, Failed, CallerRuns
  <2>3. Abstract!Join(v)
    BY <2>1, <2>2 DEF Abstract!Join, Inbox, Outbox, Todo, Computing, Failed
  <2> QED BY <2>3 DEF Abstract!Next
<1>3. ASSUME NEW v \in VertexID, NEW d \in Destination, AddEdge(v, d) PROVE Unmoved
  <2>1. UNCHANGED <<vertices, active, msgQueue, superstep, mainPC, errCh, stepErr, toFeed, wv, wpc>>
    BY <1>3 DEF AddEdge
  <2> QED BY <2>1, SameQueues, NothingMoves DEF Unmoved, Phase, Failed
<1>4. CASE Close
  <2>1. /\ CallerRuns /\ mainPC' = "closing"
        /\ UNCHANGED <<vertices, active, msgQueue, superstep, errCh, stepErr, toFeed, wv, wpc>>
    BY <1>4 DEF Close
  <2>2. /\ UNCHANGED <<Inbox, Outbox, Todo, Computing, Failed>>
        /\ Phase \in {"ready", "ended"} /\ Phase' = "closing"
    BY <2>1, SameQueues, NothingMoves DEF Phase, Failed, CallerRuns
  <2>3. Abstract!Retire
    BY <2>1, <2>2 DEF Abstract!Retire, Inbox, Outbox, Todo, Computing, Failed
  <2> QED BY <2>3 DEF Abstract!Next
<1>5. CASE StepBegin
  <2>1. /\ mainPC = "idle" /\ mainPC' \in {"noWork", "feeding"} /\ toFeed' = vertices
        /\ UNCHANGED <<vertices, active, msgQueue, superstep, errCh, stepErr, wv, wpc>>
    BY <1>5 DEF StepBegin
  <2>2. UNCHANGED <<Inbox, Outbox, Failed>> /\ Phase = "ready" /\ Phase' = "running"
    BY <2>1, SameQueues DEF Phase, Failed
  <2>3. Held({"check"})' = {} /\ Held({"compute", "failing"})' = {} /\ Computing = {}
    BY <2>1, CallerPool, QuietSets DEF Held
  <2>4. Todo' = vertices /\ Computing' = Computing
    BY <2>1, <2>3 DEF Todo, Computing
  <2>5. Abstract!Begin
    BY <2>1, <2>2, <2>4 DEF Abstract!Begin, Inbox, Outbox, Todo, Computing, Failed
  <2> QED BY <2>5 DEF Abstract!Next
<1>6. CASE Advance
  <2>1. /\ mainPC = "ended" /\ mainPC' = "idle" /\ ~stepErr /\ ~errCh
        /\ UNCHANGED <<vertices, active, errCh, stepErr, toFeed, wv, wpc>>
    BY <1>6 DEF Advance, QueueInv, ErrorKept
  <2>2. Inbox' = Outbox /\ Outbox' = [v \in VertexID |-> <<>>]
    BY <1>6, QueuesSwap DEF QueueInv, Inbox, Outbox
  <2>3. UNCHANGED <<Todo, Computing, Failed>> /\ ~Failed /\ Phase = "ended" /\ Phase' = "ready"
    BY <2>1, NothingMoves DEF Phase, Failed
  <2>4. Abstract!Advance
    BY <2>1, <2>2, <2>3
    DEF Abstract!Advance, Abstract!NoMessages, Inbox, Outbox, Todo, Computing, Failed
  <2> QED BY <2>4 DEF Abstract!Next
<1>7. CASE StepNoWork \/ Collect
  <2>1. /\ mainPC \in {"noWork", "collect"} /\ mainPC' = "ended"
        /\ UNCHANGED <<vertices, active, msgQueue, superstep, toFeed, wv, wpc>>
    BY <1>7 DEF StepNoWork, Collect
  <2>2. Failed' = Failed
    BY <1>7 DEF StepNoWork, Collect, StepResult, Failed, QueueInv, ErrorKept
  <2>3. UNCHANGED <<Inbox, Outbox, Todo, Computing>> /\ Phase = "running" /\ Phase' = "ended"
        /\ Todo = {} /\ Computing = {}
    BY <2>1, SameQueues, NothingMoves, QuietSets DEF Phase
  <2>4. Abstract!End
    BY <2>1, <2>2, <2>3 DEF Abstract!End, Inbox, Outbox, Todo, Computing, Failed
  <2> QED BY <2>4 DEF Abstract!Next
<1> QED BY <1>1, <1>2, <1>3, <1>4, <1>5, <1>6, <1>7 DEF CallerStep

LEMMA StepRefines ==
    ASSUME IInv, QueueInv, [Next]_vars
    PROVE  [Abstract!Next]_Abstract!vars
<1> USE DEF engineVars, workerVars, histVars
<1>1. ASSUME NEW v \in VertexID, NEW w \in Worker, Feed(v, w) PROVE Unmoved
  <2>1. /\ UNCHANGED <<vertices, active, msgQueue, superstep, errCh, stepErr>>
        /\ mainPC = "feeding" /\ mainPC' \in {"feeding", "awaiting"}
    BY <1>1 DEF Feed
  <2> QED BY <1>1, <2>1, SameQueues, Handed DEF Unmoved, Phase, Failed
<1>2. ASSUME NEW w \in Worker, StepCompleted(w) PROVE Unmoved
  <2>1. /\ UNCHANGED <<vertices, active, msgQueue, superstep, errCh, stepErr, toFeed, wv>>
        /\ mainPC = "awaiting" /\ mainPC' = "collect"
        /\ \A u \in Worker : wpc'[u] = wpc[u] \/ {wpc[u], wpc'[u]} \subseteq {"signal", "recv"}
    BY <1>2 DEF StepCompleted, IInv, TypeOK
  <2> QED BY <2>1, SameQueues, NothingMoves DEF Unmoved, Phase, Failed
<1>3. CASE UNCHANGED vars
  <2>1. UNCHANGED <<vertices, active, msgQueue, superstep, errCh, stepErr, toFeed, wv, wpc, mainPC>>
    BY <1>3 DEF vars
  <2>2. Unmoved
    BY <2>1, SameQueues, NothingMoves DEF Unmoved, Phase, Failed
  <2> QED BY <2>2, UnmovedStutters
<1>4. CASE CallerStep \/ StepNoWork \/ Collect \/ CloseDone
  BY <1>4, CallerRefines, UnmovedStutters
<1>5. ASSUME NEW w \in Worker, WorkerStep(w) PROVE [Abstract!Next]_Abstract!vars
  BY <1>5, WorkerRefines, UnmovedStutters
<1> QED BY <1>1, <1>2, <1>3, <1>4, <1>5, UnmovedStutters DEF Next, EngineStep, Terminated

(* For any number of workers, the goroutines, channels and counters of     *)
(* step and stepWorker compute what plain supersteps compute: each vertex  *)
(* that is due once, on the messages of the superstep before, with an      *)
(* error of any computation as the error of the step.                      *)
THEOREM PoolImplementsSuperstep == Spec => ImplementsSuperstep
<1>1. Init => Abstract!Init
  <2> SUFFICES ASSUME Init PROVE Abstract!Init
    OBVIOUS
  <2>1. superstep % 2 \in 0..1 /\ (superstep + 1) % 2 \in 0..1
    BY DEF Init
  <2>2. Inbox = [v \in VertexID |-> <<>>] /\ Outbox = [v \in VertexID |-> <<>>]
    BY <2>1 DEF Init, EmptyQueues, Inbox, Outbox, Current, Upcoming
  <2>3. Todo = {} /\ Computing = {}
    BY DEF Init, Todo, Computing, Held
  <2> QED BY <2>2, <2>3
          DEF Init, Abstract!Init, Abstract!NoMessages, Inbox, Outbox, Todo, Computing, Phase
<1>2. IInv /\ QueueInv /\ [Next]_vars => QueueInv' /\ [Abstract!Next]_Abstract!vars
  BY QueueInvStep, StepRefines
<1> QED BY <1>1, <1>2, QueueInvInit, Inductive, PTL DEF Spec, ImplementsSuperstep, Abstract!Spec
-----------------------------------------------------------------------------
(* Executor and client.                                                    *)
Unfinished == {"noWork", "feeding", "awaiting", "collect", "ended"}

(* Where the graph is while run is at a certain point.                     *)
InStep ==
    /\ exPC \in {"none", "ready", "loop", "pre", "step", "post", "keep"}
    /\ exPC \in {"loop", "pre"} => mainPC = "idle"
    /\ exPC = "step" => mainPC \in Unfinished
    /\ exPC \in {"post", "keep"} => mainPC = "ended" /\ ~stepErr

(* Every superstep that was run has been paid for, but the one in work.    *)
Spent ==
    /\ ran \in Nat /\ maxSteps \in Int /\ budget \in Int
    /\ budget >= 0 =>
          /\ ran <= budget
          /\ exPC \in {"loop", "pre"} => ran + maxSteps = budget
          /\ exPC \in {"step", "post", "keep"} => ran + maxSteps = budget + 1
          /\ exPC = "pre" => maxSteps # 0

(* Trouble in a superstep is on its way in errCh or returned by step.      *)
TroubleNoticed ==
    /\ troubled \in BOOLEAN /\ runErr \in BOOLEAN
    /\ exPC \in {"none", "ready"} => runErr = troubled
    /\ exPC \in {"loop", "pre", "post", "keep"} => ~troubled
    /\ exPC = "step" => (troubled <=> errCh \/ stepErr)

ExecutorInv == IInv /\ QueueInv /\ reuses \in Nat /\ InStep /\ Spent /\ TroubleNoticed
-----------------------------------------------------------------------------
(* To the graph, a step of executor and client is one of its caller, or    *)
(* rewinds it to begin a superstep once more or from zero.                 *)
Rewinds ==
    /\ CallerRuns /\ mainPC' = "idle"
    /\ stepErr' = FALSE
    /\ superstep' \in {0, superstep}
    /\ reuses' = reuses + 1
    /\ UNCHANGED <<vertices, edges, active, msgQueue, activeInStep, pendingInStep, errCh, toFeed,
                   workerVars, histVars>>

LEMMA GraphSteps ==
    ASSUME [NextExecutor]_allVars
    PROVE  \/ [Next]_vars
           \/ Rewinds
<1> USE DEF RunLoop
<1>1. CASE NewExecutor \/ Cancel \/ LoopHead \/ StepReturned
           \/ (\E ok \in BOOLEAN : PostStep(ok)) \/ (\E n \in Budgets : Run(n))
  BY <1>1 DEF NewExecutor, Cancel, LoopHead, StepReturned, PostStep, Run
<1>2. CASE NewExecutorReusing \/ \E n \in Budgets : RunAgain(n)
  BY <1>2 DEF NewExecutorReusing, RunAgain, Reuse, CallerRuns, Rewinds
<1>3. CASE \E ok \in BOOLEAN : PreStep(ok) \/ (\E keep \in BOOLEAN : KeepRunning(keep, ok))
  BY <1>3 DEF PreStep, KeepRunning, Next, CallerStep
<1>4. CASE GraphStep \/ ClientEdits \/ ClientResets \/ ClientCloses \/ (Terminated /\ UNCHANGED exVars)
  BY <1>4 DEF GraphStep, ClientEdits, ClientResets, ClientCloses, Next, CallerStep, EngineStep, WorkerStep
<1>5. CASE UNCHANGED allVars
  BY <1>5 DEF allVars
<1> QED BY <1>1, <1>2, <1>3, <1>4, <1>5 DEF NextExecutor

LEMMA RewindInv ==
    ASSUME IInv, QueueInv, Rewinds
    PROVE  IInv' /\ QueueInv'
<1> USE DEF workerVars, histVars
<1>1. /\ mainPC \in {"idle", "ended"} /\ mainPC' = "idle" /\ ~stepErr'
      /\ UNCHANGED <<vertices, edges, active, msgQueue, errCh, toFeed, activeInStep, pendingInStep>>
      /\ UNCHANGED <<wpc, wv, wbuf, wout, wsends, due, computed>>
  BY DEF Rewinds, CallerRuns
<1>2. superstep' \in 0..MaxSuperstep /\ superstep' \in Nat
  BY BoundAssumption DEF Rewinds, IInv, TypeOK
<1>3. TypeOK'
  BY <1>1, <1>2 DEF IInv, TypeOK, Rewinds
<1>4. Custody'
  BY <1>1, CallerCustody, CallerPool
<1>5. IInv'
  BY <1>3, <1>4 DEF IInv, Custody
<1>6. Holders = {} /\ Held({"compute", "failing"})' = {}
  BY <1>1, CallerPool, QuietPool DEF Held
<1>7. ErrorKept' /\ ReadsCurrent'
  BY <1>1, <1>6 DEF QueueInv, ErrorKept, ReadsCurrent
<1>8. Drained'
  <2>1. \A v \in VertexID \ vertices : msgQueue[v][0] = <<>> /\ msgQueue[v][1] = <<>>
    <3>1. \A v \in VertexID \ vertices : Current(v) = <<>> /\ Upcoming(v) = <<>>
      BY DEF QueueInv, Drained
    <3>2. CASE superstep % 2 = 0
      BY <3>1, <3>2, Slots DEF Current, Upcoming
    <3>3. CASE superstep % 2 = 1
      BY <3>1, <3>3, Slots DEF Current, Upcoming
    <3> QED BY <3>2, <3>3, Slots
  <2>2. superstep' % 2 \in 0..1 /\ (superstep' + 1) % 2 \in 0..1
    BY <1>2, Parity
  <2> QED BY <1>1, <2>1, <2>2 DEF Drained, Current, Upcoming
<1> QED BY <1>5, <1>7, <1>8 DEF QueueInv

LEMMA GraphInv ==
    ASSUME ExecutorInv, [NextExecutor]_allVars
    PROVE  IInv' /\ QueueInv'
<1>1. [Next]_vars => IInv'
  BY TypeOKStep, CustodyStep DEF ExecutorInv, IInv, Custody
<1> QED BY <1>1, GraphSteps, RewindInv, QueueInvStep DEF ExecutorInv

LEMMA ReusesStep ==
    ASSUME ExecutorInv, [NextExecutor]_allVars
    PROVE  reuses' \in Nat
<1>1. reuses \in Nat
  BY DEF ExecutorInv
<1>2. CASE NewExecutor \/ NewExecutorReusing \/ (\E n \in Budgets : Run(n) \/ RunAgain(n))
  BY <1>1, <1>2 DEF NewExecutor, NewExecutorReusing, Run, RunAgain, Reuse
<1>3. CASE RunLoop
  BY <1>1, <1>3 DEF RunLoop, LoopHead, StepReturned, PreStep, PostStep, KeepRunning
<1>4. CASE GraphStep \/ Cancel \/ ClientEdits \/ ClientResets \/ ClientCloses \/ UNCHANGED exVars
  BY <1>1, <1>4 DEF GraphStep, Cancel, ClientEdits, ClientResets, ClientCloses, exVars
<1> QED BY <1>2, <1>3, <1>4 DEF NextExecutor, allVars

LEMMA InStepStep ==
    ASSUME ExecutorInv, [NextExecutor]_allVars
    PROVE  InStep'
<1> USE DEF ExecutorInv, InStep, RunReturns, Unfinished
<1>1. CASE NewExecutor \/ NewExecutorReusing \/ (\E n \in Budgets : Run(n) \/ RunAgain(n))
  BY <1>1 DEF NewExecutor, NewExecutorReusing, Run, RunAgain, RunBegin, NotRunning, vars
<1>2. CASE LoopHead \/ StepReturned \/ \E ok \in BOOLEAN : PostStep(ok)
  <2>1. mainPC' = mainPC /\ stepErr' = stepErr
    BY <1>2 DEF LoopHead, StepReturned, PostStep, vars, engineVars
  <2>2. CASE LoopHead
    BY <2>1, <2>2 DEF LoopHead
  <2>3. CASE StepReturned
    BY <2>1, <2>3 DEF StepReturned
  <2>4. ASSUME NEW ok \in BOOLEAN, PostStep(ok) PROVE InStep'
    BY <2>1, <2>4 DEF PostStep
  <2> QED BY <1>2, <2>2, <2>3, <2>4
<1>3. CASE \E ok \in BOOLEAN : PreStep(ok) \/ (\E keep \in BOOLEAN : KeepRunning(keep, ok))
  BY <1>3 DEF PreStep, KeepRunning, StepBegin, Advance, vars, engineVars
<1>4. CASE GraphStep
  <2>1. exPC = "step" /\ exPC' = "step"
    BY <1>4 DEF GraphStep
  <2>2. ASSUME NEW w \in Worker, WorkerStep(w) PROVE mainPC' = mainPC
    BY <2>2 DEF WorkerStep, Check, NextMessage, StartSend, Enqueue, Relay, SendFails, Freeze, ComputeOK,
                ComputeErr, Done, WorkerExit
  <2> QED BY <1>4, <2>1, <2>2 DEF GraphStep, EngineStep, Feed, StepCompleted, StepNoWork, Collect, CloseDone
<1>5. CASE ClientEdits \/ Cancel \/ UNCHANGED allVars \/ (Terminated /\ UNCHANGED exVars)
  BY <1>5 DEF ClientEdits, AddVertex, AddEdge, Cancel, allVars, exVars, vars, engineVars, Terminated
<1>6. CASE ClientResets \/ ClientCloses
  BY <1>6 DEF ClientResets, ClientCloses, NotRunning, exVars
<1> QED BY <1>1, <1>2, <1>3, <1>4, <1>5, <1>6 DEF NextExecutor, RunLoop

LEMMA SpentStep ==
    ASSUME ExecutorInv, [NextExecutor]_allVars
    PROVE  Spent'
<1> USE DEF ExecutorInv, Spent, InStep, RunReturns
<1>1. CASE NewExecutor \/ NewExecutorReusing
  BY <1>1 DEF NewExecutor, NewExecutorReusing, NotRunning
<1>2. CASE \E n \in Budgets : Run(n) \/ RunAgain(n)
  BY <1>2, BudgetsAssumption DEF Run, RunAgain, RunBegin
<1>3. CASE LoopHead \/ StepReturned \/ \E ok \in BOOLEAN : PostStep(ok)
  BY <1>3 DEF LoopHead, StepReturned, PostStep, MoreSteps
<1>4. CASE \E ok \in BOOLEAN : PreStep(ok) \/ (\E keep \in BOOLEAN : KeepRunning(keep, ok))
  <2>1. ASSUME NEW ok \in BOOLEAN, PreStep(ok) PROVE Spent'
    <3>1. exPC = "pre" /\ maxSteps' = maxSteps
      BY <2>1 DEF PreStep
    <3>2. CASE exPC' = "step" /\ ran' = ran + 1 /\ budget' = budget
      BY <3>1, <3>2
    <3>3. CASE RunReturns(TRUE)
      BY <3>1, <3>3
    <3> QED BY <2>1, <3>2, <3>3 DEF PreStep
  <2>2. ASSUME NEW ok \in BOOLEAN, NEW keep \in BOOLEAN, KeepRunning(keep, ok) PROVE Spent'
    BY <2>2 DEF KeepRunning
  <2> QED BY <1>4, <2>1, <2>2
<1>5. CASE GraphStep \/ ClientEdits \/ Cancel \/ UNCHANGED allVars \/ (Terminated /\ UNCHANGED exVars)
           \/ ClientResets \/ ClientCloses
  BY <1>5 DEF GraphStep, ClientEdits, Cancel, allVars, exVars, ClientResets, ClientCloses
<1> QED BY <1>1, <1>2, <1>3, <1>4, <1>5 DEF NextExecutor, RunLoop

LEMMA TroubleStep ==
    ASSUME ExecutorInv, [NextExecutor]_allVars
    PROVE  TroubleNoticed'
<1> USE DEF ExecutorInv, TroubleNoticed, InStep, RunReturns, Unfinished
<1>e. errCh \in BOOLEAN /\ stepErr \in BOOLEAN
  BY DEF IInv, TypeOK
<1>1. CASE NewExecutor \/ NewExecutorReusing \/ (\E n \in Budgets : Run(n) \/ RunAgain(n))
  BY <1>1 DEF NewExecutor, NewExecutorReusing, Run, RunAgain, RunBegin, NotRunning
<1>2. CASE LoopHead \/ \E ok \in BOOLEAN : PostStep(ok)
  <2>1. CASE LoopHead
    BY <2>1 DEF LoopHead
  <2>2. ASSUME NEW ok \in BOOLEAN, PostStep(ok) PROVE TroubleNoticed'
    BY <2>2 DEF PostStep
  <2> QED BY <1>2, <2>1, <2>2
<1>3. CASE StepReturned
  <2>1. ~errCh
    BY <1>3 DEF StepReturned, QueueInv, ErrorKept
  <2> QED BY <1>3, <2>1 DEF StepReturned
<1>4. CASE \E ok \in BOOLEAN : PreStep(ok)
  <2>1. mainPC = "idle" => ~errCh /\ ~stepErr
    BY DEF QueueInv, ErrorKept
  <2>2. ASSUME NEW ok \in BOOLEAN, PreStep(ok) PROVE TroubleNoticed'
    <3>1. mainPC = "idle" /\ exPC = "pre" /\ troubled' = (troubled \/ ~ok)
      BY <2>2 DEF PreStep
    <3>2. CASE ok /\ StepBegin /\ exPC' = "step" /\ UNCHANGED runErr
      BY <2>1, <3>1, <3>2 DEF StepBegin
    <3>3. CASE ~ok /\ RunReturns(TRUE)
      BY <3>1, <3>3
    <3> QED BY <2>2, <3>2, <3>3 DEF PreStep
  <2> QED BY <1>4, <2>2
<1>5. CASE \E ok \in BOOLEAN, keep \in BOOLEAN : KeepRunning(keep, ok)
  BY <1>5 DEF KeepRunning
<1>6. CASE GraphStep
  <2>1. /\ exPC = "step" /\ UNCHANGED <<exPC, runErr>>
        /\ troubled' = (troubled \/ \E w \in Worker : ComputeErr(w))
    BY <1>6 DEF GraphStep
  <2>2. troubled <=> errCh \/ stepErr
    BY <2>1
  <2>3. ASSUME NEW w \in Worker, ComputeErr(w) PROVE errCh'
    BY <2>3 DEF ComputeErr
  <2>4. CASE \E w \in Worker : ComputeErr(w)
    BY <2>1, <2>3, <2>4
  <2>5. CASE ~\E w \in Worker : ComputeErr(w)
    <3>1. ASSUME NEW w \in Worker, WorkerStep(w) PROVE errCh' = errCh /\ stepErr' = stepErr
      BY <2>5, <3>1 DEF WorkerStep, Check, NextMessage, StartSend, Enqueue, Relay, SendFails, Freeze,
                        ComputeOK, Done, WorkerExit, engineVars
    <3>2. CASE StepNoWork \/ Collect
      <4>1. ~stepErr
        BY <3>2 DEF StepNoWork, Collect, QueueInv, ErrorKept
      <4>2. mainPC = "noWork" => ~errCh
        BY DEF QueueInv, ErrorKept
      <4>3. errCh' \/ stepErr' <=> errCh \/ stepErr
        BY <3>2, <4>1, <4>2, <1>e DEF StepNoWork, Collect, StepResult
      <4> QED BY <2>1, <2>2, <2>5, <4>3
    <3>3. ASSUME NEW w \in Worker, StepCompleted(w) \/ (\E v \in VertexID : Feed(v, w))
          PROVE  errCh' = errCh /\ stepErr' = stepErr
      BY <3>3 DEF StepCompleted, Feed, engineVars
    <3>4. ~CloseDone
      BY <2>1 DEF CloseDone
    <3> QED BY <1>6, <2>1, <2>2, <2>5, <3>1, <3>2, <3>3, <3>4 DEF GraphStep, EngineStep
  <2> QED BY <2>4, <2>5
<1>7. CASE ClientEdits
  BY <1>7 DEF ClientEdits, exVars
<1>8. CASE Cancel \/ UNCHANGED allVars \/ (Terminated /\ UNCHANGED exVars)
  BY <1>8 DEF Cancel, allVars, exVars, vars, engineVars, Terminated
<1>9. CASE ClientResets \/ ClientCloses
  BY <1>9 DEF ClientResets, ClientCloses, NotRunning, exVars
<1> QED BY <1>1, <1>2, <1>3, <1>4, <1>5, <1>6, <1>7, <1>8, <1>9 DEF NextExecutor, RunLoop

LEMMA ExecutorInit == InitExecutor => ExecutorInv /\ NothingAhead
<1> SUFFICES ASSUME InitExecutor PROVE ExecutorInv /\ NothingAhead
  OBVIOUS
<1>1. IInv /\ QueueInv /\ NothingAhead
  BY InitIInv, QueueInvInit DEF InitExecutor
<1>2. exPC = "none" /\ reuses = 0
  BY DEF InitExecutor
<1>3. InStep
  BY <1>2 DEF InStep
<1>4. Spent
  BY <1>2 DEF InitExecutor, Spent
<1>5. TroubleNoticed
  BY <1>2 DEF InitExecutor, TroubleNoticed
<1> QED BY <1>1, <1>2, <1>3, <1>4, <1>5 DEF ExecutorInv

(* The invariant of the graph is kept by every client, one that uses the   *)
(* graph again without a Reset included.                                   *)
THEOREM ExecutorInductive == SpecExecutor => []ExecutorInv
<1>1. ExecutorInv /\ [NextExecutor]_allVars => ExecutorInv'
  BY GraphInv, ReusesStep, InStepStep, SpentStep, TroubleStep DEF ExecutorInv
<1> QED BY <1>1, ExecutorInit, PTL DEF SpecExecutor

(* RunSteps(n) runs at most n supersteps, and run returns an error exactly *)
(* if a hook, or a computation of any worker in any of its supersteps, has *)
(* failed since it began, for every n and any number of workers, although  *)
(* errCh has room for one error only.                                      *)
THEOREM RunKeepsContract == SpecExecutor => []RunContract
<1>1. ExecutorInv => RunContract
  BY DEF ExecutorInv, Spent, TroubleNoticed, RunContract
<1> QED BY <1>1, ExecutorInductive, PTL

(* Until a graph is used again without a Reset, no message is overlooked:  *)
(* whoever has one when a superstep begins is computed in it, also after   *)
(* hooks and supersteps that failed and runs that were begun anew.         *)
THEOREM MessagesKept == SpecExecutor => KeptUnlessReused
<1> DEFINE Ahead == reuses = 0 => NothingAhead
<1>1. ASSUME ExecutorInv, Ahead, [NextExecutor]_allVars PROVE Ahead'
  <2> SUFFICES ASSUME reuses' = 0 PROVE NothingAhead'
    OBVIOUS
  <2>1. CASE reuses = 0
    <3>1. [Next]_vars
      BY <2>1, GraphSteps, <1>1 DEF Rewinds
    <3> QED BY <1>1, <2>1, <3>1, NothingAheadStep DEF ExecutorInv
  <2>2. CASE reuses # 0
    <3>1. reuses \in Nat /\ reuses' # reuses
      BY <1>1, <2>2 DEF ExecutorInv
    <3>2. ~(NewExecutor \/ NewExecutorReusing \/ (\E n \in Budgets : Run(n) \/ RunAgain(n)))
      BY <3>1 DEF NewExecutor, NewExecutorReusing, Run, RunAgain, Reuse
    <3>3. ~RunLoop
      BY <3>1 DEF RunLoop, LoopHead, StepReturned, PreStep, PostStep, KeepRunning
    <3>4. ~(GraphStep \/ Cancel \/ ClientEdits \/ ClientCloses \/ UNCHANGED exVars)
      BY <3>1 DEF GraphStep, Cancel, ClientEdits, ClientCloses, exVars
    <3>5. ResetGraph
      BY <1>1, <3>2, <3>3, <3>4 DEF NextExecutor, allVars, ClientResets, Reset
    <3> QED BY <1>1, <3>5, AllEmpty DEF ExecutorInv, NothingAhead
  <2> QED BY <2>1, <2>2
<1>2. ASSUME ExecutorInv, Ahead, [NextExecutor]_allVars PROVE [reuses = 0 => BeginsDue]_allVars
  <2> SUFFICES ASSUME reuses = 0, mainPC = "idle", mainPC' = "feeding",
                      NEW v \in vertices, NEW b \in 0..1, msgQueue[v][b] # <<>>
               PROVE  v \in due'
    BY DEF BeginsDue
  <2>1. v \in VertexID /\ Upcoming(v) = <<>>
    BY <1>2 DEF NothingAhead, ExecutorInv, IInv, TypeOK
  <2>2. b = superstep % 2
    BY <1>2, <2>1, Slots DEF ExecutorInv, Upcoming
  <2>3. [Next]_vars
    BY <1>2, GraphSteps DEF Rewinds
  <2>4. StepBegin
    <3>1. ASSUME NEW w \in Worker, WorkerStep(w) PROVE mainPC' = mainPC
      BY <3>1 DEF WorkerStep, Check, NextMessage, StartSend, Enqueue, Relay, SendFails, Freeze, ComputeOK,
                  ComputeErr, Done, WorkerExit
    <3> QED BY <2>3, <3>1 DEF Next, CallerStep, EngineStep, Terminated, AddVertex, AddEdge, Reset, Close,
                              Advance, Feed, StepCompleted, StepNoWork, Collect, CloseDone, vars
  <2> QED BY <2>2, <2>4 DEF StepBegin, Current
<1>3. InitExecutor => Ahead
  BY ExecutorInit
<1> HIDE DEF Ahead
<1> QED BY <1>1, <1>2, <1>3, ExecutorInductive, PTL DEF SpecExecutor, KeptUnlessReused
=============================================================================
