------------------------------ MODULE Superstep ------------------------------
(***************************************************************************)
(* What the bulk-synchronous-parallel engine of src/bsp promises to the    *)
(* programs that run on it, with no workers, channels or counters:         *)
(* computation proceeds in supersteps; in a superstep every vertex that is *)
(* active or has an incoming message is computed once; a computation reads *)
(* the messages sent to its vertex in the previous superstep and sends     *)
(* messages that are read in the next one.                                 *)
(*                                                                         *)
(* BSPGraph (worker goroutines and channels) implements this module.       *)
(***************************************************************************)
EXTENDS Sequences, Naturals

CONSTANTS VertexID,     \* ids a vertex may have
          Message       \* what a message may be

VARIABLES
    vertices,    \* ids of the vertices of the graph
    active,      \* active[v]: v is computed even with no incoming message
    inbox,       \* inbox[v]: messages readable by v in this superstep
    outbox,      \* outbox[v]: messages that v will read in the next superstep
    phase,       \* "ready" for a superstep, "running" one, "ended" it, "closing" or "closed"
    todo,        \* vertices the superstep has not looked at yet
    computing,   \* vertices whose computation has begun and not ended
    failed       \* a computation of this superstep returned an error

vars == <<vertices, active, inbox, outbox, phase, todo, computing, failed>>

NoMessages == [v \in VertexID |-> <<>>]

TypeOK ==
    /\ vertices \subseteq VertexID
    /\ active \in [VertexID -> BOOLEAN]
    /\ inbox \in [VertexID -> Seq(Message)]
    /\ outbox \in [VertexID -> Seq(Message)]
    /\ phase \in {"ready", "running", "ended", "closing", "closed"}
    /\ todo \subseteq vertices
    /\ computing \subseteq vertices
    /\ failed \in BOOLEAN

Init ==
    /\ vertices = {}
    /\ active = [v \in VertexID |-> FALSE]
    /\ inbox = NoMessages
    /\ outbox = NoMessages
    /\ phase = "ready"
    /\ todo = {}
    /\ computing = {}
    /\ failed = FALSE

(* A vertex joins the graph, active and with no messages.                  *)
Join(v) ==
    /\ phase \in {"ready", "ended"}
    /\ v \notin vertices
    /\ vertices' = vertices \union {v}
    /\ active' = [active EXCEPT ![v] = TRUE]
    /\ UNCHANGED <<inbox, outbox, phase, todo, computing, failed>>

(* The graph will not be used again.                                       *)
Retire ==
    /\ phase \in {"ready", "ended"}
    /\ phase' = "closing"
    /\ UNCHANGED <<vertices, active, inbox, outbox, todo, computing, failed>>

(* The graph is emptied, to be used anew or for good.                      *)
Empty ==
    /\ \/ phase \in {"ready", "ended"} /\ phase' = "ready"
       \/ phase = "closing" /\ phase' = "closed"
    /\ vertices' = {}
    /\ active' = [v \in VertexID |-> FALSE]
    /\ inbox' = NoMessages
    /\ outbox' = NoMessages
    /\ failed' = FALSE
    /\ UNCHANGED <<todo, computing>>

Begin ==
    /\ phase = "ready"
    /\ phase' = "running"
    /\ todo' = vertices
    /\ UNCHANGED <<vertices, active, inbox, outbox, computing, failed>>

(* A vertex that is inactive and has nothing to read is passed over.       *)
Skip(v) ==
    /\ v \in todo
    /\ ~active[v] /\ inbox[v] = <<>>
    /\ todo' = todo \ {v}
    /\ UNCHANGED <<vertices, active, inbox, outbox, phase, computing, failed>>

Compute(v) ==
    /\ v \in todo
    /\ active[v] \/ inbox[v] # <<>>
    /\ todo' = todo \ {v}
    /\ computing' = computing \union {v}
    /\ active' = [active EXCEPT ![v] = TRUE]
    /\ UNCHANGED <<vertices, inbox, outbox, phase, failed>>

(* The computation of v reads one message, in an order left open.          *)
Read(v) ==
    /\ v \in computing
    /\ \E i \in DOMAIN inbox[v] :
          inbox' = [inbox EXCEPT ![v] = SubSeq(@, 1, i - 1) \o SubSeq(@, i + 1, Len(@))]
    /\ UNCHANGED <<vertices, active, outbox, phase, todo, computing, failed>>

Send(v) ==
    /\ v \in computing
    /\ \E u \in vertices, m \in Message : outbox' = [outbox EXCEPT ![u] = Append(@, m)]
    /\ UNCHANGED <<vertices, active, inbox, phase, todo, computing, failed>>

Freeze(v) ==
    /\ v \in computing
    /\ active' = [active EXCEPT ![v] = FALSE]
    /\ UNCHANGED <<vertices, inbox, outbox, phase, todo, computing, failed>>

(* A computation that succeeds drops the messages it did not read.         *)
Succeed(v) ==
    /\ v \in computing
    /\ computing' = computing \ {v}
    /\ inbox' = [inbox EXCEPT ![v] = <<>>]
    /\ UNCHANGED <<vertices, active, outbox, phase, todo, failed>>

Fail(v) ==
    /\ v \in computing
    /\ computing' = computing \ {v}
    /\ failed' = TRUE
    /\ UNCHANGED <<vertices, active, inbox, outbox, phase, todo>>

(* The barrier: the superstep ends when no vertex is left to look at and   *)
(* none is being computed.                                                 *)
End ==
    /\ phase = "running"
    /\ todo = {}
    /\ computing = {}
    /\ phase' = "ended"
    /\ UNCHANGED <<vertices, active, inbox, outbox, todo, computing, failed>>

(* What was sent in a superstep is what is read in the next one, and       *)
(* nothing sent before it remains.                                         *)
Advance ==
    /\ phase = "ended"
    /\ ~failed
    /\ phase' = "ready"
    /\ inbox' = outbox
    /\ outbox' = NoMessages
    /\ UNCHANGED <<vertices, active, todo, computing, failed>>

Next ==
    \/ \E v \in VertexID :
          \/ Join(v) \/ Skip(v) \/ Compute(v) \/ Read(v) \/ Send(v)
          \/ Freeze(v) \/ Succeed(v) \/ Fail(v)
    \/ Empty
    \/ Retire
    \/ Begin
    \/ End
    \/ Advance

Spec == Init /\ [][Next]_vars
=============================================================================
