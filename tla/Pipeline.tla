------------------------------- MODULE Pipeline -------------------------------
(***************************************************************************)
(* One call of Pipeline.Process of src/pipeline/pipeline.go with the stage *)
(* runners FIFO, FixedWorkerPool and Broadcast of src/pipeline/runners:    *)
(* the source, sink, worker and dispatcher goroutines on unbuffered        *)
(* channels, the buffered error channel, the guarding goroutine, and the   *)
(* context that the caller, an error or the end of the work cancels.       *)
(*                                                                         *)
(* Source, sink and processors are client code: a source ends with or      *)
(* without an error after any number of payloads, a processor returns its  *)
(* payload or nil, with or without an error, Consume likewise.             *)
(***************************************************************************)
EXTENDS Naturals, Sequences, FiniteSets

CONSTANTS Stages,        \* the stages in order: [kind : {"pool", "broadcast"}, workers : 1..n];
                         \* FIFO is a pool with one worker
          MaxPayloads    \* bound: payloads of the source

ASSUME StagesAssumption ==
    Stages \in Seq([kind : {"pool", "broadcast"}, workers : Nat \ {0}])
ASSUME PayloadsAssumption == MaxPayloads \in Nat

N == Len(Stages)
IsBroadcast(i) == Stages[i].kind = "broadcast"

(* Goroutines: worker k of stage i is <<i, k>>, the dispatcher of a        *)
(* broadcast stage <<i, 0>>.  Channels: <<i, 0>> is stageCh[i], which      *)
(* stage i writes; <<i, k>> is the private input of worker k of a          *)
(* broadcast stage.                                                        *)
WorkersOf(i) == {<<i, k>> : k \in 1..Stages[i].workers}
Workers      == UNION {WorkersOf(i) : i \in 1..N}
Dispatchers  == {<<i, 0>> : i \in {j \in 1..N : IsBroadcast(j)}}
Source       == <<0, 0>>
Sink         == <<N + 1, 0>>
Goroutine    == Workers \union Dispatchers \union {Source, Sink}
StageCh(i)   == <<i, 0>>

InCh ==
    [g \in Goroutine |-> IF g \in Workers /\ IsBroadcast(g[1]) THEN g ELSE StageCh(g[1] - 1)]

VARIABLES
    pc,         \* pc[g]: where goroutine g is
    hold,       \* hold[g]: the payload g works on or sends, or NoPayload
    turn,       \* turn[g]: the worker that dispatcher g sends to next
    closed,     \* channels that are closed
    errCh,      \* errors in the buffer of errCh
    errClosed,  \* errCh is closed
    cancelled,  \* the context of Process is cancelled
    err,        \* the collected error is not nil
    returned,   \* Process has returned
    emitted,    \* payloads the source has produced
    live,       \* history: payloads produced or cloned
    marked,     \* history: payloads MarkAsProcessed was called on
    reported,   \* history: the source, the sink or a processor returned an error
    expired     \* history: the caller's context was cancelled

chanVars == <<closed, errCh, errClosed, cancelled>>
histVars == <<live, marked, reported, expired>>
vars == <<pc, hold, turn, chanVars, err, returned, emitted, histVars>>

NoPayload == <<>>
ErrCap == N + 2

(* Mutant: an unbuffered error channel, whose writers do not wait.         *)
ErrChCapNone == 0
ErrChCap == ErrCap

Init ==
    /\ pc = [g \in Goroutine |-> IF g = Source THEN "next" ELSE "recv"]
    /\ hold = [g \in Goroutine |-> NoPayload]
    /\ turn = [g \in Dispatchers |-> 0]
    /\ closed = {}
    /\ errCh = 0
    /\ errClosed = FALSE
    /\ cancelled = FALSE
    /\ err = FALSE
    /\ returned = FALSE
    /\ emitted = 0
    /\ live = {} /\ marked = {}
    /\ reported = FALSE /\ expired = FALSE

(* The non-blocking write of an error: dropped when the buffer is full.    *)
Emit(failed) ==
    /\ errCh' = IF failed /\ errCh < ErrChCap THEN errCh + 1 ELSE errCh
    /\ reported' = (reported \/ failed)

At(label) == {g \in Goroutine : pc[g] = label}

Goto(g, label, payload) ==
    /\ pc' = [pc EXCEPT ![g] = label]
    /\ hold' = [hold EXCEPT ![g] = payload]
-----------------------------------------------------------------------------
(* sourceWorker.                                                           *)

SourceNext ==
    /\ pc[Source] = "next"
    /\ emitted < MaxPayloads
    /\ emitted' = emitted + 1
    /\ live' = live \union {<<emitted + 1>>}
    /\ Goto(Source, "send", <<emitted + 1>>)
    /\ UNCHANGED <<turn, chanVars, err, returned, marked, reported, expired>>

(* Next returned false: the source's error, if any, is emitted.            *)
SourceEnds ==
    /\ pc[Source] = "next"
    /\ \E failed \in BOOLEAN : Emit(failed)
    /\ closed' = closed \union {StageCh(0)}
    /\ Goto(Source, "done", NoPayload)
    /\ UNCHANGED <<turn, errClosed, cancelled, err, returned, emitted, live, marked, expired>>

SourceCancelled ==
    /\ pc[Source] = "send"
    /\ cancelled
    /\ closed' = closed \union {StageCh(0)}
    /\ Goto(Source, "done", NoPayload)
    /\ UNCHANGED <<turn, errCh, errClosed, cancelled, err, returned, emitted, histVars>>
-----------------------------------------------------------------------------
(* The channel a goroutine that is sending writes to, and what it writes:  *)
(* a dispatcher writes clones to all its workers but the first, and then   *)
(* the payload itself to the first.  Mutant: no clones.                    *)
OutCh(g) == IF g \in Dispatchers THEN <<g[1], turn[g]>> ELSE StageCh(g[1])

OfferedShared(g, k, payload) == payload
Offered(g, k, payload) ==
    IF g \in Dispatchers /\ k # 1 THEN Append(payload, <<g[1], k>>) ELSE payload

AfterSend(g) ==
    CASE g = Source -> "next"
      [] g \in Dispatchers /\ turn[g] > 1 -> "send"
      [] OTHER -> "recv"

(* An unbuffered channel: s writes as r reads.                             *)
Transfer(s, r) ==
    LET payload == Offered(s, turn[s], hold[s])
        more    == AfterSend(s) = "send"
        isDisp  == r \in Dispatchers
    IN  /\ OutCh(s) = InCh[r]
        /\ pc' = [pc EXCEPT ![s] = AfterSend(s), ![r] = IF isDisp THEN "send" ELSE "work"]
        /\ hold' = [hold EXCEPT ![s] = IF more THEN @ ELSE NoPayload, ![r] = payload]
        /\ turn' = [g \in Dispatchers |->
                       CASE g = s -> turn[g] - 1
                         [] g = r -> Stages[g[1]].workers
                         [] OTHER -> turn[g]]
        /\ live' = live
                   \union (IF more THEN {Offered(s, turn[s] - 1, hold[s])} ELSE {})
                   \union (IF isDisp THEN {Offered(r, Stages[r[1]].workers, payload)} ELSE {})
        /\ UNCHANGED <<chanVars, err, returned, emitted, marked, reported, expired>>

(* A goroutine that reads finds its input closed, or the context cancelled *)
(* (select picks either case when both are ready).                         *)
StopsReading(g) ==
    /\ pc[g] = "recv"
    /\ InCh[g] \in closed \/ cancelled
    /\ Goto(g, IF g \in Dispatchers THEN "join" ELSE "done", NoPayload)
    /\ closed' = closed \union (IF g \in Dispatchers THEN WorkersOf(g[1]) ELSE {})
    /\ UNCHANGED <<turn, errCh, errClosed, cancelled, err, returned, emitted, histVars>>

(* A worker or a dispatcher that is sending when the context is cancelled  *)
(* drops the payload.  Mutant: it keeps waiting for a reader.              *)
WatchesContextNot == FALSE
WatchesContext == cancelled

StopsSending(g) ==
    /\ g # Source
    /\ pc[g] = "send"
    /\ WatchesContext
    /\ Goto(g, IF g \in Dispatchers THEN "join" ELSE "done", NoPayload)
    /\ closed' = closed \union (IF g \in Dispatchers THEN WorkersOf(g[1]) ELSE {})
    /\ UNCHANGED <<turn, errCh, errClosed, cancelled, err, returned, emitted, histVars>>
-----------------------------------------------------------------------------
(* fifo.Run: the processor returned a payload; it goes on even if there    *)
(* was an error as well.                                                   *)
Forward(w) ==
    /\ w \in Workers
    /\ pc[w] = "work"
    /\ \E failed \in BOOLEAN : Emit(failed)
    /\ Goto(w, "send", hold[w])
    /\ UNCHANGED <<turn, closed, errClosed, cancelled, err, returned, emitted, live, marked, expired>>

(* The payload is marked.  Mutant: a discarded payload is forgotten.       *)
MarkNot(payload) == marked
Mark(payload) == marked \union {payload}

(* The processor returned nil.                                             *)
Discard(w) ==
    /\ w \in Workers
    /\ pc[w] = "work"
    /\ \E failed \in BOOLEAN : Emit(failed)
    /\ marked' = Mark(hold[w])
    /\ Goto(w, "recv", NoPayload)
    /\ UNCHANGED <<turn, closed, errClosed, cancelled, err, returned, emitted, live, expired>>

(* sinkWorker: consume and mark, error or not.                             *)
Consume ==
    /\ pc[Sink] = "work"
    /\ \E failed \in BOOLEAN : Emit(failed)
    /\ marked' = marked \union {hold[Sink]}
    /\ Goto(Sink, "recv", NoPayload)
    /\ UNCHANGED <<turn, closed, errClosed, cancelled, err, returned, emitted, live, expired>>
-----------------------------------------------------------------------------
(* Run of a stage has returned when all its goroutines have.  Mutant: it   *)
(* does not wait for all.                                                  *)
RunOverEarly(i) == \E w \in WorkersOf(i) : pc[w] = "done"
RunOver(i) ==
    /\ \A w \in WorkersOf(i) : pc[w] = "done"
    /\ IsBroadcast(i) => pc[StageCh(i)] = "join"

(* The stage's goroutine closes the channel the stage wrote to.            *)
StageCloses(i) ==
    /\ StageCh(i) \notin closed
    /\ RunOver(i)
    /\ closed' = closed \union {StageCh(i)}
    /\ UNCHANGED <<pc, hold, turn, errCh, errClosed, cancelled, err, returned, emitted, histVars>>

(* The guarding goroutine: everybody has exited.                           *)
Guard ==
    /\ ~errClosed
    /\ pc[Source] = "done" /\ pc[Sink] = "done"
    /\ \A i \in 0..N : StageCh(i) \in closed
    /\ errClosed' = TRUE
    /\ cancelled' = TRUE
    /\ UNCHANGED <<pc, hold, turn, closed, errCh, err, returned, emitted, histVars>>

(* Process collects errors, the first of which cancels the context, until  *)
(* the channel is closed and drained.                                      *)
Collect ==
    /\ errCh > 0
    /\ errCh' = errCh - 1
    /\ err' = TRUE
    /\ cancelled' = TRUE
    /\ UNCHANGED <<pc, hold, turn, closed, errClosed, returned, emitted, histVars>>

Return ==
    /\ ~returned
    /\ errCh = 0 /\ errClosed
    /\ returned' = TRUE
    /\ UNCHANGED <<pc, hold, turn, chanVars, err, emitted, histVars>>

(* The caller's context is cancelled or expires.                           *)
Expire ==
    /\ ~expired /\ ~returned
    /\ expired' = TRUE
    /\ cancelled' = TRUE
    /\ UNCHANGED <<pc, hold, turn, closed, errCh, errClosed, err, returned, emitted, live, marked, reported>>

Work ==
    \/ SourceNext \/ SourceEnds \/ SourceCancelled
    \/ \E s \in At("send"), r \in At("recv") : Transfer(s, r)
    \/ \E g \in At("recv") : StopsReading(g)
    \/ \E g \in At("send") : StopsSending(g)
    \/ \E w \in At("work") : Forward(w) \/ Discard(w)
    \/ Consume
    \/ \E i \in 1..N : StageCloses(i)
    \/ Guard
    \/ Collect
    \/ Return

Terminated == returned /\ UNCHANGED vars

Next == Work \/ Expire \/ Terminated

Spec == Init /\ [][Next]_vars

(* Some goroutine that can run is run; client code returns.                *)
FairSpec == Spec /\ WF_vars(Work)
-----------------------------------------------------------------------------
(* No two goroutines hold one payload, which is what the clones of         *)
(* Broadcast are for, and nobody holds one that was marked:                *)
(* MarkAsProcessed, which puts a crawler payload back into a pool for      *)
(* reuse, is called by its last user.                                      *)
OneHolder ==
    /\ \A g, h \in Goroutine : g # h /\ hold[g] = hold[h] => hold[g] = NoPayload
    /\ \A g \in Goroutine : hold[g] \notin marked

(* Nobody sends on a closed channel, which would panic, and no error is    *)
(* emitted once errCh is closed, although the source, the stages and the   *)
(* guarding goroutine close channels while other goroutines run.           *)
NoSendOnClosed ==
    /\ \A g \in Goroutine : pc[g] = "send" => OutCh(g) \notin closed
    /\ errClosed => \A g \in Goroutine : pc[g] \in {"join", "done"}

(* A nil result means a complete run: unless the caller's context ended,   *)
(* every payload and every clone was processed and marked.                 *)
NilIsComplete == returned /\ ~err /\ ~expired => marked = live

(* Process returns an error exactly if the source, a processor or the sink *)
(* returned one, although emitting never waits and may drop errors.        *)
ErrorIffReported == returned => err = reported

(* Process returns, whoever fails and whenever the context ends.           *)
Returns == <>returned
=============================================================================
