---------------------------- MODULE PipelineProofs ----------------------------
(***************************************************************************)
(* Theorems about Pipeline: payloads and channels are used safely, and an  *)
(* answer of Process means what it says, for any number of stages of any   *)
(* kinds and widths and any number of payloads.                            *)
(***************************************************************************)
EXTENDS Pipeline, SequenceTheorems, TLAPS

(* A payload is the number of the one of the source, followed by a mark    *)
(* <<stage, worker>> for each time it was cloned.                          *)
Payload == Seq(Nat \union (Nat \X Nat))

TypeOK ==
    /\ pc \in [Goroutine -> {"next", "recv", "work", "send", "join", "done"}]
    /\ hold \in [Goroutine -> Payload]
    /\ turn \in [Dispatchers -> Nat]
    /\ errCh \in Nat /\ emitted \in Nat
    /\ errClosed \in BOOLEAN /\ cancelled \in BOOLEAN /\ err \in BOOLEAN
    /\ returned \in BOOLEAN /\ reported \in BOOLEAN /\ expired \in BOOLEAN
    /\ live \subseteq Payload /\ marked \subseteq live

(* Where goroutines can be, and when they hold a payload.                  *)
Control ==
    /\ pc[Source] \in {"next", "send", "done"}
    /\ pc[Sink] \in {"recv", "work", "done"}
    /\ \A w \in Workers : pc[w] \in {"recv", "work", "send", "done"}
    /\ \A d \in Dispatchers : pc[d] \in {"recv", "send", "join"}
    /\ \A g \in Goroutine : hold[g] # NoPayload <=> pc[g] \in {"work", "send"}
    /\ \A d \in Dispatchers : pc[d] = "send" => turn[d] \in 1..Stages[d[1]].workers

(* A channel is closed when its writers are done, and the error channel    *)
(* when everybody is.                                                      *)
Closing ==
    /\ StageCh(0) \in closed => pc[Source] = "done"
    /\ \A i \in 1..N : StageCh(i) \in closed => RunOver(i)
    /\ \A d \in Dispatchers : \A w \in WorkersOf(d[1]) : w \in closed => pc[d] = "join"
    /\ errClosed => \A g \in Goroutine : pc[g] \in {"join", "done"}

Errors ==
    /\ err \/ errCh > 0 <=> reported
    /\ cancelled => errClosed \/ err \/ expired
    /\ returned => errClosed /\ errCh = 0

(* The payload q is p, or a clone of it, or a clone of a clone..., with p  *)
(* given away; and the first mark that q has and p has not.                *)
Extends(q, p) == Len(p) < Len(q) /\ \A x \in 1..Len(p) : q[x] = p[x]
FirstMark(q, p) == q[Len(p) + 1]

(* What a dispatcher that is sending offers next.                          *)
Offer(d) == Offered(d, turn[d], hold[d])

(* Clones of a payload that somebody holds were made by stages that it has *)
(* passed, or are made by the dispatcher that holds it, which has made     *)
(* those for the workers from turn on.                                     *)
Lineage ==
    \A g \in Goroutine, q \in live :
        hold[g] # NoPayload /\ Extends(q, hold[g]) =>
            LET m == FirstMark(q, hold[g])
            IN  \/ m[1] < g[1]
                \/ m[1] = g[1] /\ g \in Workers
                \/ m[1] = g[1] /\ g \in Dispatchers /\ (m[2] > turn[g] \/ q = Offer(g))

(* The clone that a dispatcher offers is nobody's yet.                     *)
OfferFresh ==
    \A d \in Dispatchers : hold[d] # NoPayload /\ turn[d] > 1 =>
        /\ Offer(d) \in live \ marked
        /\ \A g \in Goroutine : hold[g] # Offer(d)

Ownership ==
    /\ \A g \in Goroutine : hold[g] # NoPayload => hold[g] \in live
    /\ \A q \in live : q # NoPayload /\ q[1] \in 1..emitted
    /\ \A q \in live : \A x \in 2..Len(q) : q[x] \in Nat \X Nat
    /\ OneHolder
    /\ Lineage
    /\ OfferFresh

(* Unless there was trouble, every payload is marked, held or offered.     *)
Complete ==
    ~err /\ ~expired =>
        \A q \in live \ marked :
            \/ \E g \in Goroutine : hold[g] = q
            \/ \E d \in Dispatchers : hold[d] # NoPayload /\ q = Offer(d)

IInv == TypeOK /\ Control /\ Closing /\ Errors /\ Ownership /\ Complete
-----------------------------------------------------------------------------
(* Which goroutines there are.                                             *)
LEMMA Goroutines ==
    /\ N \in Nat
    /\ \A w \in Workers : /\ w[1] \in 1..N /\ w[2] \in 1..Stages[w[1]].workers
                          /\ w = <<w[1], w[2]>> /\ w \in WorkersOf(w[1])
    /\ \A d \in Dispatchers : /\ d[1] \in 1..N /\ d = <<d[1], 0>> /\ IsBroadcast(d[1])
                              /\ Stages[d[1]].workers \in Nat \ {0}
                              /\ WorkersOf(d[1]) \subseteq Workers
                              /\ \A k \in 1..Stages[d[1]].workers : <<d[1], k>> \in WorkersOf(d[1])
    /\ Workers \intersect Dispatchers = {}
    /\ Source \notin Workers \union Dispatchers /\ Sink \notin Workers \union Dispatchers
    /\ Source # Sink /\ Source[1] = 0 /\ Sink[1] = N + 1
    /\ Goroutine = Workers \union Dispatchers \union {Source, Sink}
<1>1. N \in Nat /\ \A i \in 1..N : Stages[i].workers \in Nat \ {0}
  <2>1. N \in Nat
    BY StagesAssumption, LenProperties DEF N
  <2>2. ASSUME NEW i \in 1..N
        PROVE  Stages[i] \in [kind : {"pool", "broadcast"}, workers : Nat \ {0}]
    BY StagesAssumption, ElementOfSeq DEF N
  <2> QED BY <2>1, <2>2
<1>2. ASSUME NEW w \in Workers
      PROVE  /\ w[1] \in 1..N /\ w[2] \in 1..Stages[w[1]].workers
             /\ w = <<w[1], w[2]>> /\ w \in WorkersOf(w[1])
  <2>1. PICK i \in 1..N : w \in WorkersOf(i)
    BY DEF Workers
  <2>2. PICK k \in 1..Stages[i].workers : w = <<i, k>>
    BY <2>1 DEF WorkersOf
  <2> QED BY <2>1, <2>2
<1>3. ASSUME NEW d \in Dispatchers
      PROVE  /\ d[1] \in 1..N /\ d = <<d[1], 0>> /\ IsBroadcast(d[1])
             /\ Stages[d[1]].workers \in Nat \ {0}
             /\ WorkersOf(d[1]) \subseteq Workers
             /\ \A k \in 1..Stages[d[1]].workers : <<d[1], k>> \in WorkersOf(d[1])
  <2>1. PICK i \in 1..N : d = <<i, 0>> /\ IsBroadcast(i)
    BY DEF Dispatchers
  <2>2. WorkersOf(i) \subseteq Workers
    BY DEF Workers
  <2> QED BY <1>1, <2>1, <2>2 DEF WorkersOf
<1>4. \A w \in Workers : w[2] # 0 /\ w[1] \in 1..N
  BY <1>1, <1>2
<1>5. Source[1] = 0 /\ Source[2] = 0 /\ Sink[1] = N + 1 /\ Sink[2] = 0
  BY DEF Source, Sink
<1> QED BY <1>1, <1>2, <1>3, <1>4, <1>5 DEF Goroutine

(* What a clone is.                                                        *)
LEMMA CloneFacts ==
    ASSUME NEW p \in Payload, NEW m \in Nat \X Nat
    PROVE  /\ Append(p, m) \in Payload /\ Append(p, m) # NoPayload
           /\ Len(Append(p, m)) = Len(p) + 1 /\ Append(p, m)[Len(p) + 1] = m
           /\ \A x \in 1..Len(p) : Append(p, m)[x] = p[x]
           /\ Extends(Append(p, m), p) /\ FirstMark(Append(p, m), p) = m
<1> DEFINE S == Nat \union (Nat \X Nat)
           c == Append(p, m)
<1>1. p \in Seq(S) /\ m \in S
  BY DEF Payload
<1> HIDE DEF S
<1>2. /\ c \in Seq(S) /\ Len(c) = Len(p) + 1 /\ c[Len(p) + 1] = m
      /\ \A x \in 1..Len(p) : c[x] = p[x]
      /\ Len(p) \in Nat
  BY <1>1
<1> HIDE DEF c
<1>3. c # <<>>
  BY <1>2, EmptySeq
<1>4. c \in Payload
  BY <1>2 DEF Payload, S
<1>5. Extends(c, p) /\ FirstMark(c, p) = m
  BY <1>2 DEF Extends, FirstMark
<1> QED BY <1>2, <1>3, <1>4, <1>5 DEF NoPayload, c

(* Clones of a clone are clones of the original.                           *)
LEMMA ClonesOfClone ==
    ASSUME NEW p \in Payload, NEW m \in Nat \X Nat, NEW q \in Payload, Extends(q, Append(p, m))
    PROVE  Extends(q, p) /\ FirstMark(q, p) = m /\ Len(q) > Len(p) + 1
<1> DEFINE c == Append(p, m)
<1>1. /\ Len(c) = Len(p) + 1 /\ c[Len(p) + 1] = m /\ \A x \in 1..Len(p) : c[x] = p[x]
      /\ Len(p) \in Nat /\ Len(q) \in Nat
  BY CloneFacts DEF Payload
<1>2. Len(c) < Len(q) /\ \A x \in 1..Len(c) : q[x] = c[x]
  BY DEF Extends
<1> HIDE DEF c
<1> QED BY <1>1, <1>2 DEF Extends, FirstMark

(* What a clone was made of.                                               *)
LEMMA OriginalsOfClone ==
    ASSUME NEW p \in Payload, NEW m \in Nat \X Nat, NEW h \in Payload, Extends(Append(p, m), h)
    PROVE  h = p \/ (Extends(p, h) /\ FirstMark(Append(p, m), h) = FirstMark(p, h))
<1> DEFINE c == Append(p, m)
<1>1. /\ Len(c) = Len(p) + 1 /\ \A x \in 1..Len(p) : c[x] = p[x]
      /\ Len(p) \in Nat /\ Len(h) \in Nat
  BY CloneFacts DEF Payload
<1>2. Len(h) < Len(c) /\ \A x \in 1..Len(h) : c[x] = h[x]
  BY DEF Extends
<1> HIDE DEF c
<1>3. Len(h) <= Len(p) /\ \A x \in 1..Len(h) : p[x] = h[x]
  BY <1>1, <1>2
<1>4. CASE Len(h) = Len(p)
  <2>1. \A x \in 1..Len(p) : p[x] = h[x]
    BY <1>3, <1>4
  <2>2. p \in Seq(Nat \union (Nat \X Nat)) /\ h \in Seq(Nat \union (Nat \X Nat))
    BY DEF Payload
  <2> QED BY <1>4, <2>1, <2>2, SeqEqual
<1>5. CASE Len(h) < Len(p)
  BY <1>1, <1>3, <1>5 DEF Extends, FirstMark, c
<1> QED BY <1>1, <1>3, <1>4, <1>5

LEMMA CloneInjective ==
    ASSUME NEW p \in Payload, NEW m \in Nat \X Nat, NEW q \in Payload, NEW k \in Nat \X Nat,
           Append(p, m) = Append(q, k)
    PROVE  p = q /\ m = k
<1>1. /\ Len(p) + 1 = Len(q) + 1 /\ Len(p) \in Nat /\ Len(q) \in Nat
      /\ \A x \in 1..Len(p) : p[x] = q[x]
      /\ m = k
  <2>1. Len(p) \in Nat /\ Len(q) \in Nat
    BY LenProperties DEF Payload
  <2>2. /\ Len(Append(p, m)) = Len(p) + 1 /\ Append(p, m)[Len(p) + 1] = m
        /\ \A x \in 1..Len(p) : Append(p, m)[x] = p[x]
    BY CloneFacts, Zenon
  <2>3. /\ Len(Append(q, k)) = Len(q) + 1 /\ Append(q, k)[Len(q) + 1] = k
        /\ \A x \in 1..Len(q) : Append(q, k)[x] = q[x]
    BY CloneFacts, Zenon
  <2> DEFINE c == Append(p, m)
  <2>4. Append(q, k) = c
    OBVIOUS
  <2> HIDE DEF c
  <2> QED BY <2>1, <2>2, <2>3, <2>4 DEF c
<1> QED BY <1>1 DEF Payload
-----------------------------------------------------------------------------
(* What a dispatcher offers is its payload or a clone of it.               *)
LEMMA OfferedFacts ==
    ASSUME NEW d \in Dispatchers, NEW k \in Nat \ {0}, NEW p \in Payload
    PROVE  /\ <<d[1], k>> \in Nat \X Nat
           /\ k = 1 => Offered(d, k, p) = p
           /\ k > 1 => Offered(d, k, p) = Append(p, <<d[1], k>>)
<1>1. d[1] \in Nat
  BY Goroutines
<1> QED BY <1>1 DEF Offered

LEMMA Turns ==
    ASSUME TypeOK, Control, NEW d \in Dispatchers, hold[d] # NoPayload
    PROVE  /\ turn[d] \in 1..Stages[d[1]].workers /\ turn[d] \in Nat \ {0}
           /\ hold[d] \in Payload /\ d \in Goroutine
<1>1. d \in Goroutine /\ Stages[d[1]].workers \in Nat
  BY Goroutines
<1>2. pc[d] = "send"
  BY <1>1 DEF Control
<1> QED BY <1>1, <1>2 DEF Control, TypeOK

(* A payload has been cloned by the stages before its holder's only; what  *)
(* this says of the clones that somebody holds or that are marked.         *)
LEMMA UsedLineage ==
    ASSUME TypeOK, Control, Ownership, NEW g \in Goroutine, hold[g] # NoPayload,
           NEW q \in live, q \in marked \/ \E h \in Goroutine : hold[h] = q,
           Extends(q, hold[g])
    PROVE  LET m == FirstMark(q, hold[g])
           IN  \/ m[1] < g[1]
               \/ m[1] = g[1] /\ g \in Workers
               \/ m[1] = g[1] /\ g \in Dispatchers /\ m[2] > turn[g]
<1> DEFINE m == FirstMark(q, hold[g])
<1>1. \/ m[1] < g[1]
      \/ m[1] = g[1] /\ g \in Workers
      \/ m[1] = g[1] /\ g \in Dispatchers /\ (m[2] > turn[g] \/ q = Offer(g))
  BY DEF Ownership, Lineage
<1>2. ASSUME g \in Dispatchers, q = Offer(g) PROVE FALSE
  <2>1. turn[g] \in Nat \ {0} /\ hold[g] \in Payload
    BY <1>2, Turns
  <2>2. turn[g] > 1 => q \notin marked /\ \A h \in Goroutine : hold[h] # q
    BY <1>2 DEF Ownership, OfferFresh
  <2>3. turn[g] = 1 => q = hold[g]
    BY <1>2, <2>1, OfferedFacts DEF Offer
  <2>4. q # hold[g]
    BY <2>1, LenProperties DEF Extends, Payload
  <2> QED BY <2>1, <2>2, <2>3, <2>4
<1> QED BY <1>1, <1>2

(* The holder s of a payload hands it on to r, which is further down the   *)
(* pipeline; if r is a dispatcher, it offers the first clone.              *)
LEMMA HandOn ==
    ASSUME TypeOK, Control, Ownership, NEW s \in Goroutine, NEW r \in Goroutine, s # r,
           hold[s] # NoPayload, hold[r] = NoPayload,
           \A g \in Goroutine :
               hold'[g] = IF g = s THEN NoPayload ELSE IF g = r THEN hold[s] ELSE hold[g],
           marked' = marked, emitted' = emitted,
           \A q \in live : Extends(q, hold[s]) =>
               \/ FirstMark(q, hold[s])[1] < r[1]
               \/ FirstMark(q, hold[s])[1] = r[1] /\ r \in Workers,
           \A d \in Dispatchers \ {s, r} : turn'[d] = turn[d],
           IF r \in Dispatchers
           THEN /\ turn'[r] = Stages[r[1]].workers
                /\ live' = live \union {Offered(r, turn'[r], hold[s])}
           ELSE live' = live
    PROVE  Ownership'
<1> DEFINE p == hold[s]
           W == turn'[r]
           c == Append(p, <<r[1], W>>)
<1>0. /\ \A g \in Goroutine : hold[g] # NoPayload => hold[g] \in live
      /\ \A q \in live : q # NoPayload /\ q[1] \in 1..emitted
      /\ \A q \in live : \A x \in 2..Len(q) : q[x] \in Nat \X Nat
      /\ \A g \in Goroutine : hold[g] \notin marked
      /\ \A g, h \in Goroutine : g # h /\ hold[g] = hold[h] => hold[g] = NoPayload
      /\ marked \subseteq live
  BY DEF Ownership, OneHolder, TypeOK
<1>1. \A g \in Goroutine : hold'[g] = IF g = s THEN NoPayload ELSE IF g = r THEN p ELSE hold[g]
  OBVIOUS
<1>2. p \in live /\ p \in Payload /\ Len(p) \in Nat
  BY <1>0, LenProperties DEF TypeOK, Payload
<1>3. /\ live \subseteq live'
      /\ \A q \in live' \ live : /\ r \in Dispatchers /\ W \in Nat /\ W > 1
                                 /\ q = c /\ q = Offer(r)'
  <2>1. ASSUME r \in Dispatchers
        PROVE  /\ W \in Nat \ {0}
               /\ W = 1 => Offered(r, W, p) = p
               /\ W > 1 => Offered(r, W, p) = c
               /\ Offer(r)' = Offered(r, W, p)
    <3>1. W \in Nat \ {0}
      BY <2>1, Goroutines
    <3>2. Offer(r)' = Offered(r, W, p)
      BY <1>1 DEF Offer
    <3> QED BY <1>2, <2>1, <3>1, <3>2, OfferedFacts
  <2> QED BY <1>2, <2>1
<1>4. r \in Dispatchers /\ W \in Nat => <<r[1], W>> \in Nat \X Nat
  BY Goroutines
<1>5. \A q \in live' \ live : /\ q \in Payload /\ q # NoPayload /\ Len(q) = Len(p) + 1
                              /\ q[Len(p) + 1] \in Nat \X Nat /\ \A x \in 1..Len(p) : q[x] = p[x]
                              /\ Extends(q, p) /\ FirstMark(q, p) = <<r[1], W>>
  <2>1. ASSUME r \in Dispatchers, W \in Nat
        PROVE  /\ c \in Payload /\ c # NoPayload /\ Len(c) = Len(p) + 1
               /\ c[Len(p) + 1] \in Nat \X Nat /\ \A x \in 1..Len(p) : c[x] = p[x]
               /\ Extends(c, p) /\ FirstMark(c, p) = <<r[1], W>>
    <3>1. PICK m \in Nat \X Nat : m = <<r[1], W>>
      BY <1>4, <2>1
    <3>2. c = Append(p, m)
      BY <3>1
    <3> HIDE DEF c
    <3>3. /\ c \in Payload /\ c # NoPayload /\ Len(c) = Len(p) + 1
          /\ c[Len(p) + 1] = m /\ \A x \in 1..Len(p) : c[x] = p[x]
          /\ Extends(c, p) /\ FirstMark(c, p) = m
      BY <1>2, <3>2, CloneFacts
    <3> QED BY <3>1, <3>3
  <2> HIDE DEF c
  <2> QED BY <1>3, <2>1
<1>6. \A q \in live' : q # NoPayload /\ q[1] \in 1..emitted'
  <2>1. ASSUME NEW q \in live' \ live PROVE q[1] \in 1..emitted
    <3>1. p # <<>> /\ Len(p) # 0 /\ p[1] \in 1..emitted
      BY <1>0, <1>2, EmptySeq DEF NoPayload, Payload
    <3> QED BY <1>2, <1>5, <3>1
  <2> QED BY <1>0, <1>5, <2>1
<1>7. \A q \in live' : \A x \in 2..Len(q) : q[x] \in Nat \X Nat
  <2>1. ASSUME NEW q \in live' \ live, NEW x \in 2..Len(q) PROVE q[x] \in Nat \X Nat
    BY <1>0, <1>2, <1>5, <2>1
  <2> QED BY <1>0, <2>1
<1>8. OneHolder'
  <2>1. \A g \in Goroutine : hold'[g] \notin marked'
    BY <1>0, <1>1
  <2>2. ASSUME NEW g \in Goroutine, NEW h \in Goroutine, g # h, hold'[g] = hold'[h],
               hold'[g] # NoPayload
        PROVE  FALSE
    <3>1. CASE g = r
      BY <1>0, <1>1, <2>2, <3>1
    <3>2. CASE h = r
      BY <1>0, <1>1, <2>2, <3>2
    <3>3. CASE g # r /\ h # r
      BY <1>0, <1>1, <2>2, <3>3
    <3> QED BY <3>1, <3>2, <3>3
  <2> QED BY <2>1, <2>2 DEF OneHolder
<1>9. \A g \in Goroutine : hold'[g] # NoPayload => hold'[g] \in live'
  BY <1>0, <1>1, <1>2, <1>3
<1>10. Lineage'
  <2>1. SUFFICES ASSUME NEW g \in Goroutine, NEW q \in live',
                        hold'[g] # NoPayload, Extends(q, hold'[g])
                 PROVE  LET m == FirstMark(q, hold'[g])
                        IN  \/ m[1] < g[1]
                            \/ m[1] = g[1] /\ g \in Workers
                            \/ /\ m[1] = g[1] /\ g \in Dispatchers
                               /\ m[2] > turn'[g] \/ q = Offer(g)'
    BY DEF Lineage, Extends, FirstMark
  <2>2. CASE q \in live /\ g = r
    BY <1>1, <2>1, <2>2
  <2>3. CASE q \in live /\ g # r
    <3>1. g # s /\ hold'[g] = hold[g] /\ (g \in Dispatchers => turn'[g] = turn[g])
      BY <1>1, <2>1, <2>3
    <3>2. g \in Dispatchers => Offer(g)' = Offer(g)
      BY <3>1 DEF Offer, Offered
    <3> QED BY <2>1, <2>3, <3>1, <3>2 DEF Ownership, Lineage
  <2>4. CASE q \notin live /\ g = r
    <3>1. FirstMark(q, hold'[g]) = <<r[1], W>> /\ q = Offer(r)' /\ r \in Dispatchers
      BY <1>1, <1>3, <1>5, <2>4
    <3> QED BY <2>4, <3>1
  <2>5. CASE q \notin live /\ g # r
    <3>1. g # s /\ hold'[g] = hold[g] /\ hold[g] # p /\ (g \in Dispatchers => turn'[g] = turn[g])
      BY <1>0, <1>1, <2>1, <2>5
    <3>2. hold[g] \in Payload
      BY DEF TypeOK
    <3>3. q = Append(p, <<r[1], W>>) /\ <<r[1], W>> \in Nat \X Nat
      BY <1>3, <1>4, <2>5
    <3>4. Extends(p, hold[g]) /\ FirstMark(q, hold[g]) = FirstMark(p, hold[g])
      BY <1>2, <2>1, <3>1, <3>2, <3>3, OriginalsOfClone
    <3>5. LET m == FirstMark(p, hold[g])
          IN  \/ m[1] < g[1]
              \/ m[1] = g[1] /\ g \in Workers
              \/ m[1] = g[1] /\ g \in Dispatchers /\ m[2] > turn[g]
      BY <1>2, <2>1, <3>1, <3>4, UsedLineage
    <3> QED BY <3>1, <3>4, <3>5
  <2> QED BY <2>2, <2>3, <2>4, <2>5
<1>11. OfferFresh'
  <2>1. SUFFICES ASSUME NEW d \in Dispatchers, hold'[d] # NoPayload, turn'[d] > 1
                 PROVE  Offer(d)' \in live' \ marked /\ \A g \in Goroutine : hold'[g] # Offer(d)'
    BY DEF OfferFresh
  <2>2. d \in Goroutine
    BY Goroutines
  <2>3. CASE d = r
    <3>1. /\ W \in Nat /\ Offered(r, W, p) = c /\ Offer(r)' = c /\ c \in live'
      <4>1. W \in Nat \ {0} /\ W > 1
        BY <2>1, <2>3, Goroutines
      <4>2. Offer(r)' = Offered(r, W, p)
        BY <1>1 DEF Offer
      <4> QED BY <1>2, <2>3, <4>1, <4>2, OfferedFacts
    <3>2. c \notin live
      <4>1. Extends(c, p) /\ FirstMark(c, p)[1] = r[1]
        BY <1>2, <1>4, <2>3, <3>1, CloneFacts
      <4>2. r[1] \in Nat /\ r \notin Workers
        BY <2>3, Goroutines
      <4> HIDE DEF c
      <4> QED BY <4>1, <4>2
    <3>3. \A g \in Goroutine : hold'[g] # c
      <4>1. c # NoPayload
        BY <1>2, <1>4, <2>3, <3>1, CloneFacts
      <4> HIDE DEF c
      <4>2. \A g \in Goroutine : hold'[g] = NoPayload \/ \E h \in Goroutine : hold'[g] = hold[h]
        BY <1>1
      <4>3. \A h \in Goroutine : hold[h] # c
        BY <1>0, <3>2, <4>1
      <4> QED BY <4>1, <4>2, <4>3
    <3> QED BY <1>0, <2>3, <3>1, <3>2, <3>3
  <2>4. CASE d # r
    <3>1. d # s /\ hold'[d] = hold[d] /\ turn'[d] = turn[d]
      BY <1>1, <2>1, <2>2, <2>4
    <3>2. Offer(d)' = Offer(d)
      BY <3>1 DEF Offer
    <3>3. Offer(d) \in live \ marked /\ \A g \in Goroutine : hold[g] # Offer(d)
      BY <2>1, <3>1 DEF Ownership, OfferFresh
    <3> QED BY <1>0, <1>1, <1>2, <1>3, <3>1, <3>2, <3>3
  <2> QED BY <2>3, <2>4
<1> QED BY <1>6, <1>7, <1>8, <1>9, <1>10, <1>11 DEF Ownership

(* A dispatcher s hands a clone to its worker r and offers the next one.   *)
LEMMA HandClone ==
    ASSUME TypeOK, Control, Ownership, NEW s \in Dispatchers, NEW r \in Workers, r[1] = s[1],
           hold[s] # NoPayload, hold[r] = NoPayload, turn[s] > 1,
           \A g \in Goroutine : hold'[g] = IF g = r THEN Offer(s) ELSE hold[g],
           \A d \in Dispatchers : turn'[d] = IF d = s THEN turn[s] - 1 ELSE turn[d],
           live' = live \union {Offered(s, turn[s] - 1, hold[s])},
           marked' = marked, emitted' = emitted
    PROVE  Ownership'
<1> DEFINE p == hold[s]
           t == turn[s]
           o == Append(p, <<s[1], t>>)
           n == Append(p, <<s[1], t - 1>>)
<1>1. /\ \A g \in Goroutine : hold[g] # NoPayload => hold[g] \in live
      /\ \A q \in live : q # NoPayload /\ q[1] \in 1..emitted
      /\ \A q \in live : \A x \in 2..Len(q) : q[x] \in Nat \X Nat
      /\ \A g \in Goroutine : hold[g] \notin marked
      /\ \A g, h \in Goroutine : g # h /\ hold[g] = hold[h] => hold[g] = NoPayload
      /\ marked \subseteq live
  BY DEF Ownership, OneHolder, TypeOK
<1>2. /\ s \in Goroutine /\ r \in Goroutine /\ s # r /\ s \notin Workers /\ r \notin Dispatchers
      /\ s[1] \in Nat
  BY Goroutines
<1>3. p \in Payload /\ p \in live /\ t \in Nat /\ t > 1 /\ Len(p) \in Nat
  BY <1>1, <1>2, Turns, LenProperties DEF Payload
<1>4. /\ <<s[1], t>> \in Nat \X Nat /\ <<s[1], t - 1>> \in Nat \X Nat
      /\ Offer(s) = o
      /\ Offer(s)' = Offered(s, t - 1, p)
      /\ t = 2 => Offer(s)' = p
      /\ t > 2 => Offer(s)' = n
  <2>1. Offer(s)' = Offered(s, t - 1, p)
    BY <1>2 DEF Offer
  <2>2. t - 1 \in Nat \ {0}
    BY <1>3
  <2>3. (t = 2 <=> t - 1 = 1) /\ (t > 2 <=> t - 1 > 1)
    BY <1>3
  <2>4. Offer(s) = o /\ <<s[1], t>> \in Nat \X Nat
    <3>1. t \in Nat \ {0}
      BY <1>3
    <3> QED BY <1>3, <3>1, OfferedFacts DEF Offer
  <2>5. <<s[1], t - 1>> \in Nat \X Nat
    BY <1>2, <2>2
  <2>6. /\ t - 1 = 1 => Offered(s, t - 1, p) = p
        /\ t - 1 > 1 => Offered(s, t - 1, p) = n
    BY <1>3, <2>2, OfferedFacts
  <2> HIDE DEF n, o
  <2> QED BY <2>1, <2>3, <2>4, <2>5, <2>6
<1>5. /\ Len(n) = Len(p) + 1 /\ n \in Payload /\ n # NoPayload
      /\ n[Len(p) + 1] \in Nat \X Nat /\ \A x \in 1..Len(p) : n[x] = p[x]
      /\ Extends(n, p) /\ FirstMark(n, p) = <<s[1], t - 1>>
      /\ Len(o) = Len(p) + 1 /\ o \in Payload /\ o # NoPayload
      /\ Extends(o, p) /\ FirstMark(o, p) = <<s[1], t>>
  <2>1. PICK x, y : x = <<s[1], t>> /\ y = <<s[1], t - 1>>
    OBVIOUS
  <2>2. x \in Nat \X Nat /\ y \in Nat \X Nat /\ n = Append(p, y) /\ o = Append(p, x)
    BY <1>4, <2>1
  <2> HIDE DEF n, o
  <2>3. /\ Len(n) = Len(p) + 1 /\ n \in Payload /\ n # NoPayload
        /\ n[Len(p) + 1] = y /\ \A i \in 1..Len(p) : n[i] = p[i]
        /\ Extends(n, p) /\ FirstMark(n, p) = y
    BY <1>3, <2>2, CloneFacts
  <2>4. Len(o) = Len(p) + 1 /\ o \in Payload /\ o # NoPayload /\ Extends(o, p) /\ FirstMark(o, p) = x
    BY <1>3, <2>2, CloneFacts
  <2> QED BY <2>1, <2>2, <2>3, <2>4
<1>6. o # n /\ o # p
  <2>1. <<s[1], t>> # <<s[1], t - 1>>
    BY <1>3
  <2> HIDE DEF o, n
  <2> QED BY <1>3, <1>5, <2>1
<1>7. o \in live \ marked /\ \A g \in Goroutine : hold[g] # o
  <2>1. s \in Dispatchers /\ hold[s] # NoPayload /\ turn[s] > 1
    BY <1>2, <1>3
  <2>2. OfferFresh
    BY DEF Ownership
  <2>3. Offer(s) \in live \ marked /\ \A g \in Goroutine : hold[g] # Offer(s)
    BY <2>1, <2>2 DEF OfferFresh
  <2>4. Offer(s) = o
    BY <1>4
  <2> HIDE DEF o
  <2> QED BY <2>3, <2>4
<1>8. /\ live \subseteq live'
      /\ \A q \in live' \ live : q = n /\ q = Offer(s)'
  BY <1>3, <1>4
<1>9. n \notin live
  <2>1. ASSUME n \in live PROVE FALSE
    <3> DEFINE m == FirstMark(n, p)
    <3>1. \/ m[1] < s[1]
          \/ m[1] = s[1] /\ s \in Workers
          \/ m[1] = s[1] /\ s \in Dispatchers /\ (m[2] > t \/ n = o)
      BY <1>2, <1>4, <1>5, <2>1 DEF Ownership, Lineage
    <3>2. m[1] = s[1] /\ m[2] = t - 1
      BY <1>5
    <3> HIDE DEF m, n, o
    <3> QED BY <1>2, <1>3, <1>6, <3>1, <3>2
  <2> QED BY <2>1
<1> HIDE DEF o, n
<1>10. \A q \in live' : q # NoPayload /\ q[1] \in 1..emitted'
  <2>1. p # <<>> /\ Len(p) # 0 /\ p[1] \in 1..emitted
    BY <1>1, <1>3, EmptySeq DEF NoPayload, Payload
  <2>2. n[1] \in 1..emitted
    BY <1>3, <1>5, <2>1
  <2> QED BY <1>1, <1>5, <1>8, <2>2
<1>11. \A q \in live' : \A x \in 2..Len(q) : q[x] \in Nat \X Nat
  <2>1. ASSUME NEW x \in 2..Len(n) PROVE n[x] \in Nat \X Nat
    <3>1. CASE x = Len(p) + 1
      BY <1>5, <3>1
    <3>2. CASE x # Len(p) + 1
      <4>1. x \in 2..Len(p) /\ n[x] = p[x]
        BY <1>3, <1>5, <3>2
      <4> QED BY <1>1, <1>3, <4>1
    <3> QED BY <3>1, <3>2
  <2> QED BY <1>1, <1>8, <2>1
<1>12. OneHolder'
  <2>1. \A g \in Goroutine : hold'[g] \notin marked'
    BY <1>1, <1>4, <1>7
  <2>2. \A g, h \in Goroutine : g # h /\ hold'[g] = hold'[h] => hold'[g] = NoPayload
    BY <1>1, <1>4, <1>7
  <2> QED BY <2>1, <2>2 DEF OneHolder
<1>13. \A g \in Goroutine : hold'[g] # NoPayload => hold'[g] \in live'
  BY <1>1, <1>4, <1>7, <1>8
<1>14. Lineage'
  <2>1. SUFFICES ASSUME NEW g \in Goroutine, NEW q \in live',
                        hold'[g] # NoPayload, Extends(q, hold'[g])
                 PROVE  LET m == FirstMark(q, hold'[g])
                        IN  \/ m[1] < g[1]
                            \/ m[1] = g[1] /\ g \in Workers
                            \/ /\ m[1] = g[1] /\ g \in Dispatchers
                               /\ m[2] > turn'[g] \/ q = Offer(g)'
    BY DEF Lineage, Extends, FirstMark
  <2>2. q \in Payload
    BY <1>5, <1>8 DEF TypeOK
  <2>3. CASE g = r
    <3>1. Extends(q, o)
      BY <1>2, <1>4, <2>1, <2>3
    <3>2. Extends(q, p) /\ FirstMark(q, p) = <<s[1], t>> /\ Len(q) > Len(p) + 1
      BY <1>3, <1>4, <2>2, <3>1, ClonesOfClone DEF o
    <3>3. q \in live /\ q # o
      BY <1>3, <1>5, <1>8, <3>2
    <3>4. \/ s[1] < s[1]
          \/ s[1] = s[1] /\ s \in Workers
          \/ s[1] = s[1] /\ s \in Dispatchers /\ (t > t \/ q = o)
      BY <1>2, <1>4, <3>2, <3>3 DEF Ownership, Lineage
    <3> QED BY <1>2, <1>3, <3>3, <3>4
  <2>4. CASE q \in live /\ g = s
    <3>1. hold'[g] = p /\ turn'[g] = t - 1
      BY <1>2, <2>4
    <3> DEFINE m == FirstMark(q, p)
    <3>2. \/ m[1] < s[1]
          \/ m[1] = s[1] /\ (m[2] > t \/ q = o)
      BY <1>2, <1>4, <2>1, <2>4, <3>1 DEF Ownership, Lineage
    <3>3. q = o => m[2] = t
      BY <1>5
    <3>4. q \in live => (m[2] > t => m[2] > t - 1)
      <4>1. m[2] \in Nat
        <5>1. Len(p) # 0 /\ Len(p) + 1 \in 2..Len(q) /\ Len(q) \in Nat
          BY <1>1, <1>3, <2>1, <2>2, <3>1, EmptySeq, LenProperties DEF Extends, NoPayload, Payload
        <5>2. q[Len(p) + 1] \in Nat \X Nat
          BY <1>1, <2>4, <5>1
        <5> QED BY <5>2 DEF FirstMark
      <4> HIDE DEF m
      <4> QED BY <1>3, <4>1
    <3> HIDE DEF m
    <3>5. m[1] < s[1] \/ (m[1] = s[1] /\ m[2] > turn'[s])
      BY <1>3, <2>4, <3>1, <3>2, <3>3, <3>4
    <3> QED BY <2>4, <3>1, <3>5 DEF m
  <2>5. CASE q \in live /\ g # r /\ g # s
    <3>1. hold'[g] = hold[g] /\ (g \in Dispatchers => turn'[g] = turn[g])
      BY <2>5
    <3>2. g \in Dispatchers => Offer(g)' = Offer(g)
      BY <3>1 DEF Offer
    <3> QED BY <2>1, <2>5, <3>1, <3>2 DEF Ownership, Lineage
  <2>6. CASE q \notin live /\ g = s
    <3>1. hold'[g] = p /\ q = n /\ q = Offer(s)'
      BY <1>2, <1>8, <2>6
    <3> QED BY <1>5, <2>6, <3>1
  <2>7. CASE q \notin live /\ g # r /\ g # s
    <3>1. hold'[g] = hold[g] /\ hold[g] # p /\ (g \in Dispatchers => turn'[g] = turn[g])
      BY <1>1, <1>2, <2>1, <2>7
    <3>2. hold[g] \in Payload
      BY DEF TypeOK
    <3>3. q = Append(p, <<s[1], t - 1>>)
      BY <1>8, <2>7 DEF n
    <3>4. Extends(p, hold[g]) /\ FirstMark(q, hold[g]) = FirstMark(p, hold[g])
      BY <1>3, <1>4, <2>1, <3>1, <3>2, <3>3, OriginalsOfClone
    <3>5. LET m == FirstMark(p, hold[g])
          IN  \/ m[1] < g[1]
              \/ m[1] = g[1] /\ g \in Workers
              \/ m[1] = g[1] /\ g \in Dispatchers /\ m[2] > turn[g]
      BY <1>2, <1>3, <2>1, <3>1, <3>4, UsedLineage
    <3> QED BY <3>1, <3>4, <3>5
  <2> QED BY <2>3, <2>4, <2>5, <2>6, <2>7
<1>15. OfferFresh'
  <2>1. SUFFICES ASSUME NEW d \in Dispatchers, hold'[d] # NoPayload, turn'[d] > 1
                 PROVE  Offer(d)' \in live' \ marked /\ \A g \in Goroutine : hold'[g] # Offer(d)'
    BY DEF OfferFresh
  <2>2. d \in Goroutine /\ d # r
    BY <1>2, Goroutines
  <2>3. CASE d = s
    <3>1. Offer(d)' = n
      BY <1>3, <1>4, <2>1, <2>3
    <3>2. n \in live'
      BY <1>4, <2>3, <3>1
    <3>3. \A g \in Goroutine : hold'[g] # n
      BY <1>1, <1>4, <1>5, <1>6, <1>9
    <3> QED BY <1>1, <1>9, <3>1, <3>2, <3>3
  <2>4. CASE d # s
    <3>1. hold'[d] = hold[d] /\ turn'[d] = turn[d] /\ turn[d] > 1 /\ hold[d] # NoPayload
      BY <2>1, <2>2, <2>4
    <3>2. Offer(d)' = Offer(d)
      BY <3>1 DEF Offer
    <3>3. Offer(d) \in live \ marked /\ \A g \in Goroutine : hold[g] # Offer(d)
      BY <3>1 DEF Ownership, OfferFresh
    <3>4. Offer(d) # o
      <4>1. hold[d] \in Payload /\ turn[d] \in Nat \ {0}
        BY <3>1, Turns
      <4>2. Offer(d) = Append(hold[d], <<d[1], turn[d]>>) /\ <<d[1], turn[d]>> \in Nat \X Nat
        BY <3>1, <4>1, OfferedFacts DEF Offer
      <4>3. hold[d] # p
        BY <1>1, <1>2, <2>2, <2>4, <3>1
      <4>4. ASSUME Append(hold[d], <<d[1], turn[d]>>) = Append(p, <<s[1], t>>) PROVE FALSE
        BY <1>3, <1>4, <4>1, <4>2, <4>3, <4>4, CloneInjective
      <4> QED BY <4>2, <4>4 DEF o
    <3> QED BY <1>4, <1>8, <3>2, <3>3, <3>4
  <2> QED BY <2>3, <2>4
<1> QED BY <1>10, <1>11, <1>12, <1>13, <1>14, <1>15 DEF Ownership

(* A goroutine gives up what it holds, if it holds anything, marked or not. *)
LEMMA LetGo ==
    ASSUME TypeOK, Control, Ownership, NEW w \in Goroutine,
           \A g \in Goroutine : hold'[g] = IF g = w THEN NoPayload ELSE hold[g],
           marked' = marked \/ (hold[w] # NoPayload /\ marked' = marked \union {hold[w]}),
           turn' = turn, live' = live, emitted' = emitted
    PROVE  Ownership'
<1>1. /\ \A g \in Goroutine : hold[g] # NoPayload => hold[g] \in live
      /\ \A q \in live : q # NoPayload /\ q[1] \in 1..emitted
      /\ \A q \in live : \A x \in 2..Len(q) : q[x] \in Nat \X Nat
      /\ \A g \in Goroutine : hold[g] \notin marked
      /\ \A g, h \in Goroutine : g # h /\ hold[g] = hold[h] => hold[g] = NoPayload
      /\ marked \subseteq live
  BY DEF Ownership, OneHolder, TypeOK
<1>2. \A g \in Goroutine : hold'[g] # NoPayload => hold'[g] = hold[g] /\ hold[g] # NoPayload /\ g # w
  OBVIOUS
<1>3. \A g \in Goroutine : hold'[g] # NoPayload => hold'[g] \in live'
  BY <1>1
<1>4. OneHolder'
  <2>1. \A g \in Goroutine : hold'[g] \notin marked'
    BY <1>1
  <2>2. \A g, h \in Goroutine : g # h /\ hold'[g] = hold'[h] => hold'[g] = NoPayload
    BY <1>1
  <2> QED BY <2>1, <2>2 DEF OneHolder
<1>5. \A d \in Dispatchers : hold'[d] # NoPayload => hold[d] # NoPayload /\ Offer(d)' = Offer(d)
  BY <1>2, Goroutines DEF Offer
<1>6. Lineage'
  <2>1. SUFFICES ASSUME NEW g \in Goroutine, NEW q \in live,
                        hold'[g] # NoPayload, Extends(q, hold'[g])
                 PROVE  LET m == FirstMark(q, hold'[g])
                        IN  \/ m[1] < g[1]
                            \/ m[1] = g[1] /\ g \in Workers
                            \/ /\ m[1] = g[1] /\ g \in Dispatchers
                               /\ m[2] > turn[g] \/ q = Offer(g)'
    BY DEF Lineage, Extends, FirstMark
  <2>2. hold'[g] = hold[g] /\ hold[g] # NoPayload
    BY <1>2, <2>1
  <2>3. g \in Dispatchers => Offer(g)' = Offer(g)
    BY <1>5, <2>1
  <2> QED BY <2>1, <2>2, <2>3 DEF Ownership, Lineage
<1>7. OfferFresh'
  <2>1. SUFFICES ASSUME NEW d \in Dispatchers, hold'[d] # NoPayload, turn[d] > 1
                 PROVE  Offer(d)' \in live \ marked' /\ \A g \in Goroutine : hold'[g] # Offer(d)'
    BY DEF OfferFresh
  <2>2. Offer(d)' = Offer(d) /\ hold[d] # NoPayload
    BY <1>5, <2>1
  <2>3. Offer(d) \in live \ marked /\ \A g \in Goroutine : hold[g] # Offer(d)
    BY <2>1, <2>2 DEF Ownership, OfferFresh
  <2> QED BY <1>1, <2>2, <2>3
<1> QED BY <1>1, <1>3, <1>4, <1>6, <1>7 DEF Ownership

(* The source comes with a new payload.                                    *)
LEMMA ComesNew ==
    ASSUME TypeOK, Control, Ownership, SourceNext
    PROVE  Ownership'
<1> DEFINE n == <<emitted + 1>>
<1>1. /\ \A g \in Goroutine : hold[g] # NoPayload => hold[g] \in live
      /\ \A q \in live : q # NoPayload /\ q[1] \in 1..emitted
      /\ \A q \in live : \A x \in 2..Len(q) : q[x] \in Nat \X Nat
      /\ \A g \in Goroutine : hold[g] \notin marked
      /\ \A g, h \in Goroutine : g # h /\ hold[g] = hold[h] => hold[g] = NoPayload
      /\ marked \subseteq live
  BY DEF Ownership, OneHolder, TypeOK
<1>2. /\ live' = live \union {n} /\ marked' = marked /\ turn' = turn /\ emitted' = emitted + 1
      /\ Source \in Goroutine /\ Source \notin Dispatchers
      /\ \A g \in Goroutine : hold'[g] = IF g = Source THEN n ELSE hold[g]
  BY Goroutines DEF SourceNext, Goto, TypeOK
<1>3. /\ emitted \in Nat /\ n[1] = emitted + 1 /\ n[1] \notin 1..emitted /\ Len(n) = 1
      /\ n \in Payload
  BY DEF TypeOK, Payload
<1>4. n \notin live /\ n # NoPayload
  BY <1>1, <1>3 DEF NoPayload
<1>5. \A q, p \in Payload : p # NoPayload /\ Extends(q, p) => q # n /\ q[1] = p[1]
  <2>1. SUFFICES ASSUME NEW q \in Payload, NEW p \in Payload, p # NoPayload, Extends(q, p)
                 PROVE  q # n /\ q[1] = p[1]
    OBVIOUS
  <2>2. Len(p) \in Nat \ {0}
    BY <2>1, EmptySeq DEF NoPayload, Payload
  <2>3. Len(q) # 1
    BY <2>1, <2>2, LenProperties DEF Extends, Payload
  <2>4. 1 \in 1..Len(p)
    BY <2>2
  <2> HIDE DEF n
  <2> QED BY <1>3, <2>1, <2>3, <2>4 DEF Extends
<1>6. \A q \in live' : q # NoPayload /\ q[1] \in 1..emitted'
  <2>1. 1..emitted \subseteq 1..(emitted + 1) /\ emitted + 1 \in 1..(emitted + 1)
    BY <1>3
  <2> HIDE DEF n
  <2> QED BY <1>1, <1>2, <1>3, <1>4, <2>1
<1>7. \A q \in live' : \A x \in 2..Len(q) : q[x] \in Nat \X Nat
  BY <1>1, <1>2, <1>3
<1> HIDE DEF n
<1>8. OneHolder'
  <2>1. \A g \in Goroutine : hold'[g] \notin marked'
    BY <1>1, <1>2, <1>4
  <2>2. \A g \in Goroutine : hold[g] # n
    BY <1>1, <1>4
  <2>3. \A g, h \in Goroutine : g # h /\ hold'[g] = hold'[h] => hold'[g] = NoPayload
    BY <1>1, <1>2, <2>2
  <2> QED BY <2>1, <2>3 DEF OneHolder
<1>9. \A g \in Goroutine : hold'[g] # NoPayload => hold'[g] \in live'
  BY <1>1, <1>2
<1>10. \A d \in Dispatchers : hold'[d] = hold[d] /\ Offer(d)' = Offer(d)
  BY <1>2, Goroutines DEF Offer
<1>11. Lineage'
  <2>1. SUFFICES ASSUME NEW g \in Goroutine, NEW q \in live',
                        hold'[g] # NoPayload, Extends(q, hold'[g])
                 PROVE  LET m == FirstMark(q, hold'[g])
                        IN  \/ m[1] < g[1]
                            \/ m[1] = g[1] /\ g \in Workers
                            \/ /\ m[1] = g[1] /\ g \in Dispatchers
                               /\ m[2] > turn'[g] \/ q = Offer(g)'
    BY DEF Lineage, Extends, FirstMark
  <2>2. q \in Payload /\ hold'[g] \in Payload
    BY <1>2, <1>3 DEF TypeOK
  <2>3. q \in live /\ q[1] = hold'[g][1]
    BY <1>2, <1>5, <2>1, <2>2
  <2>4. g # Source
    BY <1>1, <1>2, <1>3, <2>3
  <2>5. hold'[g] = hold[g] /\ (g \in Dispatchers => Offer(g)' = Offer(g))
    BY <1>2, <1>10, <2>4
  <2> QED BY <1>2, <2>1, <2>3, <2>5 DEF Ownership, Lineage
<1>12. OfferFresh'
  <2>1. SUFFICES ASSUME NEW d \in Dispatchers, hold'[d] # NoPayload, turn'[d] > 1
                 PROVE  Offer(d)' \in live' \ marked /\ \A g \in Goroutine : hold'[g] # Offer(d)'
    BY <1>2 DEF OfferFresh
  <2>2. Offer(d) \in live \ marked /\ \A g \in Goroutine : hold[g] # Offer(d)
    BY <1>2, <1>10, <2>1 DEF Ownership, OfferFresh
  <2> QED BY <1>2, <1>4, <1>10, <2>2
<1> QED BY <1>6, <1>7, <1>8, <1>9, <1>11, <1>12 DEF Ownership
-----------------------------------------------------------------------------
(* Who reads what s writes: a goroutine of the next stage, or, if s is a   *)
(* dispatcher, the worker whose turn it is.                                *)
LEMMA Partners ==
    ASSUME TypeOK, Control, NEW s \in Goroutine, NEW r \in Goroutine,
           pc[s] = "send", pc[r] = "recv", OutCh(s) = InCh[r]
    PROVE  /\ s # r /\ s # Sink /\ r # Source
           /\ hold[s] # NoPayload /\ hold[r] = NoPayload
           /\ s \notin Dispatchers => r[1] = s[1] + 1
           /\ s \in Dispatchers => r \in Workers /\ r = <<s[1], turn[s]>> /\ r[1] = s[1]
<1>1. s # r /\ s # Sink /\ r # Source /\ hold[s] # NoPayload /\ hold[r] = NoPayload
  BY DEF Control
<1>2. /\ r[1] \in Int /\ s[1] \in Int
      /\ InCh[r] = IF r \in Workers /\ IsBroadcast(r[1]) THEN r ELSE <<r[1] - 1, 0>>
  <2>1. r[1] \in Int /\ s[1] \in Int
    BY Goroutines
  <2> QED BY <2>1 DEF InCh, StageCh
<1>3. CASE s \notin Dispatchers
  <2>1. OutCh(s) = <<s[1], 0>>
    BY <1>3 DEF OutCh, StageCh
  <2>2. r \in Workers => r # <<s[1], 0>>
    BY Goroutines
  <2>3. <<s[1], 0>> = <<r[1] - 1, 0>>
    BY <1>2, <2>1, <2>2
  <2> QED BY <1>1, <1>2, <1>3, <2>3
<1>4. CASE s \in Dispatchers
  <2>1. OutCh(s) = <<s[1], turn[s]>> /\ turn[s] \in Nat \ {0}
    BY <1>1, <1>4, Turns DEF OutCh
  <2>2. <<s[1], turn[s]>> # <<r[1] - 1, 0>>
    BY <2>1
  <2>3. r \in Workers /\ r = <<s[1], turn[s]>>
    BY <1>2, <2>1, <2>2
  <2>4. r[1] = s[1]
    BY <2>3
  <2> QED BY <1>1, <1>4, <2>3, <2>4
<1> QED BY <1>3, <1>4

(* What a transfer changes, for each kind of sender.                       *)
LEMMA TransferChanges ==
    ASSUME TypeOK, Control, NEW s \in Goroutine, NEW r \in Goroutine,
           pc[s] = "send", pc[r] = "recv", Transfer(s, r)
    PROVE  /\ marked' = marked /\ emitted' = emitted
           /\ turn' \in [Dispatchers -> Nat]
           /\ \A g \in Goroutine :
                  pc'[g] = IF g = s THEN AfterSend(s)
                           ELSE IF g = r THEN IF r \in Dispatchers THEN "send" ELSE "work"
                           ELSE pc[g]
           /\ s \in Dispatchers /\ turn[s] > 1 =>
                /\ AfterSend(s) = "send"
                /\ \A g \in Goroutine : hold'[g] = IF g = r THEN Offer(s) ELSE hold[g]
                /\ \A d \in Dispatchers : turn'[d] = IF d = s THEN turn[s] - 1 ELSE turn[d]
                /\ live' = live \union {Offered(s, turn[s] - 1, hold[s])}
           /\ ~(s \in Dispatchers /\ turn[s] > 1) =>
                /\ AfterSend(s) = IF s = Source THEN "next" ELSE "recv"
                /\ \A g \in Goroutine :
                       hold'[g] = IF g = s THEN NoPayload ELSE IF g = r THEN hold[s] ELSE hold[g]
                /\ \A d \in Dispatchers \ {s, r} : turn'[d] = turn[d]
                /\ IF r \in Dispatchers
                   THEN /\ turn'[r] = Stages[r[1]].workers
                        /\ live' = live \union {Offered(r, turn'[r], hold[s])}
                   ELSE live' = live
<1>1. /\ s # r /\ hold[s] # NoPayload /\ hold[r] = NoPayload
      /\ s \notin Dispatchers => r[1] = s[1] + 1
      /\ s \in Dispatchers => r \in Workers
  BY Partners DEF Transfer
<1>2. s \in Dispatchers => turn[s] \in Nat \ {0} /\ hold[s] \in Payload /\ s # Source
  BY <1>1, Turns, Goroutines
<1>3. r \in Dispatchers => s \notin Dispatchers /\ Stages[r[1]].workers \in Nat
  BY <1>1, Goroutines
<1> DEFINE more == AfterSend(s) = "send"
           payload == Offered(s, turn[s], hold[s])
<1>4. more <=> s \in Dispatchers /\ turn[s] > 1
  BY <1>2 DEF AfterSend
<1>5. ~(s \in Dispatchers /\ turn[s] > 1) => AfterSend(s) = IF s = Source THEN "next" ELSE "recv"
  BY DEF AfterSend
<1>6. ~(s \in Dispatchers /\ turn[s] > 1) => payload = hold[s]
  BY <1>2 DEF Offered
<1>7. /\ marked' = marked /\ emitted' = emitted
      /\ pc' = [pc EXCEPT ![s] = AfterSend(s), ![r] = IF r \in Dispatchers THEN "send" ELSE "work"]
      /\ hold' = [hold EXCEPT ![s] = IF more THEN @ ELSE NoPayload, ![r] = payload]
      /\ turn' = [g \in Dispatchers |->
                       CASE g = s -> turn[g] - 1
                         [] g = r -> Stages[g[1]].workers
                         [] OTHER -> turn[g]]
      /\ live' = live
                   \union (IF more THEN {Offered(s, turn[s] - 1, hold[s])} ELSE {})
                   \union (IF r \in Dispatchers THEN {Offered(r, Stages[r[1]].workers, payload)} ELSE {})
  BY DEF Transfer
<1> HIDE DEF more, payload
<1>8. \A g \in Goroutine :
          pc'[g] = IF g = s THEN AfterSend(s)
                   ELSE IF g = r THEN IF r \in Dispatchers THEN "send" ELSE "work"
                   ELSE pc[g]
  BY <1>1, <1>7 DEF TypeOK
<1>9. \A g \in Goroutine :
          hold'[g] = IF g = r THEN payload
                     ELSE IF g = s THEN IF more THEN hold[s] ELSE NoPayload
                     ELSE hold[g]
  BY <1>1, <1>7 DEF TypeOK
<1>10. \A d \in Dispatchers :
          turn'[d] = IF d = s THEN turn[s] - 1 ELSE IF d = r THEN Stages[r[1]].workers ELSE turn[d]
  BY <1>1, <1>7
<1>11. turn' \in [Dispatchers -> Nat]
  <2>1. \A d \in Dispatchers : turn'[d] \in Nat
    BY <1>2, <1>3, <1>10 DEF TypeOK
  <2> QED BY <1>7, <2>1
<1>12. payload = Offer(s)
  BY DEF payload, Offer
<1>13. CASE s \in Dispatchers /\ turn[s] > 1
  <2>1. r \notin Dispatchers /\ AfterSend(s) = "send" /\ more
    BY <1>1, <1>3, <1>4, <1>13 DEF more
  <2>2. \A g \in Goroutine : hold'[g] = IF g = r THEN Offer(s) ELSE hold[g]
    BY <1>9, <1>12, <2>1
  <2>3. \A d \in Dispatchers : turn'[d] = IF d = s THEN turn[s] - 1 ELSE turn[d]
    BY <1>10, <2>1
  <2>4. live' = live \union {Offered(s, turn[s] - 1, hold[s])}
    BY <1>7, <2>1
  <2> QED BY <1>7, <1>8, <1>11, <1>13, <2>1, <2>2, <2>3, <2>4
<1>14. CASE ~(s \in Dispatchers /\ turn[s] > 1)
  <2>1. ~more /\ payload = hold[s]
    BY <1>4, <1>6, <1>14
  <2>2. \A g \in Goroutine :
            hold'[g] = IF g = s THEN NoPayload ELSE IF g = r THEN hold[s] ELSE hold[g]
    BY <1>1, <1>9, <2>1
  <2>3. \A d \in Dispatchers \ {s, r} : turn'[d] = turn[d]
    BY <1>10
  <2>4. CASE r \in Dispatchers
    <3>1. turn'[r] = Stages[r[1]].workers
      BY <1>1, <1>10, <2>4
    <3>2. live' = live \union {Offered(r, turn'[r], hold[s])}
      BY <1>7, <2>1, <2>4, <3>1
    <3> QED BY <1>5, <1>7, <1>8, <1>11, <1>14, <2>2, <2>3, <2>4, <3>1, <3>2
  <2>5. CASE r \notin Dispatchers
    <3>1. live' = live
      BY <1>7, <2>1, <2>5
    <3> QED BY <1>5, <1>7, <1>8, <1>11, <1>14, <2>2, <2>3, <2>5, <3>1
  <2> QED BY <2>4, <2>5
<1> QED BY <1>13, <1>14

LEMMA FirstMarkType ==
    ASSUME TypeOK, Ownership, NEW q \in live, NEW p \in Payload, p # NoPayload, Extends(q, p)
    PROVE  FirstMark(q, p) \in Nat \X Nat
<1>1. Len(p) \in Nat \ {0} /\ Len(q) \in Nat /\ Len(p) < Len(q)
  BY EmptySeq, LenProperties DEF TypeOK, Extends, NoPayload, Payload
<1>2. Len(p) + 1 \in 2..Len(q)
  BY <1>1
<1> QED BY <1>2 DEF Ownership, FirstMark

LEMMA TransferOwnership ==
    ASSUME TypeOK, Control, Ownership, NEW s \in Goroutine, NEW r \in Goroutine,
           pc[s] = "send", pc[r] = "recv", Transfer(s, r)
    PROVE  Ownership'
<1>1. /\ s # r /\ hold[s] # NoPayload /\ hold[r] = NoPayload
      /\ s \notin Dispatchers => r[1] = s[1] + 1
      /\ s \in Dispatchers => r \in Workers /\ r[1] = s[1]
  BY Partners DEF Transfer
<1>2. marked' = marked /\ emitted' = emitted
  BY TransferChanges
<1>3. CASE s \in Dispatchers /\ turn[s] > 1
  <2>1. /\ \A g \in Goroutine : hold'[g] = IF g = r THEN Offer(s) ELSE hold[g]
        /\ \A d \in Dispatchers : turn'[d] = IF d = s THEN turn[s] - 1 ELSE turn[d]
        /\ live' = live \union {Offered(s, turn[s] - 1, hold[s])}
    BY <1>3, TransferChanges
  <2> QED BY <1>1, <1>2, <1>3, <2>1, HandClone
<1>4. CASE ~(s \in Dispatchers /\ turn[s] > 1)
  <2>1. /\ \A g \in Goroutine :
               hold'[g] = IF g = s THEN NoPayload ELSE IF g = r THEN hold[s] ELSE hold[g]
        /\ \A d \in Dispatchers \ {s, r} : turn'[d] = turn[d]
        /\ IF r \in Dispatchers
           THEN /\ turn'[r] = Stages[r[1]].workers
                /\ live' = live \union {Offered(r, turn'[r], hold[s])}
           ELSE live' = live
    BY <1>4, TransferChanges
  <2>2. ASSUME NEW q \in live, Extends(q, hold[s])
        PROVE  \/ FirstMark(q, hold[s])[1] < r[1]
               \/ FirstMark(q, hold[s])[1] = r[1] /\ r \in Workers
    <3> DEFINE m == FirstMark(q, hold[s])
    <3>1. hold[s] \in Payload
      BY DEF TypeOK
    <3>2. m \in Nat \X Nat /\ s[1] \in Int /\ r[1] \in Int
      BY <1>1, <2>2, <3>1, FirstMarkType, Goroutines
    <3>3. m[1] < s[1] \/ m[1] = s[1]
      BY <1>1, <2>2 DEF Ownership, Lineage
    <3> HIDE DEF m
    <3>4. m[1] < r[1] \/ (m[1] = r[1] /\ r \in Workers)
      BY <1>1, <3>2, <3>3
    <3> QED BY <3>4 DEF m
  <2> QED BY <1>1, <1>2, <2>1, <2>2, HandOn
<1> QED BY <1>3, <1>4

LEMMA TransferType ==
    ASSUME TypeOK, Control, Ownership, NEW s \in Goroutine, NEW r \in Goroutine,
           pc[s] = "send", pc[r] = "recv", Transfer(s, r)
    PROVE  TypeOK'
<1>1. /\ hold[s] # NoPayload /\ hold[s] \in Payload
      /\ s \in Dispatchers => turn[s] \in Nat \ {0} /\ s \in Goroutine
  BY Partners, Turns DEF Transfer, TypeOK
<1>2. pc' \in [Goroutine -> {"next", "recv", "work", "send", "join", "done"}]
  <2>1. AfterSend(s) \in {"next", "recv", "send"}
    BY TransferChanges
  <2> QED BY <2>1 DEF Transfer, TypeOK
<1>3. /\ \A k \in Nat \ {0} : s \in Dispatchers => Offered(s, k, hold[s]) \in Payload
      /\ \A k \in Nat \ {0} : r \in Dispatchers => Offered(r, k, hold[s]) \in Payload
  <2>1. ASSUME NEW d \in Dispatchers, NEW k \in Nat \ {0} PROVE Offered(d, k, hold[s]) \in Payload
    <3>1. k = 1 \/ k > 1
      OBVIOUS
    <3>2. hold[s] \in Payload /\ <<d[1], k>> \in Nat \X Nat
      BY <1>1, OfferedFacts
    <3>3. Append(hold[s], <<d[1], k>>) \in Payload
      BY <3>2, CloneFacts
    <3> QED BY <3>1, <3>2, <3>3, OfferedFacts
  <2> QED BY <2>1
<1>4. hold' \in [Goroutine -> Payload]
  <2>1. Offered(s, turn[s], hold[s]) \in Payload
    BY <1>1, <1>3 DEF Offered
  <2>2. NoPayload \in Payload
    BY EmptySeq DEF NoPayload, Payload
  <2> QED BY <1>1, <2>1, <2>2 DEF Transfer, TypeOK
<1>5. live' \subseteq Payload /\ live \subseteq live'
  <2>1. s \in Dispatchers /\ turn[s] > 1 => turn[s] - 1 \in Nat \ {0}
    BY <1>1
  <2>2. r \in Dispatchers => Stages[r[1]].workers \in Nat \ {0}
    BY Goroutines
  <2> QED BY <1>3, <2>1, <2>2, TransferChanges DEF TypeOK
<1>6. turn' \in [Dispatchers -> Nat] /\ marked' = marked /\ emitted' = emitted
  BY TransferChanges
<1> QED BY <1>2, <1>4, <1>5, <1>6 DEF Transfer, TypeOK, chanVars
-----------------------------------------------------------------------------
LEMMA GotoChanges ==
    ASSUME TypeOK, NEW g \in Goroutine, NEW label, NEW payload, Goto(g, label, payload)
    PROVE  \A x \in Goroutine : /\ pc'[x] = IF x = g THEN label ELSE pc[x]
                                /\ hold'[x] = IF x = g THEN payload ELSE hold[x]
BY DEF Goto, TypeOK

(* Steps of goroutines other than transfers, as they move one goroutine.   *)
Stops(g) == StopsReading(g) \/ StopsSending(g)
Ends == SourceEnds \/ SourceCancelled
Processes(g) == Forward(g) \/ Discard(g) \/ (g = Sink /\ Consume)

(* Steps after which every goroutine is where it was.                      *)
Rests == \/ \E i \in 1..N : StageCloses(i)
         \/ Guard \/ Collect \/ Return \/ Expire \/ UNCHANGED vars

LEMMA Cases ==
    ASSUME TypeOK, [Next]_vars
    PROVE  \/ SourceNext \/ Ends
           \/ \E s \in Goroutine, r \in Goroutine :
                  pc[s] = "send" /\ pc[r] = "recv" /\ Transfer(s, r)
           \/ \E g \in Goroutine : Stops(g)
           \/ \E g \in Goroutine : Processes(g)
           \/ Rests
<1>1. Sink \in Goroutine
  BY Goroutines
<1> QED BY <1>1 DEF Next, Work, Terminated, Stops, Ends, Processes, Rests, At

LEMMA TypeStep ==
    ASSUME IInv, [Next]_vars
    PROVE  TypeOK'
<1> USE DEF IInv, chanVars, histVars
<1>1. Source \in Goroutine /\ NoPayload \in Payload /\ N \in Nat
  BY Goroutines, EmptySeq DEF NoPayload, Payload
<1>2. ASSUME NEW failed \in BOOLEAN, Emit(failed) PROVE errCh' \in Nat /\ reported' \in BOOLEAN
  BY <1>2 DEF Emit, TypeOK
<1>3. CASE SourceNext
  <2>1. <<emitted + 1>> \in Payload /\ emitted' \in Nat
    BY <1>3 DEF SourceNext, TypeOK, Payload
  <2> QED BY <1>1, <1>3, <2>1 DEF SourceNext, Goto, TypeOK
<1>4. CASE Ends
  BY <1>1, <1>2, <1>4 DEF Ends, SourceEnds, SourceCancelled, Goto, TypeOK
<1>5. ASSUME NEW s \in Goroutine, NEW r \in Goroutine, pc[s] = "send", pc[r] = "recv", Transfer(s, r)
      PROVE  TypeOK'
  BY <1>5, TransferType
<1>6. ASSUME NEW g \in Goroutine, Stops(g) PROVE TypeOK'
  BY <1>1, <1>6 DEF Stops, StopsReading, StopsSending, Goto, TypeOK
<1>7. ASSUME NEW g \in Goroutine, Processes(g) PROVE TypeOK'
  <2>1. errCh' \in Nat /\ reported' \in BOOLEAN
    BY <1>2, <1>7 DEF Processes, Forward, Discard, Consume
  <2>2. /\ UNCHANGED <<turn, errClosed, cancelled, err, returned, emitted, live, expired>>
        /\ Goto(g, "send", hold[g]) \/ Goto(g, "recv", NoPayload)
        /\ marked' = marked \/ (pc[g] = "work" /\ marked' = marked \union {hold[g]})
    BY <1>7 DEF Processes, Forward, Discard, Consume, Mark
  <2>3. pc[g] = "work" => hold[g] \in live
    BY DEF Control, Ownership
  <2>4. marked' \subseteq live'
    BY <2>2, <2>3 DEF TypeOK
  <2>5. /\ pc' \in [Goroutine -> {"next", "recv", "work", "send", "join", "done"}]
        /\ hold' \in [Goroutine -> Payload]
    BY <1>1, <2>2 DEF Goto, TypeOK
  <2> QED BY <2>1, <2>2, <2>4, <2>5 DEF TypeOK
<1>8. CASE Rests
  <2>1. UNCHANGED <<pc, hold, turn, emitted, live, marked, reported>>
    BY <1>8 DEF Rests, StageCloses, Guard, Collect, Return, Expire, vars
  <2>2. /\ errClosed' \in BOOLEAN /\ cancelled' \in BOOLEAN /\ err' \in BOOLEAN
        /\ returned' \in BOOLEAN /\ expired' \in BOOLEAN
    <3>1. /\ errClosed \in BOOLEAN /\ cancelled \in BOOLEAN /\ err \in BOOLEAN
          /\ returned \in BOOLEAN /\ expired \in BOOLEAN
      BY DEF TypeOK
    <3> QED BY <1>8, <3>1 DEF Rests, StageCloses, Guard, Collect, Return, Expire, vars
  <2>3. errCh' \in Nat
    BY <1>8 DEF Rests, StageCloses, Guard, Collect, Return, Expire, vars, TypeOK
  <2> QED BY <2>1, <2>2, <2>3 DEF TypeOK
<1> QED BY <1>3, <1>4, <1>5, <1>6, <1>7, <1>8, Cases

LEMMA ControlStep ==
    ASSUME IInv, [Next]_vars
    PROVE  Control'
<1> USE DEF IInv, chanVars, histVars
<1>1. /\ Source \in Goroutine /\ Sink \in Goroutine /\ Source # Sink
      /\ Source \notin Workers \union Dispatchers /\ Sink \notin Workers \union Dispatchers
      /\ \A g \in Goroutine : g \in Workers \/ g \in Dispatchers \/ g = Source \/ g = Sink
      /\ \A g \in Workers : g \in Goroutine /\ g \notin Dispatchers
      /\ \A g \in Dispatchers : g \in Goroutine /\ Stages[g[1]].workers \in Nat \ {0}
  BY Goroutines
<1>2. CASE SourceNext
  <2>1. <<emitted + 1>> # NoPayload
    BY DEF NoPayload
  <2>2. /\ turn' = turn
        /\ \A x \in Goroutine : /\ pc'[x] = IF x = Source THEN "send" ELSE pc[x]
                                /\ hold'[x] = IF x = Source THEN <<emitted + 1>> ELSE hold[x]
    BY <1>1, <1>2, GotoChanges DEF SourceNext
  <2> QED BY <1>1, <2>1, <2>2 DEF Control
<1>3. CASE Ends
  <2>1. /\ turn' = turn
        /\ \A x \in Goroutine : /\ pc'[x] = IF x = Source THEN "done" ELSE pc[x]
                                /\ hold'[x] = IF x = Source THEN NoPayload ELSE hold[x]
    BY <1>1, <1>3, GotoChanges DEF Ends, SourceEnds, SourceCancelled
  <2> QED BY <1>1, <2>1 DEF Control
<1>4. ASSUME NEW s \in Goroutine, NEW r \in Goroutine, pc[s] = "send", pc[r] = "recv", Transfer(s, r)
      PROVE  Control'
  <2>1. /\ s # r /\ s # Sink /\ r # Source /\ hold[s] # NoPayload /\ hold[r] = NoPayload
        /\ s \in Dispatchers => r \in Workers
    BY <1>4, Partners DEF Transfer
  <2>2. \A g \in Goroutine :
            pc'[g] = IF g = s THEN AfterSend(s)
                     ELSE IF g = r THEN IF r \in Dispatchers THEN "send" ELSE "work"
                     ELSE pc[g]
    BY <1>4, TransferChanges
  <2>3. CASE s \in Dispatchers /\ turn[s] > 1
    <3>1. /\ AfterSend(s) = "send"
          /\ \A g \in Goroutine : hold'[g] = IF g = r THEN Offer(s) ELSE hold[g]
          /\ \A d \in Dispatchers : turn'[d] = IF d = s THEN turn[s] - 1 ELSE turn[d]
      BY <1>4, <2>3, TransferChanges
    <3>2. Offer(s) # NoPayload
      BY <2>1, <2>3 DEF Ownership, OfferFresh
    <3>3. turn[s] \in 1..Stages[s[1]].workers => turn[s] - 1 \in 1..Stages[s[1]].workers
      BY <1>1, <2>3
    <3> QED BY <1>1, <1>4, <2>1, <2>2, <2>3, <3>1, <3>2, <3>3 DEF Control
  <2>4. CASE ~(s \in Dispatchers /\ turn[s] > 1)
    <3>1. /\ AfterSend(s) = IF s = Source THEN "next" ELSE "recv"
          /\ \A g \in Goroutine :
                 hold'[g] = IF g = s THEN NoPayload ELSE IF g = r THEN hold[s] ELSE hold[g]
          /\ \A d \in Dispatchers \ {s, r} : turn'[d] = turn[d]
          /\ r \in Dispatchers => turn'[r] = Stages[r[1]].workers
      BY <1>4, <2>4, TransferChanges
    <3>2. r \in Dispatchers => Stages[r[1]].workers \in 1..Stages[r[1]].workers
      BY <1>1
    <3> QED BY <1>1, <1>4, <2>1, <2>2, <2>4, <3>1, <3>2 DEF Control
  <2> QED BY <2>3, <2>4
<1>5. ASSUME NEW g \in Goroutine, Stops(g) PROVE Control'
  <2>1. /\ turn' = turn /\ pc[g] \in {"recv", "send"} /\ g # Source
        /\ \A x \in Goroutine :
              /\ pc'[x] = IF x = g THEN IF g \in Dispatchers THEN "join" ELSE "done" ELSE pc[x]
              /\ hold'[x] = IF x = g THEN NoPayload ELSE hold[x]
    <3>1. /\ turn' = turn /\ pc[g] \in {"recv", "send"} /\ g # Source
          /\ Goto(g, IF g \in Dispatchers THEN "join" ELSE "done", NoPayload)
      BY <1>1, <1>5 DEF Stops, StopsReading, StopsSending, Control
    <3> QED BY <3>1, GotoChanges
  <2> QED BY <1>1, <2>1 DEF Control
<1>6. ASSUME NEW g \in Goroutine, Processes(g) PROVE Control'
  <2>1. /\ turn' = turn /\ pc[g] = "work" /\ g \in Workers \union {Sink}
        /\ \/ g \in Workers /\ Goto(g, "send", hold[g])
           \/ Goto(g, "recv", NoPayload)
    BY <1>6 DEF Processes, Forward, Discard, Consume
  <2>2. \/ /\ g \in Workers
           /\ \A x \in Goroutine : /\ pc'[x] = IF x = g THEN "send" ELSE pc[x]
                                   /\ hold'[x] = hold[x]
        \/ \A x \in Goroutine : /\ pc'[x] = IF x = g THEN "recv" ELSE pc[x]
                                /\ hold'[x] = IF x = g THEN NoPayload ELSE hold[x]
    BY <2>1, GotoChanges
  <2> QED BY <1>1, <2>1, <2>2 DEF Control
<1>7. CASE Rests
  BY <1>7 DEF Rests, StageCloses, Guard, Collect, Return, Expire, vars, Control
<1> QED BY <1>2, <1>3, <1>4, <1>5, <1>6, <1>7, Cases

LEMMA OwnershipStep ==
    ASSUME IInv, [Next]_vars
    PROVE  Ownership'
<1> USE DEF IInv, chanVars, histVars
<1>1. Source \in Goroutine /\ Sink \in Goroutine
  BY Goroutines
<1>2. CASE SourceNext
  BY <1>2, ComesNew
<1>3. CASE Ends
  <2>1. /\ UNCHANGED <<turn, live, marked, emitted>>
        /\ \A x \in Goroutine : hold'[x] = IF x = Source THEN NoPayload ELSE hold[x]
    BY <1>1, <1>3, GotoChanges DEF Ends, SourceEnds, SourceCancelled
  <2> QED BY <1>1, <2>1, LetGo
<1>4. ASSUME NEW s \in Goroutine, NEW r \in Goroutine, pc[s] = "send", pc[r] = "recv", Transfer(s, r)
      PROVE  Ownership'
  BY <1>4, TransferOwnership
<1>5. ASSUME NEW g \in Goroutine, Stops(g) PROVE Ownership'
  <2>1. /\ UNCHANGED <<turn, live, marked, emitted>>
        /\ \A x \in Goroutine : hold'[x] = IF x = g THEN NoPayload ELSE hold[x]
    BY <1>5, GotoChanges DEF Stops, StopsReading, StopsSending
  <2> QED BY <2>1, LetGo
<1>6. ASSUME NEW g \in Goroutine, Processes(g) PROVE Ownership'
  <2>1. CASE Forward(g)
    <3>1. UNCHANGED <<turn, live, marked, emitted>> /\ hold' = hold
      BY <2>1 DEF Forward, Goto, TypeOK
    <3> QED BY <3>1 DEF Ownership, OneHolder, Lineage, OfferFresh, Offer
  <2>2. CASE Discard(g) \/ (g = Sink /\ Consume)
    <3>1. /\ UNCHANGED <<turn, live, emitted>> /\ marked' = marked \union {hold[g]}
          /\ pc[g] = "work"
          /\ \A x \in Goroutine : hold'[x] = IF x = g THEN NoPayload ELSE hold[x]
      BY <2>2, GotoChanges DEF Discard, Consume, Mark
    <3>2. hold[g] # NoPayload
      BY <3>1 DEF Control
    <3> QED BY <3>1, <3>2, LetGo
  <2> QED BY <1>6, <2>1, <2>2 DEF Processes
<1>7. CASE Rests
  <2>1. UNCHANGED <<hold, turn, emitted, live, marked>>
    BY <1>7 DEF Rests, StageCloses, Guard, Collect, Return, Expire, vars
  <2> QED BY <2>1 DEF Ownership, OneHolder, Lineage, OfferFresh, Offer
<1> QED BY <1>2, <1>3, <1>4, <1>5, <1>6, <1>7, Cases

(* A goroutine that is done stays so.                                      *)
LEMMA DoneForGood ==
    ASSUME IInv, [Next]_vars, NEW g \in Goroutine, pc[g] \in {"join", "done"}
    PROVE  pc'[g] = pc[g]
<1> USE DEF IInv, chanVars, histVars
<1>1. Source \in Goroutine
  BY Goroutines
<1>2. CASE SourceNext
  BY <1>1, <1>2, GotoChanges DEF SourceNext
<1>3. CASE Ends
  BY <1>1, <1>3, GotoChanges DEF Ends, SourceEnds, SourceCancelled
<1>4. ASSUME NEW s \in Goroutine, NEW r \in Goroutine, pc[s] = "send", pc[r] = "recv", Transfer(s, r)
      PROVE  pc'[g] = pc[g]
  BY <1>4, TransferChanges
<1>5. ASSUME NEW x \in Goroutine, Stops(x) PROVE pc'[g] = pc[g]
  BY <1>5, GotoChanges DEF Stops, StopsReading, StopsSending
<1>6. ASSUME NEW x \in Goroutine, Processes(x) PROVE pc'[g] = pc[g]
  BY <1>6, GotoChanges DEF Processes, Forward, Discard, Consume
<1>7. CASE Rests
  BY <1>7 DEF Rests, StageCloses, Guard, Collect, Return, Expire, vars
<1> QED BY <1>2, <1>3, <1>4, <1>5, <1>6, <1>7, Cases

(* The channels that a step closes.                                        *)
LEMMA Closes ==
    ASSUME IInv, [Next]_vars
    PROVE  \/ closed' = closed
           \/ closed' = closed \union {StageCh(0)} /\ pc'[Source] = "done"
           \/ \E d \in Dispatchers : closed' = closed \union WorkersOf(d[1]) /\ pc'[d] = "join"
           \/ \E i \in 1..N : closed' = closed \union {StageCh(i)} /\ RunOver(i) /\ pc' = pc
<1> USE DEF IInv, chanVars, histVars
<1>1. Source \in Goroutine
  BY Goroutines
<1>2. CASE SourceNext
  BY <1>2 DEF SourceNext
<1>3. CASE Ends
  BY <1>1, <1>3, GotoChanges DEF Ends, SourceEnds, SourceCancelled
<1>4. ASSUME NEW s \in Goroutine, NEW r \in Goroutine, Transfer(s, r) PROVE closed' = closed
  BY <1>4 DEF Transfer
<1>5. ASSUME NEW g \in Goroutine, Stops(g)
      PROVE  closed' = closed
             \/ (g \in Dispatchers /\ closed' = closed \union WorkersOf(g[1]) /\ pc'[g] = "join")
  BY <1>5, GotoChanges DEF Stops, StopsReading, StopsSending
<1>6. ASSUME NEW g \in Goroutine, Processes(g) PROVE closed' = closed
  BY <1>6 DEF Processes, Forward, Discard, Consume
<1>7. CASE Rests
  BY <1>7 DEF Rests, StageCloses, Guard, Collect, Return, Expire, vars
<1> QED BY <1>2, <1>3, <1>4, <1>5, <1>6, <1>7, Cases

LEMMA ClosingStep ==
    ASSUME IInv, [Next]_vars
    PROVE  Closing'
<1> USE DEF IInv
<1>1. Source \in Goroutine /\ N \in Nat
  BY Goroutines
<1>2. ASSUME NEW i \in 1..N, RunOver(i) PROVE RunOver(i)'
  <2>1. \A w \in WorkersOf(i) : w \in Goroutine /\ pc[w] = "done"
    BY <1>2, Goroutines DEF RunOver, Workers
  <2>2. IsBroadcast(i) => StageCh(i) \in Goroutine /\ pc[StageCh(i)] = "join"
    BY <1>2, Goroutines DEF RunOver, Dispatchers, StageCh
  <2> QED BY <2>1, <2>2, DoneForGood DEF RunOver
<1>3. \A i \in 0..N, w \in Workers : StageCh(i) # w
  BY Goroutines DEF StageCh
<1>4. \A i \in 1..N : StageCh(i) # StageCh(0) /\ \A j \in 1..N : StageCh(i) = StageCh(j) => i = j
  BY DEF StageCh
<1>5. /\ \A d \in Dispatchers : d \in Goroutine /\ WorkersOf(d[1]) \subseteq Workers
      /\ \A d, e \in Dispatchers, w \in Workers :
            w \in WorkersOf(d[1]) /\ w \in WorkersOf(e[1]) => d = e
  <2>1. \A i \in 1..N : \A w \in WorkersOf(i) : w[1] = i
    BY DEF WorkersOf
  <2> QED BY <2>1, Goroutines
<1>6. StageCh(0) \in closed' => pc'[Source] = "done"
  <2>1. StageCh(0) \in closed => pc'[Source] = "done"
    BY <1>1, DoneForGood DEF Closing
  <2> QED BY <1>1, <1>3, <1>4, <1>5, <2>1, Closes
<1>7. ASSUME NEW i \in 1..N, StageCh(i) \in closed' PROVE RunOver(i)'
  <2>1. StageCh(i) \in closed => RunOver(i)
    BY DEF Closing
  <2>2. RunOver(i)
    BY <1>1, <1>3, <1>4, <1>5, <1>7, <2>1, Closes
  <2> QED BY <1>2, <2>2
<1>8. ASSUME NEW d \in Dispatchers, NEW w \in WorkersOf(d[1]), w \in closed' PROVE pc'[d] = "join"
  <2>1. w \in closed => pc'[d] = "join"
    BY <1>5, DoneForGood DEF Closing
  <2> QED BY <1>1, <1>3, <1>5, <1>8, <2>1, Closes
<1>9. ASSUME errClosed' PROVE \A g \in Goroutine : pc'[g] \in {"join", "done"}
  <2>1. CASE errClosed
    BY <2>1, DoneForGood DEF Closing
  <2>2. CASE ~errClosed
    <3>1. /\ pc' = pc /\ pc[Source] = "done" /\ pc[Sink] = "done"
          /\ \A i \in 1..N : StageCh(i) \in closed
      <4>1. Guard
        BY <1>9, <2>2, Cases DEF SourceNext, Ends, SourceEnds, SourceCancelled, Transfer, Stops,
              StopsReading, StopsSending, Processes, Forward, Discard, Consume, Rests, StageCloses,
              Collect, Return, Expire, vars, chanVars
      <4> QED BY <1>1, <4>1 DEF Guard
    <3>2. \A i \in 1..N : RunOver(i)
      BY <3>1 DEF Closing
    <3>3. \A w \in Workers : pc[w] = "done"
      BY <3>2, Goroutines DEF RunOver
    <3>4. \A d \in Dispatchers : pc[d] = "join"
      BY <3>2, Goroutines DEF RunOver, StageCh
    <3> QED BY <3>1, <3>3, <3>4, Goroutines
  <2> QED BY <2>1, <2>2
<1> QED BY <1>6, <1>7, <1>8, <1>9 DEF Closing

LEMMA ErrorsStep ==
    ASSUME IInv, [Next]_vars
    PROVE  Errors'
<1> USE DEF IInv, chanVars, histVars
<1>1. Source \in Goroutine /\ Sink \in Goroutine
  BY Goroutines
<1>2. /\ errCh \in Nat /\ err \in BOOLEAN /\ reported \in BOOLEAN
      /\ errClosed \in BOOLEAN /\ cancelled \in BOOLEAN /\ expired \in BOOLEAN /\ returned \in BOOLEAN
  BY DEF TypeOK
<1>3. ASSUME NEW failed \in BOOLEAN, Emit(failed), err' = err
      PROVE  (err' \/ errCh' > 0) <=> reported'
  <2>1. ErrChCap \in Nat /\ ErrChCap > 0
    BY Goroutines DEF ErrChCap, ErrCap
  <2>2. CASE failed
    <3>1. errCh' > 0
      BY <1>2, <1>3, <2>1, <2>2 DEF Emit
    <3>2. reported'
      BY <1>3, <2>2 DEF Emit
    <3> QED BY <3>1, <3>2
  <2>3. CASE ~failed
    BY <1>2, <1>3, <2>3 DEF Emit, Errors
  <2> QED BY <2>2, <2>3
<1>4. ASSUME NEW g \in Goroutine, pc[g] \notin {"join", "done"} PROVE ~errClosed /\ ~returned
  BY <1>4 DEF Closing, Errors
<1>5. CASE SourceNext
  BY <1>5 DEF SourceNext, Errors
<1>6. CASE Ends
  <2>1. ~errClosed /\ ~returned
    BY <1>1, <1>4, <1>6 DEF Ends, SourceEnds, SourceCancelled
  <2>2. (err' \/ errCh' > 0) <=> reported'
    BY <1>3, <1>6 DEF Ends, SourceEnds, SourceCancelled, Errors
  <2> QED BY <1>6, <2>1, <2>2 DEF Ends, SourceEnds, SourceCancelled, Errors
<1>7. ASSUME NEW s \in Goroutine, NEW r \in Goroutine, Transfer(s, r) PROVE Errors'
  BY <1>7 DEF Transfer, Errors
<1>8. ASSUME NEW g \in Goroutine, Stops(g) PROVE Errors'
  BY <1>8 DEF Stops, StopsReading, StopsSending, Errors
<1>9. ASSUME NEW g \in Goroutine, Processes(g) PROVE Errors'
  <2>1. ~errClosed /\ ~returned
    BY <1>4, <1>9 DEF Processes, Forward, Discard, Consume
  <2>2. (err' \/ errCh' > 0) <=> reported'
    BY <1>3, <1>9 DEF Processes, Forward, Discard, Consume
  <2> QED BY <1>9, <2>1, <2>2 DEF Processes, Forward, Discard, Consume, Errors
<1>10. CASE Rests
  BY <1>2, <1>10 DEF Rests, StageCloses, Guard, Collect, Return, Expire, vars, Errors
<1> QED BY <1>5, <1>6, <1>7, <1>8, <1>9, <1>10, Cases

(* Payloads are dropped only after an error or the end of the context.     *)
LEMMA CompleteStep ==
    ASSUME IInv, [Next]_vars
    PROVE  Complete'
<1> USE DEF IInv, chanVars, histVars
<1>1. SUFFICES ASSUME ~err', ~expired', NEW q \in live' \ marked'
               PROVE  \/ \E g \in Goroutine : hold'[g] = q
                      \/ \E d \in Dispatchers : hold'[d] # NoPayload /\ q = Offer(d)'
  BY DEF Complete
<1>2. ~err /\ ~expired
  BY <1>1 DEF Next, Work, SourceNext, SourceEnds, SourceCancelled, Transfer, StopsReading,
              StopsSending, Forward, Discard, Consume, StageCloses, Guard, Collect, Return, Expire,
              Terminated, vars
<1>3. \A x \in live \ marked :
          \/ \E g \in Goroutine : hold[g] = x
          \/ \E d \in Dispatchers : hold[d] # NoPayload /\ x = Offer(d)
  BY <1>2 DEF Complete
<1>4. \A d \in Dispatchers : d \in Goroutine
  BY Goroutines
<1>5. cancelled => \A g \in Goroutine : pc[g] \in {"join", "done"}
  BY <1>2 DEF Errors, Closing
<1>6. \A d \in Dispatchers : turn'[d] = turn[d] /\ hold'[d] = hold[d] => Offer(d)' = Offer(d)
  BY DEF Offer
<1>7. Source \in Goroutine /\ Source \notin Dispatchers /\ Sink \in Goroutine /\ Sink \notin Dispatchers
  BY Goroutines
<1>8. CASE SourceNext
  <2>1. /\ live' = live \union {<<emitted + 1>>} /\ marked' = marked /\ turn' = turn
        /\ hold[Source] = NoPayload
        /\ \A x \in Goroutine : hold'[x] = IF x = Source THEN <<emitted + 1>> ELSE hold[x]
    BY <1>7, <1>8, GotoChanges DEF SourceNext, Control
  <2>2. CASE q = <<emitted + 1>>
    BY <1>7, <2>1, <2>2
  <2>3. CASE q \in live \ marked
    <3>1. q # NoPayload
      BY <2>3 DEF Ownership
    <3>2. CASE \E g \in Goroutine : hold[g] = q
      BY <2>1, <3>1, <3>2
    <3>3. CASE \E d \in Dispatchers : hold[d] # NoPayload /\ q = Offer(d)
      BY <1>4, <1>6, <1>7, <2>1, <3>3
    <3> QED BY <1>3, <2>3, <3>2, <3>3
  <2> QED BY <1>1, <2>1, <2>2, <2>3
<1>9. ASSUME NEW w \in Goroutine, UNCHANGED <<turn, live>>,
             marked' = marked \/ marked' = marked \union {hold[w]},
             hold[w] = NoPayload \/ (w \notin Dispatchers /\ hold[w] \in marked'),
             \A x \in Goroutine : hold'[x] = IF x = w THEN NoPayload ELSE hold[x]
      PROVE  \/ \E g \in Goroutine : hold'[g] = q
             \/ \E d \in Dispatchers : hold'[d] # NoPayload /\ q = Offer(d)'
  <2>1. q \in live \ marked /\ q # NoPayload
    BY <1>1, <1>9 DEF Ownership
  <2>2. CASE \E g \in Goroutine : hold[g] = q
    <3>1. PICK g \in Goroutine : hold[g] = q
      BY <2>2
    <3>2. g # w
      BY <1>1, <1>9, <2>1, <3>1
    <3> QED BY <1>9, <3>1, <3>2
  <2>3. CASE \E d \in Dispatchers : hold[d] # NoPayload /\ q = Offer(d)
    <3>1. PICK d \in Dispatchers : hold[d] # NoPayload /\ q = Offer(d)
      BY <2>3
    <3>2. hold'[d] = hold[d] /\ Offer(d)' = Offer(d)
      BY <1>4, <1>6, <1>9, <3>1
    <3> QED BY <3>1, <3>2
  <2> QED BY <1>3, <2>1, <2>2, <2>3
<1>10. CASE Ends
  <2>1. SourceEnds
    BY <1>5, <1>7, <1>10 DEF Ends, SourceCancelled
  <2>2. hold[Source] = NoPayload
    BY <1>7, <2>1 DEF SourceEnds, Control
  <2>3. /\ UNCHANGED <<turn, live, marked>>
        /\ \A x \in Goroutine : hold'[x] = IF x = Source THEN NoPayload ELSE hold[x]
    BY <1>7, <2>1, GotoChanges DEF SourceEnds
  <2> QED BY <1>7, <1>9, <2>2, <2>3
<1>11. ASSUME NEW g \in Goroutine, Stops(g)
       PROVE  \/ \E x \in Goroutine : hold'[x] = q
              \/ \E d \in Dispatchers : hold'[d] # NoPayload /\ q = Offer(d)'
  <2>1. StopsReading(g)
    BY <1>5, <1>11 DEF Stops, StopsSending, WatchesContext
  <2>2. hold[g] = NoPayload
    BY <2>1 DEF StopsReading, Control
  <2>3. /\ UNCHANGED <<turn, live, marked>>
        /\ \A x \in Goroutine : hold'[x] = IF x = g THEN NoPayload ELSE hold[x]
    BY <2>1, GotoChanges DEF StopsReading
  <2> QED BY <1>9, <2>2, <2>3
<1>12. ASSUME NEW g \in Goroutine, Processes(g)
       PROVE  \/ \E x \in Goroutine : hold'[x] = q
              \/ \E d \in Dispatchers : hold'[d] # NoPayload /\ q = Offer(d)'
  <2>1. CASE Forward(g)
    <3>1. UNCHANGED <<turn, live, marked, hold>>
      BY <2>1 DEF Forward, Goto, TypeOK
    <3> QED BY <1>1, <1>3, <1>6, <3>1
  <2>2. CASE Discard(g) \/ (g = Sink /\ Consume)
    <3>1. /\ UNCHANGED <<turn, live>> /\ marked' = marked \union {hold[g]}
          /\ \A x \in Goroutine : hold'[x] = IF x = g THEN NoPayload ELSE hold[x]
      BY <2>2, GotoChanges DEF Discard, Consume, Mark
    <3>2. g \notin Dispatchers
      BY <1>7, <2>2, Goroutines DEF Discard
    <3> QED BY <1>9, <3>1, <3>2
  <2> QED BY <1>12, <2>1, <2>2 DEF Processes
<1>13. CASE Rests
  <2>1. UNCHANGED <<hold, turn, live, marked>>
    BY <1>13 DEF Rests, StageCloses, Guard, Collect, Return, Expire, vars
  <2> QED BY <1>1, <1>3, <1>6, <2>1
<1>14. ASSUME NEW s \in Goroutine, NEW r \in Goroutine, pc[s] = "send", pc[r] = "recv", Transfer(s, r)
       PROVE  \/ \E g \in Goroutine : hold'[g] = q
              \/ \E d \in Dispatchers : hold'[d] # NoPayload /\ q = Offer(d)'
  <2>1. /\ s # r /\ hold[s] # NoPayload /\ hold[r] = NoPayload
        /\ s \in Dispatchers => r \in Workers
    BY <1>14, Partners DEF Transfer
  <2>2. marked' = marked
    BY <1>14, TransferChanges
  <2>3. CASE s \in Dispatchers /\ turn[s] > 1
    <3>1. /\ \A g \in Goroutine : hold'[g] = IF g = r THEN Offer(s) ELSE hold[g]
          /\ \A d \in Dispatchers : turn'[d] = IF d = s THEN turn[s] - 1 ELSE turn[d]
          /\ live' = live \union {Offered(s, turn[s] - 1, hold[s])}
      BY <1>14, <2>3, TransferChanges
    <3>2. Offer(s)' = Offered(s, turn[s] - 1, hold[s]) /\ hold'[s] # NoPayload
      BY <2>1, <2>3, <3>1 DEF Offer
    <3>3. CASE q \in live
      <4>1. q # NoPayload
        BY <3>3 DEF Ownership
      <4>2. CASE \E g \in Goroutine : hold[g] = q
        BY <2>1, <3>1, <4>1, <4>2
      <4>3. CASE q = Offer(s)
        BY <3>1, <4>3
      <4>4. ASSUME NEW d \in Dispatchers, hold[d] # NoPayload, q = Offer(d), d # s
            PROVE  hold'[d] # NoPayload /\ q = Offer(d)'
        BY <1>4, <1>6, <2>1, <2>3, <3>1, <4>4
      <4> QED BY <1>1, <1>3, <2>2, <3>3, <4>2, <4>3, <4>4
    <3> QED BY <1>1, <2>3, <3>1, <3>2, <3>3
  <2>4. CASE ~(s \in Dispatchers /\ turn[s] > 1)
    <3>1. /\ \A g \in Goroutine :
                 hold'[g] = IF g = s THEN NoPayload ELSE IF g = r THEN hold[s] ELSE hold[g]
          /\ \A d \in Dispatchers \ {s, r} : turn'[d] = turn[d]
          /\ IF r \in Dispatchers
             THEN /\ turn'[r] = Stages[r[1]].workers
                  /\ live' = live \union {Offered(r, turn'[r], hold[s])}
             ELSE live' = live
      BY <1>14, <2>4, TransferChanges
    <3>2. CASE q \in live
      <4>1. q # NoPayload
        BY <3>2 DEF Ownership
      <4>2. CASE \E g \in Goroutine : hold[g] = q
        BY <2>1, <3>1, <4>1, <4>2
      <4>3. ASSUME s \in Dispatchers, q = Offer(s) PROVE \E g \in Goroutine : hold'[g] = q
        <5>1. turn[s] \in Nat \ {0} /\ hold[s] \in Payload
          BY <2>1, <4>3, Turns
        <5>2. turn[s] = 1
          BY <2>4, <4>3, <5>1
        <5>3. q = hold[s]
          BY <4>3, <5>1, <5>2, OfferedFacts DEF Offer
        <5> QED BY <2>1, <3>1, <5>3
      <4>4. ASSUME NEW d \in Dispatchers, hold[d] # NoPayload, q = Offer(d), d # s
            PROVE  hold'[d] # NoPayload /\ q = Offer(d)'
        <5>1. d # r /\ d \in Goroutine
          BY <1>4, <2>1, <4>4
        <5> QED BY <1>6, <3>1, <4>4, <5>1
      <4> QED BY <1>1, <1>3, <2>2, <3>2, <4>2, <4>3, <4>4
    <3>3. CASE q \notin live
      <4>1. r \in Dispatchers /\ q = Offered(r, turn'[r], hold[s]) /\ hold'[r] = hold[s]
        BY <1>1, <2>1, <3>1, <3>3
      <4>2. Offer(r)' = q
        BY <4>1 DEF Offer
      <4> QED BY <2>1, <4>1, <4>2
    <3> QED BY <3>2, <3>3
  <2> QED BY <2>3, <2>4
<1> QED BY <1>8, <1>10, <1>11, <1>12, <1>13, <1>14, Cases
-----------------------------------------------------------------------------
LEMMA InitIInv == Init => IInv
<1> SUFFICES ASSUME Init PROVE IInv
  OBVIOUS
<1> USE DEF Init
<1>1. NoPayload \in Payload
  BY EmptySeq DEF NoPayload, Payload
<1>2. TypeOK
  BY <1>1 DEF TypeOK
<1>3. Control
  BY Goroutines DEF Control
<1>4. Closing /\ Errors
  BY DEF Closing, Errors
<1>5. Ownership
  BY Goroutines DEF Ownership, OneHolder, Lineage, OfferFresh
<1>6. Complete
  BY DEF Complete
<1> QED BY <1>2, <1>3, <1>4, <1>5, <1>6 DEF IInv

(* The inductive invariant: where the goroutines are, which channels they  *)
(* have closed, who may hold which payload, and that none is forgotten.    *)
THEOREM PipelineInductive == Spec => []IInv
<1>1. IInv /\ [Next]_vars => IInv'
  BY TypeStep, ControlStep, ClosingStep, ErrorsStep, OwnershipStep, CompleteStep DEF IInv
<1> QED BY <1>1, InitIInv, PTL DEF Spec

(* Whatever stages there are, no payload object is ever used by two        *)
(* goroutines, nor by anybody once MarkAsProcessed has put it back.        *)
THEOREM PayloadsHaveOneHolder == Spec => []OneHolder
<1>1. IInv => OneHolder
  BY DEF IInv, Ownership
<1> QED BY <1>1, PipelineInductive, PTL

(* No goroutine of Process, of the source, the sink or a stage panics by   *)
(* sending on a channel that another one has closed.                       *)
THEOREM ClosedChannelsUnused == Spec => []NoSendOnClosed
<1>1. IInv => NoSendOnClosed
  <2> SUFFICES ASSUME IInv PROVE NoSendOnClosed
    OBVIOUS
  <2> USE DEF IInv
  <2>1. ASSUME NEW g \in Goroutine, pc[g] = "send" PROVE OutCh(g) \notin closed
    <3>1. CASE g = Source
      BY <2>1, <3>1, Goroutines DEF OutCh, Closing, StageCh
    <3>2. CASE g \in Workers
      <4>1. OutCh(g) = StageCh(g[1]) /\ g[1] \in 1..N /\ g \in WorkersOf(g[1])
        BY <3>2, Goroutines DEF OutCh
      <4> QED BY <2>1, <4>1 DEF Closing, RunOver
    <3>3. CASE g \in Dispatchers
      <4>1. OutCh(g) = <<g[1], turn[g]>> /\ turn[g] \in 1..Stages[g[1]].workers
        BY <2>1, <3>3 DEF OutCh, Control
      <4>2. OutCh(g) \in WorkersOf(g[1])
        BY <3>3, <4>1, Goroutines
      <4> QED BY <2>1, <3>3, <4>2 DEF Closing
    <3>4. g # Sink
      BY <2>1 DEF Control
    <3> QED BY <3>1, <3>2, <3>3, <3>4, Goroutines
  <2> QED BY <2>1 DEF NoSendOnClosed, Closing
<1> QED BY <1>1, PipelineInductive, PTL

(* Process returns nil only after a complete run, unless its caller has    *)
(* given up: every payload and every clone was processed and marked.       *)
THEOREM NilMeansComplete == Spec => []NilIsComplete
<1>1. IInv => NilIsComplete
  <2> SUFFICES ASSUME IInv, returned, ~err, ~expired PROVE marked = live
    BY DEF NilIsComplete
  <2> USE DEF IInv
  <2>1. \A g \in Goroutine : hold[g] = NoPayload
    BY DEF Errors, Closing, Control
  <2>2. \A q \in live : q # NoPayload
    BY DEF Ownership
  <2>3. \A d \in Dispatchers : d \in Goroutine
    BY Goroutines
  <2> QED BY <2>1, <2>2, <2>3 DEF Complete, TypeOK
<1> QED BY <1>1, PipelineInductive, PTL

(* Process returns an error exactly if there was one: the buffer of the    *)
(* error channel is large enough never to lose the first.                  *)
THEOREM ErrorsArrive == Spec => []ErrorIffReported
<1>1. IInv => ErrorIffReported
  <2> SUFFICES ASSUME IInv, returned PROVE err = reported
    BY DEF ErrorIffReported
  <2>1. errCh = 0 /\ err \in BOOLEAN /\ reported \in BOOLEAN
    BY DEF IInv, TypeOK, Errors
  <2>2. err <=> reported
    BY <2>1 DEF IInv, Errors
  <2> QED BY <2>1, <2>2
<1> QED BY <1>1, PipelineInductive, PTL
=============================================================================
