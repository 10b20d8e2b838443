------------------------------ MODULE SearchProofs ------------------------------
(***************************************************************************)
(* Proofs about Search: the two stores of the in-memory index agree, its   *)
(* iterator is sound under concurrent writes, and a page of results is the *)
(* part of the ranking it claims to be, read locally or over a stream, for *)
(* any number of documents, sizes of batches and pages, and offsets.       *)
(***************************************************************************)
EXTENDS Search, FiniteSetTheorems, SequenceTheorems, WellFoundedInduction, TLAPS

Stored == Document \union {NoDoc}
Message == Result \union [total : Nat]

TypeOKStores ==
    /\ backend \in {"memory", "es"} /\ remote \in BOOLEAN
    /\ documents \in [Doc -> Stored] /\ idx \in [Doc -> Stored]
    /\ writer \in Job \union {Nil}
    /\ dirty \subseteq Doc
    /\ steady \in BOOLEAN /\ shrunk \in BOOLEAN

(* The writer that has the lock is at work on document d, with operation   *)
(* op.                                                                      *)
Writes(op, d) == writer # Nil /\ writer.op = op /\ writer.id = d

(* The two stores of the index in memory, between and during operations:   *)
(* Index has written the index first, UpdateScore the documents.           *)
StoresInv ==
    backend = "memory" =>
        /\ writer # Nil /\ writer.op = "index" => idx[writer.id] = writer.doc
        /\ \A d \in Doc : (\A op \in {"index", "score"} : ~Writes(op, d)) /\ d \notin dirty =>
              idx[d] = documents[d]
        /\ \A d \in Doc : Writes("score", d) => documents[d] # NoDoc
        /\ \A d \in Doc : ~Writes("index", d) /\ idx[d].content # documents[d].content =>
              idx[d] = NoDoc /\ documents[d].content = "none"

(* There is a document d for one who gets the lock.                         *)
Kept(d) == documents[d] # NoDoc \/ Writes("index", d)

(* What an iterator has: hits that have a document, a batch that ends      *)
(* early only at the end of all, a count of what was read that fits the    *)
(* place in the batch, and no more hits than there are.                    *)
HitsInv ==
    it # Nil =>
        /\ it \in Iter /\ req # Nil
        /\ it.error # "not found" /\ (it.error = "panic" => shrunk)
        /\ \A i \in 1..Len(it.hits) : IF backend = "memory" THEN Kept(it.hits[i].id) ELSE it.hits[i].doc # NoDoc
        /\ Len(it.hits) <= BatchSize
        /\ it.error = "none" =>
              /\ it.cumIdx = it.from + it.resIdx /\ it.resIdx <= Len(it.hits)
              /\ Len(it.hits) < BatchSize => it.from + Len(it.hits) >= it.total
        /\ ~shrunk => it.total <= Cardinality(Matching(req))

Browsing == stage \in {"read", "summarise", "highlight"}

(* How the frontend, the iterator and the call fit together.               *)
FlowInv ==
    /\ req \in Query \union {Nil} /\ results \in Seq(Result) /\ Len(results) <= ResultsPageSize
    /\ wire \in Seq(Message) /\ cancelled \in BOOLEAN
    /\ stage \in {"idle", "search", "count", "read", "summarise", "highlight", "done"}
    /\ req = Nil <=> stage = "idle"
    /\ answer = "none" <=> stage # "done"
    /\ stage = "summarise" => Len(results) > 0
    /\ stage \in {"idle", "search"} => it = Nil /\ handler = "none"
    /\ stage = "count" => remote
    /\ handler = "none" \/ ~remote => wire = <<>> /\ status # "ok"
    /\ ~remote => handler = "none" /\ status = "open" /\ ~cancelled
    /\ remote => (cancelled <=> stage = "done")
    /\ Browsing => it # Nil
    /\ it = Nil \/ (remote /\ ~it.counted) => wire = <<>> /\ results = <<>> /\ status # "ok"
    /\ stage = "count" => results = <<>>
    /\ it # Nil /\ ~it.counted /\ remote => it.latched = Nil /\ ~Browsing
    /\ it # Nil /\ it.counted /\ stage = "count" /\ ~Gone => wire # <<>>
    /\ status = "ok" => it # Nil /\ it.counted /\ it.latched = Nil /\ it.error = "none" /\ AtEnd
                        /\ handler = "returned"
    /\ cancelled => wire = <<>>

(* Messages before the documents on the wire; documents read from the      *)
(* index and not by the frontend yet.                                      *)
Leading == IF stage = "count" THEN 1 ELSE 0
OnWire == IF wire = <<>> THEN 0 ELSE Len(wire) - Leading
Latched == IF it.latched = Nil THEN 0 ELSE 1

(* Every document that the iterator has passed is latched, on the wire or  *)
(* among the results, unless the call has been cut off.                    *)
CountInv ==
    it # Nil =>
        /\ it.cumIdx \in Nat /\ OnWire \in Nat
        /\ req.offset + Len(results) + OnWire + Latched <= it.cumIdx
        /\ ~Gone => req.offset + Len(results) + OnWire + Latched = it.cumIdx

(* As long as the index stays the same, all of them are those of the       *)
(* ranking, in their order.                                                *)
SliceInv ==
    steady /\ it # Nil =>
        /\ it.total = Len(Ranking(req))
        /\ it.error = "none" => \A i \in 1..Len(it.hits) : it.hits[i].id = Ranking(req)[it.from + i]
        /\ it.cumIdx > req.offset => it.cumIdx <= Len(Ranking(req))
        /\ \A i \in 1..Len(results) : results[i].id = Ranking(req)[req.offset + i]
        /\ stage = "count" /\ wire # <<>> => wire[1] = [total |-> Len(Ranking(req))]
        /\ \A j \in Leading + 1..Len(wire) :
              wire[j] \in Result /\ wire[j].id = Ranking(req)[req.offset + Len(results) + j - Leading]
        /\ it.latched # Nil => it.latched.id = Ranking(req)[it.cumIdx]
        /\ remote /\ Browsing => total = Len(Ranking(req))

IInv == TypeOKStores /\ StoresInv /\ HitsInv /\ FlowInv /\ CountInv /\ SliceInv /\ PageIsSlice
-----------------------------------------------------------------------------
LEMMA LeastNumber ==
    ASSUME NEW T, T \subseteq Nat, T # {}
    PROVE  \E n \in T : \A m \in T : n <= m
<1> DEFINE Less == {p \in Nat \X Nat : p[1] < p[2]}
<1>1. IsWellFoundedOn(Less, Nat)
  BY NatLessThanWellFounded DEF OpToRel
<1> HIDE DEF Less
<1>2. PICK n \in T : \A m \in T : <<m, n>> \notin Less
  BY <1>1, WFMin
<1>3. ASSUME NEW m \in T PROVE n <= m
  <2>1. <<m, n>> \notin Less
    BY <1>2
  <2>2. <<m, n>> \in Nat \X Nat /\ <<m, n>>[1] = m /\ <<m, n>>[2] = n
    OBVIOUS
  <2> QED BY <2>1, <2>2 DEF Less
<1> QED BY <1>3

(* The ranking is a sequence of all documents that match: by induction on  *)
(* the number of documents in a set, each place has one document, with as  *)
(* many above it.                                                           *)
LEMMA Docs == Doc \subseteq Nat /\ IsFiniteSet(Doc)
<1>1. NumDocs \in Nat
  BY SizesAssumption
<1> QED BY <1>1, FS_Interval DEF Doc

LEMMA Ranks ==
    ASSUME idx \in [Doc -> Stored]
    PROVE  \A d \in Doc : idx[d].rank \in Nat
<1>1. MaxScore \in Nat
  BY SizesAssumption
<1> QED BY <1>1 DEF Stored, Document, NoDoc, Score

(* There is a last one in every set: of lowest rank and, if several have   *)
(* it, of highest number.                                                   *)
LEMMA LastOne ==
    ASSUME idx \in [Doc -> Stored], NEW S \in SUBSET Doc, S # {}
    PROVE  \E m \in S : \A d \in S \ {m} : Above(d, m) /\ ~Above(m, d)
<1>1. \A d \in Doc : idx[d].rank \in Nat
  BY Ranks
<1> DEFINE ranks == {idx[d].rank : d \in S}
<1>2. ranks \subseteq Nat /\ ranks # {}
  BY <1>1
<1>3. PICK r \in ranks : \A x \in ranks : r <= x
  BY <1>2, LeastNumber
<1> DEFINE lowest == {d \in S : idx[d].rank = r}
           below == {NumDocs - d : d \in lowest}
<1>4. NumDocs \in Nat /\ \A d \in Doc : d \in Nat /\ NumDocs - d \in Nat
  <2>1. NumDocs \in Nat
    BY SizesAssumption
  <2> QED BY <2>1 DEF Doc
<1>5. below \subseteq Nat /\ below # {}
  BY <1>3, <1>4
<1>6. PICK b \in below : \A x \in below : b <= x
  BY <1>5, LeastNumber
<1>7. PICK m \in lowest : b = NumDocs - m
  BY <1>6
<1>8. ASSUME NEW d \in S \ {m} PROVE Above(d, m) /\ ~Above(m, d)
  <2>1. r <= idx[d].rank /\ idx[d].rank \in Nat /\ idx[m].rank = r /\ r \in Nat
    BY <1>1, <1>3, <1>7
  <2>2. CASE idx[d].rank = r
    <3>1. b <= NumDocs - d
      BY <1>6, <2>2
    <3>2. d < m
      BY <1>4, <1>7, <3>1
    <3> QED BY <1>4, <2>1, <2>2, <3>2 DEF Above
  <2>3. CASE idx[d].rank # r
    BY <2>1, <2>3 DEF Above
  <2> QED BY <2>2, <2>3
<1> QED BY <1>7, <1>8

LEMMA Places ==
    ASSUME idx \in [Doc -> Stored], NEW n \in Nat
    PROVE  \A S \in SUBSET Doc : Cardinality(S) = n =>
               \A i \in 1..n : \E d \in S : Cardinality({e \in S : Above(e, d)}) = i - 1
<1> DEFINE T == {k \in Nat : \A S \in SUBSET Doc : Cardinality(S) = k =>
                     \A i \in 1..k : \E d \in S : Cardinality({e \in S : Above(e, d)}) = i - 1}
<1>1. 0 \in T
  OBVIOUS
<1>2. ASSUME NEW k \in T PROVE k + 1 \in T
  <2>0. k \in Nat /\ k + 1 \in Nat /\ k + 1 # 0
    OBVIOUS
  <2> SUFFICES ASSUME NEW S \in SUBSET Doc, Cardinality(S) = k + 1, NEW i \in 1..(k + 1)
               PROVE  \E d \in S : Cardinality({e \in S : Above(e, d)}) = i - 1
    BY <2>0
  <2>1. IsFiniteSet(S) /\ S # {}
    BY <2>0, Docs, FS_Subset, FS_EmptySet
  <2>2. PICK m \in S : \A d \in S \ {m} : Above(d, m) /\ ~Above(m, d)
    BY <2>1, LastOne
  <2> DEFINE R == S \ {m}
  <2>3. R \in SUBSET Doc /\ Cardinality(R) = k
    <3>1. Cardinality(R) = Cardinality(S) - 1
      BY <2>1, <2>2, FS_RemoveElement
    <3> QED BY <2>0, <3>1
  <2>4. CASE i \in 1..k
    <3>1. PICK d \in R : Cardinality({e \in R : Above(e, d)}) = i - 1
      BY <2>3, <2>4
    <3>2. {e \in S : Above(e, d)} = {e \in R : Above(e, d)}
      BY <2>2
    <3> QED BY <3>1, <3>2
  <2>5. CASE i = k + 1
    <3>1. ~Above(m, m)
      <4>1. idx[m].rank \in Nat /\ m \in Nat
        BY Docs, Ranks
      <4> QED BY <4>1 DEF Above
    <3>2. {e \in S : Above(e, m)} = R
      BY <2>2, <3>1
    <3>3. i - 1 = k
      BY <2>0, <2>5
    <3>4. Cardinality({e \in S : Above(e, m)}) = k
      BY <2>3, <3>2
    <3> QED BY <2>2, <3>3, <3>4
  <2> QED BY <2>0, <2>4, <2>5
<1> HIDE DEF T
<1>3. T \subseteq Nat
  BY DEF T
<1>4. n \in T
  <2> DEFINE U == Nat \ T
  <2> SUFFICES ASSUME U # {} PROVE FALSE
    OBVIOUS
  <2>1. PICK u \in U : \A x \in U : u <= x
    BY LeastNumber
  <2>2. u \in Nat /\ u # 0
    BY <1>1, <2>1
  <2>3. u - 1 \in Nat /\ u = (u - 1) + 1 /\ ~(u <= u - 1)
    BY <2>2
  <2>4. u - 1 \in T
    BY <2>1, <2>3
  <2> QED BY <1>2, <2>1, <2>3, <2>4
<1> QED BY <1>4 DEF T

LEMMA RankingIsAll ==
    ASSUME idx \in [Doc -> Stored], NEW q
    PROVE  /\ IsFiniteSet(Matching(q)) /\ Cardinality(Matching(q)) \in Nat
           /\ Ranking(q) \in Seq(Doc) /\ Len(Ranking(q)) = Cardinality(Matching(q))
           /\ \A i \in 1..Len(Ranking(q)) : Ranking(q)[i] \in Matching(q)
<1> DEFINE S == Matching(q)
           n == Cardinality(S)
<1>1. S \in SUBSET Doc /\ IsFiniteSet(S) /\ n \in Nat
  BY Docs, FS_Subset, FS_CardinalityType DEF Matching
<1>2. \A i \in 1..n : \E d \in S : Cardinality({e \in S : Above(e, d)}) = i - 1
  BY <1>1, Places
<1> DEFINE at(i) == CHOOSE d \in S : Cardinality({e \in S : Above(e, d)}) = i - 1
<1>3. \A i \in 1..n : at(i) \in S
  BY <1>2
<1>4. Ranking(q) = [i \in 1..n |-> at(i)]
  BY DEF Ranking
<1> HIDE DEF S, n, at
<1>5. Ranking(q) \in [1..n -> S]
  BY <1>3, <1>4
<1>6. Ranking(q) \in Seq(S) /\ Len(Ranking(q)) = n
  BY <1>1, <1>5
<1>7. Ranking(q) \in Seq(Doc)
  BY <1>1, <1>6, SeqMonotonic
<1> QED BY <1>1, <1>5, <1>6, <1>7 DEF S, n
-----------------------------------------------------------------------------
(* A slice of a sequence ends early only at the end of the sequence.       *)
LEMMA SliceFacts ==
    ASSUME NEW s \in Seq(Doc), NEW from \in Nat, NEW n \in Nat
    PROVE  /\ Slice(s, from, n) \in Seq(Doc) /\ Len(Slice(s, from, n)) \in Nat
           /\ Len(Slice(s, from, n)) <= n
           /\ Len(Slice(s, from, n)) < n => from + Len(Slice(s, from, n)) >= Len(s)
           /\ Len(Slice(s, from, n)) > 0 => from + Len(Slice(s, from, n)) <= Len(s)
           /\ \A i \in 1..Len(Slice(s, from, n)) : Slice(s, from, n)[i] = s[from + i]
<1>1. Len(s) \in Nat
  BY LenProperties
<1>2. ASSUME NEW a \in Nat, NEW b \in Nat PROVE Min({a, b}) = IF a <= b THEN a ELSE b
  BY DEF Min
<1>3. Min({from, Len(s)}) = IF from <= Len(s) THEN from ELSE Len(s)
  BY <1>1, <1>2
<1>4. PICK rest \in Nat : rest = Len(s) - Min({from, Len(s)})
  BY <1>1, <1>3
<1>5. rest = IF from <= Len(s) THEN Len(s) - from ELSE 0
  BY <1>1, <1>3, <1>4
<1>6. PICK k \in Nat : k = Min({n, rest})
  BY <1>2
<1>7. k = IF n <= rest THEN n ELSE rest
  BY <1>2, <1>6
<1>8. Slice(s, from, n) = [i \in 1..k |-> s[from + i]]
  BY <1>4, <1>6 DEF Slice
<1>9. ASSUME NEW i \in 1..k PROVE s[from + i] \in Doc
  <2>1. from + i \in 1..Len(s)
    BY <1>1, <1>5, <1>7
  <2> QED BY <2>1, ElementOfSeq
<1>10. Slice(s, from, n) \in Seq(Doc) /\ Len(Slice(s, from, n)) = k
  BY <1>8, <1>9
<1>11. \A i \in 1..k : Slice(s, from, n)[i] = s[from + i]
  BY <1>8
<1> QED BY <1>1, <1>5, <1>7, <1>10, <1>11

(* A search gives the number of documents that match and, in order, those  *)
(* from an offset on, as the index has them.                                *)
LEMMA BatchFacts ==
    ASSUME idx \in [Doc -> Stored], NEW q, NEW from \in Nat
    PROVE  LET batch == Batch(q, from)
           IN  /\ batch.total = Len(Ranking(q)) /\ batch.total = Cardinality(Matching(q))
               /\ batch.total \in Nat
               /\ batch.hits \in Seq(Hit) /\ Len(batch.hits) \in Nat
               /\ Len(batch.hits) <= BatchSize
               /\ Len(batch.hits) < BatchSize => from + Len(batch.hits) >= batch.total
               /\ \A i \in 1..Len(batch.hits) :
                     /\ batch.hits[i].id = Ranking(q)[from + i]
                     /\ batch.hits[i].id \in Matching(q)
                     /\ batch.hits[i].doc = idx[batch.hits[i].id]
<1> DEFINE all == Ranking(q)
           some == Slice(all, from, BatchSize)
<1>1. /\ Cardinality(Matching(q)) \in Nat
      /\ all \in Seq(Doc) /\ Len(all) = Cardinality(Matching(q))
      /\ \A i \in 1..Len(all) : all[i] \in Matching(q)
  BY RankingIsAll
<1>2. BatchSize \in Nat
  BY SizesAssumption
<1>3. PICK hits \in Seq(Doc) : hits = some
  BY <1>1, <1>2, SliceFacts
<1>4. /\ Len(hits) \in Nat /\ Len(hits) <= BatchSize
      /\ Len(hits) < BatchSize => from + Len(hits) >= Len(all)
      /\ Len(hits) > 0 => from + Len(hits) <= Len(all)
      /\ \A i \in 1..Len(hits) : hits[i] = all[from + i]
  BY <1>1, <1>2, <1>3, SliceFacts
<1> DEFINE found == [i \in 1..Len(hits) |-> [id |-> hits[i], doc |-> idx[hits[i]]]]
<1>5. DOMAIN hits = 1..Len(hits) /\ \A i \in 1..Len(hits) : hits[i] \in Doc
  BY LenProperties, ElementOfSeq
<1>6. \A i \in 1..Len(hits) : found[i] \in Hit
  BY <1>5 DEF Hit, Stored
<1>7. found \in Seq(Hit) /\ Len(found) = Len(hits)
  BY <1>4, <1>6
<1>8. Batch(q, from) = [total |-> Len(all), hits |-> found]
  BY <1>3, <1>5 DEF Batch
<1>9. ASSUME NEW i \in 1..Len(hits)
      PROVE  /\ found[i].id = all[from + i] /\ found[i].id \in Matching(q)
             /\ found[i].doc = idx[found[i].id]
  <2>1. from + i \in 1..Len(all)
    BY <1>1, <1>4
  <2> QED BY <1>1, <1>4, <1>5, <2>1
<1> HIDE DEF all, found
<1>10. Batch(q, from).total = Len(all) /\ Batch(q, from).hits = found
  BY <1>8
<1> QED BY <1>1, <1>4, <1>7, <1>9, <1>10 DEF all

(* What matches is a document.                                              *)
LEMMA FoundIsDoc ==
    ASSUME NEW q, NEW doc, Found(q, doc)
    PROVE  doc # NoDoc
BY NilAssumption DEF Found, NoDoc
-----------------------------------------------------------------------------
(* What the stores and their writers do to one who reads.                   *)
Moves ==
    /\ UNCHANGED <<backend, remote, it, siteVars, streamVars>>
    /\ backend = "memory" => \A d \in Doc : Kept(d) => Kept(d)'
    /\ shrunk => shrunk'
    /\ req # Nil /\ ~shrunk' => Matching(req) \subseteq Matching(req)'
    /\ steady' => steady /\ (req # Nil => idx' = idx)

LEMMA Writers ==
    ASSUME writer \in Job
    PROVE  /\ writer # Nil /\ writer.id \in Doc
           /\ writer.op = "index" \/ writer.op = "score"
           /\ writer.op = "index" => writer.doc \in Document
BY NilAssumption DEF Job

LEMMA Jobs ==
    ASSUME NEW d \in Doc
    PROVE  /\ [op |-> "score", id |-> d] \in Job
           /\ \A doc \in Document : [op |-> "index", id |-> d, doc |-> doc] \in Job
BY DEF Job

LEMMA Documents ==
    /\ NoDoc \in Stored /\ NoDoc \notin Document /\ NoDoc.content = Nil
    /\ \A doc \in Stored : doc = NoDoc \/ doc \in Document
    /\ \A doc \in Document : doc.content # Nil
    /\ \A doc \in Stored, c \in Content \union {"none"} :
          /\ [doc EXCEPT !.content = c] \in Document
          /\ [doc EXCEPT !.content = c].content = c
          /\ [content |-> c, rank |-> doc.rank] = [doc EXCEPT !.content = c]
    /\ \A c \in Content \union {"none"}, score \in Score : [content |-> c, rank |-> score] \in Document
    /\ \A doc \in Stored : doc.content = Nil => doc = NoDoc
<1>1. 0 \in Score
  BY SizesAssumption DEF Score
<1>2. \A c \in Content \union {"none"} : c # Nil
  BY ContentAssumption, NilAssumption
<1> QED BY <1>1, <1>2 DEF Stored, Document, NoDoc

(* Watch sees a document that ceases to match, and any change.             *)
LEMMA Watched ==
    ASSUME TypeOKStores, Watch, UNCHANGED req
    PROVE  /\ shrunk' \in BOOLEAN /\ steady' \in BOOLEAN
           /\ shrunk => shrunk'
           /\ req # Nil /\ ~shrunk' => Matching(req) \subseteq Matching(req)'
           /\ steady' => steady /\ (req # Nil => idx' = idx)
<1>1. shrunk \in BOOLEAN /\ steady \in BOOLEAN
  BY DEF TypeOKStores
<1>2. /\ steady' = (steady /\ (req = Nil \/ idx' = idx))
      /\ shrunk' = (shrunk \/ (req # Nil /\ \E d \in Matching(req) : ~Found(req, idx'[d])))
  BY DEF Watch
<1>3. ASSUME req # Nil, ~shrunk' PROVE Matching(req) \subseteq Matching(req)'
  <2>1. \A d \in Matching(req) : Found(req, idx'[d])
    BY <1>2, <1>3
  <2>2. \A d \in Doc : Found(req, idx'[d]) => Found(req, idx[d])'
    BY DEF Found
  <2> QED BY <2>1, <2>2 DEF Matching
<1> QED BY <1>1, <1>2, <1>3

(* Nothing is seen to change if the index does not.                         *)
LEMMA Unwatched ==
    ASSUME TypeOKStores, UNCHANGED <<req, idx, steady, shrunk>>
    PROVE  /\ shrunk' \in BOOLEAN /\ steady' \in BOOLEAN
           /\ shrunk => shrunk'
           /\ req # Nil /\ ~shrunk' => Matching(req) \subseteq Matching(req)'
           /\ steady' => steady /\ (req # Nil => idx' = idx)
<1>1. shrunk \in BOOLEAN /\ steady \in BOOLEAN
  BY DEF TypeOKStores
<1>2. Matching(req)' = Matching(req)
  BY DEF Matching, Found
<1> QED BY <1>1, <1>2

LEMMA IndexBeginStep ==
    ASSUME TypeOKStores, StoresInv, NEW d \in Doc, NEW c \in Content, IndexBegin(d, c)
    PROVE  TypeOKStores' /\ StoresInv' /\ Moves
<1>1. /\ backend = "memory" /\ writer = Nil
      /\ UNCHANGED <<backend, remote, it, siteVars, streamVars, documents, dirty>>
      /\ Watch
  BY DEF IndexBegin, Counted
<1>2. documents[d] \in Stored /\ documents \in [Doc -> Stored] /\ idx \in [Doc -> Stored]
  BY DEF TypeOKStores
<1>3. PICK doc \in Document : doc = [documents[d] EXCEPT !.content = c]
  BY <1>2, Documents
<1>4. idx' = [idx EXCEPT ![d] = doc] /\ writer' = [op |-> "index", id |-> d, doc |-> doc]
  BY <1>2, <1>3, Documents DEF IndexBegin, Indexed
<1>5. writer' \in Job /\ writer' # Nil /\ writer'.op = "index" /\ writer'.id = d /\ writer'.doc = doc
  BY <1>4, Jobs, NilAssumption
<1>6. idx' \in [Doc -> Stored] /\ idx'[d] = doc /\ \A e \in Doc \ {d} : idx'[e] = idx[e]
  BY <1>2, <1>4 DEF Stored
<1>7. UNCHANGED req
  BY <1>1 DEF siteVars
<1>8. TypeOKStores'
  BY <1>1, <1>5, <1>6, <1>7, Watched DEF TypeOKStores
<1>9. StoresInv'
  BY <1>1, <1>5, <1>6 DEF StoresInv, Writes
<1>10. Moves
  BY <1>1, <1>7, Watched DEF Moves, Kept, Writes
<1> QED BY <1>8, <1>9, <1>10

LEMMA IndexEndStep ==
    ASSUME TypeOKStores, StoresInv, IndexEnd
    PROVE  TypeOKStores' /\ StoresInv' /\ Moves
<1>1. /\ writer # Nil /\ writer.op = "index" /\ writer' = Nil
      /\ documents' = [documents EXCEPT ![writer.id] = writer.doc]
      /\ dirty' = dirty \ {writer.id}
      /\ UNCHANGED <<backend, remote, idx, steady, shrunk, it, siteVars, streamVars>>
  BY DEF IndexEnd
<1>2. PICK d \in Doc, doc \in Document : writer.id = d /\ writer.doc = doc
  BY <1>1, Writers DEF TypeOKStores
<1>3. documents \in [Doc -> Stored] /\ idx \in [Doc -> Stored] /\ dirty \subseteq Doc
  BY DEF TypeOKStores
<1>4. documents' \in [Doc -> Stored] /\ documents'[d] = doc /\ \A e \in Doc \ {d} : documents'[e] = documents[e]
  BY <1>1, <1>2, <1>3 DEF Stored
<1>5. UNCHANGED req
  BY <1>1 DEF siteVars
<1>6. TypeOKStores'
  BY <1>1, <1>3, <1>4, <1>5, Unwatched DEF TypeOKStores
<1>7. backend = "memory" => idx[d] = doc
  BY <1>1, <1>2 DEF StoresInv
<1>8. StoresInv'
  BY <1>1, <1>2, <1>3, <1>4, <1>7 DEF StoresInv, Writes
<1>9. doc # NoDoc
  BY Documents
<1>10. Moves
  BY <1>1, <1>2, <1>4, <1>5, <1>9, Unwatched DEF Moves, Kept, Writes
<1> QED BY <1>6, <1>8, <1>10

(* The new score of a document leaves its content as it was.                *)
LEMMA ScoredIsDoc ==
    ASSUME TypeOKStores, NEW d \in Doc, NEW score \in Score
    PROVE  /\ Scored(d, score) \in Document
           /\ documents[d] = NoDoc => Scored(d, score).content = "none"
           /\ documents[d] # NoDoc => Scored(d, score).content = documents[d].content
<1>1. documents[d] \in Stored
  BY DEF TypeOKStores
<1>2. documents[d] # NoDoc => documents[d].content \in Content \union {"none"}
  BY <1>1 DEF Stored, Document
<1> DEFINE c == IF documents[d] = NoDoc THEN "none" ELSE documents[d].content
<1>3. c \in Content \union {"none"}
  BY <1>2
<1>4. Scored(d, score) = [content |-> c, rank |-> score]
  BY DEF Scored
<1> HIDE DEF c
<1>5. Scored(d, score) \in Document /\ Scored(d, score).content = c
  BY <1>3, <1>4, Documents
<1> QED BY <1>5 DEF c

LEMMA ScoreBeginStep ==
    ASSUME TypeOKStores, StoresInv, NEW d \in Doc, NEW score \in Score, ScoreBegin(d, score)
    PROVE  TypeOKStores' /\ StoresInv' /\ Moves
<1>1. /\ backend = "memory" /\ writer = Nil
      /\ documents' = [documents EXCEPT ![d] = Scored(d, score)]
      /\ writer' = [op |-> "score", id |-> d]
      /\ UNCHANGED <<backend, remote, it, siteVars, streamVars, idx, dirty, steady, shrunk>>
  BY DEF ScoreBegin, Counted
<1>2. PICK doc \in Document :
          /\ doc = Scored(d, score)
          /\ documents[d] = NoDoc => doc.content = "none"
          /\ documents[d] # NoDoc => doc.content = documents[d].content
  BY ScoredIsDoc
<1>3. documents \in [Doc -> Stored] /\ idx \in [Doc -> Stored] /\ dirty \subseteq Doc
  BY DEF TypeOKStores
<1>4. documents' \in [Doc -> Stored] /\ documents'[d] = doc /\ \A e \in Doc \ {d} : documents'[e] = documents[e]
  BY <1>1, <1>2, <1>3 DEF Stored
<1>5. writer' \in Job /\ writer' # Nil /\ writer'.op = "score" /\ writer'.id = d
  BY <1>1, Jobs, NilAssumption
<1>6. UNCHANGED req
  BY <1>1 DEF siteVars
<1>7. TypeOKStores'
  BY <1>1, <1>3, <1>4, <1>5, <1>6, Unwatched DEF TypeOKStores
<1>8. doc # NoDoc /\ NoDoc.content = Nil /\ Nil # "none" /\ (idx[d].content = Nil => idx[d] = NoDoc)
  BY <1>3, Documents, NilAssumption
<1>9. idx[d].content # documents'[d].content => idx[d] = NoDoc /\ documents'[d].content = "none"
  BY <1>1, <1>2, <1>4, <1>8 DEF StoresInv, Writes
<1>10. StoresInv'
  BY <1>1, <1>3, <1>4, <1>5, <1>8, <1>9 DEF StoresInv, Writes
<1>11. Moves
  BY <1>1, <1>4, <1>6, <1>8, Unwatched DEF Moves, Kept, Writes
<1> QED BY <1>7, <1>10, <1>11

LEMMA ScoreEndStep ==
    ASSUME TypeOKStores, StoresInv, ScoreEnd
    PROVE  TypeOKStores' /\ StoresInv' /\ Moves
<1>1. /\ writer # Nil /\ writer.op = "score"
      /\ UNCHANGED <<backend, remote, documents, it, siteVars, streamVars>>
      /\ Watch
  BY DEF ScoreEnd
<1>2. PICK failed \in BOOLEAN :
          /\ idx' = IF failed THEN idx ELSE [idx EXCEPT ![writer.id] = documents[writer.id]]
          /\ dirty' = IF failed THEN dirty \union {writer.id} ELSE dirty \ {writer.id}
          /\ writer' = Nil
  BY DEF ScoreEnd, Released
<1>3. PICK d \in Doc : writer.id = d
  BY <1>1, Writers DEF TypeOKStores
<1>4. documents \in [Doc -> Stored] /\ idx \in [Doc -> Stored] /\ dirty \subseteq Doc
  BY DEF TypeOKStores
<1>5. /\ idx' \in [Doc -> Stored] /\ \A e \in Doc \ {d} : idx'[e] = idx[e]
      /\ idx'[d] = IF failed THEN idx[d] ELSE documents[d]
  BY <1>2, <1>3, <1>4
<1>6. UNCHANGED req
  BY <1>1 DEF siteVars
<1>7. TypeOKStores'
  BY <1>1, <1>2, <1>3, <1>4, <1>5, <1>6, Watched DEF TypeOKStores
<1>8. StoresInv'
  BY <1>1, <1>2, <1>3, <1>4, <1>5 DEF StoresInv, Writes
<1>9. Moves
  BY <1>1, <1>2, <1>6, Watched DEF Moves, Kept, Writes
<1> QED BY <1>7, <1>8, <1>9

LEMMA ESStep ==
    ASSUME TypeOKStores, StoresInv,
           ESRefresh \/ \E d \in Doc, doc \in Document : ESUpdate(d, doc)
    PROVE  TypeOKStores' /\ StoresInv' /\ Moves
<1>1. documents \in [Doc -> Stored] /\ idx \in [Doc -> Stored]
  BY DEF TypeOKStores
<1>2. CASE ESRefresh
  <2>1. /\ backend = "es" /\ idx' = documents /\ Watch
        /\ UNCHANGED <<backend, remote, documents, writer, dirty, it, siteVars, streamVars>>
    BY <1>2 DEF ESRefresh
  <2>2. UNCHANGED req
    BY <2>1 DEF siteVars
  <2> QED BY <1>1, <2>1, <2>2, Watched DEF TypeOKStores, StoresInv, Moves
<1>3. ASSUME NEW d \in Doc, NEW doc \in Document, ESUpdate(d, doc)
      PROVE  TypeOKStores' /\ StoresInv' /\ Moves
  <2>1. /\ backend = "es" /\ documents' = [documents EXCEPT ![d] = doc]
        /\ UNCHANGED <<backend, remote, it, siteVars, streamVars, idx, writer, dirty, steady, shrunk>>
    BY <1>3 DEF ESUpdate, Counted
  <2>2. UNCHANGED req
    BY <2>1 DEF siteVars
  <2>3. documents' \in [Doc -> Stored]
    BY <1>1, <2>1 DEF Stored
  <2> QED BY <1>1, <2>1, <2>2, <2>3, Unwatched DEF TypeOKStores, StoresInv, Moves
<1> QED BY <1>2, <1>3

LEMMA StoresStep ==
    ASSUME TypeOKStores, StoresInv, Write \/ IndexEnd \/ ScoreEnd \/ ESRefresh
    PROVE  TypeOKStores' /\ StoresInv' /\ Moves
<1>1. ASSUME NEW d \in Doc, NEW c \in Content, ESIndex(d, c) PROVE TypeOKStores' /\ StoresInv' /\ Moves
  <2>1. [documents[d] EXCEPT !.content = c] \in Document
    BY Documents DEF TypeOKStores
  <2> QED BY <1>1, <2>1, ESStep DEF ESIndex
<1>2. ASSUME NEW d \in Doc, NEW score \in Score, ESUpdateScore(d, score)
      PROVE  TypeOKStores' /\ StoresInv' /\ Moves
  BY <1>2, ScoredIsDoc, ESStep DEF ESUpdateScore
<1> QED BY <1>1, <1>2, IndexBeginStep, ScoreBeginStep, IndexEndStep, ScoreEndStep, ESStep DEF Write
-----------------------------------------------------------------------------
(* A request and what serves it.                                            *)
Rest == HitsInv /\ FlowInv /\ CountInv /\ SliceInv /\ PageIsSlice

LEMMA Sizes == BatchSize \in Nat \ {0} /\ ResultsPageSize \in Nat \ {0} /\ Offsets \subseteq Nat
BY SizesAssumption

LEMMA Iterators ==
    ASSUME HitsInv, FlowInv, it # Nil
    PROVE  /\ it \in Iter
           /\ it.hits \in Seq(Hit) /\ Len(it.hits) \in Nat
           /\ it.total \in Nat /\ it.from \in Nat /\ it.resIdx \in Nat /\ it.cumIdx \in Nat
           /\ it.latched \in Result \union {Nil} /\ it.counted \in BOOLEAN
           /\ req \in Query /\ req # Nil /\ req.offset \in Nat
<1>1. it \in Iter /\ req # Nil /\ req \in Query
  BY DEF HitsInv, FlowInv
<1>2. req.offset \in Nat
  BY <1>1, Sizes DEF Query
<1>3. it.hits \in Seq(Hit)
  BY <1>1 DEF Iter
<1> QED BY <1>1, <1>2, <1>3, LenProperties DEF Iter

LEMMA Lengths ==
    ASSUME FlowInv
    PROVE  Len(results) \in Nat /\ Len(wire) \in Nat /\ (wire # <<>> => Len(wire) > 0)
<1>1. results \in Seq(Result) /\ wire \in Seq(Message)
  BY DEF FlowInv
<1> QED BY <1>1, LenProperties, EmptySeq

LEMMA SameRanking ==
    ASSUME UNCHANGED <<idx, req>>
    PROVE  Ranking(req)' = Ranking(req) /\ Matching(req)' = Matching(req)
BY DEF Ranking, Matching, Found, Above

(* Whoever changes the index or the documents.                              *)
LEMMA HitsMoved ==
    ASSUME TypeOKStores, TypeOKStores', HitsInv, FlowInv, Moves
    PROVE  HitsInv'
<1> SUFFICES ASSUME it' # Nil PROVE HitsInv'
  BY DEF HitsInv
<1>1. it' = it /\ req' = req /\ backend' = backend /\ it # Nil
  BY DEF Moves, siteVars
<1>2. /\ it \in Iter /\ req # Nil
      /\ it.error # "not found" /\ (it.error = "panic" => shrunk)
      /\ \A i \in 1..Len(it.hits) : IF backend = "memory" THEN Kept(it.hits[i].id) ELSE it.hits[i].doc # NoDoc
      /\ Len(it.hits) <= BatchSize
      /\ it.error = "none" =>
            /\ it.cumIdx = it.from + it.resIdx /\ it.resIdx <= Len(it.hits)
            /\ Len(it.hits) < BatchSize => it.from + Len(it.hits) >= it.total
      /\ ~shrunk => it.total <= Cardinality(Matching(req))
  BY <1>1 DEF HitsInv
<1>3. \A i \in 1..Len(it.hits) : it.hits[i].id \in Doc
  <2>1. ASSUME NEW i \in 1..Len(it.hits) PROVE it.hits[i] \in Hit
    BY <1>1, Iterators, ElementOfSeq
  <2> QED BY <2>1 DEF Hit
<1>4. \A i \in 1..Len(it'.hits) : IF backend' = "memory" THEN Kept(it.hits[i].id)' ELSE it'.hits[i].doc # NoDoc
  <2>1. ASSUME NEW i \in 1..Len(it.hits), backend = "memory" PROVE Kept(it.hits[i].id)'
    <3>1. PICK d \in Doc : d = it.hits[i].id
      BY <1>3
    <3>2. Kept(d)'
      BY <1>2, <2>1, <3>1 DEF Moves
    <3> QED BY <1>1, <3>1, <3>2 DEF Kept, Writes
  <2> QED BY <1>1, <1>2, <2>1
<1>5. ~shrunk' => it'.total <= Cardinality(Matching(req))'
  <2> SUFFICES ASSUME ~shrunk' PROVE it.total <= Cardinality(Matching(req)')
    BY <1>1
  <2>1. ~shrunk /\ Matching(req) \subseteq Matching(req)'
    BY <1>2 DEF Moves
  <2>2. PICK S : S = Matching(req)'
    OBVIOUS
  <2>3. S \subseteq Doc
    BY <1>1, <2>2 DEF Matching
  <2>4. IsFiniteSet(S) /\ Cardinality(S) \in Nat
    BY <2>3, Docs, FS_Subset, FS_CardinalityType
  <2>5. Cardinality(Matching(req)) <= Cardinality(S) /\ Cardinality(Matching(req)) \in Nat
    BY <2>1, <2>2, <2>4, FS_Subset, RankingIsAll DEF TypeOKStores
  <2>6. it.total \in Nat
    BY <1>1, Iterators
  <2>7. it.total <= Cardinality(Matching(req))
    BY <1>2, <2>1
  <2>8. it.total <= Cardinality(S)
    BY <2>4, <2>5, <2>6, <2>7
  <2> QED BY <2>2, <2>8
<1> QED BY <1>1, <1>2, <1>4, <1>5 DEF HitsInv, Moves

LEMMA RestMoved ==
    ASSUME TypeOKStores, TypeOKStores', Rest, Moves
    PROVE  Rest'
<1>1. /\ UNCHANGED <<remote, it, req, stage, total, results, answer, page>>
      /\ UNCHANGED <<handler, wire, status, cancelled>>
  BY DEF Moves, siteVars, streamVars
<1>2. HitsInv'
  BY HitsMoved DEF Rest
<1>3. FlowInv'
  BY <1>1 DEF Rest, FlowInv, AtEnd, Gone, Browsing
<1>4. CountInv'
  BY <1>1 DEF Rest, CountInv, OnWire, Leading, Latched, Gone
<1>5. SliceInv'
  <2> SUFFICES ASSUME steady', it' # Nil PROVE SliceInv'
    BY DEF SliceInv
  <2>1. steady /\ it # Nil /\ req # Nil
    BY <1>1, Iterators DEF Moves, Rest
  <2>2. Ranking(req)' = Ranking(req)
    BY <1>1, <2>1, SameRanking DEF Moves
  <2> QED BY <1>1, <2>1, <2>2 DEF Rest, SliceInv, Browsing, Leading
<1>6. PageIsSlice'
  <2> SUFFICES ASSUME answer' = "page", steady' PROVE PageIsSlice'
    BY DEF PageIsSlice
  <2>1. steady /\ answer = "page"
    BY <1>1 DEF Moves
  <2>2. req # Nil
    BY <2>1 DEF Rest, FlowInv
  <2>3. Ranking(req)' = Ranking(req)
    BY <1>1, <2>1, <2>2, SameRanking DEF Moves
  <2> QED BY <1>1, <2>1, <2>3 DEF Rest, PageIsSlice, Slice
<1> QED BY <1>2, <1>3, <1>4, <1>5, <1>6 DEF Rest

(* Whoever does not.                                                        *)
LEMMA HitsKept ==
    ASSUME HitsInv, UNCHANGED <<storeVars, it, req>>
    PROVE  HitsInv'
<1>1. Matching(req)' = Matching(req)
  BY SameRanking DEF storeVars
<1> QED BY <1>1 DEF HitsInv, storeVars, Kept, Writes

LEMMA PageKept ==
    ASSUME PageIsSlice, UNCHANGED <<storeVars, req, answer, results, page>>
    PROVE  PageIsSlice'
<1>1. Ranking(req)' = Ranking(req)
  BY SameRanking DEF storeVars
<1> QED BY <1>1 DEF PageIsSlice, storeVars, Slice

LEMMA PageNotYet ==
    ASSUME answer' # "page"
    PROVE  PageIsSlice'
BY DEF PageIsSlice

LEMMA StoresKept ==
    ASSUME TypeOKStores, StoresInv, UNCHANGED storeVars
    PROVE  TypeOKStores' /\ StoresInv'
BY DEF storeVars, TypeOKStores, StoresInv, Writes
(* What the index finds has a document, even for one who reads it later.   *)
LEMMA HitKept ==
    ASSUME TypeOKStores, StoresInv, UNCHANGED <<backend, documents, writer>>,
           NEW q, NEW d \in Matching(q)
    PROVE  idx[d] # NoDoc /\ (backend = "memory" => Kept(d)')
<1>1. d \in Doc /\ Found(q, idx[d])
  BY DEF Matching
<1>2. idx[d] # NoDoc
  BY <1>1, FoundIsDoc
<1>3. ASSUME backend = "memory", ~Writes("index", d) PROVE documents[d] # NoDoc
  <2>1. idx[d].content = documents[d].content
    BY <1>1, <1>2, <1>3 DEF StoresInv
  <2>2. idx[d].content # Nil
    BY <1>1, NilAssumption DEF Found
  <2> QED BY <2>1, <2>2 DEF NoDoc
<1> QED BY <1>2, <1>3 DEF Kept, Writes
-----------------------------------------------------------------------------
(* Before there is an iterator, only how frontend and call fit together    *)
(* matters.                                                                 *)
LEMMA NoneYet ==
    ASSUME it' = Nil, FlowInv', answer' # "page"
    PROVE  Rest'
BY PageNotYet DEF Rest, HitsInv, CountInv, SliceInv

LEMMA SubmitStep ==
    ASSUME Rest, NEW q \in Query, Submit(q)
    PROVE  Rest'
<1>1. /\ stage = "idle" /\ req' = q /\ stage' = "search"
      /\ UNCHANGED <<storeVars, it, total, results, summary, answer, page, streamVars>>
  BY DEF Submit
<1>2. it = Nil /\ q # Nil /\ answer = "none"
  BY <1>1, NilAssumption DEF Rest, FlowInv
<1>3. FlowInv'
  BY <1>1, <1>2 DEF Rest, FlowInv, AtEnd, Gone, Browsing, streamVars, storeVars
<1> QED BY <1>1, <1>2, <1>3, NoneYet

(* The end of a request, whatever it is.                                    *)
LEMMA AnswerStep ==
    ASSUME Rest, stage \notin {"idle", "done"},
           NEW kind, kind # "none", NEW links, Answer(kind, links), PageIsSlice'
    PROVE  Rest'
<1>1. /\ answer' = kind /\ stage' = "done"
      /\ IF remote THEN Cancel ELSE UNCHANGED streamVars
      /\ UNCHANGED <<storeVars, it, req, total, results, summary>>
  BY DEF Answer
<1>2. UNCHANGED <<remote, backend, idx, steady>>
  BY <1>1 DEF storeVars
<1>3. HitsInv'
  BY <1>1, HitsKept DEF Rest
<1>4. /\ UNCHANGED <<handler, status>> /\ wire' = <<>>
      /\ cancelled' = (cancelled \/ remote) /\ (~remote => wire = <<>>)
      /\ cancelled \in BOOLEAN
  <2>1. CASE remote
    BY <1>1, <2>1 DEF Cancel, Rest, FlowInv
  <2>2. CASE ~remote
    BY <1>1, <2>2 DEF streamVars, Rest, FlowInv
  <2> QED BY <2>1, <2>2
<1>5. Gone' = (Gone \/ remote) /\ (Browsing' <=> FALSE) /\ AtEnd' = AtEnd
  BY <1>1, <1>4 DEF Gone, Browsing, AtEnd
<1>6. wire' \in Seq(Message)
  BY <1>4, EmptySeq
<1>7. FlowInv'
  BY <1>1, <1>2, <1>4, <1>5, <1>6 DEF Rest, FlowInv
<1>8. CountInv'
  <2> SUFFICES ASSUME it # Nil PROVE CountInv'
    BY <1>1 DEF CountInv
  <2>1. OnWire' = 0 /\ Latched' = Latched /\ OnWire \in Nat
    BY <1>1, <1>4 DEF OnWire, Latched, Rest, CountInv
  <2>2. ~remote => OnWire = 0
    BY <1>4 DEF OnWire
  <2>3. req.offset \in Nat /\ it.cumIdx \in Nat /\ Len(results) \in Nat /\ Latched \in Nat
    BY Iterators, Lengths DEF Rest, Latched
  <2>4. /\ req.offset + Len(results) + OnWire + Latched <= it.cumIdx
        /\ ~Gone => req.offset + Len(results) + OnWire + Latched = it.cumIdx
    BY DEF Rest, CountInv
  <2>5. /\ req.offset + Len(results) + 0 + Latched <= it.cumIdx
        /\ ~Gone /\ ~remote => req.offset + Len(results) + 0 + Latched = it.cumIdx
    BY <2>1, <2>2, <2>3, <2>4
  <2>6. UNCHANGED <<it, req, results>>
    BY <1>1
  <2> QED BY <1>5, <2>1, <2>3, <2>5, <2>6 DEF CountInv
<1>9. SliceInv'
  <2> SUFFICES ASSUME steady, it # Nil PROVE SliceInv'
    BY <1>1, <1>2 DEF SliceInv
  <2>1. Ranking(req)' = Ranking(req)
    BY <1>1, <1>2, SameRanking
  <2>2. Leading' = 0 /\ Len(wire') = 0 /\ wire' = <<>>
    BY <1>1, <1>4, EmptySeq DEF Leading
  <2>3. \A j \in Leading' + 1..Len(wire') : FALSE
    BY <2>2
  <2> QED BY <1>1, <1>5, <2>1, <2>2, <2>3 DEF Rest, SliceInv
<1> QED BY <1>3, <1>7, <1>8, <1>9 DEF Rest

(* A new iterator has the first batch of the hits it is asked for.          *)
LEMMA NewIterator ==
    ASSUME TypeOKStores, StoresInv, Rest, req # Nil, it' = Iterator, UNCHANGED <<storeVars, req>>
    PROVE  /\ HitsInv' /\ it' # Nil
           /\ it'.total = Len(Ranking(req))
           /\ it'.from = req.offset /\ it'.cumIdx = req.offset /\ it'.resIdx = 0
           /\ it'.latched = Nil /\ it'.error = "none" /\ ~it'.counted
           /\ \A i \in 1..Len(it'.hits) : it'.hits[i].id = Ranking(req)[req.offset + i]
<1>1. req \in Query /\ req.offset \in Nat
  <2>1. req \in Query
    BY DEF Rest, FlowInv
  <2> QED BY <2>1, Sizes DEF Query
<1>2. idx \in [Doc -> Stored] /\ UNCHANGED <<backend, documents, writer, idx, shrunk>>
  BY DEF TypeOKStores, storeVars
<1>3. PICK batch : batch = Batch(req, req.offset)
  OBVIOUS
<1>4. /\ batch.total = Len(Ranking(req)) /\ batch.total = Cardinality(Matching(req))
      /\ batch.total \in Nat
      /\ batch.hits \in Seq(Hit) /\ Len(batch.hits) \in Nat
      /\ Len(batch.hits) <= BatchSize
      /\ Len(batch.hits) < BatchSize => req.offset + Len(batch.hits) >= batch.total
      /\ \A i \in 1..Len(batch.hits) :
            /\ batch.hits[i].id = Ranking(req)[req.offset + i]
            /\ batch.hits[i].id \in Matching(req)
            /\ batch.hits[i].doc = idx[batch.hits[i].id]
  BY <1>1, <1>2, <1>3, BatchFacts
<1>5. it' = [hits |-> batch.hits, total |-> batch.total, from |-> req.offset, resIdx |-> 0,
             cumIdx |-> req.offset, latched |-> Nil, error |-> "none", counted |-> FALSE]
  BY <1>3 DEF Iterator, Start
<1>6. it' \in Iter
  BY <1>1, <1>4, <1>5 DEF Iter
<1>7. it' # Nil
  BY <1>6, NilAssumption
<1>8. ASSUME NEW i \in 1..Len(batch.hits)
      PROVE  (backend = "memory" => Kept(batch.hits[i].id)') /\ batch.hits[i].doc # NoDoc
  BY <1>2, <1>4, HitKept
<1>9. Matching(req)' = Matching(req)
  BY <1>2, SameRanking
<1>10. HitsInv'
  BY <1>1, <1>2, <1>4, <1>5, <1>6, <1>8, <1>9 DEF HitsInv
<1> QED BY <1>4, <1>5, <1>7, <1>10

(* It has passed nothing.                                                   *)
LEMMA NothingPassed ==
    ASSUME TypeOKStores, StoresInv, Rest, req # Nil, it = Nil, it' = Iterator,
           UNCHANGED <<storeVars, req, results, wire>>,
           Browsing' => total' = it'.total \/ ~remote
    PROVE  HitsInv' /\ CountInv' /\ SliceInv'
<1>1. /\ HitsInv' /\ it' # Nil
      /\ it'.total = Len(Ranking(req))
      /\ it'.from = req.offset /\ it'.cumIdx = req.offset /\ it'.resIdx = 0
      /\ it'.latched = Nil /\ it'.error = "none" /\ ~it'.counted
      /\ \A i \in 1..Len(it'.hits) : it'.hits[i].id = Ranking(req)[req.offset + i]
  BY NewIterator
<1>2. wire' = <<>> /\ results' = <<>> /\ Len(wire') = 0 /\ Len(results') = 0 /\ UNCHANGED <<remote, req>>
  BY EmptySeq DEF Rest, FlowInv, storeVars
<1>3. req.offset \in Nat
  <2>1. req \in Query
    BY DEF Rest, FlowInv
  <2> QED BY <2>1, Sizes DEF Query
<1>4. CountInv'
  <2>1. OnWire' = 0 /\ Latched' = 0
    BY <1>1, <1>2 DEF OnWire, Latched
  <2>2. req'.offset + Len(results') + 0 + 0 = it'.cumIdx /\ it'.cumIdx \in Nat
    BY <1>1, <1>2, <1>3
  <2> QED BY <2>1, <2>2 DEF CountInv
<1>5. Ranking(req)' = Ranking(req)
  BY SameRanking DEF storeVars
<1>6. \A j \in Leading' + 1..Len(wire') : FALSE
  BY <1>2 DEF Leading
<1>7. SliceInv'
  BY <1>1, <1>2, <1>3, <1>5, <1>6 DEF SliceInv
<1> QED BY <1>1, <1>4, <1>7

LEMMA LocalSearchStep ==
    ASSUME TypeOKStores, StoresInv, Rest, LocalSearch
    PROVE  Rest'
<1>1. stage = "search" /\ ~remote
  BY DEF LocalSearch
<1>2. CASE Answer("error", NoPage)
  BY <1>1, <1>2, PageNotYet, AnswerStep DEF Answer
<1>3. CASE /\ it' = Iterator /\ total' = it'.total /\ stage' = "read"
           /\ UNCHANGED <<storeVars, req, results, summary, answer, page, streamVars>>
  <2>1. it = Nil /\ req # Nil /\ answer = "none"
    BY <1>1 DEF Rest, FlowInv
  <2>2. UNCHANGED <<wire, handler, status, cancelled, remote>>
    BY <1>3 DEF streamVars, storeVars
  <2>3. HitsInv' /\ CountInv' /\ SliceInv'
    BY <1>3, <2>1, <2>2, NothingPassed
  <2>4. it' # Nil /\ it'.latched = Nil /\ ~it'.counted
    BY <1>3, <2>1, <2>2, NewIterator
  <2>5. FlowInv'
    BY <1>1, <1>3, <2>1, <2>2, <2>4 DEF Rest, FlowInv, Browsing, Gone
  <2> QED BY <1>3, <2>1, <2>3, <2>5, PageNotYet DEF Rest
<1> QED BY <1>1, <1>2, <1>3 DEF LocalSearch

LEMMA RemoteSearchStep ==
    ASSUME TypeOKStores, StoresInv, Rest, RemoteSearch
    PROVE  Rest'
<1>1. stage = "search" /\ remote
  BY DEF RemoteSearch
<1>2. CASE Answer("error", NoPage)
  BY <1>1, <1>2, PageNotYet, AnswerStep DEF Answer
<1>3. CASE /\ Call /\ stage' = "count"
           /\ UNCHANGED <<storeVars, it, req, total, results, summary, answer, page>>
  <2>1. it = Nil /\ req # Nil /\ answer = "none"
    BY <1>1 DEF Rest, FlowInv
  <2>2. UNCHANGED <<wire, status, cancelled, remote>> /\ handler' = "running"
    BY <1>3 DEF Call, storeVars
  <2>3. FlowInv'
    BY <1>1, <1>3, <2>1, <2>2 DEF Rest, FlowInv, Browsing, Gone
  <2> QED BY <1>3, <2>1, <2>3, NoneYet
<1> QED BY <1>1, <1>2, <1>3 DEF RemoteSearch

LEMMA ServerSearchStep ==
    ASSUME TypeOKStores, StoresInv, Rest, ServerSearch
    PROVE  Rest'
<1>1. handler = "running" /\ it = Nil /\ UNCHANGED <<storeVars, siteVars>>
  BY DEF ServerSearch
<1>2. UNCHANGED <<remote, req, stage, total, results, answer, page>>
  BY <1>1 DEF storeVars, siteVars
<1>3. PageIsSlice'
  BY <1>1, <1>2, PageKept DEF Rest
<1>4. CASE it' = Iterator /\ UNCHANGED streamVars
  <2>1. req # Nil /\ ~Browsing
    BY <1>1 DEF Rest, FlowInv, Browsing
  <2>2. UNCHANGED <<wire, handler, status, cancelled>>
    BY <1>4 DEF streamVars
  <2>3. HitsInv' /\ CountInv' /\ SliceInv'
    BY <1>1, <1>2, <1>4, <2>1, <2>2, NothingPassed DEF Browsing
  <2>4. it' # Nil /\ it'.latched = Nil /\ ~it'.counted
    BY <1>1, <1>2, <1>4, <2>1, NewIterator
  <2>5. FlowInv'
    BY <1>1, <1>2, <2>1, <2>2, <2>4 DEF Rest, FlowInv, Browsing, Gone
  <2> QED BY <1>3, <2>3, <2>5 DEF Rest
<1>5. CASE Finish("error") /\ UNCHANGED it
  <2>1. /\ UNCHANGED <<wire, cancelled>> /\ handler' = "returned"
        /\ status' = IF status = "open" THEN "error" ELSE status
    BY <1>5 DEF Finish
  <2>2. FlowInv'
    BY <1>1, <1>2, <1>5, <2>1 DEF Rest, FlowInv, Browsing, Gone
  <2>3. HitsInv' /\ CountInv' /\ SliceInv'
    BY <1>1, <1>5 DEF HitsInv, CountInv, SliceInv
  <2> QED BY <1>3, <2>2, <2>3 DEF Rest
<1> QED BY <1>4, <1>5 DEF ServerSearch

(* The frontend goes on with a document it has read.                        *)
LEMMA BrowsingOn ==
    ASSUME Rest, Browsing, stage' \in {"read", "summarise", "highlight"},
           stage' = "summarise" => stage = "summarise",
           UNCHANGED <<storeVars, it, req, total, results, answer, page, streamVars>>
    PROVE  Rest'
<1>1. /\ UNCHANGED <<backend, remote, idx, steady, it, req, total, results, answer, page>>
      /\ UNCHANGED <<wire, handler, status, cancelled>>
  BY DEF storeVars, streamVars
<1>2. HitsInv' /\ PageIsSlice'
  BY HitsKept, PageKept DEF Rest
<1>3. FlowInv'
  BY <1>1 DEF Rest, FlowInv, Browsing, Gone, AtEnd
<1>4. Leading' = Leading /\ Gone' = Gone /\ Browsing' = Browsing
  BY <1>1 DEF Leading, Gone, Browsing
<1>5. CountInv'
  BY <1>1, <1>4 DEF Rest, CountInv, OnWire, Latched
<1>6. Ranking(req)' = Ranking(req)
  BY <1>1, SameRanking
<1>7. SliceInv'
  BY <1>1, <1>4, <1>6 DEF Rest, SliceInv, Browsing
<1> QED BY <1>2, <1>3, <1>5, <1>7 DEF Rest

LEMMA SummariseStep ==
    ASSUME Rest, Summarise
    PROVE  Rest'
<1>1. stage = "summarise" /\ Browsing
  BY DEF Summarise, Browsing
<1>2. \/ Answer("aborted", NoPage)
      \/ /\ stage' = "highlight"
         /\ UNCHANGED <<storeVars, it, req, total, results, answer, page, streamVars>>
  BY DEF Summarise
<1>3. CASE Answer("aborted", NoPage)
  BY <1>1, <1>3, PageNotYet, AnswerStep DEF Answer
<1> QED BY <1>1, <1>2, <1>3, BrowsingOn

LEMMA HighlightStep ==
    ASSUME Rest, Highlight
    PROVE  Rest'
<1>1. /\ stage = "highlight" /\ stage' = "read" /\ Browsing
      /\ UNCHANGED <<storeVars, it, req, total, results, answer, page, streamVars>>
  BY DEF Highlight, Browsing
<1> QED BY <1>1, BrowsingOn

LEMMA FailsStep ==
    ASSUME Rest, Fails
    PROVE  Rest'
<1>1. stage = "read" /\ Answer("error", NoPage)
  BY DEF Fails
<1> QED BY <1>1, PageNotYet, AnswerStep DEF Answer

(* What Receive takes off the wire.                                         *)
LEMMA Received ==
    ASSUME FlowInv, Receive
    PROVE  /\ wire # <<>> /\ ~cancelled /\ wire' \in Seq(Message) /\ Len(wire) \in Nat \ {0}
           /\ Len(wire') = Len(wire) - 1
           /\ \A j \in 1..Len(wire') : wire'[j] = wire[j + 1]
           /\ Head(wire) = wire[1]
           /\ UNCHANGED <<handler, status, cancelled>>
<1>1. wire \in Seq(Message) /\ wire # <<>> /\ wire' = Tail(wire)
  BY DEF FlowInv, Receive
<1>2. Len(wire) \in Nat \ {0}
  BY <1>1, Lengths
<1> QED BY <1>1, <1>2, HeadTailProperties DEF Receive

LEMMA ReceiveCountStep ==
    ASSUME TypeOKStores, Rest, ReceiveCount
    PROVE  Rest'
<1>1. stage = "count"
  BY DEF ReceiveCount
<1>2. CASE Answer("error", NoPage)
  BY <1>1, <1>2, PageNotYet, AnswerStep DEF Answer
<1>3. CASE /\ Receive /\ total' = Head(wire).total /\ stage' = "read"
           /\ UNCHANGED <<storeVars, it, req, results, summary, answer, page>>
  <2>1. /\ wire # <<>> /\ ~cancelled /\ wire' \in Seq(Message) /\ Len(wire) \in Nat \ {0}
        /\ Len(wire') = Len(wire) - 1
        /\ \A j \in 1..Len(wire') : wire'[j] = wire[j + 1]
        /\ Head(wire) = wire[1]
        /\ UNCHANGED <<handler, status, cancelled>>
    BY <1>3, Received DEF Rest
  <2>2. UNCHANGED <<backend, remote, idx, steady>>
    BY <1>3 DEF storeVars
  <2>3. it # Nil /\ it.counted /\ remote /\ results = <<>>
    BY <1>1, <2>1 DEF Rest, FlowInv
  <2>4. HitsInv'
    BY <1>3, HitsKept DEF Rest
  <2>5. answer = "none"
    BY <1>1 DEF Rest, FlowInv
  <2>6. AtEnd' = AtEnd /\ Gone' = Gone /\ Browsing' /\ Leading' = 0 /\ Leading = 1
    BY <1>1, <1>3, <2>1 DEF AtEnd, Gone, Browsing, Leading
  <2>7. FlowInv'
    <3>1. handler # "none"
      BY <2>1 DEF Rest, FlowInv
    <3> QED BY <1>1, <1>3, <2>1, <2>2, <2>3, <2>6, <3>1 DEF Rest, FlowInv
  <2>8. CountInv'
    <3>1. OnWire = Len(wire) - 1 /\ OnWire' = Len(wire) - 1 /\ Latched' = Latched
      <4>1. wire' = <<>> => Len(wire') = 0
        BY EmptySeq
      <4> QED BY <1>3, <2>1, <2>6, <4>1 DEF OnWire, Latched
    <3> QED BY <1>3, <2>6, <3>1 DEF Rest, CountInv
  <2>9. SliceInv'
    <3> SUFFICES ASSUME steady PROVE SliceInv'
      BY <2>2 DEF SliceInv
    <3>1. Ranking(req)' = Ranking(req)
      BY <1>3, <2>2, SameRanking
    <3>2. total' = Len(Ranking(req))
      BY <1>1, <1>3, <2>1, <2>3 DEF Rest, SliceInv
    <3>3. ASSUME NEW j \in 1..Len(wire')
          PROVE  wire'[j] \in Result /\ wire'[j].id = Ranking(req)[req.offset + Len(results) + j]
      <4>1. j + 1 \in Leading + 1..Len(wire) /\ wire'[j] = wire[j + 1] /\ j \in Nat
        BY <2>1, <2>6
      <4>2. wire[j + 1] \in Result /\ wire[j + 1].id = Ranking(req)[req.offset + Len(results) + (j + 1) - Leading]
        BY <2>3, <4>1 DEF Rest, SliceInv
      <4>3. req.offset \in Nat /\ Len(results) \in Nat
        BY <2>3, Iterators, Lengths DEF Rest
      <4>4. req.offset + Len(results) + (j + 1) - Leading = req.offset + Len(results) + j
        BY <2>6, <4>1, <4>3
      <4> QED BY <4>1, <4>2, <4>4
    <3>4. ASSUME NEW j \in Leading' + 1..Len(wire')
          PROVE  wire'[j] \in Result /\ wire'[j].id = Ranking(req)[req.offset + Len(results) + j - Leading']
      <4>1. j \in 1..Len(wire')
        BY <2>6, <3>4
      <4>2. req.offset \in Nat /\ Len(results) \in Nat /\ j \in Nat
        BY <2>3, <4>1, Iterators, Lengths DEF Rest
      <4>3. req.offset + Len(results) + j - Leading' = req.offset + Len(results) + j
        BY <2>6, <4>2
      <4> QED BY <3>3, <4>1, <4>3
    <3> QED BY <1>3, <2>2, <2>3, <3>1, <3>2, <3>4 DEF Rest, SliceInv
  <2> QED BY <1>3, <2>4, <2>5, <2>7, <2>8, <2>9, PageNotYet DEF Rest
<1> QED BY <1>1, <1>2, <1>3 DEF ReceiveCount

LEMMA SameHits ==
    ASSUME HitsInv, it # Nil, it' \in Iter, UNCHANGED <<storeVars, req>>,
           it'.hits = it.hits, it'.total = it.total, it'.from = it.from,
           it'.resIdx = it.resIdx, it'.cumIdx = it.cumIdx, it'.error = it.error
    PROVE  HitsInv'
<1>1. Matching(req)' = Matching(req)
  BY SameRanking DEF storeVars
<1>2. UNCHANGED <<backend, shrunk, documents, writer>>
  BY DEF storeVars
<1> QED BY <1>1, <1>2 DEF HitsInv, Kept, Writes

(* What is read from the iterator or told to the client is not of the hits. *)
LEMMA HandedOn ==
    ASSUME HitsInv, FlowInv, it # Nil, UNCHANGED <<storeVars, req>>,
           \/ it' = [it EXCEPT !.latched = Nil]
           \/ it' = [it EXCEPT !.counted = TRUE]
    PROVE  /\ HitsInv' /\ it' # Nil
           /\ it'.hits = it.hits /\ it'.total = it.total /\ it'.from = it.from
           /\ it'.resIdx = it.resIdx /\ it'.cumIdx = it.cumIdx /\ it'.error = it.error
           /\ it' = [it EXCEPT !.latched = Nil] => it'.latched = Nil /\ it'.counted = it.counted
           /\ it' = [it EXCEPT !.counted = TRUE] => it'.latched = it.latched /\ it'.counted
<1>1. it \in Iter
  BY DEF HitsInv
<1>2. it' \in Iter /\ it' # Nil
  <2>1. it' \in Iter
    BY <1>1 DEF Iter
  <2> QED BY <2>1, NilAssumption
<1>3. /\ it'.hits = it.hits /\ it'.total = it.total /\ it'.from = it.from
      /\ it'.resIdx = it.resIdx /\ it'.cumIdx = it.cumIdx /\ it'.error = it.error
      /\ it' = [it EXCEPT !.latched = Nil] => it'.latched = Nil /\ it'.counted = it.counted
      /\ it' = [it EXCEPT !.counted = TRUE] => it'.latched = it.latched /\ it'.counted
  BY <1>1 DEF Iter
<1>4. HitsInv'
  BY <1>2, <1>3, SameHits
<1> QED BY <1>2, <1>3, <1>4

(* Another result for the page, which is the next of the ranking.           *)
LEMMA Appended ==
    ASSUME NEW doc \in Result, results \in Seq(Result), results' = Append(results, doc)
    PROVE  /\ results' \in Seq(Result) /\ Len(results) \in Nat /\ Len(results') = Len(results) + 1
           /\ \A i \in 1..Len(results) : results'[i] = results[i]
           /\ results'[Len(results) + 1] = doc
BY AppendProperties, LenProperties

LEMMA ReadDocStep ==
    ASSUME TypeOKStores, Rest, ReadDoc
    PROVE  Rest'
<1>1. /\ stage = "read" /\ stage' = "summarise" /\ Len(results) < ResultsPageSize
      /\ UNCHANGED <<storeVars, req, total, summary, answer, page>>
      /\ IF remote THEN Receive /\ UNCHANGED it
         ELSE it' = [it EXCEPT !.latched = Nil] /\ UNCHANGED streamVars
  BY DEF ReadDoc
<1>2. PICK doc \in Result : NextDoc(doc) /\ results' = Append(results, doc)
  BY DEF ReadDoc
<1>3. UNCHANGED <<backend, remote, idx, steady>>
  BY <1>1 DEF storeVars
<1>4. /\ results' \in Seq(Result) /\ Len(results) \in Nat /\ Len(results') = Len(results) + 1
      /\ \A i \in 1..Len(results) : results'[i] = results[i]
      /\ results'[Len(results) + 1] = doc
  BY <1>2, Appended DEF Rest, FlowInv
<1>5. /\ it # Nil /\ answer = "none" /\ (remote => it.counted) /\ ~cancelled /\ req # Nil
      /\ req.offset \in Nat /\ it.cumIdx \in Nat
  <2>1. it # Nil /\ answer = "none" /\ (remote => it.counted) /\ ~cancelled
    BY <1>1 DEF Rest, FlowInv, Browsing
  <2> QED BY <2>1, Iterators DEF Rest
<1>6. Ranking(req)' = Ranking(req)
  BY <1>1, <1>3, SameRanking
<1>7. PageIsSlice'
  BY <1>1, <1>5, PageNotYet
<1>8. Len(results') <= ResultsPageSize
  BY <1>1, <1>4, Sizes
<1>9. Leading = 0 /\ Leading' = 0 /\ Browsing /\ Browsing'
  BY <1>1 DEF Leading, Browsing
<1>10. CASE remote
  <2>1. /\ wire # <<>> /\ ~cancelled /\ wire' \in Seq(Message) /\ Len(wire) \in Nat \ {0}
        /\ Len(wire') = Len(wire) - 1
        /\ \A j \in 1..Len(wire') : wire'[j] = wire[j + 1]
        /\ Head(wire) = wire[1]
        /\ UNCHANGED <<handler, status, cancelled>>
    BY <1>1, <1>10, Received DEF Rest
  <2>2. UNCHANGED it /\ doc = wire[1]
    BY <1>1, <1>2, <1>10, <2>1 DEF NextDoc
  <2>3. HitsInv'
    BY <1>1, <2>2, HitsKept DEF Rest
  <2>4. AtEnd' = AtEnd /\ Gone' = Gone
    BY <2>1, <2>2 DEF AtEnd, Gone
  <2>5. FlowInv'
    <3>1. handler # "none"
      BY <2>1 DEF Rest, FlowInv
    <3> QED BY <1>1, <1>3, <1>4, <1>5, <1>8, <1>9, <1>10, <2>1, <2>2, <2>4, <3>1 DEF Rest, FlowInv
  <2>6. CountInv'
    <3>1. OnWire = Len(wire) /\ OnWire' = Len(wire) - 1 /\ Latched' = Latched /\ Latched \in Nat
      <4>1. wire' = <<>> => Len(wire') = 0
        BY EmptySeq
      <4> QED BY <1>9, <2>1, <2>2, <4>1 DEF OnWire, Latched
    <3>2. /\ req.offset + Len(results) + Len(wire) + Latched <= it.cumIdx
          /\ ~Gone => req.offset + Len(results) + Len(wire) + Latched = it.cumIdx
      BY <1>5, <3>1 DEF Rest, CountInv
    <3>3. req.offset + (Len(results) + 1) + (Len(wire) - 1) + Latched = req.offset + Len(results) + Len(wire) + Latched
      <4>1. PICK a \in Nat : a = req.offset
        BY <1>5
      <4>2. PICK b \in Nat : b = Len(results)
        BY <1>4
      <4>3. PICK c \in Nat : c = Len(wire)
        BY <2>1
      <4>4. PICK d \in Nat : d = Latched
        BY <3>1
      <4>5. a + (b + 1) + (c - 1) + d = a + b + c + d
        OBVIOUS
      <4> QED BY <4>1, <4>2, <4>3, <4>4, <4>5
    <3>4. OnWire' \in Nat
      BY <2>1, <3>1
    <3>5. /\ req.offset + (Len(results) + 1) + (Len(wire) - 1) + Latched <= it.cumIdx
          /\ ~Gone => req.offset + (Len(results) + 1) + (Len(wire) - 1) + Latched = it.cumIdx
      BY <3>2, <3>3
    <3> QED BY <1>1, <1>4, <1>5, <2>2, <2>4, <3>1, <3>4, <3>5 DEF CountInv
  <2>7. SliceInv'
    <3> SUFFICES ASSUME steady PROVE SliceInv'
      BY <1>3 DEF SliceInv
    <3>1. ASSUME NEW j \in 1..Len(wire)
          PROVE  wire[j] \in Result /\ wire[j].id = Ranking(req)[req.offset + Len(results) + j]
      <4>1. j \in Leading + 1..Len(wire)
        BY <1>9
      <4>2. wire[j] \in Result /\ wire[j].id = Ranking(req)[req.offset + Len(results) + j - Leading]
        BY <1>5, <4>1 DEF Rest, SliceInv
      <4>3. req.offset + Len(results) + j - Leading = req.offset + Len(results) + j
        BY <1>4, <1>5, <1>9
      <4> QED BY <4>2, <4>3
    <3>2. ASSUME NEW i \in 1..Len(results')
          PROVE  results'[i].id = Ranking(req)[req.offset + i]
      <4>1. CASE i \in 1..Len(results)
        BY <1>4, <1>5, <4>1 DEF Rest, SliceInv
      <4>2. CASE i = Len(results) + 1
        <5>1. 1 \in 1..Len(wire)
          BY <2>1
        <5>2. doc.id = Ranking(req)[req.offset + Len(results) + 1]
          BY <2>2, <3>1, <5>1
        <5>3. req.offset + Len(results) + 1 = req.offset + i
          <6>1. PICK o \in Nat, L \in Nat : o = req.offset /\ L = Len(results)
            BY <1>4, <1>5
          <6>2. o + L + 1 = o + (L + 1)
            OBVIOUS
          <6> QED BY <4>2, <6>1, <6>2
        <5> QED BY <1>4, <4>2, <5>2, <5>3
      <4> QED BY <1>4, <4>1, <4>2
    <3>3. ASSUME NEW j \in Leading' + 1..Len(wire')
          PROVE  wire'[j] \in Result /\ wire'[j].id = Ranking(req)[req.offset + Len(results') + j - Leading']
      <4>1. j \in 1..Len(wire') /\ j + 1 \in 1..Len(wire) /\ j \in Nat
        BY <1>9, <2>1
      <4>2. wire'[j] \in Result /\ wire'[j].id = Ranking(req)[req.offset + Len(results) + (j + 1)]
        BY <2>1, <3>1, <4>1
      <4>3. req.offset + Len(results) + (j + 1) = req.offset + Len(results') + j - Leading'
        <5>1. \A a, b, c \in Nat : a + b + (c + 1) = a + (b + 1) + c - 0
          OBVIOUS
        <5>2. req.offset + Len(results) + (j + 1) = req.offset + (Len(results) + 1) + j - 0
          BY <1>4, <1>5, <4>1, <5>1
        <5> QED BY <1>4, <1>9, <5>2
      <4> QED BY <4>2, <4>3
    <3> QED BY <1>1, <1>3, <1>5, <1>6, <1>9, <2>2, <3>2, <3>3 DEF Rest, SliceInv
  <2> QED BY <1>7, <2>3, <2>5, <2>6, <2>7 DEF Rest
<1>11. CASE ~remote
  <2>1. it' = [it EXCEPT !.latched = Nil] /\ it.latched # Nil /\ doc = it.latched
    BY <1>1, <1>2, <1>11 DEF NextDoc
  <2>2. /\ HitsInv' /\ it' # Nil
        /\ it'.hits = it.hits /\ it'.total = it.total /\ it'.from = it.from
        /\ it'.resIdx = it.resIdx /\ it'.cumIdx = it.cumIdx /\ it'.error = it.error
        /\ it'.latched = Nil /\ it'.counted = it.counted
    BY <1>1, <1>5, <2>1, HandedOn DEF Rest
  <2>3. UNCHANGED <<wire, handler, status, cancelled>> /\ wire = <<>> /\ ~Gone
    BY <1>1, <1>11 DEF streamVars, Rest, FlowInv, Gone
  <2>4. FlowInv'
    BY <1>1, <1>3, <1>4, <1>5, <1>8, <1>9, <1>11, <2>2, <2>3 DEF Rest, FlowInv
  <2>5. req.offset + Len(results) + 1 = it.cumIdx
    <3>1. OnWire = 0 /\ Latched = 1
      BY <2>1, <2>3 DEF OnWire, Latched
    <3>2. req.offset + Len(results) + 0 + 1 = it.cumIdx
      BY <1>5, <2>3, <3>1 DEF Rest, CountInv
    <3> QED BY <1>4, <1>5, <3>2
  <2>6. CountInv'
    <3>1. OnWire' = 0 /\ Latched' = 0
      BY <2>2, <2>3 DEF OnWire, Latched
    <3>2. req.offset + (Len(results) + 1) + 0 + 0 = it.cumIdx
      BY <1>4, <1>5, <2>5
    <3> QED BY <1>1, <1>4, <1>5, <2>2, <3>1, <3>2 DEF CountInv
  <2>7. SliceInv'
    <3> SUFFICES ASSUME steady PROVE SliceInv'
      BY <1>3 DEF SliceInv
    <3>1. ASSUME NEW i \in 1..Len(results')
          PROVE  results'[i].id = Ranking(req)[req.offset + i]
      <4>1. CASE i \in 1..Len(results)
        BY <1>4, <1>5, <4>1 DEF Rest, SliceInv
      <4>2. CASE i = Len(results) + 1
        <5>1. doc.id = Ranking(req)[it.cumIdx]
          BY <1>5, <2>1 DEF Rest, SliceInv
        <5>2. it.cumIdx = req.offset + i
          BY <1>4, <1>5, <2>5, <4>2
        <5> QED BY <1>4, <4>2, <5>1, <5>2
      <4> QED BY <1>4, <4>1, <4>2
    <3>2. \A j \in Leading' + 1..Len(wire') : FALSE
      BY <1>9, <2>3, EmptySeq
    <3> QED BY <1>1, <1>3, <1>5, <1>6, <1>9, <1>11, <2>2, <2>3, <3>1, <3>2 DEF Rest, SliceInv
  <2> QED BY <1>7, <2>2, <2>4, <2>6, <2>7 DEF Rest
<1> QED BY <1>10, <1>11

(* What happens to the call if its server or the connection is lost: some   *)
(* of the last messages are.                                                *)
LEMMA CutOff ==
    ASSUME TypeOKStores, Rest, remote, handler # "none", handler' # "none", status' = "error",
           NEW n \in 0..Len(wire), wire' = SubSeq(wire, 1, n), UNCHANGED <<cancelled, storeVars, siteVars>>,
           HitsInv', it' = Nil <=> it = Nil,
           it # Nil => /\ it'.latched = it.latched /\ it'.counted = it.counted
                       /\ it'.hits = it.hits /\ it'.total = it.total /\ it'.from = it.from
                       /\ it'.cumIdx = it.cumIdx /\ (it'.error = "none" => it.error = "none")
    PROVE  Rest'
<1>1. UNCHANGED <<backend, remote, idx, steady, req, stage, total, results, answer, page>>
  BY DEF storeVars, siteVars
<1>2. PageIsSlice'
  BY <1>1, PageKept DEF Rest
<1>3. wire \in Seq(Message) /\ Len(wire) \in Nat /\ n \in Nat /\ n <= Len(wire)
  BY Lengths DEF Rest, FlowInv
<1>4. /\ wire' \in Seq(Message) /\ Len(wire') = n /\ Len(wire') \in Nat
      /\ \A j \in 1..n : wire'[j] = wire[j]
  BY <1>3, SubSeqProperties
<1>5. (wire = <<>> => wire' = <<>>) /\ (wire' = <<>> <=> n = 0)
  <2>1. wire' = <<>> <=> n = 0
    BY <1>4, EmptySeq
  <2>2. wire = <<>> => n = 0
    BY <1>3, EmptySeq
  <2> QED BY <2>1, <2>2
<1>6. Gone' /\ Leading' = Leading /\ Browsing' = Browsing /\ Leading \in {0, 1}
  BY <1>1 DEF Gone, Leading, Browsing
<1>7. FlowInv'
  BY <1>1, <1>4, <1>5, <1>6 DEF Rest, FlowInv, Browsing
<1>8. CountInv'
  <2> SUFFICES ASSUME it # Nil PROVE CountInv'
    BY DEF CountInv
  <2>1. OnWire \in Nat /\ it.cumIdx \in Nat /\ req.offset + Len(results) + OnWire + Latched <= it.cumIdx
    BY DEF Rest, CountInv
  <2>2. Latched' = Latched /\ Latched \in Nat /\ req.offset \in Nat /\ Len(results) \in Nat
    BY Iterators, Lengths DEF Rest, Latched
  <2>3. OnWire' \in Nat /\ OnWire' <= OnWire
    <3>1. CASE n = 0
      BY <1>5, <2>1, <3>1 DEF OnWire
    <3>2. CASE n # 0
      <4>1. OnWire' = n - Leading /\ OnWire = Len(wire) - Leading
        BY <1>4, <1>5, <1>6, <3>2 DEF OnWire
      <4> QED BY <1>3, <1>6, <3>2, <4>1
    <3> QED BY <3>1, <3>2
  <2>4. PICK k \in Nat : k = OnWire'
    BY <2>3
  <2>5. req.offset + Len(results) + k + Latched <= it.cumIdx
    BY <2>1, <2>2, <2>3, <2>4
  <2>6. UNCHANGED <<req, results>> /\ it'.cumIdx = it.cumIdx
    BY <1>1
  <2> QED BY <1>6, <2>1, <2>2, <2>4, <2>5, <2>6 DEF CountInv
<1>9. SliceInv'
  <2> SUFFICES ASSUME steady, it # Nil PROVE SliceInv'
    BY <1>1 DEF SliceInv
  <2>1. Ranking(req)' = Ranking(req)
    BY <1>1, SameRanking
  <2>2. ASSUME NEW j \in Leading' + 1..Len(wire')
        PROVE  wire'[j] \in Result /\ wire'[j].id = Ranking(req)[req.offset + Len(results) + j - Leading']
    <3>1. j \in Leading + 1..Len(wire) /\ j \in 1..n
      BY <1>3, <1>4, <1>6
    <3> QED BY <1>4, <1>6, <3>1 DEF Rest, SliceInv
  <2>3. stage = "count" /\ wire' # <<>> => wire'[1] = [total |-> Len(Ranking(req))]
    <3> SUFFICES ASSUME stage = "count", wire' # <<>> PROVE wire'[1] = [total |-> Len(Ranking(req))]
      OBVIOUS
    <3>1. 1 \in 1..n /\ wire # <<>>
      BY <1>3, <1>5
    <3> QED BY <1>4, <3>1 DEF Rest, SliceInv
  <2> QED BY <1>1, <1>6, <2>1, <2>2, <2>3 DEF Rest, SliceInv, Latched
<1> QED BY <1>2, <1>7, <1>8, <1>9 DEF Rest

LEMMA LostStep ==
    ASSUME TypeOKStores, Rest, Lost
    PROVE  Rest'
<1>1. remote /\ UNCHANGED <<storeVars, it, siteVars>> /\ Disconnect
  BY DEF Lost
<1>2. HitsInv'
  BY <1>1, HitsKept DEF Rest, siteVars
<1>3. handler # "none" /\ status' = "error" /\ UNCHANGED <<handler, cancelled>>
  BY <1>1 DEF Disconnect
<1>4. PICK n \in 0..Len(wire) : wire' = SubSeq(wire, 1, n)
  BY <1>1 DEF Disconnect
<1> QED BY <1>1, <1>2, <1>3, <1>4, CutOff

(* The handler of the server returns.                                       *)
LEMMA Returned ==
    ASSUME TypeOKStores, Rest, handler = "running", handler' = "returned",
           UNCHANGED <<wire, cancelled, it, storeVars, siteVars>>,
           \/ UNCHANGED status
           \/ status' = "error"
           \/ status' = "ok" /\ it # Nil /\ it.counted /\ it.latched = Nil /\ it.error = "none" /\ AtEnd,
           status = "error" => status' = "error"
    PROVE  Rest'
<1>1. UNCHANGED <<backend, remote, idx, steady, req, stage, total, results, answer, page>>
  BY DEF storeVars, siteVars
<1>2. HitsInv' /\ PageIsSlice'
  BY <1>1, HitsKept, PageKept DEF Rest
<1>3. remote /\ AtEnd' = AtEnd /\ Browsing' = Browsing /\ Leading' = Leading /\ (Gone => Gone')
  BY <1>1 DEF Rest, FlowInv, AtEnd, Browsing, Leading, Gone
<1>4. FlowInv'
  BY <1>1, <1>3 DEF Rest, FlowInv
<1>5. OnWire' = OnWire /\ Latched' = Latched
  BY <1>3 DEF OnWire, Latched
<1>6. CountInv'
  BY <1>1, <1>3, <1>5 DEF Rest, CountInv
<1>7. Ranking(req)' = Ranking(req)
  BY <1>1, SameRanking
<1>8. SliceInv'
  BY <1>1, <1>3, <1>7 DEF Rest, SliceInv
<1> QED BY <1>2, <1>4, <1>6, <1>8 DEF Rest

LEMMA ServerReturnStep ==
    ASSUME TypeOKStores, Rest, ServerReturn
    PROVE  Rest'
<1>1. /\ handler = "running" /\ it # Nil /\ it.counted /\ it.latched = Nil /\ AtEnd
      /\ Finish(IF it.error = "none" THEN "ok" ELSE "error")
      /\ UNCHANGED <<storeVars, it, siteVars>>
  BY DEF ServerReturn
<1>2. /\ handler' = "returned" /\ UNCHANGED <<wire, cancelled>>
      /\ status' = IF status = "open" THEN (IF it.error = "none" THEN "ok" ELSE "error") ELSE status
  BY <1>1 DEF Finish
<1> QED BY <1>1, <1>2, Returned

LEMMA Sent ==
    ASSUME FlowInv, NEW m \in Message, Send(m)
    PROVE  /\ handler = "running" /\ remote /\ stage # "done" /\ ~Gone /\ status # "ok"
           /\ wire' \in Seq(Message) /\ wire' # <<>>
           /\ Len(wire) \in Nat /\ Len(wire') = Len(wire) + 1
           /\ \A j \in 1..Len(wire) : wire'[j] = wire[j]
           /\ wire'[Len(wire) + 1] = m
           /\ UNCHANGED <<handler, status, cancelled>>
<1>1. /\ handler = "running" /\ ~Gone /\ wire' = Append(wire, m)
      /\ UNCHANGED <<handler, status, cancelled>>
  BY DEF Send
<1>2. wire \in Seq(Message) /\ remote /\ stage # "done" /\ status # "ok"
  BY <1>1 DEF FlowInv, Gone
<1>3. /\ wire' \in Seq(Message) /\ Len(wire) \in Nat /\ Len(wire') = Len(wire) + 1
      /\ \A j \in 1..Len(wire) : wire'[j] = wire[j]
      /\ wire'[Len(wire) + 1] = m
  BY <1>1, <1>2, AppendProperties, LenProperties
<1>4. wire' # <<>>
  <2>1. Len(wire') # 0
    BY <1>3
  <2> QED BY <2>1, EmptySeq
<1> QED BY <1>1, <1>2, <1>3, <1>4

(* The number of results is the first message.                              *)
LEMMA SendCountStep ==
    ASSUME TypeOKStores, Rest, it # Nil, ~it.counted, Send([total |-> it.total]),
           it' = [it EXCEPT !.counted = TRUE], UNCHANGED <<storeVars, siteVars>>
    PROVE  Rest'
<1>1. UNCHANGED <<backend, remote, idx, steady, req, stage, total, results, answer, page>>
  BY DEF storeVars, siteVars
<1>2. PICK m \in Message : m = [total |-> it.total]
  <2>1. it.total \in Nat
    BY Iterators DEF Rest
  <2> QED BY <2>1 DEF Message
<1>3. /\ handler = "running" /\ remote /\ stage # "done" /\ ~Gone /\ status # "ok"
      /\ wire' \in Seq(Message) /\ wire' # <<>>
      /\ Len(wire) \in Nat /\ Len(wire') = Len(wire) + 1
      /\ \A j \in 1..Len(wire) : wire'[j] = wire[j]
      /\ wire'[Len(wire) + 1] = m
      /\ UNCHANGED <<handler, status, cancelled>>
  BY <1>2, Sent DEF Rest
<1>4. /\ HitsInv' /\ it' # Nil
      /\ it'.hits = it.hits /\ it'.total = it.total /\ it'.from = it.from
      /\ it'.resIdx = it.resIdx /\ it'.cumIdx = it.cumIdx /\ it'.error = it.error
      /\ it'.latched = it.latched /\ it'.counted
  BY <1>1, HandedOn DEF Rest
<1>5. wire = <<>> /\ results = <<>> /\ it.latched = Nil /\ stage = "count"
  BY <1>3 DEF Rest, FlowInv, Browsing
<1>6. Len(wire) = 0 /\ Len(wire') = 1 /\ wire'[1] = m
  BY <1>3, <1>5, EmptySeq
<1>7. Gone' = Gone /\ Leading' = 1 /\ Leading = 1 /\ ~Browsing' /\ ~Browsing
  BY <1>1, <1>3, <1>5 DEF Gone, Leading, Browsing
<1>8. PageIsSlice'
  BY <1>1, PageKept DEF Rest
<1>9. FlowInv'
  BY <1>1, <1>3, <1>4, <1>5, <1>7 DEF Rest, FlowInv
<1>10. OnWire = 0 /\ OnWire' = 0 /\ Latched' = Latched
  BY <1>3, <1>4, <1>5, <1>6, <1>7 DEF OnWire, Latched
<1>11. CountInv'
  BY <1>1, <1>4, <1>7, <1>10 DEF Rest, CountInv
<1>12. SliceInv'
  <2> SUFFICES ASSUME steady PROVE SliceInv'
    BY <1>1 DEF SliceInv
  <2>1. Ranking(req)' = Ranking(req)
    BY <1>1, SameRanking
  <2>2. \A j \in Leading' + 1..Len(wire') : FALSE
    BY <1>6, <1>7
  <2>3. wire'[1] = [total |-> Len(Ranking(req))]
    BY <1>2, <1>6 DEF Rest, SliceInv
  <2> QED BY <1>1, <1>4, <1>7, <2>1, <2>2, <2>3 DEF Rest, SliceInv
<1> QED BY <1>4, <1>8, <1>9, <1>11, <1>12 DEF Rest

(* A document is sent after all those that were read before it.             *)
LEMMA SendDocStep ==
    ASSUME TypeOKStores, Rest, it # Nil, it.latched # Nil, Send(it.latched),
           it' = [it EXCEPT !.latched = Nil], UNCHANGED <<storeVars, siteVars>>
    PROVE  Rest'
<1>1. UNCHANGED <<backend, remote, idx, steady, req, stage, total, results, answer, page>>
  BY DEF storeVars, siteVars
<1>2. PICK m \in Result : m = it.latched
  BY Iterators DEF Rest
<1>3. /\ handler = "running" /\ remote /\ stage # "done" /\ ~Gone /\ status # "ok"
      /\ wire' \in Seq(Message) /\ wire' # <<>>
      /\ Len(wire) \in Nat /\ Len(wire') = Len(wire) + 1
      /\ \A j \in 1..Len(wire) : wire'[j] = wire[j]
      /\ wire'[Len(wire) + 1] = m
      /\ UNCHANGED <<handler, status, cancelled>>
  BY <1>2, Sent DEF Rest, Message
<1>4. /\ HitsInv' /\ it' # Nil
      /\ it'.hits = it.hits /\ it'.total = it.total /\ it'.from = it.from
      /\ it'.resIdx = it.resIdx /\ it'.cumIdx = it.cumIdx /\ it'.error = it.error
      /\ it'.latched = Nil /\ it'.counted = it.counted
  BY <1>1, HandedOn DEF Rest
<1>5. it.counted /\ (stage = "count" => wire # <<>>)
  BY <1>3 DEF Rest, FlowInv
<1>6. Gone' = Gone /\ Leading' = Leading /\ Leading \in {0, 1} /\ Browsing' = Browsing /\ AtEnd' = AtEnd
  BY <1>1, <1>3, <1>4 DEF Gone, Leading, Browsing, AtEnd
<1>7. OnWire = Len(wire) - Leading
  <2>1. wire = <<>> => Leading = 0 /\ Len(wire) = 0
    BY <1>5, EmptySeq DEF Leading
  <2> QED BY <2>1 DEF OnWire
<1>8. OnWire' = Len(wire) + 1 - Leading
  BY <1>3, <1>6 DEF OnWire
<1>9. Latched = 1 /\ Latched' = 0
  BY <1>4 DEF Latched
<1>10. OnWire \in Nat /\ req.offset \in Nat /\ Len(results) \in Nat /\ it.cumIdx \in Nat
  BY Iterators, Lengths DEF Rest, CountInv
<1>11. OnWire' = OnWire + 1 /\ OnWire' \in Nat
  BY <1>3, <1>6, <1>7, <1>8, <1>10
<1>12. req.offset + Len(results) + OnWire + 1 = it.cumIdx
  BY <1>3, <1>9 DEF Rest, CountInv
<1>13. PageIsSlice'
  BY <1>1, PageKept DEF Rest
<1>14. FlowInv'
  BY <1>1, <1>3, <1>4, <1>5, <1>6 DEF Rest, FlowInv, Gone
<1>15. CountInv'
  <2>1. PICK k \in Nat : k = OnWire
    BY <1>10
  <2>2. req.offset + Len(results) + (k + 1) + 0 = it.cumIdx
    BY <1>10, <1>12, <2>1
  <2>3. OnWire' = k + 1 /\ UNCHANGED <<req, results>> /\ it'.cumIdx = it.cumIdx
    BY <1>1, <1>4, <1>11, <2>1
  <2> QED BY <1>9, <1>10, <2>2, <2>3 DEF CountInv
<1>16. SliceInv'
  <2> SUFFICES ASSUME steady PROVE SliceInv'
    BY <1>1 DEF SliceInv
  <2>1. Ranking(req)' = Ranking(req)
    BY <1>1, SameRanking
  <2>2. ASSUME NEW j \in Leading' + 1..Len(wire')
        PROVE  wire'[j] \in Result /\ wire'[j].id = Ranking(req)[req.offset + Len(results) + j - Leading']
    <3>1. j \in Leading + 1..Len(wire) \/ j = Len(wire) + 1
      BY <1>3, <1>6
    <3>2. CASE j \in Leading + 1..Len(wire)
      <4>1. j \in 1..Len(wire)
        BY <1>3, <1>6, <3>2
      <4> QED BY <1>3, <1>6, <3>2, <4>1 DEF Rest, SliceInv
    <3>3. CASE j = Len(wire) + 1
      <4>1. m.id = Ranking(req)[it.cumIdx]
        BY <1>2 DEF Rest, SliceInv
      <4>2. req.offset + Len(results) + (Len(wire) - Leading) + 1 = it.cumIdx
        BY <1>7, <1>12
      <4>3. req.offset + Len(results) + (Len(wire) + 1) - Leading = req.offset + Len(results) + (Len(wire) - Leading) + 1
        <5>1. PICK a \in Nat, b \in Nat, c \in Nat, l \in Nat :
                  a = req.offset /\ b = Len(results) /\ c = Len(wire) /\ l = Leading
          BY <1>3, <1>6, <1>10
        <5>2. a + b + (c + 1) - l = a + b + (c - l) + 1
          OBVIOUS
        <5> QED BY <5>1, <5>2
      <4> QED BY <1>3, <1>6, <3>3, <4>1, <4>2, <4>3
    <3> QED BY <3>1, <3>2, <3>3
  <2>3. stage = "count" => wire'[1] = [total |-> Len(Ranking(req))]
    <3> SUFFICES ASSUME stage = "count" PROVE wire'[1] = [total |-> Len(Ranking(req))]
      OBVIOUS
    <3>1. wire # <<>> /\ 1 \in 1..Len(wire)
      BY <1>3, <1>5, Lengths DEF Rest
    <3> QED BY <1>3, <3>1 DEF Rest, SliceInv
  <2> QED BY <1>1, <1>4, <1>6, <2>1, <2>2, <2>3 DEF Rest, SliceInv
<1> QED BY <1>4, <1>13, <1>14, <1>15, <1>16 DEF Rest

LEMMA ServerSendStep ==
    ASSUME TypeOKStores, Rest, ServerSend
    PROVE  Rest'
<1>1. it # Nil /\ UNCHANGED <<storeVars, siteVars>>
  BY DEF ServerSend
<1>2. CASE ~it.counted /\ Send([total |-> it.total]) /\ it' = [it EXCEPT !.counted = TRUE]
  BY <1>1, <1>2, SendCountStep
<1>3. CASE it.latched # Nil /\ Send(it.latched) /\ it' = [it EXCEPT !.latched = Nil]
  BY <1>1, <1>3, SendDocStep
<1>4. CASE SendFails /\ UNCHANGED it
  BY <1>1, <1>4, Returned DEF SendFails
<1> QED BY <1>2, <1>3, <1>4 DEF ServerSend
-----------------------------------------------------------------------------
(* One who calls Next.                                                      *)
LEMMA Calling ==
    ASSUME Rest, Wanted
    PROVE  /\ it # Nil /\ it.latched = Nil /\ it.error = "none" /\ it.cumIdx < it.total
           /\ it.cumIdx = it.from + it.resIdx /\ it.resIdx <= Len(it.hits)
           /\ status # "ok" /\ (remote => it.counted /\ handler = "running") /\ (~remote => stage = "read")
<1>1. it # Nil
  BY DEF Wanted
<1>2. it.latched = Nil /\ it.error = "none" /\ it.cumIdx < it.total
  <2>1. it.cumIdx \in Nat /\ it.total \in Nat
    BY <1>1, Iterators DEF Rest
  <2> QED BY <2>1 DEF Wanted, AtEnd
<1>3. (remote => it.counted /\ handler = "running") /\ (~remote => stage = "read")
  BY DEF Wanted
<1>4. status # "ok"
  BY <1>3 DEF Rest, FlowInv
<1>5. it.cumIdx = it.from + it.resIdx /\ it.resIdx <= Len(it.hits)
  BY <1>1, <1>2 DEF Rest, HitsInv
<1> QED BY <1>1, <1>2, <1>3, <1>4, <1>5

LEMMA Called ==
    ASSUME Rest, Wanted, it' # Nil, it'.counted = it.counted,
           UNCHANGED <<storeVars, siteVars, streamVars>>
    PROVE  FlowInv' /\ PageIsSlice'
<1>1. /\ UNCHANGED <<backend, remote, idx, steady, req, stage, total, results, answer, page>>
      /\ UNCHANGED <<wire, handler, status, cancelled>>
  BY DEF storeVars, siteVars, streamVars
<1>2. PageIsSlice'
  BY <1>1, PageKept DEF Rest
<1>3. Browsing' = Browsing /\ Gone' = Gone
  BY <1>1 DEF Browsing, Gone
<1>4. FlowInv'
  BY <1>1, <1>3, Calling DEF Rest, FlowInv
<1> QED BY <1>2, <1>4

(* At the end of a batch all places of it are passed, unless the search    *)
(* has found no more.                                                       *)
LEMMA FullBatch ==
    ASSUME Rest, Wanted, AtBatchEnd
    PROVE  /\ it.from \in Nat /\ it.from + BatchSize \in Nat /\ it.cumIdx = it.from + BatchSize
           /\ it.total \in Nat /\ it.cumIdx < it.total
<1>1. /\ it # Nil /\ it.error = "none" /\ it.cumIdx < it.total
      /\ it.cumIdx = it.from + it.resIdx /\ it.resIdx <= Len(it.hits)
  BY Calling
<1>2. /\ it.total \in Nat /\ it.from \in Nat /\ it.resIdx \in Nat /\ it.cumIdx \in Nat /\ Len(it.hits) \in Nat
      /\ BatchSize \in Nat
  BY <1>1, Iterators, Sizes DEF Rest
<1>3. it.resIdx = Len(it.hits)
  BY <1>1, <1>2 DEF AtBatchEnd
<1>4. Len(it.hits) <= BatchSize /\ (Len(it.hits) < BatchSize => it.from + Len(it.hits) >= it.total)
  BY <1>1 DEF Rest, HitsInv
<1>5. Len(it.hits) = BatchSize
  BY <1>1, <1>2, <1>3, <1>4
<1> QED BY <1>1, <1>2, <1>3, <1>5

LEMMA SameCount ==
    ASSUME Rest, it # Nil, it' # Nil, it'.cumIdx = it.cumIdx, it'.latched = it.latched,
           UNCHANGED <<siteVars, streamVars>>
    PROVE  CountInv'
<1>1. UNCHANGED <<req, stage, results, wire, status, cancelled>>
  BY DEF siteVars, streamVars
<1>2. OnWire' = OnWire /\ Latched' = Latched /\ Gone' = Gone
  BY <1>1 DEF OnWire, Latched, Leading, Gone
<1> QED BY <1>1, <1>2 DEF Rest, CountInv

LEMMA FetchStep ==
    ASSUME TypeOKStores, StoresInv, Rest, Fetch
    PROVE  Rest'
<1>1. Wanted /\ AtBatchEnd /\ UNCHANGED <<storeVars, siteVars, streamVars>>
  BY DEF Fetch
<1>2. /\ UNCHANGED <<backend, remote, documents, writer, idx, steady, shrunk>>
      /\ UNCHANGED <<req, stage, total, results, answer, page>>
      /\ UNCHANGED <<wire, handler, status, cancelled>>
  BY <1>1 DEF storeVars, siteVars, streamVars
<1>3. /\ it # Nil /\ it.latched = Nil /\ it \in Iter /\ req # Nil /\ req.offset \in Nat
      /\ it.error = "none" /\ it.cumIdx \in Nat
  BY <1>1, Calling, Iterators DEF Rest
<1>4. /\ it.from \in Nat /\ it.from + BatchSize \in Nat /\ it.cumIdx = it.from + BatchSize
      /\ it.total \in Nat /\ it.cumIdx < it.total
  BY <1>1, FullBatch
<1>5. PICK from \in Nat : from = it.from + BatchSize
  BY <1>4
<1>6. Ranking(req)' = Ranking(req) /\ Matching(req)' = Matching(req)
  BY <1>2, SameRanking
<1>7. Browsing' = Browsing /\ Leading' = Leading
  BY <1>2 DEF Browsing, Leading
<1>8. CASE it' = [it EXCEPT !.from = @ + BatchSize, !.error = "search"]
  <2>1. it' = [it EXCEPT !.from = from, !.error = "search"]
    BY <1>5, <1>8
  <2>2. /\ it' \in Iter
        /\ it'.hits = it.hits /\ it'.total = it.total /\ it'.resIdx = it.resIdx /\ it'.cumIdx = it.cumIdx
        /\ it'.latched = it.latched /\ it'.error = "search" /\ it'.counted = it.counted
    BY <1>3, <2>1 DEF Iter
  <2>3. it' # Nil
    BY <2>2, NilAssumption
  <2>4. FlowInv' /\ PageIsSlice'
    BY <1>1, <2>2, <2>3, Called
  <2>5. CountInv'
    BY <1>1, <1>3, <2>2, <2>3, SameCount
  <2>6. HitsInv'
    BY <1>2, <1>3, <1>6, <2>2 DEF Rest, HitsInv, Kept, Writes
  <2>7. SliceInv'
    BY <1>2, <1>3, <1>6, <1>7, <2>2 DEF Rest, SliceInv
  <2> QED BY <2>4, <2>5, <2>6, <2>7 DEF Rest
<1>9. CASE it' = [it EXCEPT !.from = @ + BatchSize, !.hits = NextBatch.hits,
                            !.total = NextBatch.total, !.resIdx = 0]
  <2>1. PICK batch : batch = NextBatch
    OBVIOUS
  <2>2. /\ batch.total = Len(Ranking(req)) /\ batch.total = Cardinality(Matching(req))
        /\ batch.total \in Nat
        /\ batch.hits \in Seq(Hit) /\ Len(batch.hits) \in Nat
        /\ Len(batch.hits) <= BatchSize
        /\ Len(batch.hits) < BatchSize => from + Len(batch.hits) >= batch.total
        /\ \A i \in 1..Len(batch.hits) :
              /\ batch.hits[i].id = Ranking(req)[from + i]
              /\ batch.hits[i].id \in Matching(req)
              /\ batch.hits[i].doc = idx[batch.hits[i].id]
    BY <1>5, <2>1, BatchFacts DEF NextBatch, TypeOKStores
  <2>3. it' = [it EXCEPT !.from = from, !.hits = batch.hits, !.total = batch.total, !.resIdx = 0]
    BY <1>5, <1>9, <2>1
  <2>4. /\ it' \in Iter
        /\ it'.hits = batch.hits /\ it'.total = batch.total /\ it'.resIdx = 0 /\ it'.cumIdx = it.cumIdx
        /\ it'.from = from
        /\ it'.latched = it.latched /\ it'.error = "none" /\ it'.counted = it.counted
    BY <1>3, <2>2, <2>3 DEF Iter
  <2>5. it' # Nil
    BY <2>4, NilAssumption
  <2>6. FlowInv' /\ PageIsSlice'
    BY <1>1, <2>4, <2>5, Called
  <2>7. CountInv'
    BY <1>1, <1>3, <2>4, <2>5, SameCount
  <2>8. ASSUME NEW i \in 1..Len(batch.hits)
        PROVE  (backend = "memory" => Kept(batch.hits[i].id)') /\ batch.hits[i].doc # NoDoc
    BY <1>2, <2>2, HitKept
  <2>9. it'.cumIdx = it'.from + it'.resIdx
    BY <1>4, <1>5, <2>4
  <2>10. HitsInv'
    BY <1>2, <1>3, <1>6, <2>2, <2>4, <2>8, <2>9 DEF HitsInv
  <2>11. it.cumIdx > req.offset /\ steady => it.cumIdx <= Len(Ranking(req))
    BY <1>3 DEF Rest, SliceInv
  <2>12. SliceInv'
    BY <1>2, <1>3, <1>6, <1>7, <2>2, <2>4, <2>11 DEF Rest, SliceInv
  <2> QED BY <2>6, <2>7, <2>10, <2>12 DEF Rest
<1> QED BY <1>8, <1>9 DEF Fetch

(* There are no more hits before the end of those that were counted, unless *)
(* some have ceased to match.                                               *)
LEMMA PanicHits ==
    ASSUME TypeOKStores, Rest, Wanted, AtBatchEnd, NextBatch.hits = <<>>,
           it' = [it EXCEPT !.error = "panic"], UNCHANGED <<storeVars, req>>
    PROVE  /\ HitsInv' /\ it' # Nil
           /\ it'.hits = it.hits /\ it'.total = it.total /\ it'.from = it.from
           /\ it'.cumIdx = it.cumIdx /\ it'.error = "panic"
           /\ it'.latched = it.latched /\ it'.counted = it.counted
<1>1. UNCHANGED <<backend, documents, writer, idx, shrunk>>
  BY DEF storeVars
<1>2. it # Nil /\ it.latched = Nil /\ it \in Iter /\ req # Nil /\ it.error = "none"
  BY Calling, Iterators DEF Rest
<1>3. /\ it.from + BatchSize \in Nat /\ it.cumIdx = it.from + BatchSize
      /\ it.total \in Nat /\ it.cumIdx < it.total
  BY FullBatch
<1>4. shrunk
  <2>1. PICK from \in Nat : from = it.from + BatchSize
    BY <1>3
  <2>2. /\ NextBatch.total = Cardinality(Matching(req)) /\ NextBatch.total \in Nat
        /\ Len(NextBatch.hits) < BatchSize => from + Len(NextBatch.hits) >= NextBatch.total
    BY <2>1, BatchFacts DEF NextBatch, TypeOKStores
  <2>3. Len(NextBatch.hits) = 0 /\ BatchSize \in Nat \ {0}
    BY EmptySeq, Sizes
  <2>4. from >= Cardinality(Matching(req)) /\ Cardinality(Matching(req)) \in Nat
    BY <2>2, <2>3
  <2>5. ~(it.total <= Cardinality(Matching(req)))
    BY <1>3, <2>1, <2>4
  <2> QED BY <1>2, <2>5 DEF Rest, HitsInv
<1>5. /\ it' \in Iter
      /\ it'.hits = it.hits /\ it'.total = it.total /\ it'.from = it.from
      /\ it'.resIdx = it.resIdx /\ it'.cumIdx = it.cumIdx /\ it'.error = "panic"
      /\ it'.latched = it.latched /\ it'.counted = it.counted
  BY <1>2 DEF Iter
<1>6. it' # Nil
  BY <1>5, NilAssumption
<1>7. Matching(req)' = Matching(req)
  BY <1>1, SameRanking
<1>8. HitsInv'
  BY <1>1, <1>2, <1>4, <1>5, <1>7 DEF Rest, HitsInv, Kept, Writes
<1> QED BY <1>5, <1>6, <1>8

LEMMA PanicStep ==
    ASSUME TypeOKStores, Rest, Panic
    PROVE  Rest'
<1>1. /\ Wanted /\ AtBatchEnd /\ NextBatch.hits = <<>>
      /\ it' = [it EXCEPT !.error = "panic"] /\ UNCHANGED storeVars
  BY DEF Panic
<1>2. UNCHANGED req
  BY DEF Panic, siteVars
<1>3. UNCHANGED <<backend, remote, documents, writer, idx, steady, shrunk>>
  BY <1>1 DEF storeVars
<1>4. /\ HitsInv' /\ it' # Nil
      /\ it'.hits = it.hits /\ it'.total = it.total /\ it'.from = it.from
      /\ it'.cumIdx = it.cumIdx /\ it'.error = "panic"
      /\ it'.latched = it.latched /\ it'.counted = it.counted
  BY <1>1, <1>2, PanicHits
<1>5. /\ it # Nil /\ it.latched = Nil /\ it.error = "none" /\ status # "ok"
      /\ (remote => it.counted /\ handler = "running") /\ (~remote => stage = "read")
  BY <1>1, Calling
<1>6. CASE remote
  <2>1. ServerCrash /\ UNCHANGED siteVars
    BY <1>6 DEF Panic
  <2>2. /\ handler # "none" /\ handler' = "returned" /\ status' = "error" /\ UNCHANGED cancelled
    BY <2>1 DEF ServerCrash
  <2>3. PICK n \in 0..Len(wire) : wire' = SubSeq(wire, 1, n)
    BY <2>1 DEF ServerCrash
  <2> QED BY <1>1, <1>4, <1>5, <1>6, <2>1, <2>2, <2>3, CutOff
<1>7. CASE ~remote
  <2>1. /\ answer' = "aborted" /\ stage' = "done"
        /\ UNCHANGED <<req, total, results, summary, page, streamVars>>
    BY <1>7 DEF Panic
  <2>2. /\ UNCHANGED <<wire, handler, status, cancelled>> /\ wire = <<>> /\ ~Gone
    BY <1>7, <2>1 DEF streamVars, Rest, FlowInv, Gone
  <2>3. FlowInv'
    BY <1>3, <1>4, <1>5, <1>7, <2>1, <2>2 DEF Rest, FlowInv, Browsing
  <2>4. Leading = 0 /\ Leading' = 0 /\ ~Browsing'
    BY <1>5, <1>7, <2>1 DEF Leading, Browsing
  <2>5. OnWire = 0 /\ OnWire' = 0 /\ Latched' = Latched /\ ~Gone'
    BY <1>4, <2>2 DEF OnWire, Latched, Gone
  <2>6. CountInv'
    BY <1>4, <1>5, <2>1, <2>2, <2>5 DEF Rest, CountInv
  <2>7. Ranking(req)' = Ranking(req)
    BY <1>2, <1>3, SameRanking
  <2>8. \A j \in Leading' + 1..Len(wire') : FALSE
    BY <2>2, <2>4, EmptySeq
  <2>9. SliceInv'
    BY <1>3, <1>4, <1>5, <2>1, <2>2, <2>4, <2>7, <2>8 DEF Rest, SliceInv
  <2>10. PageIsSlice'
    BY <2>1, PageNotYet
  <2> QED BY <1>4, <2>3, <2>6, <2>9, <2>10 DEF Rest
<1> QED BY <1>6, <1>7

LEMMA TakeStep ==
    ASSUME TypeOKStores, Rest, Take
    PROVE  Rest'
<1>1. /\ Wanted /\ ~AtBatchEnd /\ (backend = "memory" => writer = Nil)
      /\ UNCHANGED <<storeVars, siteVars, streamVars>>
  BY DEF Take
<1>2. /\ UNCHANGED <<backend, remote, documents, writer, idx, steady, shrunk>>
      /\ UNCHANGED <<req, stage, total, results, answer, page>>
      /\ UNCHANGED <<wire, handler, status, cancelled>>
  BY <1>1 DEF storeVars, siteVars, streamVars
<1>3. /\ it # Nil /\ it.latched = Nil /\ it.error = "none" /\ it.cumIdx < it.total
      /\ it.cumIdx = it.from + it.resIdx
  BY <1>1, Calling
<1>4. /\ it \in Iter /\ it.hits \in Seq(Hit) /\ Len(it.hits) \in Nat
      /\ it.total \in Nat /\ it.from \in Nat /\ it.resIdx \in Nat /\ it.cumIdx \in Nat
      /\ req # Nil /\ req.offset \in Nat
  BY <1>3, Iterators DEF Rest
<1>5. PICK next \in 1..Len(it.hits) : next = it.resIdx + 1
  BY <1>1, <1>4 DEF AtBatchEnd
<1>6. PICK hit \in Hit : hit = it.hits[next]
  BY <1>4, <1>5, ElementOfSeq
<1>7. PICK doc : doc = IF backend = "memory" THEN documents[hit.id] ELSE hit.doc
  OBVIOUS
<1>8. doc \in Document
  <2>1. hit.id \in Doc /\ hit.doc \in Stored
    BY DEF Hit, Stored
  <2>2. doc \in Stored
    BY <1>7, <2>1 DEF TypeOKStores
  <2>3. IF backend = "memory" THEN Kept(hit.id) ELSE hit.doc # NoDoc
    BY <1>3, <1>6 DEF Rest, HitsInv
  <2>4. doc # NoDoc
    BY <1>1, <1>7, <2>3 DEF Kept, Writes
  <2> QED BY <2>2, <2>4, Documents
<1>9. PICK r \in Result : r = [id |-> hit.id, content |-> doc.content]
  <2>1. hit.id \in Doc /\ doc.content \in Content \union {"none"}
    BY <1>8 DEF Hit, Document
  <2> QED BY <2>1 DEF Result
<1>10. it' = [it EXCEPT !.latched = r, !.cumIdx = @ + 1, !.resIdx = @ + 1]
  <2>1. it.hits[it.resIdx + 1] = hit
    BY <1>5, <1>6
  <2>2. doc # NoDoc
    BY <1>8, Documents
  <2> QED BY <1>7, <1>9, <2>1, <2>2 DEF Take, FindByID, MapESDoc
<1>11. /\ it' \in Iter
       /\ it'.hits = it.hits /\ it'.total = it.total /\ it'.from = it.from
       /\ it'.resIdx = it.resIdx + 1 /\ it'.cumIdx = it.cumIdx + 1
       /\ it'.latched = r /\ it'.error = "none" /\ it'.counted = it.counted
  <2>1. PICK c \in Nat, k \in Nat : c = it.cumIdx + 1 /\ k = it.resIdx + 1
    BY <1>4
  <2>2. it' = [it EXCEPT !.latched = r, !.cumIdx = c, !.resIdx = k]
    BY <1>10, <2>1
  <2>3. /\ it' \in Iter
        /\ it'.hits = it.hits /\ it'.total = it.total /\ it'.from = it.from
        /\ it'.resIdx = k /\ it'.cumIdx = c
        /\ it'.latched = r /\ it'.error = it.error /\ it'.counted = it.counted
    BY <1>4, <2>2 DEF Iter
  <2> QED BY <1>3, <2>1, <2>3
<1>12. it' # Nil /\ r # Nil
  BY <1>11, NilAssumption
<1>13. FlowInv' /\ PageIsSlice'
  BY <1>1, <1>11, <1>12, Called
<1>14. Ranking(req)' = Ranking(req) /\ Matching(req)' = Matching(req)
  BY <1>2, SameRanking
<1>15. it'.cumIdx = it'.from + it'.resIdx /\ it'.resIdx <= Len(it'.hits)
  BY <1>3, <1>4, <1>5, <1>11
<1>16. HitsInv'
  BY <1>2, <1>3, <1>4, <1>11, <1>14, <1>15 DEF Rest, HitsInv, Kept, Writes
<1>17. CountInv'
  <2>1. OnWire' = OnWire /\ Latched = 0 /\ Latched' = 1 /\ Gone' = Gone
    BY <1>2, <1>3, <1>11, <1>12 DEF OnWire, Latched, Leading, Gone
  <2>2. PICK k \in Nat : k = OnWire
    BY <1>3 DEF Rest, CountInv
  <2>3. /\ req.offset + Len(results) + k + 0 <= it.cumIdx
        /\ ~Gone => req.offset + Len(results) + k + 0 = it.cumIdx
    BY <1>3, <2>1, <2>2 DEF Rest, CountInv
  <2>4. Len(results) \in Nat
    BY Lengths DEF Rest
  <2>5. /\ req.offset + Len(results) + k + 1 <= it.cumIdx + 1
        /\ ~Gone => req.offset + Len(results) + k + 1 = it.cumIdx + 1
    BY <1>4, <2>3, <2>4
  <2> QED BY <1>2, <1>4, <1>11, <2>1, <2>2, <2>5 DEF CountInv
<1>18. SliceInv'
  <2> SUFFICES ASSUME steady PROVE SliceInv'
    BY <1>2 DEF SliceInv
  <2>1. it.total = Len(Ranking(req)) /\ hit.id = Ranking(req)[it.from + next]
    BY <1>3, <1>6 DEF Rest, SliceInv
  <2>2. it.from + next = it.cumIdx + 1
    BY <1>3, <1>4, <1>5
  <2>3. r.id = Ranking(req)[it.cumIdx + 1]
    BY <1>9, <2>1, <2>2
  <2>4. it.cumIdx + 1 <= Len(Ranking(req))
    BY <1>3, <1>4, <2>1
  <2>5. Browsing' = Browsing /\ Leading' = Leading
    BY <1>2 DEF Browsing, Leading
  <2> QED BY <1>2, <1>3, <1>11, <1>14, <2>3, <2>4, <2>5 DEF Rest, SliceInv
<1> QED BY <1>13, <1>16, <1>17, <1>18 DEF Rest

(* A page with as many results as there may be and one more behind them, or *)
(* with all that are left, is the slice of the ranking.                     *)
LEMMA PageIsDone ==
    ASSUME TypeOKStores, Rest, it # Nil, steady,
           \/ /\ Len(results) = ResultsPageSize
              /\ req.offset + ResultsPageSize + 1 <= it.cumIdx
           \/ req.offset + Len(results) = it.cumIdx /\ it.cumIdx >= it.total
    PROVE  /\ [i \in DOMAIN results |-> results[i].id] = Slice(Ranking(req), req.offset, ResultsPageSize)
           /\ req.offset + Len(results) < Len(Ranking(req)) <=>
                  Len(Ranking(req)) > req.offset + ResultsPageSize
           /\ req.offset + Len(results) < Len(Ranking(req)) => Len(results) = ResultsPageSize
<1>1. PICK o \in Nat, c \in Nat : o = req.offset /\ c = it.cumIdx
  BY Iterators DEF Rest
<1>2. PICK L \in Nat : L = Len(results) /\ L <= ResultsPageSize
  BY Lengths DEF Rest, FlowInv
<1>3. PICK P \in Nat : P = ResultsPageSize /\ P # 0
  BY Sizes
<1>4. PICK all \in Seq(Doc) : all = Ranking(req) /\ Len(all) = it.total
  BY RankingIsAll DEF TypeOKStores, Rest, SliceInv
<1>5. PICK N \in Nat : N = Len(all) /\ N = it.total
  BY <1>4, LenProperties
<1>6. c > o => c <= N
  BY <1>1, <1>4, <1>5 DEF Rest, SliceInv
<1>7. \A i \in 1..L : results[i].id = all[o + i]
  BY <1>1, <1>2, <1>4 DEF Rest, SliceInv
<1>8. \/ L = P /\ o + P + 1 <= c
      \/ o + L = c /\ c >= N
  <2>1. CASE Len(results) = ResultsPageSize /\ req.offset + ResultsPageSize + 1 <= it.cumIdx
    BY <1>1, <1>2, <1>3, <2>1
  <2>2. CASE req.offset + Len(results) = it.cumIdx /\ it.cumIdx >= it.total
    BY <1>1, <1>2, <1>5, <2>2
  <2> QED BY <2>1, <2>2
<1>9. PICK slice \in Seq(Doc), k \in Nat :
          /\ slice = Slice(all, o, P) /\ k = Len(slice)
          /\ k <= P /\ (k < P => o + k >= Len(all)) /\ (k > 0 => o + k <= Len(all))
          /\ \A i \in 1..k : slice[i] = all[o + i]
  <2>1. PICK slice \in Seq(Doc) : slice = Slice(all, o, P)
    BY SliceFacts
  <2>2. /\ Len(slice) \in Nat /\ Len(slice) <= P
        /\ Len(slice) < P => o + Len(slice) >= Len(all)
        /\ Len(slice) > 0 => o + Len(slice) <= Len(all)
        /\ \A i \in 1..Len(slice) : slice[i] = all[o + i]
    BY <2>1, SliceFacts
  <2> QED BY <2>1, <2>2
<1>10. k <= P /\ (k < P => o + k >= N) /\ (k > 0 => o + k <= N)
  BY <1>5, <1>9
<1>11. k = L
  BY <1>2, <1>3, <1>6, <1>8, <1>10
<1>12. (o + L < N <=> N > o + P) /\ (o + L < N => L = P)
  BY <1>2, <1>3, <1>6, <1>8
<1> DEFINE Ids == [i \in 1..L |-> results[i].id]
<1>13. DOMAIN results = 1..L
  BY <1>2, LenProperties DEF Rest, FlowInv
<1>14. slice = [i \in 1..k |-> slice[i]]
  BY <1>9, LenProperties
<1>15. Ids = slice
  BY <1>7, <1>9, <1>11, <1>14
<1> QED BY <1>1, <1>2, <1>3, <1>4, <1>5, <1>9, <1>12, <1>13, <1>15

LEMMA CompleteStep ==
    ASSUME TypeOKStores, Rest, Complete
    PROVE  Rest'
<1>1. stage = "read" /\ Answer("page", Pagination(IF remote THEN total ELSE it.total))
  BY DEF Complete
<1>2. it # Nil /\ Leading = 0 /\ Browsing
  BY <1>1 DEF Rest, FlowInv, Browsing, Leading
<1>3. /\ answer' = "page" /\ page' = Pagination(IF remote THEN total ELSE it.total)
      /\ UNCHANGED <<storeVars, it, req, total, results>>
  BY <1>1 DEF Answer
<1>4. UNCHANGED <<idx, steady>>
  BY <1>3 DEF storeVars
<1>5. PageIsSlice'
  <2> SUFFICES ASSUME steady PROVE PageIsSlice'
    BY <1>4 DEF PageIsSlice
  <2>1. PICK o \in Nat, c \in Nat, k \in Nat, L \in Nat :
            o = req.offset /\ c = it.cumIdx /\ k = OnWire /\ L = Len(results)
    BY <1>2, Iterators, Lengths DEF Rest, CountInv
  <2>2. /\ o + L + k + Latched <= c
        /\ ~Gone => o + L + k + Latched = c
    BY <1>2, <2>1 DEF Rest, CountInv
  <2>3. PICK P \in Nat \ {0} : P = ResultsPageSize
    BY Sizes
  <2>4. \/ L = P /\ o + P + 1 <= c
        \/ o + L = c /\ c >= it.total
    <3>1. CASE remote /\ L = P /\ wire # <<>>
      <4>1. k # 0
        <5>1. Len(wire) \in Nat /\ Len(wire) > 0
          BY <3>1, Lengths DEF Rest
        <5> QED BY <1>2, <2>1, <3>1, <5>1 DEF OnWire
      <4>2. Latched \in Nat
        BY DEF Latched
      <4> QED BY <2>2, <3>1, <4>1, <4>2
    <3>2. CASE remote /\ AtEOF
      <4>1. wire = <<>> /\ ~Gone /\ it.latched = Nil /\ it.error = "none" /\ AtEnd
        BY <3>2 DEF AtEOF, Gone, Rest, FlowInv
      <4>2. k = 0 /\ Latched = 0 /\ it.cumIdx >= it.total
        BY <2>1, <4>1 DEF OnWire, Latched, AtEnd
      <4> QED BY <2>1, <2>2, <4>1, <4>2
    <3>3. CASE ~remote /\ L = P /\ it.latched # Nil
      <4>1. Latched = 1
        BY <3>3 DEF Latched
      <4> QED BY <2>2, <3>3, <4>1
    <3>4. CASE ~remote /\ it.latched = Nil /\ AtEnd /\ it.error = "none"
      <4>1. wire = <<>> /\ ~Gone
        BY <3>4 DEF Gone, Rest, FlowInv
      <4>2. k = 0 /\ Latched = 0 /\ it.cumIdx >= it.total
        BY <2>1, <3>4, <4>1 DEF OnWire, Latched, AtEnd
      <4> QED BY <2>1, <2>2, <4>1, <4>2
    <3> QED BY <2>1, <2>3, <3>1, <3>2, <3>3, <3>4 DEF Complete
  <2>5. PICK N : N = Len(Ranking(req))
    OBVIOUS
  <2>6. /\ [i \in DOMAIN results |-> results[i].id] = Slice(Ranking(req), o, P)
        /\ o + L < N <=> N > o + P
        /\ o + L < N => L = P
    BY <1>1, <1>2, <2>1, <2>3, <2>4, <2>5, PageIsDone
  <2>7. (IF remote THEN total ELSE it.total) = N
    BY <1>2, <2>5 DEF Rest, SliceInv
  <2>8. (results = <<>> <=> L = 0) /\ (N > o + P => L # 0)
    <3>1. results = <<>> <=> L = 0
      BY <2>1, EmptySeq, LenProperties DEF Rest, FlowInv
    <3>2. N > o + P => L = P
      BY <2>6
    <3> QED BY <2>3, <3>1, <3>2
  <2>9. /\ page'.next # Nil <=> N > o + P
        /\ page'.next # Nil => page'.next = LinkTo(o + P)
    <3>1. CASE L = 0
      <4>1. page'.next = Nil
        BY <1>3, <2>8, <3>1 DEF Pagination, NoPage
      <4> QED BY <2>8, <3>1, <4>1
    <3>2. CASE L # 0
      <4>1. page'.next = IF o + L < N THEN LinkTo(o + L) ELSE Nil
        BY <1>3, <2>1, <2>7, <2>8, <3>2 DEF Pagination, NextOffset
      <4>2. \A x \in Nat : LinkTo(x) # Nil
        BY NilAssumption DEF LinkTo, Link
      <4>3. o + L \in Nat
        OBVIOUS
      <4> QED BY <2>6, <4>1, <4>2, <4>3
    <3> QED BY <3>1, <3>2
  <2>10. /\ page'.prev # Nil <=> o > 0 /\ results # <<>>
         /\ page'.prev # Nil => \E x \in Nat : page'.prev = LinkTo(x) /\ x < o /\ x + P >= o
    <3>1. \A x \in Nat : LinkTo(x) # Nil
      BY NilAssumption DEF LinkTo, Link
    <3>2. CASE results = <<>> \/ o = 0
      <4>1. page'.prev = Nil
        BY <1>3, <2>1, <3>2 DEF Pagination, NoPage
      <4> QED BY <3>2, <4>1
    <3>3. CASE results # <<>> /\ o # 0
      <4>1. PICK x \in Nat : x = (IF o > P THEN o - P ELSE 0) /\ x < o /\ x + P >= o
        <5>1. CASE o > P
          <6>1. o - P \in Nat /\ o - P < o /\ (o - P) + P >= o
            BY <2>3, <5>1
          <6> QED BY <5>1, <6>1
        <5>2. CASE ~(o > P)
          <6>1. 0 < o /\ 0 + P >= o
            BY <2>3, <3>3, <5>2
          <6> QED BY <5>2, <6>1
        <5> QED BY <5>1, <5>2
      <4>2. page'.prev = LinkTo(x)
        BY <1>3, <2>1, <2>3, <3>3, <4>1 DEF Pagination
      <4> QED BY <3>1, <3>3, <4>1, <4>2
    <3> QED BY <3>2, <3>3
  <2>11. /\ page'.next # Nil => page'.next.offset = o + P /\ page'.next.type = "match"
         /\ page'.prev # Nil =>
               page'.prev.offset < o /\ page'.prev.offset + P >= o /\ page'.prev.type = "match"
    <3>1. \A x : LinkTo(x).offset = x /\ LinkTo(x).type = "match"
      BY DEF LinkTo
    <3>2. page'.next # Nil => page'.next.offset = o + P /\ page'.next.type = "match"
      BY <2>9, <3>1
    <3>3. ASSUME page'.prev # Nil
          PROVE  page'.prev.offset < o /\ page'.prev.offset + P >= o /\ page'.prev.type = "match"
      <4>1. PICK x \in Nat : page'.prev = LinkTo(x) /\ x < o /\ x + P >= o
        BY <2>10, <3>3
      <4>2. page'.prev.offset = x /\ page'.prev.type = "match"
        BY <3>1, <4>1
      <4> QED BY <4>1, <4>2
    <3> QED BY <3>2, <3>3
  <2>12. Ranking(req)' = Ranking(req) /\ UNCHANGED <<req, results>>
    BY <1>3, <1>4, SameRanking
  <2> QED BY <2>1, <2>3, <2>5, <2>6, <2>9, <2>10, <2>11, <2>12 DEF PageIsSlice, Slice
<1> QED BY <1>1, <1>5, AnswerStep
-----------------------------------------------------------------------------
LEMMA InitInv == Init => IInv
<1> SUFFICES ASSUME Init PROVE IInv
  OBVIOUS
<1>1. /\ backend \in {"memory", "es"} /\ remote \in BOOLEAN
      /\ documents \in Stores /\ idx = documents
      /\ writer = Nil /\ dirty = {} /\ it = Nil
      /\ handler = "none" /\ wire = <<>> /\ status = "open" /\ cancelled = FALSE
      /\ req = Nil /\ stage = "idle" /\ results = <<>> /\ answer = "none"
      /\ steady = TRUE /\ shrunk = FALSE
  BY DEF Init, NoStream
<1>2. documents \in [Doc -> Stored]
  BY <1>1, StoresAssumption DEF Stored
<1>3. TypeOKStores /\ StoresInv
  BY <1>1, <1>2 DEF TypeOKStores, StoresInv, Writes
<1>4. results \in Seq(Result) /\ wire \in Seq(Message) /\ Len(results) <= ResultsPageSize
  BY <1>1, EmptySeq, Sizes
<1>5. FlowInv
  BY <1>1, <1>4 DEF FlowInv, Browsing, Gone
<1> QED BY <1>1, <1>3, <1>5 DEF IInv, HitsInv, CountInv, SliceInv, PageIsSlice

LEMMA Stuttering ==
    ASSUME Rest, UNCHANGED vars
    PROVE  Rest'
<1>1. /\ UNCHANGED <<storeVars, backend, remote, idx, steady, it>>
      /\ UNCHANGED <<req, stage, total, results, answer, page>>
      /\ UNCHANGED <<wire, handler, status, cancelled>>
  BY DEF vars, storeVars, siteVars, streamVars
<1>2. HitsInv' /\ PageIsSlice'
  BY <1>1, HitsKept, PageKept DEF Rest
<1>3. Ranking(req)' = Ranking(req) /\ Leading' = Leading /\ Gone' = Gone /\ Browsing' = Browsing /\ AtEnd' = AtEnd
  BY <1>1, SameRanking DEF Leading, Gone, Browsing, AtEnd
<1>4. FlowInv'
  BY <1>1, <1>3 DEF Rest, FlowInv
<1>5. CountInv'
  BY <1>1, <1>3 DEF Rest, CountInv, OnWire, Latched
<1>6. SliceInv'
  BY <1>1, <1>3 DEF Rest, SliceInv
<1> QED BY <1>2, <1>4, <1>5, <1>6 DEF Rest

(* Whoever serves the request leaves the stores alone.                      *)
LEMMA ServingKeepsStores ==
    IteratorSteps \/ Serve \/ Browse \/ Lost \/ (\E q \in Query : Submit(q)) => UNCHANGED storeVars
BY DEF IteratorSteps, Fetch, Panic, Take, Serve, ServerSearch, ServerSend, ServerReturn, Browse, LocalSearch,
       RemoteSearch, ReceiveCount, ReadDoc, Summarise, Highlight, Complete, Fails, Answer, Lost, Submit

LEMMA RestStep ==
    ASSUME TypeOKStores, StoresInv, Rest, IteratorSteps \/ Serve \/ Browse \/ Lost \/ \E q \in Query : Submit(q)
    PROVE  Rest'
<1>1. CASE IteratorSteps
  BY <1>1, FetchStep, PanicStep, TakeStep DEF IteratorSteps
<1>2. CASE Serve
  BY <1>2, ServerSearchStep, ServerSendStep, ServerReturnStep DEF Serve
<1>3. CASE Browse
  BY <1>3, LocalSearchStep, RemoteSearchStep, ReceiveCountStep, ReadDocStep, SummariseStep, HighlightStep,
     CompleteStep, FailsStep DEF Browse
<1> QED BY <1>1, <1>2, <1>3, LostStep, SubmitStep

LEMMA NextInv ==
    ASSUME IInv, [Next]_vars
    PROVE  IInv'
<1>1. TypeOKStores /\ StoresInv /\ Rest
  BY DEF IInv, Rest
<1>2. CASE Write \/ IndexEnd \/ ScoreEnd \/ ESRefresh
  BY <1>1, <1>2, StoresStep, RestMoved DEF IInv, Rest
<1>3. CASE IteratorSteps \/ Serve \/ Browse \/ Lost \/ \E q \in Query : Submit(q)
  <2>1. TypeOKStores' /\ StoresInv'
    BY <1>1, <1>3, ServingKeepsStores, StoresKept
  <2>2. Rest'
    BY <1>1, <1>3, RestStep
  <2> QED BY <2>1, <2>2 DEF IInv, Rest
<1>4. CASE UNCHANGED vars
  <2>1. TypeOKStores' /\ StoresInv'
    BY <1>1, <1>4, StoresKept DEF vars
  <2>2. Rest'
    BY <1>1, <1>4, Stuttering
  <2> QED BY <2>1, <2>2 DEF IInv, Rest
<1> QED BY <1>2, <1>3, <1>4 DEF Next

(* The invariant of a search, from the writers of the index to the page:    *)
(* what each of them has done to the two stores of                          *)
(* store/memory/memory.go, the batches of its iterator, what Next and the   *)
(* stream of the API have passed on, and the results that the frontend has. *)
THEOREM SearchInductive == Spec => []IInv
<1>1. IInv /\ [Next]_vars => IInv'
  BY NextInv
<1> QED BY InitInv, <1>1, PTL DEF Spec

(* Between writes, the documents and the text index of store/memory hold    *)
(* the same, up to scores that the index refused.                           *)
THEOREM StoresStayInAgreement == Spec => []StoresAgree
<1>1. IInv => StoresAgree
  BY DEF IInv, StoresInv, StoresAgree, Writes
<1> QED BY <1>1, SearchInductive, PTL

(* A hit has its document when Next looks it up, and no batch is empty      *)
(* before the end, unless documents have ceased to match meanwhile.         *)
THEOREM IteratorStaysSound == Spec => []IteratorSound
<1>1. IInv => IteratorSound
  BY DEF IInv, HitsInv, IteratorSound
<1> QED BY <1>1, SearchInductive, PTL

(* A page, whether it was read from the index or over the API, is the slice *)
(* of the ranking that its offset and size say, with the right links.       *)
THEOREM PagesAreSlices == Spec => []PageIsSlice
<1>1. IInv => PageIsSlice
  BY DEF IInv
<1> QED BY <1>1, SearchInductive, PTL
-----------------------------------------------------------------------------
(* A set with 0 and with the successor of each of its numbers has all.     *)
LEMMA Induction ==
    ASSUME NEW T, 0 \in T, \A n \in Nat : n \in T => n + 1 \in T
    PROVE  Nat \subseteq T
<1> SUFFICES ASSUME Nat \ T # {} PROVE FALSE
  OBVIOUS
<1>1. PICK n \in Nat \ T : \A m \in Nat \ T : n <= m
  BY LeastNumber
<1>2. n # 0
  OBVIOUS
<1>3. n - 1 \in Nat /\ n = (n - 1) + 1 /\ ~(n <= n - 1)
  BY <1>2
<1>4. n - 1 \in T
  BY <1>1, <1>3
<1> QED BY <1>3, <1>4

(* A set of subsets that has each one of whose proper subsets it has them  *)
(* all, has all of them.                                                   *)
LEMMA SetInduction ==
    ASSUME NEW S, IsFiniteSet(S), NEW Q,
           \A T \in SUBSET S : (\A U \in SUBSET T : U # T => U \in Q) => T \in Q
    PROVE  SUBSET S \subseteq Q
<1> SUFFICES ASSUME ~(SUBSET S \subseteq Q) PROVE FALSE
  OBVIOUS
<1> DEFINE Cards == {Cardinality(T) : T \in {T \in SUBSET S : T \notin Q}}
<1>1. \A T \in SUBSET S : IsFiniteSet(T) /\ Cardinality(T) \in Nat
  BY FS_Subset, FS_CardinalityType
<1>2. Cards \subseteq Nat /\ Cards # {}
  BY <1>1
<1>3. PICK n \in Cards : \A m \in Cards : n <= m
  <2> HIDE DEF Cards
  <2> QED BY <1>2, LeastNumber
<1>4. PICK T \in SUBSET S : T \notin Q /\ Cardinality(T) = n
  BY <1>3
<1>5. PICK U \in SUBSET T : U # T /\ U \notin Q
  BY <1>4
<1>6. Cardinality(U) <= n /\ Cardinality(U) # n /\ Cardinality(U) \in Nat /\ n \in Nat
  BY <1>1, <1>2, <1>4, <1>5, FS_Subset
<1>7. Cardinality(U) \in Cards
  BY <1>4, <1>5
<1>8. n <= Cardinality(U)
  BY <1>3, <1>7
<1> QED BY <1>6, <1>8
-----------------------------------------------------------------------------
(* Sums.  SumFunctionOnSet adds the values that a function has on a set,   *)
(* beginning with an element that is chosen.                               *)
Sum(f, S) == SumFunctionOnSet(f, S)

Chosen(s) == CHOOSE x \in s : TRUE
IsSum(g, f, S) ==
    g = [s \in SUBSET S |-> IF s = {} THEN 0 ELSE f[Chosen(s)] + g[s \ {Chosen(s)}]]

SumsOf(f, S) == CHOOSE g : IsSum(g, f, S)

LEMMA SumIs == ASSUME NEW f, NEW S PROVE Sum(f, S) = SumsOf(f, S)[S]
BY DEF Sum, SumFunctionOnSet, FoldFunctionOnSet, MapThenFoldSet, SumsOf, IsSum, Chosen

(* A function that is right on the sets of at most n elements.             *)
RightUpTo(g, f, S, n) ==
    \A s \in SUBSET S : Cardinality(s) <= n =>
        g[s] = IF s = {} THEN 0 ELSE f[Chosen(s)] + g[s \ {Chosen(s)}]

LEMMA SumExists ==
    ASSUME NEW f, NEW S, IsFiniteSet(S)
    PROVE  \E g : IsSum(g, f, S)
<1>1. \A T \in SUBSET S : IsFiniteSet(T) /\ Cardinality(T) \in Nat /\ Cardinality(T) <= Cardinality(S)
  BY FS_Subset, FS_CardinalityType
<1>2. \A T \in SUBSET S : T # {} =>
         /\ Chosen(T) \in T /\ T \ {Chosen(T)} \in SUBSET S
         /\ Cardinality(T \ {Chosen(T)}) = Cardinality(T) - 1
  <2> SUFFICES ASSUME NEW T \in SUBSET S, T # {}
               PROVE  /\ Chosen(T) \in T /\ T \ {Chosen(T)} \in SUBSET S
                      /\ Cardinality(T \ {Chosen(T)}) = Cardinality(T) - 1
    OBVIOUS
  <2>1. Chosen(T) \in T
    BY DEF Chosen
  <2> QED BY <1>1, <2>1, FS_RemoveElement
<1> DEFINE Q == {n \in Nat : \E g : RightUpTo(g, f, S, n)}
           Unrolled(g) == [s \in SUBSET S |-> IF s = {} THEN 0 ELSE f[Chosen(s)] + g[s \ {Chosen(s)}]]
<1>3. 0 \in Q
  <2>1. PICK g : g = [s \in SUBSET S |-> 0]
    OBVIOUS
  <2>2. ASSUME NEW s \in SUBSET S, Cardinality(s) <= 0
        PROVE  s = {}
    BY <1>1, <2>2, FS_EmptySet
  <2>3. RightUpTo(g, f, S, 0)
    BY <2>1, <2>2 DEF RightUpTo
  <2> QED BY <2>3
<1>4. ASSUME NEW n \in Nat, n \in Q PROVE n + 1 \in Q
  <2>1. PICK g : RightUpTo(g, f, S, n)
    BY <1>4
  <2>2. PICK h : h = Unrolled(g)
    OBVIOUS
  <2>3. ASSUME NEW s \in SUBSET S, Cardinality(s) <= n + 1, s # {}
        PROVE  h[s] = f[Chosen(s)] + h[s \ {Chosen(s)}]
    <3>1. PICK t \in SUBSET S : t = s \ {Chosen(s)}
      BY <1>2, <2>3
    <3>2. Cardinality(t) <= n
      BY <1>1, <1>2, <2>3, <3>1
    <3>3. g[t] = h[t]
      BY <2>1, <2>2, <3>2 DEF RightUpTo
    <3>4. h[s] = f[Chosen(s)] + g[t]
      BY <2>2, <2>3, <3>1
    <3> QED BY <3>1, <3>3, <3>4
  <2>4. h[{}] = 0
    BY <2>2
  <2>5. RightUpTo(h, f, S, n + 1)
    BY <2>3, <2>4 DEF RightUpTo
  <2> QED BY <2>5
<1>5. Cardinality(S) \in Q
  <2> HIDE DEF Q
  <2> QED BY <1>1, <1>3, <1>4, Induction
<1>6. PICK g : RightUpTo(g, f, S, Cardinality(S))
  BY <1>5
<1>7. PICK h : h = Unrolled(g)
  OBVIOUS
<1>8. ASSUME NEW s \in SUBSET S PROVE h[s] = Unrolled(h)[s]
  <2>1. CASE s = {}
    BY <1>7, <2>1
  <2>2. CASE s # {}
    <3>1. PICK t \in SUBSET S : t = s \ {Chosen(s)}
      BY <1>2, <2>2
    <3>2. g[t] = h[t]
      BY <1>1, <1>6, <1>7 DEF RightUpTo
    <3> QED BY <1>7, <2>2, <3>1, <3>2
  <2> QED BY <2>1, <2>2
<1>9. h = Unrolled(h)
  BY <1>7, <1>8
<1> QED BY <1>9 DEF IsSum

LEMMA ChosenIn ==
    ASSUME NEW T, T # {}
    PROVE  Chosen(T) \in T /\ T \ {Chosen(T)} \in SUBSET T /\ T \ {Chosen(T)} # T
<1>1. Chosen(T) \in T
  BY DEF Chosen
<1> QED BY <1>1

(* A sum begins with a chosen element ...                                  *)
Opens(g, f, T) == g[T] = f[Chosen(T)] + g[T \ {Chosen(T)}]

LEMMA SumUnrolls ==
    ASSUME NEW f, NEW S, IsFiniteSet(S), NEW T \in SUBSET S
    PROVE  /\ SumsOf(f, S)[{}] = 0
           /\ T # {} => Opens(SumsOf(f, S), f, T)
<1>1. IsSum(SumsOf(f, S), f, S)
  BY SumExists DEF SumsOf
<1>2. PICK g : g = SumsOf(f, S)
  OBVIOUS
<1>3. g = [s \in SUBSET S |-> IF s = {} THEN 0 ELSE f[Chosen(s)] + g[s \ {Chosen(s)}]]
  BY <1>1, <1>2 DEF IsSum
<1>4. {} \in SUBSET S
  OBVIOUS
<1> QED BY <1>2, <1>3, <1>4 DEF Opens

LEMMA SumsAgree ==
    ASSUME NEW f, NEW S, IsFiniteSet(S), NEW T \in SUBSET S
    PROVE  Sum(f, T) = SumsOf(f, S)[T]
<1>1. IsFiniteSet(T)
  BY FS_Subset
<1> DEFINE Q == {U \in SUBSET T : SumsOf(f, T)[U] = SumsOf(f, S)[U]}
<1>2. ASSUME NEW U \in SUBSET T, \A V \in SUBSET U : V # U => V \in Q
      PROVE  U \in Q
  <2>1. CASE U = {}
    BY <1>1, <2>1, SumUnrolls
  <2>2. CASE U # {}
    <3>1. PICK V : V = U \ {Chosen(U)}
      OBVIOUS
    <3>2. V \in SUBSET U /\ V # U
      BY <2>2, <3>1, ChosenIn
    <3>3. SumsOf(f, T)[V] = SumsOf(f, S)[V]
      BY <1>2, <3>2
    <3>4. U \in SUBSET S /\ U \in SUBSET T
      OBVIOUS
    <3>5. Opens(SumsOf(f, T), f, U)
      BY <1>1, <2>2, <3>4, SumUnrolls
    <3>6. Opens(SumsOf(f, S), f, U)
      BY <2>2, <3>4, SumUnrolls
    <3> QED BY <3>1, <3>3, <3>5, <3>6 DEF Opens
  <2> QED BY <2>1, <2>2
<1>3. SUBSET T \subseteq Q
  <2> HIDE DEF Q
  <2> QED BY <1>1, <1>2, SetInduction
<1>4. T \in SUBSET T
  OBVIOUS
<1> QED BY <1>3, <1>4, SumIs

LEMMA SumOpens ==
    ASSUME NEW f, NEW S, IsFiniteSet(S)
    PROVE  /\ Sum(f, {}) = 0
           /\ S # {} => /\ Chosen(S) \in S
                        /\ Sum(f, S) = f[Chosen(S)] + Sum(f, S \ {Chosen(S)})
<1>1. Sum(f, {}) = 0
  <2>1. {} \in SUBSET S
    OBVIOUS
  <2>2. Sum(f, {}) = SumsOf(f, S)[{}]
    BY <2>1, SumsAgree
  <2>3. SumsOf(f, S)[{}] = 0
    BY <2>1, SumUnrolls
  <2> QED BY <2>2, <2>3
<1>2. ASSUME S # {}
      PROVE  Chosen(S) \in S /\ Sum(f, S) = f[Chosen(S)] + Sum(f, S \ {Chosen(S)})
  <2>1. Chosen(S) \in S
    BY <1>2 DEF Chosen
  <2>2. PICK V \in SUBSET S : V = S \ {Chosen(S)}
    OBVIOUS
  <2>3. S \in SUBSET S
    OBVIOUS
  <2>4. Sum(f, V) = SumsOf(f, S)[V] /\ Sum(f, S) = SumsOf(f, S)[S]
    BY <2>3, SumsAgree
  <2>5. Opens(SumsOf(f, S), f, S)
    BY <1>2, <2>3, SumUnrolls
  <2> QED BY <2>1, <2>2, <2>4, <2>5 DEF Opens
<1> QED BY <1>1, <1>2

(* Induction along the elements of a set as they are chosen.               *)
LEMMA ChosenInduction ==
    ASSUME NEW S, IsFiniteSet(S), NEW Q, {} \in Q,
           \A T \in SUBSET S : T # {} /\ T \ {Chosen(T)} \in Q => T \in Q
    PROVE  SUBSET S \subseteq Q
<1>1. ASSUME NEW T \in SUBSET S, \A U \in SUBSET T : U # T => U \in Q
      PROVE  T \in Q
  <2>1. CASE T = {}
    BY <2>1
  <2>2. CASE T # {}
    <3>1. PICK U \in SUBSET T : U = T \ {Chosen(T)} /\ U # T
      BY <2>2 DEF Chosen
    <3> QED BY <1>1, <2>2, <3>1
  <2> QED BY <2>1, <2>2
<1> QED BY <1>1, SetInduction

(* ... is an integer ...                                                   *)
LEMMA SumInt ==
    ASSUME NEW f, NEW S, IsFiniteSet(S), \A x \in S : f[x] \in Int
    PROVE  Sum(f, S) \in Int
<1> DEFINE Q == {T \in SUBSET S : Sum(f, T) \in Int}
<1>1. {} \in Q
  <2>1. Sum(f, {}) = 0
    BY SumOpens
  <2> QED BY <2>1
<1>2. ASSUME NEW T \in SUBSET S, T # {}, T \ {Chosen(T)} \in Q
      PROVE  T \in Q
  <2>1. IsFiniteSet(T)
    BY FS_Subset
  <2>2. Chosen(T) \in T /\ Sum(f, T) = f[Chosen(T)] + Sum(f, T \ {Chosen(T)})
    BY <1>2, <2>1, SumOpens
  <2> QED BY <1>2, <2>2
<1>3. SUBSET S \subseteq Q
  <2> HIDE DEF Q
  <2> QED BY <1>1, <1>2, ChosenInduction
<1> QED BY <1>3

(* ... and may as well begin with any other element.                       *)
LEMMA SumTakes ==
    ASSUME NEW f, NEW S, IsFiniteSet(S), \A x \in S : f[x] \in Int
    PROVE  \A x \in S : Sum(f, S) = f[x] + Sum(f, S \ {x})
<1> DEFINE Q == {T \in SUBSET S : \A x \in T : Sum(f, T) = f[x] + Sum(f, T \ {x})}
<1>1. ASSUME NEW T \in SUBSET S, \A U \in SUBSET T : U # T => U \in Q
      PROVE  T \in Q
  <2> SUFFICES ASSUME NEW x \in T PROVE Sum(f, T) = f[x] + Sum(f, T \ {x})
    OBVIOUS
  <2>1. \A U \in SUBSET T : IsFiniteSet(U) /\ Sum(f, U) \in Int
    BY FS_Subset, SumInt
  <2>2. PICK c \in T : c = Chosen(T) /\ Sum(f, T) = f[c] + Sum(f, T \ {c})
    <3>1. T \in SUBSET T
      OBVIOUS
    <3> QED BY <2>1, <3>1, SumOpens
  <2>3. CASE x = c
    BY <2>2, <2>3
  <2>4. CASE x # c
    <3>1. PICK U \in SUBSET T, V \in SUBSET T : U = T \ {c} /\ V = T \ {x}
      OBVIOUS
    <3>2. PICK W \in SUBSET T : W = U \ {x} /\ W = V \ {c}
      BY <3>1
    <3>3. x \in U /\ U # T /\ c \in V /\ V # T
      BY <2>4, <3>1
    <3>4. Sum(f, U) = f[x] + Sum(f, W) /\ Sum(f, V) = f[c] + Sum(f, W)
      BY <1>1, <3>2, <3>3
    <3>5. f[x] \in Int /\ f[c] \in Int /\ Sum(f, W) \in Int
      BY <2>1
    <3>6. Sum(f, T) = f[c] + Sum(f, U)
      BY <2>2, <3>1
    <3>7. Sum(f, T) = f[x] + Sum(f, V)
      BY <3>4, <3>5, <3>6
    <3> QED BY <3>1, <3>7
  <2> QED BY <2>3, <2>4
<1>2. SUBSET S \subseteq Q
  <2> HIDE DEF Q
  <2> QED BY <1>1, SetInduction
<1> QED BY <1>2

LEMMA SumAdds ==
    ASSUME NEW f, NEW S, NEW x, IsFiniteSet(S), x \notin S,
           \A y \in S \union {x} : f[y] \in Int
    PROVE  Sum(f, S \union {x}) = f[x] + Sum(f, S)
<1>1. PICK T : T = S \union {x}
  OBVIOUS
<1>2. IsFiniteSet(T) /\ x \in T /\ S = T \ {x} /\ \A y \in T : f[y] \in Int
  BY <1>1, FS_AddElement
<1>3. Sum(f, T) = f[x] + Sum(f, T \ {x})
  BY <1>2, SumTakes
<1> QED BY <1>1, <1>2, <1>3

(* A sum may be taken in any order.                                        *)
Moved(p, S) == {p[x] : x \in S}

Reindexes(p, g, f, S) ==
    /\ \A x \in S : f[p[x]] \in Int /\ g[x] = f[p[x]]
    /\ \A x, y \in S : p[x] = p[y] => x = y

LEMMA SumReindexed ==
    ASSUME NEW f, NEW g, NEW p, NEW S, IsFiniteSet(S), Reindexes(p, g, f, S)
    PROVE  Sum(g, S) = Sum(f, Moved(p, S))
<1> USE DEF Reindexes
<1> DEFINE Image(T) == {p[x] : x \in T}
           Q == {T \in SUBSET S : IsFiniteSet(Image(T)) /\ Sum(g, T) = Sum(f, Image(T))}
<1>1. {} \in Q
  <2>1. Image({}) = {}
    OBVIOUS
  <2>2. IsFiniteSet({}) /\ Sum(g, {}) = 0 /\ Sum(f, {}) = 0
    BY SumOpens, FS_EmptySet
  <2> QED BY <2>1, <2>2
<1>2. ASSUME NEW T \in SUBSET S, T # {}, T \ {Chosen(T)} \in Q
      PROVE  T \in Q
  <2>1. PICK c, U : c = Chosen(T) /\ U = T \ {Chosen(T)}
    OBVIOUS
  <2>2. c \in T /\ U = T \ {c} /\ T = U \union {c} /\ c \notin U
    BY <1>2, <2>1, ChosenIn
  <2>3. PICK V : V = Image(U)
    OBVIOUS
  <2>4. IsFiniteSet(V) /\ Sum(g, U) = Sum(f, V)
    BY <1>2, <2>1, <2>3
  <2>5. Image(T) = V \union {p[c]} /\ p[c] \notin V /\ \A y \in V \union {p[c]} : f[y] \in Int
    BY <2>2, <2>3
  <2>6. Sum(f, V \union {p[c]}) = f[p[c]] + Sum(f, V)
    <3>1. PICK z : z = p[c]
      OBVIOUS
    <3>2. z \notin V /\ \A y \in V \union {z} : f[y] \in Int
      BY <2>5, <3>1
    <3>3. Sum(f, V \union {z}) = f[z] + Sum(f, V)
      BY ONLY <2>4, <3>2, SumAdds
    <3> QED BY <3>1, <3>3
  <2>7. Sum(g, U \union {c}) = g[c] + Sum(g, U)
    <3>1. IsFiniteSet(U) /\ \A y \in U \union {c} : g[y] \in Int
      BY <2>2, FS_Subset
    <3> QED BY ONLY <2>2, <3>1, SumAdds
  <2>8. IsFiniteSet(V \union {p[c]})
    BY <2>4, FS_AddElement
  <2> QED BY <2>2, <2>4, <2>5, <2>6, <2>7, <2>8
<1>3. SUBSET S \subseteq Q
  <2> HIDE DEF Q
  <2> QED BY <1>1, <1>2, ChosenInduction
<1> QED BY <1>3 DEF Moved

Permutes(p, n) ==
    /\ p \in [1..n -> 1..n]
    /\ \A i, j \in 1..n : p[i] = p[j] => i = j
    /\ Moved(p, 1..n) = 1..n

Rearranges(p, g, f, n) == \A j \in 1..n : f[j] \in Int /\ g[j] = f[p[j]]

LEMMA SumPermuted ==
    ASSUME NEW n \in Nat, NEW p, Permutes(p, n), NEW f, NEW g, Rearranges(p, g, f, n)
    PROVE  Sum(g, 1..n) = Sum(f, 1..n)
<1>1. IsFiniteSet(1..n)
  BY FS_Interval
<1>2. Reindexes(p, g, f, 1..n)
  BY DEF Permutes, Rearranges, Reindexes
<1>3. Sum(g, 1..n) = Sum(f, Moved(p, 1..n))
  BY ONLY <1>1, <1>2, SumReindexed
<1> QED BY <1>3 DEF Permutes
-----------------------------------------------------------------------------
(* Sentences sorted by their place in the text.                            *)
Numbered(S, max) ==
    /\ IsFiniteSet(S)
    /\ \A s \in S : s.ordinal \in Nat /\ s.ordinal <= max
    /\ \A s, t \in S : s.ordinal = t.ordinal => s = t

Earlier(s, S) == {t \in S : t.ordinal < s.ordinal}

LEMMA LastSentence ==
    ASSUME NEW max \in Nat, NEW S, Numbered(S, max), S # {}
    PROVE  \E m \in S : \A s \in S \ {m} : s.ordinal < m.ordinal
<1> DEFINE below == {max - s.ordinal : s \in S}
<1>1. below \subseteq Nat /\ below # {}
  BY DEF Numbered
<1>2. PICK b \in below : \A x \in below : b <= x
  BY <1>1, LeastNumber
<1>3. PICK m \in S : b = max - m.ordinal
  BY <1>2
<1>4. ASSUME NEW s \in S \ {m} PROVE s.ordinal < m.ordinal
  <2>1. b <= max - s.ordinal
    BY <1>2
  <2>2. s.ordinal \in Nat /\ m.ordinal \in Nat /\ s.ordinal # m.ordinal
    BY DEF Numbered
  <2> QED BY <1>3, <2>1, <2>2
<1> QED BY <1>3, <1>4

LEMMA SentencePlaces ==
    ASSUME NEW max \in Nat, NEW S, Numbered(S, max)
    PROVE  \A j \in 1..Cardinality(S) : \E s \in S : Cardinality(Earlier(s, S)) = j - 1
<1> DEFINE Q == {T \in SUBSET S :
                    \A j \in 1..Cardinality(T) : \E s \in T : Cardinality(Earlier(s, T)) = j - 1}
<1>1. ASSUME NEW T \in SUBSET S, \A U \in SUBSET T : U # T => U \in Q
      PROVE  T \in Q
  <2> SUFFICES ASSUME NEW j \in 1..Cardinality(T)
               PROVE  \E s \in T : Cardinality(Earlier(s, T)) = j - 1
    OBVIOUS
  <2>1. IsFiniteSet(T) /\ Cardinality(T) \in Nat /\ Numbered(T, max)
    BY FS_Subset, FS_CardinalityType DEF Numbered
  <2>2. T # {}
    BY FS_EmptySet
  <2>3. PICK m \in T : \A s \in T \ {m} : s.ordinal < m.ordinal
    BY <2>1, <2>2, LastSentence
  <2>4. PICK R \in SUBSET T : R = T \ {m}
    OBVIOUS
  <2>5. Cardinality(R) = Cardinality(T) - 1
    BY <2>1, <2>4, FS_RemoveElement
  <2>6. m.ordinal \in Nat /\ \A s \in T : s.ordinal \in Nat
    BY <2>1 DEF Numbered
  <2>7. CASE j = Cardinality(T)
    <3>1. Earlier(m, T) = R
      BY <2>3, <2>4, <2>6 DEF Earlier
    <3> QED BY <2>5, <2>7, <3>1
  <2>8. CASE j # Cardinality(T)
    <3>1. R # T /\ R \in SUBSET T
      BY <2>4
    <3>2. R \in Q
      BY <1>1, <3>1
    <3>3. j \in 1..Cardinality(R)
      BY <2>1, <2>5, <2>8
    <3>4. PICK s \in R : Cardinality(Earlier(s, R)) = j - 1
      BY <3>2, <3>3
    <3>5. Earlier(s, T) = Earlier(s, R)
      BY <2>3, <2>4, <2>6 DEF Earlier
    <3> QED BY <3>4, <3>5
  <2> QED BY <2>7, <2>8
<1>2. SUBSET S \subseteq Q
  <2> HIDE DEF Q
  <2> QED BY <1>1, SetInduction DEF Numbered
<1> QED BY <1>2

IsSorting(t, sel, n) ==
    /\ DOMAIN t = 1..n
    /\ \A j, k \in 1..n : j < k => t[j].ordinal < t[k].ordinal
    /\ \E p : Permutes(p, n) /\ \A j \in 1..n : t[j] = sel[p[j]]

(* What the second sort makes of n sentences of different ordinals: they   *)
(* are moved to other places.                                              *)
LEMMA SortedMoves ==
    ASSUME NEW max \in Nat, NEW n \in Nat, NEW sel, DOMAIN sel = 1..n,
           \A i \in 1..n : sel[i].ordinal \in Nat /\ sel[i].ordinal <= max,
           \A i, j \in 1..n : sel[i].ordinal = sel[j].ordinal => i = j,
           NEW t, t = InTextOrder(sel)
    PROVE  IsSorting(t, sel, n)
<1>1. PICK S : S = {sel[i] : i \in 1..n}
  OBVIOUS
<1>2. S = Range(sel)
  BY <1>1 DEF Range
<1>3. IsFiniteSet(1..n) /\ Cardinality(1..n) = n
  BY FS_Interval
<1>4. IsFiniteSet(S) /\ Cardinality(S) = n
  <2>1. PICK f : f = [i \in 1..n |-> sel[i]]
    OBVIOUS
  <2>2. f \in Surjection(1..n, S)
    BY <1>1, <2>1 DEF Surjection
  <2>3. f \in Injection(1..n, S)
    BY <1>1, <2>1 DEF Injection, IsInjective
  <2> QED BY <1>3, <2>2, <2>3, FS_Surjection
<1>5. Numbered(S, max)
  BY <1>1, <1>4 DEF Numbered
<1>6. ASSUME NEW j \in 1..n PROVE t[j] \in S /\ Cardinality(Earlier(t[j], S)) = j - 1
  <2>1. \E s \in S : Cardinality(Earlier(s, S)) = j - 1
    BY <1>4, <1>5, SentencePlaces
  <2>2. t[j] = CHOOSE s \in S : Cardinality(Earlier(s, S)) = j - 1
    BY <1>2 DEF InTextOrder, Before, Earlier
  <2> QED BY <2>1, <2>2
<1>7. DOMAIN t = 1..n
  BY DEF InTextOrder
<1>8. ASSUME NEW j \in 1..n, NEW k \in 1..n, j < k PROVE t[j].ordinal < t[k].ordinal
  <2>1. t[j].ordinal \in Nat /\ t[k].ordinal \in Nat
    BY <1>5, <1>6 DEF Numbered
  <2> SUFFICES ASSUME t[k].ordinal <= t[j].ordinal PROVE FALSE
    BY <2>1
  <2>2. Earlier(t[k], S) \subseteq Earlier(t[j], S)
    BY <1>5, <2>1 DEF Earlier, Numbered
  <2>3. IsFiniteSet(Earlier(t[j], S))
    BY <1>4, FS_Subset DEF Earlier
  <2>4. Cardinality(Earlier(t[k], S)) <= Cardinality(Earlier(t[j], S))
    BY <2>2, <2>3, FS_Subset
  <2> QED BY <1>6, <1>8, <2>4
<1>9. PICK p : p = [j \in 1..n |-> CHOOSE i \in 1..n : sel[i] = t[j]]
  OBVIOUS
<1>10. ASSUME NEW j \in 1..n PROVE p[j] \in 1..n /\ t[j] = sel[p[j]]
  BY <1>1, <1>6, <1>9
<1>11. ASSUME NEW j \in 1..n, NEW k \in 1..n, p[j] = p[k] PROVE j = k
  <2>1. t[j].ordinal = t[k].ordinal /\ t[j].ordinal \in Nat
    BY <1>5, <1>6, <1>10, <1>11 DEF Numbered
  <2>2. ~(j < k) /\ ~(k < j)
    BY <1>8, <2>1
  <2> QED BY <2>2
<1>12. p \in [1..n -> 1..n]
  BY <1>9, <1>10
<1>13. p \in Surjection(1..n, 1..n)
  <2>1. p \in Injection(1..n, 1..n)
    BY <1>11, <1>12 DEF Injection, IsInjective
  <2> QED BY <1>3, <2>1, FS_Injection
<1>14. {p[j] : j \in 1..n} = 1..n
  BY <1>12, <1>13 DEF Surjection
<1>15. Permutes(p, n)
  BY <1>11, <1>12, <1>14 DEF Permutes, Moved
<1> QED BY <1>7, <1>8, <1>10, <1>15 DEF IsSorting
-----------------------------------------------------------------------------
(* Sums over the first numbers of a sequence of them.                      *)
LEMMA SumsUpTo ==
    ASSUME NEW n \in Nat, NEW b, \A i \in 1..n : b[i] \in Nat
    PROVE  /\ Sum(b, 1..0) = 0
           /\ \A i \in 0..n : Sum(b, 1..i) \in Nat
           /\ \A i \in 1..n : Sum(b, 1..i) = b[i] + Sum(b, 1..(i - 1))
           /\ \A i, j \in 0..n : i <= j => Sum(b, 1..i) <= Sum(b, 1..j)
<1>1. Sum(b, 1..0) = 0
  <2>1. 1..0 = {} /\ IsFiniteSet({})
    BY FS_EmptySet
  <2> QED BY <2>1, SumOpens
<1>2. ASSUME NEW i \in 1..n PROVE Sum(b, 1..i) = b[i] + Sum(b, 1..(i - 1))
  <2>1. PICK S : S = 1..(i - 1)
    OBVIOUS
  <2>4. IsFiniteSet(S)
    BY <2>1, FS_Interval
  <2>2. 1..i = S \union {i} /\ i \notin S /\ \A j \in S \union {i} : b[j] \in Int
    BY <2>1
  <2>3. Sum(b, S \union {i}) = b[i] + Sum(b, S)
    BY ONLY <2>2, <2>4, SumAdds
  <2> QED BY <2>1, <2>2, <2>3
<1> DEFINE Q == {i \in Nat : i <= n => /\ Sum(b, 1..i) \in Nat
                                       /\ \A j \in 0..i : Sum(b, 1..j) <= Sum(b, 1..i)}
<1>3. 0 \in Q
  BY <1>1
<1>4. ASSUME NEW i \in Nat, i \in Q PROVE i + 1 \in Q
  <2> SUFFICES ASSUME i + 1 <= n
               PROVE  /\ Sum(b, 1..(i + 1)) \in Nat
                      /\ \A j \in 0..(i + 1) : Sum(b, 1..j) <= Sum(b, 1..(i + 1))
    OBVIOUS
  <2>1. i + 1 \in 1..n /\ (i + 1) - 1 = i
    OBVIOUS
  <2>2. Sum(b, 1..(i + 1)) = b[i + 1] + Sum(b, 1..i)
    <3>1. PICK k \in 1..n : k = i + 1
      BY <2>1
    <3>2. Sum(b, 1..k) = b[k] + Sum(b, 1..(k - 1)) /\ k - 1 = i
      BY <1>2, <3>1
    <3> QED BY <3>1, <3>2
  <2>3. PICK s \in Nat, x \in Nat : s = Sum(b, 1..i) /\ x = b[i + 1]
    BY <1>4, <2>1
  <2>4. ASSUME NEW j \in 0..(i + 1) PROVE Sum(b, 1..j) <= Sum(b, 1..(i + 1))
    <3>1. CASE j = i + 1
      BY <2>2, <2>3, <3>1
    <3>2. CASE j # i + 1
      <4>1. Sum(b, 1..j) <= s /\ Sum(b, 1..j) \in Int
        <5>1. j \in 0..i
          BY <3>2
        <5>2. Sum(b, 1..j) <= s
          BY <1>4, <2>3, <5>1
        <5>3. IsFiniteSet(1..j) /\ \A k \in 1..j : b[k] \in Int
          BY <5>1, FS_Interval
        <5> QED BY <5>2, <5>3, SumInt
      <4> QED BY <2>2, <2>3, <4>1
    <3> QED BY <3>1, <3>2
  <2> QED BY <2>2, <2>3, <2>4
<1>5. Nat \subseteq Q
  <2> HIDE DEF Q
  <2> QED BY <1>3, <1>4, Induction
<1>6. ASSUME NEW i \in 0..n PROVE Sum(b, 1..i) \in Nat /\ \A j \in 0..i : Sum(b, 1..j) <= Sum(b, 1..i)
  <2>1. i \in Q /\ i <= n
    BY <1>5
  <2> QED BY <2>1
<1>7. ASSUME NEW i \in 0..n, NEW j \in 0..n, i <= j PROVE Sum(b, 1..i) <= Sum(b, 1..j)
  <2>1. i \in 0..j
    BY <1>7
  <2> QED BY <1>6, <2>1
<1> QED BY <1>1, <1>2, <1>6, <1>7

(* The sentences that are taken are the first ones; if there are others,   *)
(* they have used up the room.                                             *)
AreTaken(T, n, b, max) ==
    /\ T \subseteq 1..n
    /\ \A i \in 1..n : b[i] \in Nat /\ (i \in T <=> Sum(b, 1..(i - 1)) < max)

LEMMA TakenFirst ==
    ASSUME NEW max \in Nat \ {0}, NEW n \in Nat, NEW b, NEW T, AreTaken(T, n, b, max)
    PROVE  \E k \in 0..n : /\ T = 1..k /\ Cardinality(T) = k
                           /\ k < n => Sum(b, 1..k) >= max
<1> DEFINE S(i) == Sum(b, 1..i)
<1>1. \A i \in 0..n : S(i) \in Nat /\ \A j \in 0..n : i <= j => S(i) <= S(j)
  BY SumsUpTo DEF AreTaken
<1> HIDE DEF S
<1>2. T \subseteq 1..n /\ \A i \in 1..n : i \in T <=> S(i - 1) < max
  BY DEF S, AreTaken
<1>3. ASSUME NEW k \in 0..n, T = 1..k PROVE Cardinality(T) = k
  <2>1. Cardinality(1..k) = IF 1 > k THEN 0 ELSE k - 1 + 1
    BY FS_Interval
  <2>2. k \in Nat
    OBVIOUS
  <2>3. Cardinality(1..k) = k
    BY <2>1, <2>2
  <2> QED BY <1>3, <2>3
<1>4. CASE T = 1..n
  BY <1>3, <1>4
<1>5. CASE T # 1..n
  <2>1. (1..n) \ T # {}
    <3>1. T \subseteq 1..n
      BY <1>2
    <3> QED BY <1>5, <3>1, Zenon
  <2>6. (1..n) \ T \subseteq Nat
    OBVIOUS
  <2>2. PICK m \in (1..n) \ T : \A i \in (1..n) \ T : m <= i
    BY <2>1, <2>6, LeastNumber
  <2>3. PICK k \in 0..n : k = m - 1 /\ m \in Nat
    BY <2>2
  <2>4. S(k) >= max
    BY <1>1, <1>2, <2>2, <2>3
  <2>5. T = 1..k
    <3>1. ASSUME NEW i \in T PROVE i \in 1..k
      <4>1. i \in 1..n /\ i - 1 \in 0..n /\ S(i - 1) < max
        BY <1>2
      <4>2. ~(k <= i - 1)
        BY <1>1, <2>3, <2>4, <4>1
      <4> QED BY <2>3, <4>1, <4>2
    <3>2. ASSUME NEW i \in 1..k PROVE i \in T
      <4>1. i \in 1..n /\ ~(m <= i)
        BY <2>3
      <4> QED BY <2>2, <4>1
    <3> QED BY <3>1, <3>2
  <2> QED BY <1>3, <2>4, <2>5 DEF S
<1> QED BY <1>4, <1>5

LEMMA SumAtMost ==
    ASSUME NEW S, IsFiniteSet(S), NEW f, NEW g,
           \A x \in S : f[x] \in Int /\ g[x] \in Int /\ f[x] <= g[x]
    PROVE  Sum(f, S) <= Sum(g, S)
<1> DEFINE Q == {T \in SUBSET S : Sum(f, T) <= Sum(g, T)}
<1>1. {} \in Q
  <2>1. Sum(f, {}) = 0 /\ Sum(g, {}) = 0
    BY SumOpens
  <2> QED BY <2>1
<1>2. ASSUME NEW T \in SUBSET S, T # {}, T \ {Chosen(T)} \in Q
      PROVE  T \in Q
  <2>1. IsFiniteSet(T)
    BY FS_Subset
  <2>2. PICK c, U : c = Chosen(T) /\ U = T \ {Chosen(T)}
    OBVIOUS
  <2>3. c \in S /\ U \in SUBSET S /\ IsFiniteSet(U)
    BY <1>2, <2>2, ChosenIn, FS_Subset
  <2>4. Sum(f, T) = f[c] + Sum(f, U) /\ Sum(g, T) = g[c] + Sum(g, U)
    BY <1>2, <2>1, <2>2, SumOpens
  <2>5. Sum(f, U) \in Int /\ Sum(g, U) \in Int
    BY <2>3, SumInt
  <2>6. Sum(f, U) <= Sum(g, U) /\ f[c] <= g[c] /\ f[c] \in Int /\ g[c] \in Int
    BY <1>2, <2>2, <2>3
  <2> QED BY <2>4, <2>5, <2>6
<1>3. SUBSET S \subseteq Q
  <2> HIDE DEF Q
  <2> QED BY <1>1, <1>2, ChosenInduction
<1> QED BY <1>3

(* The order of the sentences that match has each of them once.            *)
LEMMA OrderFacts ==
    ASSUME NEW text \in Seq(Sentence), NEW order \in Ranked(text)
    PROVE  \E n \in Nat :
               /\ order \in [1..n -> Matches(text)]
               /\ \A i, j \in 1..n : order[i] = order[j] => i = j
               /\ \A x \in Matches(text) : \E i \in 1..n : order[i] = x
               /\ \A i, j \in 1..n : i < j => ~BetterMatch(text[order[j]], text[order[i]])
<1>1. PICK M, n : M = Matches(text) /\ n = Cardinality(M)
  OBVIOUS
<1>2. IsFiniteSet(M) /\ n \in Nat
  <2>1. Len(text) \in Nat /\ DOMAIN text = 1..Len(text)
    BY LenProperties
  <2>2. IsFiniteSet(1..Len(text))
    BY <2>1, FS_Interval
  <2>3. M \subseteq 1..Len(text)
    BY <1>1, <2>1 DEF Matches
  <2> QED BY <1>1, <2>2, <2>3, FS_Subset, FS_CardinalityType
<1>3. order \in SetToSeqs(M)
      /\ \A i, j \in DOMAIN order : i < j => ~BetterMatch(text[order[j]], text[order[i]])
  BY <1>1 DEF Ranked
<1>4. order \in [1..n -> M] /\ \A i, j \in 1..n : i # j => order[i] # order[j]
  BY <1>1, <1>3 DEF SetToSeqs
<1>5. order \in Injection(1..n, M)
  BY <1>4 DEF Injection, IsInjective
<1>6. Cardinality(1..n) = n
  <2>1. Cardinality(1..n) = IF 1 > n THEN 0 ELSE n - 1 + 1
    BY <1>2, FS_Interval
  <2> QED BY <1>2, <2>1
<1>7. order \in Surjection(1..n, M)
  BY <1>1, <1>2, <1>5, <1>6, FS_Injection
<1> QED BY <1>1, <1>2, <1>3, <1>4, <1>7 DEF Surjection

LEMMA SentenceFacts ==
    ASSUME NEW s \in Sentence, NEW i, NEW left
    PROVE  /\ s.bytes \in Nat /\ s.runes \in Nat
           /\ Snippet(i, s, left).ordinal = i
           /\ Snippet(i, s, left).cut = (s.bytes > left)
           /\ Snippet(i, s, left).runes = IF s.bytes > left THEN left ELSE s.runes
BY DEF Sentence, Snippet

IsSelection(sel, b, n, k, text, order, max) ==
    /\ DOMAIN sel = 1..k
    /\ k < n => Sum(b, 1..k) >= max
    /\ \A i \in 1..n : b[i] = text[order[i]].bytes /\ b[i] \in Nat
    /\ \A i \in 1..k : sel[i].ordinal = order[i] /\ sel[i].runes \in Nat
    /\ \A i \in 1..k : sel[i].cut => i = k
    /\ Sum([i \in 1..k |-> sel[i].runes], 1..k) <= max

(* What the loop has taken of the sentences: no more than there was room   *)
(* for, and only the last one is cut.                                       *)
LEMMA SelectedFacts ==
    ASSUME NEW text \in Seq(Sentence), \A i \in DOMAIN text : text[i].runes <= text[i].bytes,
           NEW max \in Nat \ {0}, NEW n \in Nat, NEW order \in [1..n -> DOMAIN text],
           NEW sel, sel = Selected(text, order, max),
           NEW b, b = Bytes(text, order)
    PROVE  \E k \in 0..n : IsSelection(sel, b, n, k, text, order, max)
<1>1. \A i \in 1..n : text[order[i]] \in Sentence /\ text[order[i]].runes <= text[order[i]].bytes
  BY ElementOfSeq, LenProperties
<1>2. \A i \in 1..n : b[i] = text[order[i]].bytes /\ b[i] \in Nat
  BY <1>1, SentenceFacts DEF Bytes
<1>11. \A i \in 1..n : b[i] \in Nat
  BY <1>2
<1>12. /\ \A i \in 0..n : Sum(b, 1..i) \in Nat
       /\ \A i \in 1..n : Sum(b, 1..i) = b[i] + Sum(b, 1..(i - 1))
  BY <1>11, SumsUpTo
<1>3. \A i : Used(text, order, i) = Sum(b, 1..i)
  BY DEF Used, Sum
<1>4. PICK T : T = {i \in 1..n : Sum(b, 1..(i - 1)) < max}
  OBVIOUS
<1>5. T = Taken(text, order, max)
  BY <1>3, <1>4 DEF Taken
<1>6. PICK k \in 0..n : T = 1..k /\ Cardinality(T) = k /\ (k < n => Sum(b, 1..k) >= max)
  <2>1. AreTaken(T, n, b, max)
    BY <1>4, <1>11 DEF AreTaken
  <2>2. \E k \in 0..n : T = 1..k /\ Cardinality(T) = k /\ (k < n => Sum(b, 1..k) >= max)
    BY <2>1, TakenFirst
  <2> QED BY <2>2
<1>7. DOMAIN sel = 1..k
      /\ \A i \in 1..k : sel[i] = Snippet(order[i], text[order[i]], max - Sum(b, 1..(i - 1)))
  BY <1>3, <1>5, <1>6 DEF Selected
<1>8. ASSUME NEW i \in 1..k
      PROVE  /\ sel[i].ordinal = order[i] /\ sel[i].runes \in Nat
             /\ sel[i].cut => i = k
             /\ sel[i].runes <= b[i] /\ sel[i].runes + Sum(b, 1..(i - 1)) <= max
  <2>1. PICK s \in Nat : s = Sum(b, 1..(i - 1)) /\ s < max
    <3>1. i \in T /\ i \in 1..n /\ i - 1 \in 0..n
      BY <1>6
    <3> QED BY <1>4, <1>12, <3>1
  <2>2. PICK left \in Nat : left = max - s
    BY <2>1
  <2>3. PICK x \in Sentence : x = text[order[i]] /\ x.runes <= x.bytes
    BY <1>1, <1>6
  <2>4. sel[i] = Snippet(order[i], x, left)
    BY <1>7, <2>1, <2>2, <2>3
  <2>5. /\ x.bytes \in Nat /\ x.runes \in Nat /\ b[i] = x.bytes
        /\ sel[i].ordinal = order[i] /\ sel[i].cut = (x.bytes > left)
        /\ sel[i].runes = IF x.bytes > left THEN left ELSE x.runes
    BY <1>2, <1>6, <2>3, <2>4, SentenceFacts
  <2>6. sel[i].cut => i = k
    <3> SUFFICES ASSUME x.bytes > left, i # k PROVE FALSE
      BY <2>5
    <3>1. PICK m \in 1..k : m = i + 1 /\ m - 1 = i
      OBVIOUS
    <3>2. Sum(b, 1..i) < max
      BY <1>4, <1>6, <3>1
    <3>3. Sum(b, 1..i) = b[i] + s
      BY <1>6, <1>12, <2>1
    <3> QED BY <2>1, <2>2, <2>5, <3>2, <3>3
  <2>7. PICK rs \in Nat : rs = sel[i].runes /\ rs <= x.bytes /\ rs <= left
    <3>1. x.bytes > left => left <= x.bytes
      BY <2>5
    <3>2. ~(x.bytes > left) => x.runes <= left
      BY <2>3, <2>5
    <3> QED BY <2>2, <2>3, <2>5, <3>1, <3>2
  <2>8. rs + s <= max
    BY <2>1, <2>2, <2>7
  <2> QED BY <2>1, <2>5, <2>6, <2>7, <2>8
<1>9. PICK r : r = [i \in 1..k |-> sel[i].runes]
  OBVIOUS
<1>10. Sum(r, 1..k) <= max
  <2>1. \A i \in 1..k : r[i] \in Nat /\ r[i] <= b[i] /\ r[i] + Sum(b, 1..(i - 1)) <= max
    BY <1>8, <1>9
  <2>2. CASE k = 0
    BY <2>1, <2>2, SumsUpTo
  <2>3. CASE k # 0
    <3>1. k \in 1..k /\ k \in Nat /\ k - 1 \in 0..k
      BY <2>3
    <3>2. Sum(r, 1..k) = r[k] + Sum(r, 1..(k - 1)) /\ Sum(r, 1..(k - 1)) \in Nat
      <4>1. \A i \in 1..k : r[i] \in Nat
        BY <2>1
      <4>2. /\ \A i \in 0..k : Sum(r, 1..i) \in Nat
            /\ \A i \in 1..k : Sum(r, 1..i) = r[i] + Sum(r, 1..(i - 1))
        BY ONLY <3>1, <4>1, SumsUpTo
      <4> QED BY <3>1, <4>2
    <3>3. Sum(r, 1..(k - 1)) <= Sum(b, 1..(k - 1))
      <4>1. IsFiniteSet(1..(k - 1))
        <5>1. PICK m \in Int : m = k - 1
          BY <3>1
        <5>2. IsFiniteSet(1..m)
          BY ONLY FS_Interval
        <5> QED BY <5>1, <5>2
      <4>2. \A i \in 1..(k - 1) : r[i] \in Int /\ b[i] \in Int /\ r[i] <= b[i]
        BY <1>2, <1>6, <2>1
      <4> QED BY <4>1, <4>2, SumAtMost
    <3>4. Sum(b, 1..(k - 1)) \in Nat
      BY <1>6, <1>12, <3>1
    <3>5. r[k] \in Nat /\ r[k] + Sum(b, 1..(k - 1)) <= max
      BY <2>1, <3>1
    <3> QED BY <3>2, <3>3, <3>4, <3>5
  <2> QED BY <2>2, <2>3
<1> QED BY <1>2, <1>6, <1>7, <1>8, <1>9, <1>10 DEF IsSelection

(* What the summarizer returns is a summary.                                *)
LEMMA SummaryIsSound ==
    ASSUME NEW text \in Seq(Sentence), \A i \in DOMAIN text : text[i].runes <= text[i].bytes,
           NEW max \in Nat \ {0}, NEW snippets \in SnippetsForSummary(text, max)
    PROVE  IsSummary(text, max, MatchSummary(snippets))
<1>1. PICK order \in Ranked(text) : snippets = InTextOrder(Selected(text, order, max))
  BY DEF SnippetsForSummary
<1>2. PICK len \in Nat : len = Len(text) /\ DOMAIN text = 1..len
  BY LenProperties
<1>3. PICK M : M = Matches(text) /\ M \subseteq 1..len
  BY <1>2 DEF Matches
<1>4. PICK n \in Nat :
         /\ order \in [1..n -> M]
         /\ \A i, j \in 1..n : order[i] = order[j] => i = j
         /\ \A x \in M : \E i \in 1..n : order[i] = x
         /\ \A i, j \in 1..n : i < j => ~BetterMatch(text[order[j]], text[order[i]])
  BY <1>3, OrderFacts
<1>5. order \in [1..n -> DOMAIN text]
  BY <1>2, <1>3, <1>4
<1>6. PICK sel, b : sel = Selected(text, order, max) /\ b = Bytes(text, order)
  OBVIOUS
<1>7. PICK k \in 0..n : IsSelection(sel, b, n, k, text, order, max)
  BY <1>5, <1>6, SelectedFacts
<1>8. /\ DOMAIN sel = 1..k /\ k \in Nat
      /\ \A i \in 1..k : i \in 1..n /\ b[i] = text[order[i]].bytes /\ b[i] \in Int
      /\ \A i \in 1..k : sel[i].ordinal = order[i] /\ sel[i].runes \in Int
      /\ \A i \in 1..k : sel[i].cut => i = k
  <2>1. k \in Nat /\ \A i \in 1..k : i \in 1..n
    OBVIOUS
  <2>2. \A i \in 1..n : b[i] = text[order[i]].bytes /\ b[i] \in Nat
    BY ONLY <1>7 DEF IsSelection
  <2>3. DOMAIN sel = 1..k /\ \A i \in 1..k : sel[i].cut => i = k
    BY ONLY <1>7 DEF IsSelection
  <2>4. \A i \in 1..k : sel[i].ordinal = order[i] /\ sel[i].runes \in Nat
    BY ONLY <1>7 DEF IsSelection
  <2> QED BY ONLY <2>1, <2>2, <2>3, <2>4
<1>9. \A i \in 1..k : sel[i].ordinal \in 1..len /\ sel[i].ordinal \in M
  BY <1>3, <1>4, <1>8
<1>10. \A i, j \in 1..k : sel[i].ordinal = sel[j].ordinal => i = j
  BY <1>4, <1>8
<1>11. IsSorting(snippets, sel, k)
  <2>1. \A i \in 1..k : sel[i].ordinal \in Nat /\ sel[i].ordinal <= len
    BY <1>9
  <2>2. snippets = InTextOrder(sel) /\ DOMAIN sel = 1..k /\ k \in Nat
    BY <1>1, <1>6, <1>8
  <2> QED BY ONLY <1>2, <1>10, <2>1, <2>2, SortedMoves
<1>12. PICK p : Permutes(p, k) /\ \A j \in 1..k : snippets[j] = sel[p[j]]
  BY <1>11 DEF IsSorting
<1>13. \A j \in 1..k : p[j] \in 1..k
  BY <1>12 DEF Permutes
<1>14. \A i \in 1..k : \E j \in 1..k : p[j] = i
  <2>1. {p[j] : j \in 1..k} = 1..k
    BY <1>12 DEF Permutes, Moved
  <2> QED BY <2>1
<1>15. \A i, j \in 1..k : p[i] = p[j] => i = j
  BY <1>12 DEF Permutes
<1>16. DOMAIN snippets = 1..k /\ \A i, j \in 1..k : i < j => snippets[i].ordinal < snippets[j].ordinal
  BY <1>11 DEF IsSorting
<1>17. PICK parts : parts = MatchSummary(snippets)
  OBVIOUS
<1>18. DOMAIN parts = 1..k /\ Len(parts) = k
  BY <1>8, <1>16, <1>17 DEF MatchSummary
<1>19. \A j \in 1..k :
          /\ parts[j].snippet = snippets[j]
          /\ parts[j].ellipsis = (j > 1 /\ snippets[j].ordinal # snippets[j - 1].ordinal + 1)
  BY <1>16, <1>17 DEF MatchSummary
<1>20. \A j \in 1..k : parts[j].snippet = sel[p[j]] /\ parts[j].snippet.ordinal = order[p[j]]
  BY <1>8, <1>12, <1>13, <1>19
<1>21. PICK Ordinals : Ordinals = {parts[j].snippet.ordinal : j \in DOMAIN parts}
  OBVIOUS
<1>22. ASSUME NEW j \in 1..k PROVE order[j] \in Ordinals /\ order[p[j]] \in M
  <2>1. PICK i \in 1..k : p[i] = j
    BY <1>14
  <2>2. parts[i].snippet.ordinal = order[j]
    BY <1>20, <2>1
  <2>3. order[p[j]] \in M
    BY <1>4, <1>8, <1>13
  <2> QED BY <1>18, <1>21, <2>2, <2>3
<1>23. ASSUME NEW x \in Ordinals PROVE x \in M /\ \E i \in 1..k : x = order[i]
  BY <1>13, <1>18, <1>20, <1>21, <1>22
<1>24. ASSUME NEW j \in 2..Len(parts)
       PROVE  /\ parts[j - 1].snippet.ordinal < parts[j].snippet.ordinal
              /\ parts[j].ellipsis <=>
                    \E i \in DOMAIN text :
                        parts[j - 1].snippet.ordinal < i /\ i < parts[j].snippet.ordinal
  <2>1. j \in 1..k /\ j > 1 /\ j \in Int
    BY <1>8, <1>18
  <2>2. PICK h \in 1..k : h = j - 1 /\ h < j
    BY <1>8, <2>1
  <2>3. PICK c \in 1..len, d \in 1..len : c = snippets[h].ordinal /\ d = snippets[j].ordinal
    BY <1>9, <1>12, <1>13, <2>1, <2>2
  <2>4. c < d
    BY <1>16, <2>1, <2>2, <2>3
  <2>5. parts[j].ellipsis = (d # c + 1)
    BY <1>19, <2>1, <2>2, <2>3
  <2>6. d # c + 1 <=> \E i \in 1..len : c < i /\ i < d
    <3>1. c \in Nat /\ d \in Nat /\ d <= len /\ 1 <= c
      BY <1>2
    <3>2. ASSUME d # c + 1 PROVE \E i \in 1..len : c < i /\ i < d
      <4>1. c + 1 \in 1..len /\ c < c + 1 /\ c + 1 < d
        BY <1>2, <2>4, <3>1, <3>2
      <4> QED BY <4>1
    <3>3. ASSUME NEW i \in 1..len, c < i, i < d PROVE d # c + 1
      BY <3>1, <3>3
    <3> QED BY <3>2, <3>3
  <2>7. parts[j - 1].snippet.ordinal = c /\ parts[j].snippet.ordinal = d
    BY <1>19, <2>1, <2>2, <2>3
  <2> QED BY <1>2, <2>4, <2>5, <2>6, <2>7
<1>25. SumFunction([j \in DOMAIN parts |-> parts[j].snippet.runes]) <= max
  <2>1. PICK r, g : r = [i \in 1..k |-> sel[i].runes] /\ g = [j \in 1..k |-> parts[j].snippet.runes]
    OBVIOUS
  <2>2. Rearranges(p, g, r, k)
    BY <1>8, <1>13, <1>20, <2>1 DEF Rearranges
  <2>3. Sum(g, 1..k) = Sum(r, 1..k)
    BY ONLY <1>8, <1>12, <2>2, SumPermuted
  <2>4. DOMAIN g = 1..k /\ g = [j \in DOMAIN parts |-> parts[j].snippet.runes]
    BY <1>18, <2>1
  <2>5. SumFunction(g) = Sum(g, 1..k)
    BY <2>4 DEF SumFunction, Sum
  <2>6. Sum(r, 1..k) <= max
    BY ONLY <1>7, <2>1 DEF IsSelection
  <2> QED BY <2>3, <2>4, <2>5, <2>6
<1>26. SumFunction([j \in DOMAIN parts |-> text[parts[j].snippet.ordinal].bytes]) = Sum(b, 1..k)
  <2>1. PICK g : g = [j \in 1..k |-> text[parts[j].snippet.ordinal].bytes]
    OBVIOUS
  <2>2. Rearranges(p, g, b, k)
    <3> SUFFICES ASSUME NEW j \in 1..k PROVE b[j] \in Int /\ g[j] = b[p[j]]
      BY DEF Rearranges
    <3>1. PICK i \in 1..k : i = p[j]
      BY <1>13
    <3>2. g[j] = text[order[i]].bytes
      BY <1>20, <2>1, <3>1
    <3> QED BY <1>8, <3>1, <3>2
  <2>3. Sum(g, 1..k) = Sum(b, 1..k)
    BY ONLY <1>8, <1>12, <2>2, SumPermuted
  <2>4. DOMAIN g = 1..k /\ g = [j \in DOMAIN parts |-> text[parts[j].snippet.ordinal].bytes]
    BY <1>18, <2>1
  <2>5. SumFunction(g) = Sum(g, 1..k)
    BY <2>4 DEF SumFunction, Sum
  <2> QED BY <2>3, <2>4, <2>5
<1>27. \A i, j \in DOMAIN parts : parts[i].snippet.cut /\ parts[j].snippet.cut => i = j
  <2> SUFFICES ASSUME NEW i \in 1..k, NEW j \in 1..k, parts[i].snippet.cut, parts[j].snippet.cut
               PROVE  i = j
    BY <1>18
  <2>1. sel[p[i]].cut /\ sel[p[j]].cut
    BY <1>20
  <2>2. p[i] = k /\ p[j] = k
    BY <1>8, <1>13, <2>1
  <2> QED BY <1>15, <2>2
<1>28. ASSUME NEW x \in M \ Ordinals
       PROVE  /\ Sum(b, 1..k) >= max
              /\ \A y \in Ordinals : ~BetterMatch(text[x], text[y])
  <2>1. PICK i \in 1..n : x = order[i]
    BY <1>4
  <2>2. ~(i \in 1..k)
    BY <1>22, <2>1
  <2>3. k < i /\ k < n /\ k \in Nat
    BY <1>4, <1>8, <2>2
  <2>4. ASSUME NEW y \in Ordinals PROVE ~BetterMatch(text[x], text[y])
    <3>1. PICK m \in 1..k : y = order[m]
      BY <1>23
    <3>2. m \in 1..n /\ m < i
      BY <1>8, <2>3
    <3> QED BY <1>4, <2>1, <3>1, <3>2
  <2>5. k < n => Sum(b, 1..k) >= max
    BY ONLY <1>7 DEF IsSelection
  <2> QED BY <2>3, <2>4, <2>5
<1>29. Ordinals \subseteq Matches(text)
  BY <1>3, <1>23
<1> QED BY <1>3, <1>17, <1>21, <1>24, <1>25, <1>26, <1>27, <1>28, <1>29 DEF IsSummary
-----------------------------------------------------------------------------
(* Only Summarise makes a summary that is shown, and of no other document  *)
(* than the last result.                                                    *)
LEMMA SummaryStep ==
    ASSUME IInv, SummaryFits, [Next]_vars
    PROVE  SummaryFits'
<1>1. CASE UNCHANGED <<stage, summary>>
  BY <1>1 DEF SummaryFits
<1>2. CASE stage' # "highlight"
  BY <1>2 DEF SummaryFits
<1>3. CASE Summarise
  <2>1. results \in Seq(Result) /\ Len(results) \in 1..Len(results)
    <3>1. results \in Seq(Result) /\ Len(results) > 0
      BY <1>3 DEF IInv, FlowInv, Summarise
    <3> QED BY <3>1, LenProperties
  <2>2. results[Len(results)] \in Result
    BY <2>1, ElementOfSeq
  <2>3. PICK c \in Content \union {"none"} : c = results[Len(results)].content
    BY <2>2 DEF Result
  <2>4. PICK s \in Summaries[c] : summary' = s \/ stage' = "done"
    BY <1>3, <2>3 DEF Summarise, Answer
  <2>5. DOMAIN Texts = Content \union {"none"}
        /\ \A text \in Texts[c] : text \in Seq(Sentence) /\ \A i \in DOMAIN text : text[i].runes <= text[i].bytes
    BY TextsAssumption
  <2>6. PICK text \in Texts[c] : \E snippets \in SnippetsForSummary(text, MaxSummaryLength) :
           s = [text |-> text, parts |-> MatchSummary(snippets), overrun |-> MayPanic(snippets)]
    BY <2>4, <2>5 DEF Summaries
  <2>7. IsSummary(s.text, MaxSummaryLength, s.parts)
    <3>1. MaxSummaryLength \in Nat \ {0}
      BY SizesAssumption
    <3> QED BY <2>5, <2>6, <3>1, SummaryIsSound
  <2> QED BY <2>4, <2>7 DEF SummaryFits
<1>4. CASE Write \/ IndexEnd \/ ScoreEnd \/ ESRefresh \/ IteratorSteps \/ Serve \/ Lost
  BY <1>1, <1>2, <1>4 DEF Write, IndexBegin, ScoreBegin, ESIndex, ESUpdateScore, ESUpdate, Counted, IndexEnd,
     ScoreEnd, ESRefresh, IteratorSteps, Fetch, Panic, Take, Serve, ServerSearch, ServerSend, ServerReturn,
     Lost, siteVars
<1>5. CASE Browse \/ \E q \in Query : Submit(q)
  BY <1>2, <1>3, <1>5 DEF Browse, LocalSearch, RemoteSearch, ReceiveCount, ReadDoc, Highlight, Complete, Fails,
     Answer, Submit
<1> QED BY <1>1, <1>4, <1>5 DEF Next, vars, siteVars

(* Whatever the texts of the documents are, what matchSummarizer makes of   *)
(* them shows matching sentences in the order of the text, marks what it    *)
(* skips, leaves none out for a worse one, and is no longer than it may be. *)
THEOREM SummariesFit == Spec => []SummaryFits
<1>1. Init => SummaryFits
  BY DEF Init, SummaryFits
<1>2. IInv /\ SummaryFits /\ [Next]_vars => SummaryFits'
  BY SummaryStep
<1> QED BY <1>1, <1>2, SearchInductive, PTL DEF Spec
=============================================================================
