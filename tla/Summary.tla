-------------------------------- MODULE Summary --------------------------------
(***************************************************************************)
(* The matchSummarizer of src/service/frontend/summarizer.go: the summary  *)
(* of a document is made of its sentences that have a term of the query.   *)
(* Of a sentence counts what the summarizer measures: its words, those of  *)
(* them that are terms, its length in characters and its length in bytes.  *)
(***************************************************************************)
EXTENDS Naturals, Sequences, FiniteSets, Functions, SequencesExt

Sentence == [words : Nat, hits : Nat, runes : Nat, bytes : Nat]

(* matchRatio is hits / words, where no words count as one.                 *)
Words(s) == IF s.words = 0 THEN 1 ELSE s.words

BetterMatch(s, t) == s.hits * Words(t) > t.hits * Words(s)

Matches(text) == {i \in DOMAIN text : text[i].hits > 0}

(* The orders by match ratio that the first sort can leave, which is not   *)
(* stable.  Mutant: the best match last.                                    *)
RankedReversed(text) ==
    {order \in SetToSeqs(Matches(text)) :
        \A i, j \in DOMAIN order : i < j => ~BetterMatch(text[order[i]], text[order[j]])}
Ranked(text) ==
    {order \in SetToSeqs(Matches(text)) :
        \A i, j \in DOMAIN order : i < j => ~BetterMatch(text[order[j]], text[order[i]])}

(* One more sentence for the summary, which has room for left bytes.  One  *)
(* that is longer is cut to as many characters, which it may not have: the *)
(* slice then reaches past the end of the characters.  The dots that are   *)
(* put behind it use up what was left.                                     *)
Snippet(i, s, left) ==
    [ordinal |-> i,
     cut |-> s.bytes > left,
     runes |-> IF s.bytes > left THEN left ELSE s.runes,
     overrun |-> s.bytes > left /\ s.runes < left]

Bytes(text, order) == [n \in DOMAIN order |-> text[order[n]].bytes]

(* The loop over the ranked sentences goes on while there is room.         *)
Used(text, order, n) == SumFunctionOnSet(Bytes(text, order), 1..n)
Taken(text, order, max) == {n \in DOMAIN order : Used(text, order, n - 1) < max}

Selected(text, order, max) ==
    [n \in 1..Cardinality(Taken(text, order, max)) |->
        Snippet(order[n], text[order[n]], max - Used(text, order, n - 1))]

(* The second sort; no two ordinals are equal.                             *)
Before(s, snippets) == {t \in Range(snippets) : t.ordinal < s.ordinal}

InTextOrder(snippets) ==
    [j \in DOMAIN snippets |->
        CHOOSE s \in Range(snippets) : Cardinality(Before(s, snippets)) = j - 1]

(* snippetsForSummary: what it may return.                                  *)
SnippetsForSummary(text, max) ==
    {InTextOrder(Selected(text, order, max)) : order \in Ranked(text)}

(* MatchSummary: the snippets, with an ellipsis before those that do not   *)
(* follow upon the one before.                                             *)
MatchSummary(snippets) ==
    [j \in DOMAIN snippets |->
        [snippet |-> snippets[j],
         ellipsis |-> j > 1 /\ snippets[j].ordinal # snippets[j - 1].ordinal + 1]]

(* Go grants a slice past the length of the characters up to the capacity  *)
(* of their array, where it finds NULs, and panics beyond that.            *)
MayPanic(snippets) == \E j \in DOMAIN snippets : snippets[j].overrun
-----------------------------------------------------------------------------
(* A summary shows sentences with a term, in the order of the text and an  *)
(* ellipsis wherever it skips some.  Only one of them is cut.  A matching  *)
(* sentence is left out only for others that match no worse and that use   *)
(* up the length.  The summary is not longer than the length allows, the   *)
(* dots aside.                                                             *)
IsSummary(text, max, summary) ==
    LET Shown(j) == summary[j].snippet
        Ordinals == {Shown(j).ordinal : j \in DOMAIN summary}
        Runes == SumFunction([j \in DOMAIN summary |-> Shown(j).runes])
        Full == SumFunction([j \in DOMAIN summary |-> text[Shown(j).ordinal].bytes])
    IN  /\ Ordinals \subseteq Matches(text)
        /\ \A j \in 2..Len(summary) :
              /\ Shown(j - 1).ordinal < Shown(j).ordinal
              /\ summary[j].ellipsis <=>
                    \E i \in DOMAIN text : Shown(j - 1).ordinal < i /\ i < Shown(j).ordinal
        /\ Runes <= max
        /\ \A j, k \in DOMAIN summary : Shown(j).cut /\ Shown(k).cut => j = k
        /\ \A i \in Matches(text) \ Ordinals :
              /\ Full >= max
              /\ \A j \in Ordinals : ~BetterMatch(text[i], text[j])
=============================================================================
