-------------------------------- MODULE MCSearch --------------------------------
(***************************************************************************)
(* A small instance of Search for TLC: an empty index and one of three     *)
(* documents, batches of two hits, pages of two results.                   *)
(***************************************************************************)
EXTENDS Search

StoreSet ==
    {[d \in Doc |-> NoDoc],
     [d \in Doc |-> [content |-> "phrase", rank |-> IF d = 2 THEN 1 ELSE 0]]}

(* Sentences that match wholly, in letters of two bytes, by half and not   *)
(* at all; texts of three, of which the second may be skipped.              *)
Sentences ==
    {[words |-> 2, hits |-> 2, runes |-> 3, bytes |-> 5],
     [words |-> 2, hits |-> 1, runes |-> 3, bytes |-> 3],
     [words |-> 1, hits |-> 0, runes |-> 2, bytes |-> 2]}

TextSet ==
    [c \in {"none", "words", "phrase"} |->
        IF c = "phrase" THEN {t \in [1..3 -> Sentences] : t[1].hits > 0 /\ t[3].hits > 0} ELSE {<<>>}]
=============================================================================
