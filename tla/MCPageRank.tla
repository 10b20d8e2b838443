------------------------------ MODULE MCPageRank ------------------------------
(***************************************************************************)
(* A small instance of PageRank for TLC: graphs of 0, 1, 2 and 4 vertices, *)
(* with and without dead ends, in which all divisions are exact, and one   *)
(* of 3, in which they are not.                                            *)
(***************************************************************************)
EXTENDS PageRank

GraphSet ==
    [{} -> {}]
    \union {[v \in {1} |-> {}]}
    \union {g \in [{1, 2} -> SUBSET {1, 2}] : \A v \in {1, 2} : v \notin g[v]}
    \union {<<{2, 3}, {3}, {}>>,
            <<{2}, {3}, {4}, {1}>>,           \* a cycle
            <<{2, 3}, {4}, {4}, {}>>,         \* a dead end
            <<{2, 3}, {}, {1, 4}, {}>>}       \* two dead ends

=============================================================================
