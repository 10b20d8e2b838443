---------------------------- MODULE MCShortestPath ----------------------------
(***************************************************************************)
(* A small instance of ShortestPath for TLC: shapes with several paths to  *)
(* a vertex, ties, cycles of cost zero and a vertex that is not reached,   *)
(* to which vertices and edges are added.                                  *)
(***************************************************************************)
EXTENDS ShortestPath, SequencesExt

To(u, c) == [dstID |-> u, cost |-> c]

GraphSet ==
    {<<>>,
     <<<<>>, <<To(1, 1)>>>>,
     <<<<To(3, 2), To(2, 1)>>, <<To(3, 1)>>, <<To(2, 1), To(4, 1)>>>>,                \* an edge to nowhere
     <<<<To(2, 1), To(3, 1)>>, <<To(4, 1)>>, <<To(4, 1)>>, <<To(1, 0)>>>>,            \* a tie
     <<<<To(2, 0), To(3, 3)>>, <<To(1, 0), To(3, 1)>>, <<To(2, 0)>>, <<>>>>,          \* cycles of cost 0
     <<<<To(4, 5), To(2, 1)>>, <<To(3, 1)>>, <<To(4, 1), To(1, 2)>>, <<To(3, 0)>>>>}  \* the longer way is cheaper

(* A negative cost is refused; one of MaxInt makes a sum overflow.         *)
CostSet == {-1, 0, 2, 15}

=============================================================================
