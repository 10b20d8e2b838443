------------------------------ MODULE MCBSPGraph ------------------------------
(***************************************************************************)
(* A small instance of BSPGraph for TLC; MCBSPGraph.cfg gives its bounds.  *)
(* No symmetry: the run checks liveness.                                   *)
(***************************************************************************)
EXTENDS BSPGraph
=============================================================================
