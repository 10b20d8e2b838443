------------------------------ MODULE MCCluster ------------------------------
(***************************************************************************)
(* A small instance of Cluster for TLC.  Edges are not touched; the links' *)
(* ids are one in each of the two partitions.                              *)
(***************************************************************************)
EXTENDS Cluster

NoEdges == {}

=============================================================================
