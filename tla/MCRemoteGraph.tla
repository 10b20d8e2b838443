---------------------------- MODULE MCRemoteGraph ----------------------------
(***************************************************************************)
(* A small instance of RemoteGraph for TLC: a query for all links or edges *)
(* or for those of a partition, over a stream with room for one message.   *)
(***************************************************************************)
EXTENDS RemoteGraph

RangeSet == {LinkID, {CHOOSE id \in LinkID : TRUE}}
=============================================================================
