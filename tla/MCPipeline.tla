------------------------------ MODULE MCPipeline ------------------------------
(***************************************************************************)
(* A small instance of Pipeline for TLC.                                    *)
(***************************************************************************)
EXTENDS Pipeline

Pool(n)      == [kind |-> "pool", workers |-> n]
Broadcast(n) == [kind |-> "broadcast", workers |-> n]

(* The ends of the crawler's pipeline: a pool of fetchers, a broadcast to  *)
(* the graph updater and the text indexer.                                 *)
PoolThenBroadcast == <<Pool(2), Broadcast(2)>>

=============================================================================
