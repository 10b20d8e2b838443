------------------------------ MODULE Partition ------------------------------
(***************************************************************************)
(* src/partition/partition.go: a range of ids is split into partitions of  *)
(* equal size, the last of which takes the remainder.                      *)
(*                                                                         *)
(* An id, 16 bytes in the code, is a natural number up to MaxID.  The      *)
(* partitions' ends are computed as numbers and made ids by                *)
(* uuid.FromBytes, which accepts 16 bytes and no fewer; a number below     *)
(* ShortBelow (2^120 in the code) has fewer, as big.Int.Bytes leaves out   *)
(* leading zeros.                                                          *)
(***************************************************************************)
EXTENDS Integers

CONSTANTS MaxID,        \* the id ffffffff-ffff-ffff-ffff-ffffffffffff
          ShortBelow    \* ids below it begin with a zero byte

ASSUME IDAssumption == MaxID \in Nat \ {0} /\ ShortBelow \in 0..MaxID

ID == 0..MaxID

(* (end - start + 1) / n                                                   *)
PartSize(start, end, n) == (end - start + 1) \div n

(* rangeSplits[p]: where partition p of n ends.                            *)
Split(start, end, n, p) == IF p = n - 1 THEN end ELSE PartSize(start, end, n) * (p + 1)

(* NewRange returns a range and no error.                                  *)
ValidRange(start, end, n) ==
    /\ start < end
    /\ n > 0
    /\ \A p \in 0..n - 2 : Split(start, end, n, p) >= ShortBelow

(* PartitionExtents: partition p is From .. To - 1.                        *)
ValidPartition(n, p) == p >= 0 /\ p < n

From(start, end, n, p) == IF p = 0 THEN start ELSE Split(start, end, n, p - 1)
To(start, end, n, p) == Split(start, end, n, p)

Extent(start, end, n, p) == {id \in ID : From(start, end, n, p) <= id /\ id < To(start, end, n, p)}

(* NewFullRange(n) and the ids of its partition p.                         *)
ValidFullRange(n) == ValidRange(0, MaxID, n)
FullExtent(n, p) == Extent(0, MaxID, n, p)
=============================================================================
