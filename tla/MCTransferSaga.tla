---------------------------- MODULE MCTransferSaga ----------------------------
(***************************************************************************)
(* Instances of TransferSaga for TLC.                                      *)
(***************************************************************************)
EXTENDS TransferSaga

CONSTANTS a1, a2, ghost, t1, t2, t3, w1, w2

\* Every account hashes to the same partition.
OnePartition == [a \in AccountIds |-> 1]

\* Two accounts on two partitions; the id that was never opened shares one.
TwoPartitions == [a \in AccountIds |-> IF a = a1 THEN 1 ELSE 2]
=============================================================================
