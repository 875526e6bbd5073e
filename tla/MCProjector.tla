----------------------------- MODULE MCProjector -----------------------------
(***************************************************************************)
(* Instances of Projector for TLC.                                         *)
(***************************************************************************)
EXTENDS Projector

CONSTANTS a1, a2, bad, t1, t2

\* Two accounts on two partitions; ids never opened share the second.
TwoPartitions == [a \in AccountIds |-> IF a = a1 THEN 1 ELSE 2]
=============================================================================
