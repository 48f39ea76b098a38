--------------------------- MODULE MCMessageCache ---------------------------
(***************************************************************************)
(* A small instance of MessageCache for TLC: two partitions, two workers.  *)
(***************************************************************************)
EXTENDS MessageCache, TLC

CONSTANTS p1, p2, w1, w2, t1, t2, t3

MCOffsets == 0..1

MCBatchSizes == {1, -1}

\* Workers are interchangeable.  (Tags are not: NewPpc chooses among them.)
Symmetry == Permutations(Workers)
=============================================================================
