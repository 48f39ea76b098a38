----------------------------- MODULE MCConsumer -----------------------------
(***************************************************************************)
(* Small instances of Consumer for TLC.                                    *)
(***************************************************************************)
EXTENDS Consumer, TLC

CONSTANTS p1, p2, w1, w2, t1, t2, t3

MCOffsets == 0..(LogEnd - 1)

\* js.consumer.max.batch.size = -1
MCUnbounded == -1

Symmetry == Permutations(Workers)
=============================================================================
