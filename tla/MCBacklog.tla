------------------------------ MODULE MCBacklog ------------------------------
(* Instances of Backlog for TLC: payloads of one and two cells. *)
EXTENDS Backlog, TLC

CONSTANTS b1, b2, b3

MCBatch == {b1, b2, b3}
MCTwoBatches == {b1, b2}
MCSize == [b \in Batch |-> IF b = b2 THEN 2 ELSE 1]

\* The batches of one size are interchangeable, which no invariant tells apart.
MCSymmetry == Permutations({b1, b3})

=============================================================================
