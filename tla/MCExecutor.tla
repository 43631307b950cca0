------------------------------ MODULE MCExecutor ------------------------------
(* An instance of Executor for TLC: three circles, one backend each. *)
EXTENDS Executor, TLC

CONSTANTS c1, c2, c3

MCBackend == {c1, c2, c3}
MCWriteOnly == {c3}
MCSymmetry == Permutations({c1, c2})

=============================================================================
