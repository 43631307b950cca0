---------------------------- MODULE MCWriteBuffer ----------------------------
(* An instance of WriteBuffer for TLC: three points of one key, one of another. *)
EXTENDS WriteBuffer

CONSTANTS p1, p2, p3, p4, k1, k2

MCPoint == {p1, p2, p3, p4}
MCKey == {k1, k2}
MCKeyOf == [p \in Point |-> IF p = p4 THEN k2 ELSE k1]

=============================================================================
