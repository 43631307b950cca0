------------------------------ MODULE MCTransfer ------------------------------
(* An instance of Transfer for TLC: two proxies and two circles. *)
EXTENDS Transfer, TLC

CONSTANTS p1, p2, c1, c2, o1, o2, m1

MCProxy == {p1, p2}
MCCircle == {c1, c2}
MCOp == {o1, o2}
MCMover == {m1}
MCSymmetry == Permutations(MCOp)

JobOf(kind, p, from, to) == [kind |-> kind, proxy |-> p, from |-> from, to |-> to]

\* On one proxy each kind, with both circles, and some on the other one.
MCJob == {JobOf("rebalance", p1, c1, c1), JobOf("cleanup", p1, c2, c2),
          JobOf("recovery", p1, c1, c2), JobOf("resync", p1, c1, c1),
          JobOf("recovery", p2, c2, c1), JobOf("resync", p2, c1, c1)}

\* A rebalance of each circle, on one proxy: o1 that of c1, o2 that of c2.
MCRebalances == {JobOf("rebalance", p1, c1, c1), JobOf("rebalance", p1, c2, c2)}

TwoCircles == job[o1].to = c1 /\ job[o2].to = c2

TwoCirclesSpec == Init /\ TwoCircles /\ [][Next]_vars /\ Fairness

=============================================================================
