-------------------------------- MODULE Moves --------------------------------
(***************************************************************************)
(* Which measurements an operation of the transfer moves, and where to      *)
(* (the run functions of transfer/transfer.go).  A backend is a pair of its *)
(* circle and its index; ring[c][k] is circle c's backend for the key k,    *)
(* has[b] are the keys whose data the backend b has, and up are the         *)
(* backends that are gone through and active: the others are passed over,   *)
(* and what goes to them fails.                                             *)
(*                                                                          *)
(* The measurements are listed while others are copied.  A copy that is     *)
(* listed too is at its home, where only Resync moves on from: there the    *)
(* circles follow each other, and within one circle nothing is added.       *)
(* A backend that is being removed (operation "rm" of a rebalance) is one   *)
(* of its circle's that no key belongs to any more.  Only the rebalance it  *)
(* is named to goes through it: the other operations go through the         *)
(* backends the circle is configured with.                                  *)
(***************************************************************************)
EXTENDS Naturals, Sequences

\* runTransfer: what the active backends of circle c have.
Listed(has, up, c) == UNION {{b} \X has[b] : b \in {x \in up : x[1] = c}}

\* submitTransfer, for x a pair of backend and key.
Task(x, dsts) == [src |-> x[1], key |-> x[2], dsts |-> dsts]

\* What there is when the tasks have been done.
Copied(has, up, tasks) ==
    [b \in DOMAIN has |-> has[b] \cup {t.key : t \in {u \in tasks : b \in u.dsts \cap up}}]

\* What is not at its home goes there.
Rebalance(has, up, ring, c) ==
    LET require == {x \in Listed(has, up, c) : ring[c][x[2]] # x[1]}
    IN  Copied(has, up, {Task(x, {ring[c][x[2]]}) : x \in require})

\* To the other circle, as far as the backend there is among the given ones; none
\* given stands for all.
Recovery(has, up, ring, from, to, given) ==
    LET require == {x \in Listed(has, up, from) : given = {} \/ ring[to][x[2]] \in given}
    IN  Copied(has, up, {Task(x, {ring[to][x[2]]}) : x \in require})

\* One circle's turn in a resync: what it has goes to all the others.
ResyncFrom(has, up, ring, c) ==
    Copied(has, up, {Task(x, {ring[d][x[2]] : d \in DOMAIN ring \ {c}}) : x \in Listed(has, up, c)})

\* One circle after the other.
Resync(has, up, ring) ==
    LET after[c \in 0..Len(ring)] ==
            IF c = 0 THEN has ELSE ResyncFrom(after[c - 1], up, ring, c)
    IN  after[Len(ring)]

\* A mistake: the first circle's ring decides.
CleanupByFirstRing(has, up, ring, c) ==
    [b \in DOMAIN has |-> IF b[1] = c /\ b \in up THEN {k \in has[b] : ring[1][k][2] = b[2]}
                          ELSE has[b]]

\* What is not at its home is dropped, from the circle's configured backends.
Cleanup(has, up, ring, c) ==
    [b \in DOMAIN has |-> IF b[1] = c /\ b \in up THEN {k \in has[b] : ring[c][k] = b}
                          ELSE has[b]]

-----------------------------------------------------------------------------
(* What the operations promise, for any placement. *)

\* Every key has a home in every circle, and every backend is of a circle.
IsPlacement(has, up, ring) ==
    /\ Len(ring) \in Nat /\ DOMAIN ring = 1..Len(ring)
    /\ up \subseteq DOMAIN has
    /\ \A b \in DOMAIN has : /\ b[1] \in DOMAIN ring
                             /\ \A k \in has[b], c \in DOMAIN ring :
                                   ring[c][k] \in DOMAIN has /\ ring[c][k][1] = c

\* The keys an operation finds in circle c.
Seen(has, up, c) == {x[2] : x \in Listed(has, up, c)}

\* A rebalance, then a cleanup that goes through the backends of visited (runRebalance,
\* runCleanup): what was seen in the circle is at its home if that was up; a backend
\* that was visited has nothing else, and one that was not, such as one being removed,
\* loses nothing; other circles are not touched.
CleanupIsSafe(has, up, ring) ==
    \A c \in DOMAIN ring, b \in DOMAIN has, visited \in SUBSET DOMAIN has :
        LET brought == {k \in Seen(has, up, c) : ring[c][k] = b /\ b \in up}
        IN  Cleanup(Rebalance(has, up, ring, c), visited, ring, c)[b] =
                IF b[1] # c THEN has[b]
                ELSE IF b \in visited THEN {k \in has[b] : ring[c][k] = b} \cup brought
                ELSE has[b] \cup brought

\* A recovery (runRecovery): the given backends of the other circle that are up have
\* all that was seen and belongs to them, and no other backend has anything new.
RecoveryIsWhole(has, up, ring) ==
    \A from, to \in DOMAIN ring, given \in SUBSET DOMAIN has, b \in DOMAIN has :
        Recovery(has, up, ring, from, to, given)[b] =
            has[b] \cup {k \in Seen(has, up, from) :
                             /\ ring[to][k] = b /\ b \in up
                             /\ given = {} \/ b \in given}

\* A resync (runResync): what was seen in a circle is in all others, and in itself once
\* a circle behind it had it; nothing is lost, and a key comes only to its home, from
\* a backend that was up.
ResyncIsWhole(has, up, ring) ==
    LET resynced == Resync(has, up, ring)
        seen(k) == \E c \in DOMAIN ring : k \in Seen(has, up, c)
    IN  /\ \A c, d \in DOMAIN ring : \A k \in Seen(has, up, c) :
               c # d /\ ring[d][k] \in up =>
                   /\ k \in resynced[ring[d][k]]
                   /\ c < d /\ ring[c][k] \in up => k \in resynced[ring[c][k]]
        /\ \A b \in DOMAIN has :
               /\ has[b] \subseteq resynced[b]
               /\ \A k \in resynced[b] \ has[b] : b \in up /\ b = ring[b[1]][k] /\ seen(k)

=============================================================================
