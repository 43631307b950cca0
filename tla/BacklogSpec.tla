----------------------------- MODULE BacklogSpec -----------------------------
(***************************************************************************)
(* What a backend's disk queue promises to whoever spills a batch to it:    *)
(* first in, first out, at least once.  There is no action that forgets a   *)
(* batch, reorders two of them or drops one that was not settled; a crash   *)
(* is not visible at all.                                                   *)
(***************************************************************************)
EXTENDS Naturals, Sequences

CONSTANT Batch

VARIABLES
    queue,      \* the batches held, oldest first
    settled     \* the batches the server applied or refused for good

vars == <<queue, settled>>

Init ==
    /\ queue = <<>>
    /\ settled = {}

\* A batch is spilled, once.
Hold(b) ==
    /\ b \notin {queue[i] : i \in DOMAIN queue}
    /\ queue' = Append(queue, b)
    /\ UNCHANGED settled

\* The server settles a batch that is not held, straight from the task that
\* carries it, ...
SettleDirectly(b) ==
    /\ b \notin {queue[i] : i \in DOMAIN queue}
    /\ settled' = settled \union {b}
    /\ UNCHANGED queue

\* ... or one that is held when all older ones are settled; posting a settled
\* batch again changes nothing.
SettleHeld ==
    /\ \E i \in DOMAIN queue :
        /\ \A j \in 1..(i - 1) : queue[j] \in settled
        /\ settled' = settled \union {queue[i]}
    /\ UNCHANGED queue

\* The oldest batches leave the queue, settled.
Release ==
    /\ \E n \in DOMAIN queue :
        /\ \A i \in 1..n : queue[i] \in settled
        /\ queue' = SubSeq(queue, n + 1, Len(queue))
    /\ UNCHANGED settled

Next ==
    \/ \E b \in Batch : Hold(b) \/ SettleDirectly(b)
    \/ SettleHeld
    \/ Release

Spec == Init /\ [][Next]_vars

=============================================================================
