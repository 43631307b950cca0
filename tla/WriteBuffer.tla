----------------------------- MODULE WriteBuffer -----------------------------
(***************************************************************************)
(* The write path of one backend up to the pool (backend/backend.go): the   *)
(* handlers that call WritePoint, the channel, the worker goroutine with    *)
(* its buffer per database and retention policy, the flush timer, the       *)
(* bounded pool and Close.                                                  *)
(*                                                                          *)
(* A buffer's Counter is the length of its sequence and its Buffer is nil   *)
(* when the sequence is empty.  The worker is at "top" where the loop tests *)
(* IsRunning, at "select" where it waits, at "full" and "flush" while       *)
(* FlushBuffer waits for the pool, at "wait" in wg.Wait; it ends "drained", *)
(* or "left" when the loop's test fails.  Its third select case, the        *)
(* rewrite tick, changes none of this state.                                *)
(***************************************************************************)
EXTENDS Naturals, Sequences, SequencesExt

CONSTANTS
    Point,      \* the points written, each by a call of its own
    Key,        \* pairs of database and retention policy
    KeyOf,      \* KeyOf[p]: where p belongs
    ChanCap,    \* capacity of chWrite
    FlushSize,  \* flush_size
    PoolSize,   \* conn_pool_size
    MayClose    \* whether Close may be called

ASSUME KeyOfPoint == KeyOf \in [Point -> Key]
ASSUME BoundsPositive == {ChanCap, FlushSize, PoolSize} \subseteq Nat \ {0}
ASSUME MayCloseIsBoolean == MayClose \in BOOLEAN

VARIABLES
    sender,     \* sender[p]: where the call WritePoint(p) stands
    chWrite,    \* the channel's content
    closed,     \* the channel was closed
    running,    \* ib.running
    buffers,    \* buffers[k]: the points collected for k
    chTimer,    \* "nil", "armed" or "due"
    worker,     \* where the worker stands
    busy,       \* pool tasks that run, also the count in ib.wg
    sent,       \* history: the points in the order the channel took them
    batches     \* history: per key, the batches in the order of submission

vars == <<sender, chWrite, closed, running, buffers, chTimer, worker, busy, sent, batches>>

WorkerStates == {"top", "select", "full", "flush", "wait", "drained", "left"}

TypeOK ==
    /\ sender \in [Point -> {"new", "checked", "sent", "refused", "panic"}]
    /\ chWrite \in Seq(Point)
    /\ closed \in BOOLEAN
    /\ running \in BOOLEAN
    /\ buffers \in [Key -> Seq(Point)]
    /\ chTimer \in {"nil", "armed", "due"}
    /\ worker \in WorkerStates
    /\ busy \in 0..PoolSize
    /\ sent \in Seq(Point)
    /\ batches \in [Key -> Seq(Seq(Point))]

Init ==
    /\ sender = [p \in Point |-> "new"]
    /\ chWrite = <<>>
    /\ closed = FALSE
    /\ running = TRUE
    /\ buffers = [k \in Key |-> <<>>]
    /\ chTimer = "nil"
    /\ worker = "top"
    /\ busy = 0
    /\ sent = <<>>
    /\ batches = [k \in Key |-> <<>>]

-----------------------------------------------------------------------------
(* WritePoint: the test, then the send, which waits for room. *)

Check(p) ==
    /\ sender[p] = "new"
    /\ sender' = [sender EXCEPT ![p] = IF running THEN "checked" ELSE "refused"]
    /\ UNCHANGED <<chWrite, closed, running, buffers, chTimer, worker, busy, sent, batches>>

Send(p) ==
    /\ sender[p] = "checked"
    /\ ~closed
    /\ Len(chWrite) < ChanCap
    /\ sender' = [sender EXCEPT ![p] = "sent"]
    /\ chWrite' = Append(chWrite, p)
    /\ sent' = Append(sent, p)
    /\ UNCHANGED <<closed, running, buffers, chTimer, worker, busy, batches>>

\* Close came between the test and the send, which panics.  The HTTP server
\* recovers the panic of a handler: its point is gone, and the rest goes on.
SendOnClosed(p) ==
    /\ sender[p] = "checked"
    /\ closed
    /\ sender' = [sender EXCEPT ![p] = "panic"]
    /\ UNCHANGED <<chWrite, closed, running, buffers, chTimer, worker, busy, sent, batches>>

-----------------------------------------------------------------------------
(* Close, in its two steps. *)

CloseStop ==
    /\ MayClose /\ running
    /\ running' = FALSE
    /\ UNCHANGED <<sender, chWrite, closed, buffers, chTimer, worker, busy, sent, batches>>

CloseChannel ==
    /\ ~running /\ ~closed
    /\ closed' = TRUE
    /\ UNCHANGED <<sender, chWrite, running, buffers, chTimer, worker, busy, sent, batches>>

-----------------------------------------------------------------------------
(* The worker. *)

WorkerGoes(from, to) == worker = from /\ worker' = to

Top ==
    /\ WorkerGoes("top", IF running THEN "select" ELSE "left")
    /\ UNCHANGED <<sender, chWrite, closed, running, buffers, chTimer, busy, sent, batches>>

\* WriteBuffer: at flush_size the buffer is flushed; below it the timer is
\* armed unless it is already.
WriteBuffer(p) ==
    LET k == KeyOf[p]
        buffer == Append(buffers[k], p)
    IN /\ buffers' = [buffers EXCEPT ![k] = buffer]
       /\ IF Len(buffer) >= FlushSize
          THEN worker' = "full" /\ UNCHANGED chTimer
          ELSE /\ worker' = "top"
               /\ chTimer' = IF chTimer = "nil" THEN "armed" ELSE chTimer

Receive ==
    /\ worker = "select"
    /\ chWrite # <<>>
    /\ chWrite' = Tail(chWrite)
    /\ WriteBuffer(Head(chWrite))
    /\ UNCHANGED <<sender, closed, running, busy, sent, batches>>

\* The two cases that flush: the channel is closed and empty, the timer is due.
Flush ==
    /\ chTimer' = "nil"
    /\ WorkerGoes("select", "flush")
    /\ UNCHANGED <<sender, chWrite, closed, running, buffers, busy, sent, batches>>

OnClosed == closed /\ chWrite = <<>> /\ Flush

OnTimer == chTimer = "due" /\ Flush

\* The mistake of not emptying the buffer.
FlushBufferKeeps(k) ==
    /\ busy < PoolSize
    /\ busy' = busy + 1
    /\ batches' = [batches EXCEPT ![k] = Append(@, buffers[k])]
    /\ UNCHANGED <<sender, chWrite, closed, running, buffers, chTimer, sent>>

\* The mistake of disarming the timer, which other keys' points may need.
FlushBufferDisarms(k) ==
    /\ busy < PoolSize
    /\ busy' = busy + 1
    /\ buffers' = [buffers EXCEPT ![k] = <<>>]
    /\ batches' = [batches EXCEPT ![k] = Append(@, buffers[k])]
    /\ chTimer' = "nil"
    /\ UNCHANGED <<sender, chWrite, closed, running, sent>>

\* FlushBuffer: the buffer is emptied and its content submitted, once the pool
\* has a free worker.
FlushBuffer(k) ==
    /\ busy < PoolSize
    /\ busy' = busy + 1
    /\ buffers' = [buffers EXCEPT ![k] = <<>>]
    /\ batches' = [batches EXCEPT ![k] = Append(@, buffers[k])]
    /\ UNCHANGED <<sender, chWrite, closed, running, chTimer, sent>>

FlushFull ==
    \E k \in Key :
        /\ Len(buffers[k]) >= FlushSize
        /\ FlushBuffer(k)
        /\ WorkerGoes("full", "top")

\* Flush's loop over the buffers, in the order of a Go map: any.
FlushNext ==
    \E k \in Key :
        /\ buffers[k] # <<>>
        /\ FlushBuffer(k)
        /\ WorkerGoes("flush", "flush")

\* The mistake of leaving the loop with buffers unflushed when shutting down.
FlushEndEarly ==
    /\ WorkerGoes("flush", IF running THEN "top" ELSE "wait")
    /\ running => \A k \in Key : buffers[k] = <<>>
    /\ UNCHANGED <<sender, chWrite, closed, running, buffers, chTimer, busy, sent, batches>>

\* After the loop: a running worker goes on, a stopped one waits for its tasks.
FlushEnd ==
    /\ WorkerGoes("flush", IF running THEN "top" ELSE "wait")
    /\ \A k \in Key : buffers[k] = <<>>
    /\ UNCHANGED <<sender, chWrite, closed, running, buffers, chTimer, busy, sent, batches>>

Drained ==
    /\ WorkerGoes("wait", "drained")
    /\ busy = 0
    /\ UNCHANGED <<sender, chWrite, closed, running, buffers, chTimer, busy, sent, batches>>

TimerDue ==
    /\ chTimer = "armed"
    /\ chTimer' = "due"
    /\ UNCHANGED <<sender, chWrite, closed, running, buffers, worker, busy, sent, batches>>

\* The mistake of a task that does not call wg.Done.
TaskWithoutDone ==
    /\ busy > 0
    /\ UNCHANGED vars

\* A pool task ends, however it fared.
TaskDone ==
    /\ busy > 0
    /\ busy' = busy - 1
    /\ UNCHANGED <<sender, chWrite, closed, running, buffers, chTimer, worker, sent, batches>>

WorkerNext == Top \/ FlushFull \/ FlushNext \/ FlushEnd \/ Drained

Next ==
    \/ \E p \in Point : Check(p) \/ Send(p) \/ SendOnClosed(p)
    \/ CloseStop
    \/ CloseChannel
    \/ Receive
    \/ OnClosed
    \/ OnTimer
    \/ WorkerNext
    \/ TimerDue
    \/ TaskDone

\* The worker runs when it can, and its select takes every case that stays
\* ready; the timer comes due; tasks end, posts having a timeout; Close goes on
\* to close the channel.
Fairness ==
    /\ WF_vars(WorkerNext)
    /\ WF_vars(Receive)
    /\ WF_vars(OnClosed)
    /\ WF_vars(OnTimer)
    /\ WF_vars(TimerDue)
    /\ WF_vars(TaskDone)
    /\ WF_vars(CloseChannel)

Spec == Init /\ [][Next]_vars /\ Fairness

-----------------------------------------------------------------------------
(* What the write path promises. *)

\* The points of key k among points, in their order.
Of(k, points) ==
    FlattenSeq([i \in 1..Len(points) |-> IF KeyOf[points[i]] = k THEN <<points[i]>> ELSE <<>>])

\* For every key the batches submitted, the buffer and the channel together
\* are the points sent for it, in the order they were sent: nothing is lost,
\* doubled, reordered or put under another key before it reaches the pool.
PointsInOrder ==
    \A k \in Key :
        FlattenSeq(batches[k]) \o buffers[k] \o Of(k, chWrite) = Of(k, sent)

\* While the worker waits, points in a buffer have a timer that will flush
\* them: Flush clears it and flushes all, a size flush clears neither.
TimerArmed ==
    worker \in {"top", "select"} /\ (\E k \in Key : buffers[k] # <<>>) => chTimer # "nil"

\* A worker that shut down in order left no running task behind, and submitted all it
\* had received (worker's two paths to HttpBackend.Close): of the points the channel
\* took only those are missing that it still holds, which may be some where the timer
\* stopped the worker.  A worker whose loop's test stopped it promises nothing.
DrainedIsEmpty ==
    worker = "drained" =>
        /\ busy = 0
        /\ \A k \in Key : /\ buffers[k] = <<>>
                          /\ FlattenSeq(batches[k]) \o Of(k, chWrite) = Of(k, sent)

Submitted(p) == \E k \in Key : \E i \in DOMAIN batches[k] : p \in ToSet(batches[k][i])

\* As long as the backend runs, a point the channel took is submitted to the
\* pool: by size, or by the timer; a full pool only delays it.
EveryPointSubmitted ==
    []running => \A p \in Point : sender[p] = "sent" ~> Submitted(p)

\* Close ends the worker, on whichever of the three ways out.
CloseEnds == ~running ~> worker \in {"drained", "left"}

=============================================================================
