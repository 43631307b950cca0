------------------------------- MODULE Backlog -------------------------------
(***************************************************************************)
(* One backend's delivery machinery (backend/backend.go, backend/http.go)   *)
(* over its disk queue: the pool tasks FlushBuffer submits, which post a    *)
(* batch and spill it to the file when that fails; the worker's tick that   *)
(* starts the rewriter; the rewriter's loop; CheckActive; the process dying *)
(* and coming back.  Goroutines interleave at every access to the file, the *)
(* "active" and "rewriting" flags and the network.                          *)
(*                                                                          *)
(* A post ends in one of five ways: "ok" (204), "drop" (400, 404, unknown   *)
(* retention policy: the code gives the batch up), "error" (any other       *)
(* status), "unreachable" (transport error, nothing applied) and            *)
(* "lostreply" (transport error after the server applied the batch).        *)
(***************************************************************************)
EXTENDS FileBackend, Ranks

CONSTANTS
    PoolSize,   \* conn_pool_size: tasks running at once
    MaxCrashes, \* bound on the crashes of one behaviour
    Faults      \* which faults besides the network's may happen

ASSUME PoolSizePositive == PoolSize \in Nat \ {0}
ASSUME MaxCrashesNat == MaxCrashes \in Nat

\* Disk errors in Write ("length", "payload", "sync") and UpdateMeta ("meta"),
\* and crashes by where they hit: inside Write between length and payload
\* ("torn"), between CleanUp and the write of .rec ("truncated"), elsewhere
\* ("idle").  CleanUp's own errors (a failed Truncate, Close or reopening) are not
\* among them.
AllFaults == {"length", "payload", "sync", "meta", "torn", "truncated", "idle"}

ASSUME FaultsKnown == Faults \subseteq AllFaults

VARIABLES
    task,       \* task[b]: where the pool task of batch b stands
    rewriter,   \* where the rewriter stands, "off" when there is none
    inflight,   \* the set holding the batch the rewriter has read, if any
    active,     \* HttpBackend.active
    rewriting,  \* HttpBackend.rewriting
    healthy,    \* the InfluxDB server answers properly
    delivered,  \* history: batches the server applied
    rejected,   \* history: batches given up on a 400 or 404
    accepted,   \* history: batches fb.Write returned nil for
    exposed,    \* history: batches accepted behind a torn frame
    confirmed,  \* history: replayed batches whose UpdateMeta succeeded
    crashes     \* number of crashes so far

netVars == <<active, healthy>>
histVars == <<delivered, rejected, accepted, exposed, confirmed>>
rwVars == <<rewriter, inflight, rewriting>>
vars == <<fileVars, task, rwVars, netVars, histVars, crashes>>

TaskStates == {"new", "check", "post", "spill", "payload", "done", "gone"}
RewriterStates == {"off", "loop", "length", "payload", "post", "rollback",
                   "update", "meta", "exit"}

TypeOK ==
    /\ FileTypeOK
    /\ task \in [Batch -> TaskStates]
    /\ rewriter \in RewriterStates
    /\ inflight \in SUBSET Batch
    /\ active \in BOOLEAN
    /\ rewriting \in BOOLEAN
    /\ healthy \in BOOLEAN
    /\ delivered \in SUBSET Batch
    /\ rejected \in SUBSET Batch
    /\ accepted \in SUBSET Batch
    /\ exposed \in SUBSET Batch
    /\ confirmed \in SUBSET Batch
    /\ crashes \in 0..MaxCrashes

Init ==
    /\ FileInit
    /\ task = [b \in Batch |-> "new"]
    /\ rewriter = "off"
    /\ inflight = {}
    /\ active = TRUE
    /\ rewriting = FALSE
    /\ healthy \in BOOLEAN
    /\ delivered = {}
    /\ rejected = {}
    /\ accepted = {}
    /\ exposed = {}
    /\ confirmed = {}
    /\ crashes = 0

Running == {"check", "post", "spill", "payload"}

TaskGoes(b, from, to) ==
    /\ task[b] = from
    /\ task' = [task EXCEPT ![b] = to]

-----------------------------------------------------------------------------
(* The network. *)

Outcomes ==
    IF healthy THEN {"ok", "drop"}
    ELSE {"ok", "drop", "error", "unreachable", "lostreply"}

\* WriteCompressed of the batches bs (one batch, or none for garbage).
WriteCompressed(bs, outcome) ==
    /\ outcome \in Outcomes
    /\ delivered' = IF outcome \in {"ok", "lostreply"} THEN delivered \union bs ELSE delivered
    /\ rejected' = IF outcome = "drop" THEN rejected \union bs ELSE rejected
    /\ active' = IF outcome \in {"unreachable", "lostreply"} THEN FALSE ELSE active
    /\ UNCHANGED healthy

\* The mistake of treating every answered status as final.
GivenUpOnAnyAnswer(outcome) == outcome \in {"ok", "drop", "error"}

\* The outcomes after which the code lets the batch go.
GivenUp(outcome) == outcome \in {"ok", "drop"}

\* What a ping may return: a sick server may still answer it.
Ping == IF healthy THEN {TRUE} ELSE BOOLEAN

\* One round of CheckActive.  (A ping that failed before the server recovered
\* and is stored after it has the same effect as one stored before: a sick
\* server may answer posts well, too.)
CheckActive ==
    /\ active' \in Ping
    /\ UNCHANGED <<fileVars, task, rwVars, healthy, histVars, crashes>>

ServerChanges ==
    /\ healthy' = ~healthy
    /\ UNCHANGED <<fileVars, task, rwVars, active, histVars, crashes>>

-----------------------------------------------------------------------------
(* The pool task of a batch. *)

\* FlushBuffer hands the batch to the pool; Submit waits for a free worker.
Submit(b) ==
    /\ Cardinality({c \in Batch : task[c] \in Running}) < PoolSize
    /\ TaskGoes(b, "new", "check")
    /\ UNCHANGED <<fileVars, rwVars, netVars, histVars, crashes>>

TaskCheck(b) ==
    /\ TaskGoes(b, "check", IF active THEN "post" ELSE "spill")
    /\ UNCHANGED <<fileVars, rwVars, netVars, histVars, crashes>>

TaskPost(b) ==
    /\ \E outcome \in Outcomes :
        /\ WriteCompressed({b}, outcome)
        /\ TaskGoes(b, "post", IF GivenUp(outcome) THEN "done" ELSE "spill")
    /\ UNCHANGED <<fileVars, rwVars, accepted, exposed, confirmed, crashes>>

\* fb.Write, whose error is only logged: the batch is gone then.
TaskWriteLength(b) ==
    /\ \E ok \in BOOLEAN :
        /\ ok \/ "length" \in Faults
        /\ WriteLength(b, ok)
        /\ TaskGoes(b, "spill", IF ok THEN "payload" ELSE "gone")
    /\ UNCHANGED <<rwVars, netVars, histVars, crashes>>

TaskWritePayload(b) ==
    /\ \E n \in 0..Size[b], result \in {"ok", "payload", "sync"} :
        /\ result = "ok" \/ result \in Faults
        /\ WritePayload(b, n, result)
        /\ TaskGoes(b, "payload", IF result = "ok" THEN "done" ELSE "gone")
        /\ accepted' = IF result = "ok" THEN accepted \union {b} ELSE accepted
        /\ exposed' = IF result = "ok" /\ Torn THEN exposed \union {b} ELSE exposed
    /\ UNCHANGED <<rwVars, netVars, delivered, rejected, confirmed, crashes>>

-----------------------------------------------------------------------------
(* The rewriter. *)

RewriterGoes(from, to) == rewriter = from /\ rewriter' = to

\* The worker's tick: RewriteIdle starts RewriteLoop when none runs.
RewriteIdle ==
    /\ lock = "free"
    /\ ~rewriting /\ IsData
    /\ rewriting' = TRUE
    /\ RewriterGoes("off", "loop")
    /\ UNCHANGED <<inflight, fileVars, task, netVars, histVars, crashes>>

\* The head of RewriteLoop.  While data is there and the backend is inactive
\* it sleeps, which changes nothing; only the rewriter lowers the flag, so
\* reading it and "active" in one step loses no behaviour.
RewriteLoop ==
    /\ lock = "free"
    /\ \/ ~IsData /\ RewriterGoes("loop", "exit")
       \/ IsData /\ active /\ RewriterGoes("loop", "length")
    /\ UNCHANGED <<inflight, rewriting, fileVars, task, netVars, histVars, crashes>>

\* The mistake of leaving the flag up.
RewriteLoopExitFlagUp ==
    /\ RewriterGoes("exit", "off")
    /\ UNCHANGED <<rewriting, inflight, fileVars, task, netVars, histVars, crashes>>

RewriteLoopExit ==
    /\ RewriterGoes("exit", "off")
    /\ rewriting' = FALSE
    /\ UNCHANGED <<inflight, fileVars, task, netVars, histVars, crashes>>

\* Read's length; at the end of the file it fails and the loop sleeps.
RewriteReadLength ==
    /\ \/ ReadLength /\ RewriterGoes("length", "payload")
       \/ consumer >= Len(dat) /\ RewriterGoes("length", "loop") /\ UNCHANGED fileVars
    /\ UNCHANGED <<inflight, rewriting, task, netVars, histVars, crashes>>

\* Read's payload.  A batch goes to the server; garbage goes there under a
\* wrong name, or fails to split or unescape and is skipped; a short read
\* fails.  Neither failure moves the consumer back.
RewriteReadPayload ==
    /\ rewriter = "payload"
    /\ \E offset \in ReadOffsets :
        /\ ReadPayload(offset)
        /\ \/ /\ ~ReadFails
              /\ inflight' = IF ReadsFrame THEN {dat[consumer].rec} ELSE {}
              /\ RewriterGoes("payload", "post")
           \/ /\ ~ReadsFrame
              /\ RewriterGoes("payload", "loop")
              /\ UNCHANGED inflight
    /\ UNCHANGED <<rewriting, task, netVars, histVars, crashes>>

RewritePost ==
    /\ \E outcome \in Outcomes :
        /\ WriteCompressed(inflight, outcome)
        /\ RewriterGoes("post", IF GivenUp(outcome) THEN "update" ELSE "rollback")
    /\ UNCHANGED <<inflight, rewriting, fileVars, task, accepted, exposed, confirmed, crashes>>

\* Whatever RollbackMeta returns, the loop goes on from where the consumer is.
RewriteRollback ==
    /\ RollbackMeta
    /\ RewriterGoes("rollback", "loop")
    /\ inflight' = {}
    /\ UNCHANGED <<rewriting, task, netVars, histVars, crashes>>

RewriteUpdateBegin ==
    /\ UpdateMetaBegin
    /\ RewriterGoes("update", "meta")
    /\ UNCHANGED <<inflight, rewriting, task, netVars, histVars, crashes>>

\* CleanUp has emptied the file and .rec still holds the old offset.
Truncated == rewriter = "meta" /\ dat = <<>>

RewriteUpdateEnd ==
    /\ \E ok \in BOOLEAN :
        /\ ok \/ ("meta" \in Faults /\ (Truncated => "truncated" \in Faults))
        /\ UpdateMetaEnd(ok)
        /\ confirmed' = IF ok THEN confirmed \union inflight ELSE confirmed
    /\ RewriterGoes("meta", "loop")
    /\ inflight' = {}
    /\ UNCHANGED <<rewriting, task, netVars, delivered, rejected, accepted, exposed, crashes>>

-----------------------------------------------------------------------------
(* The process dies, which loses the batches in memory, and is started     *)
(* again: NewBackend with the files as they are.                           *)

CrashWindow ==
    CASE lock = "write" -> "torn"
      [] Truncated -> "truncated"
      [] OTHER -> "idle"

Crash ==
    /\ crashes < MaxCrashes
    /\ CrashWindow \in Faults
    /\ crashes' = crashes + 1
    /\ \E left \in Leavings : NewFileBackend(left)
    /\ task' = [b \in Batch |-> IF task[b] \in Running THEN "gone" ELSE task[b]]
    /\ rewriter' = "off"
    /\ inflight' = {}
    /\ rewriting' = FALSE
    /\ active' = TRUE
    /\ UNCHANGED <<healthy, histVars>>

TaskNext(b) ==
    \/ TaskCheck(b)
    \/ TaskPost(b)
    \/ TaskWriteLength(b)
    \/ TaskWritePayload(b)

RewriterNext ==
    \/ RewriteIdle
    \/ RewriteLoop
    \/ RewriteLoopExit
    \/ RewriteReadLength
    \/ RewriteReadPayload
    \/ RewritePost
    \/ RewriteRollback
    \/ RewriteUpdateBegin
    \/ RewriteUpdateEnd

Next ==
    \/ \E b \in Batch : Submit(b) \/ TaskNext(b)
    \/ RewriterNext
    \/ CheckActive
    \/ ServerChanges
    \/ Crash

Spec == Init /\ [][Next]_vars

\* Goroutines that can run are scheduled, ticks come, pings are repeated.
\* Nothing makes the server recover and nothing makes a batch arrive.
Fairness ==
    /\ \A b \in Batch : WF_vars(TaskNext(b))
    /\ WF_vars(RewriterNext)
    /\ WF_vars(CheckActive)

FairSpec == Spec /\ Fairness
-----------------------------------------------------------------------------
(* What the backlog promises. *)

Settled == delivered \union rejected

\* The batches replay will still come to: the one in the rewriter's hands,
\* those ahead of the consumer, those a restart would come to.
Pending == inflight \union FramesFrom(consumer) \union FramesFrom(ResumeOffset)

\* A batch whose spill succeeded is delivered or given up, or replay will
\* still come to it, whatever crashed or failed since (README, "Cache data to
\* file when write failed, then rewrite").  Batches accepted behind a torn
\* frame are excepted: nothing can find them again.
NoLoss == accepted \ exposed \subseteq Settled \union Pending

\* Replay is in order: when the rewriter posts a batch, every batch accepted
\* and framed before it in the file (and not behind a torn frame) has been
\* settled.  A batch overwrites the
\* points of earlier ones, so an order the file does not have would leave old
\* values in the database.
ReplayInOrder ==
    rewriter = "post" =>
        \A i, j \in 1..Len(dat) :
            /\ i < j
            /\ IsFrame(i) /\ IsFrame(j)
            /\ dat[j].rec \in inflight
            /\ dat[i].rec \in accepted \ exposed
            => dat[i].rec \in Settled

\* Read takes no lock, yet it never meets a frame that Write is in the middle
\* of: once the loop has seen the flag, a whole frame is at the consumer.
ReaderBehindWriter ==
    /\ rewriter = "length" => IsFrame(consumer + 1)
    /\ rewriter = "payload" => IsFrame(consumer)

\* The flag is not lowered over unread data: while nobody is inside Write or
\* UpdateMeta, accepted batches that replay has not come to keep it up, so the
\* next tick starts a rewriter.
FlagUpWhilePending ==
    lock = "free" /\ FramesFrom(consumer) \intersect accepted # {} => dataflag

\* A batch whose replay was recorded in .rec is never posted again, across
\* rollbacks, CleanUp and restarts.
NoReplayAfterConfirm == rewriter = "post" => inflight \intersect confirmed = {}

\* Once the server answers properly for good, every accepted batch is settled:
\* the rewriter is started, passes the failures it slept on and gets through.
BacklogDrains ==
    <>[]healthy => \A b \in Batch : b \in accepted ~> b \in Settled

\* ... and the rewriting flag, which keeps queries away from this backend, is
\* lowered again and again.
RewritingEnds == <>[]healthy => []<>~rewriting

-----------------------------------------------------------------------------
(* Why these hold.  First what every step keeps under each of Faults: which    *)
(* batch stands where.                                                        *)

\* Once the rewriter has read a length, there is a cell at the consumer.
LengthRead == rewriter = "payload" => consumer \in 1..Len(dat)

\* A batch is written by its task alone, once: a length in the file belongs to
\* a task that came to write it, and to no other length.
WrittenOnce ==
    /\ \A i \in 1..Len(dat) :
          dat[i].at = 0 =>
              /\ task[dat[i].rec] \in {"payload", "done", "gone"}
              /\ \A j \in 1..Len(dat) : dat[j].at = 0 /\ dat[j].rec = dat[i].rec => j = i
    /\ \A b \in Batch :
          task[b] = "payload" =>
              /\ lock = "write"
              /\ Len(dat) > 0
              /\ dat[Len(dat)] = [rec |-> b, at |-> 0]
    /\ \A b \in accepted : task[b] = "done"
    /\ \A b \in inflight \union confirmed : task[b] \in {"done", "gone"}

LockHolder ==
    /\ lock = "meta" <=> rewriter = "meta"
    /\ lock = "write" => \E b \in Batch : task[b] = "payload"

\* The batch in the rewriter's hands is that of the frame that ends at the
\* consumer, until UpdateMeta has emptied the file.
InHand ==
    /\ rewriter \in {"off", "loop", "length", "payload", "exit"} => inflight = {}
    /\ inflight = {} \/ Truncated
          \/ \E j \in 1..Len(dat) :
                /\ IsFrame(j)
                /\ FrameEnd(j) = consumer
                /\ inflight = {dat[j].rec}

\* The saved offset and the consumer are behind every confirmed frame.
ConfirmedIsPassed ==
    \A i \in 1..Len(dat) :
        IsFrame(i) /\ dat[i].rec \in confirmed =>
            /\ FrameEnd(i) <= meta
            /\ meta <= consumer
            /\ rewriter = "payload" => meta < consumer

\* The rewriter is at work only while the flag is up, and the flag is up while
\* an accepted frame is ahead.
FlagRaised ==
    /\ rewriter \in {"length", "payload", "post", "rollback", "update"} => dataflag
    /\ \A i \in 1..Len(dat) :
          IsFrame(i) /\ consumer < i /\ dat[i].rec \in accepted => dataflag

Bookkeeping ==
    /\ TypeOK
    /\ LengthRead
    /\ WrittenOnce
    /\ LockHolder
    /\ InHand
    /\ ConfirmedIsPassed
    /\ FlagRaised
    /\ NoReplayAfterConfirm

(* Then, where .rec can be relied on, that replay passes the file frame by     *)
(* frame as long as no torn frame is behind it.                               *)

\* .rec holds an offset from the start, and no fault separates it from the file
\* that UpdateMeta has emptied.
RecSound == Fresh = FALSE /\ "truncated" \notin Faults

\* ... and no fault leaves a frame torn.
Undamaged == RecSound /\ Faults \intersect {"payload", "torn"} = {}

\* An offset at which a frame starts or may be appended.
Boundary(k) ==
    /\ k \in 0..Len(dat)
    /\ IF k = Len(dat) THEN lock # "write" ELSE dat[k + 1].at = 0

\* Cell i is followed by the first n pieces of its payload and no more of it.
TornAfter(i, n) ==
    /\ TornAt(i)
    /\ i + n <= Len(dat)
    /\ \A k \in 1..n : dat[i + k] = [rec |-> dat[i].rec, at |-> k]
    /\ Boundary(i + n)

\* The length at cell i is followed by its payload or by a part of it, and then
\* by a boundary.
FramedAt(i) ==
    \/ IsFrame(i) /\ Boundary(FrameEnd(i))
    \/ \E n \in 0..(Size[dat[i].rec] - 1) : TornAfter(i, n)

\* So is every length, except the one at the end that a Write in progress has
\* appended.
Framed ==
    /\ \A i \in 1..Len(dat) :
          dat[i].at = 0 => FramedAt(i) \/ (lock = "write" /\ i = Len(dat))
    /\ lock = "write" => Len(dat) > 0 /\ dat[Len(dat)].at = 0

\* Cell i has no torn frame before it.
Clean(i) == \A k \in 1..Len(dat) : TornAt(k) => i < k

\* What was accepted and not exposed is settled or still in the file, before
\* any torn frame.
AcceptedIsKept ==
    \A b \in accepted \ exposed :
        b \in Settled \/ \E i \in 1..Len(dat) : IsFrame(i) /\ Clean(i) /\ dat[i].rec = b

\* The saved offset is a boundary, not past what the rewriter has consumed.
SavedOffset == Truncated \/ (Boundary(meta) /\ meta <= consumer)

\* The rewriter holds the batch of the frame that ends at the consumer.
HoldsFrame ==
    \E j \in 1..Len(dat) :
        /\ IsFrame(j)
        /\ FrameEnd(j) = consumer
        /\ meta < j
        /\ inflight = {dat[j].rec}

Consumer ==
    /\ IF rewriter = "payload"
       THEN IsFrame(consumer) /\ meta < consumer
       ELSE Boundary(consumer)
    /\ rewriter \in {"post", "rollback", "update"} => HoldsFrame
    /\ rewriter = "meta" => Truncated \/ HoldsFrame

\* A raised flag means that there is a frame at the consumer, torn or whole,
\* unless the rewriter has one in its hands.
Flag ==
    rewriter \in {"off", "loop", "length", "exit", "meta"} /\ dataflag =>
        IsFrame(consumer + 1) \/ TornAt(consumer + 1)

\* What the consumer has passed is settled, but for the batch being posted.
PassedIsSettled ==
    \A i \in 1..Len(dat) :
        IsFrame(i) /\ FrameEnd(i) <= consumer =>
            \/ dat[i].rec \in Settled
            \/ /\ rewriter \in {"post", "rollback"}
               /\ FrameEnd(i) = consumer
               /\ dat[i].rec \in inflight

\* The rewriter has met no torn frame.
Orderly ==
    /\ Clean(consumer)
    /\ SavedOffset
    /\ Consumer
    /\ Flag
    /\ PassedIsSettled

\* It has met one, and may be anywhere: nothing unsettled is left before it.
Astray ==
    /\ Torn
    /\ \A i \in 1..Len(dat) : IsFrame(i) /\ Clean(i) => dat[i].rec \in Settled

\* All of it: together the conjuncts are kept by every step of the pool tasks,
\* the rewriter and a crash.
IInv ==
    /\ Bookkeeping
    /\ Framed
    /\ meta # Empty
    /\ rewriter \in {"update", "meta"} => inflight \subseteq Settled
    /\ AcceptedIsKept
    /\ Orderly \/ Astray

-----------------------------------------------------------------------------
(* The backlog as an at-least-once queue: the frames from the saved offset   *)
(* on are what it holds.  While CleanUp has emptied the file nothing is held, *)
(* whatever .rec still says.                                                  *)

HeldFrames == {i \in 1..Len(dat) : i > ResumeOffset /\ IsFrame(i)}

Held == [n \in 1..Cardinality(HeldFrames) |-> dat[Nth(HeldFrames, n)].rec]

Queue == INSTANCE BacklogSpec WITH queue <- Held, settled <- Settled

\* The disk queue, crashes and all, is a first-in first-out at-least-once queue
\* (README, "Cache data to file when write failed, then rewrite").
ImplementsQueue == Queue!Spec

=============================================================================
