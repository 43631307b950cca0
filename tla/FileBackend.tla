----------------------------- MODULE FileBackend -----------------------------
(***************************************************************************)
(* The disk queue of one backend (backend/file.go).  Batches the backend    *)
(* could not deliver are appended to <name>.dat, each framed by a length;   *)
(* <name>.rec holds the offset replay resumes from after a rollback or a    *)
(* restart.  One file handle appends (the producer), one reads (the         *)
(* consumer).                                                               *)
(*                                                                          *)
(* The file is a sequence of cells.  A batch b occupies 1 + Size[b] cells:  *)
(* its length (at = 0) and the pieces of its payload (at = 1..Size[b]), so  *)
(* that an offset that is no frame boundary of the present file misreads it *)
(* here as it does there.  An offset k stands before cell k + 1.  The       *)
(* payload may reach the file in part; the four bytes of a length reach it  *)
(* together or not at all.                                                  *)
(*                                                                          *)
(* fb.lock is held across two system calls in Write and in UpdateMeta; each *)
(* is two steps here, and "lock" says which of them holds it.  IsData and   *)
(* RollbackMeta hold it for one step and need it free.  Read does not take  *)
(* it.                                                                      *)
(***************************************************************************)
EXTENDS Integers, Sequences

CONSTANTS
    Batch,      \* the batches that may be spilled
    Size,       \* Size[b]: the number of payload cells of b
    Fresh       \* TRUE: the data directory is new, .rec was never written

ASSUME BatchSize == Size \in [Batch -> Nat \ {0}]
ASSUME FreshIsBoolean == Fresh \in BOOLEAN

VARIABLES
    dat,        \* the content of <name>.dat
    meta,       \* the offset in <name>.rec, Empty if the file is empty
    consumer,   \* the offset of the consumer's file handle
    dataflag,   \* fb.dataflag
    lock        \* who holds fb.lock: "free", "write" or "meta"

fileVars == <<dat, meta, consumer, dataflag, lock>>

Empty == -1

Cell == [rec : Batch, at : Nat]

FileTypeOK ==
    /\ dat \in Seq(Cell)
    /\ meta \in Nat \union {Empty}
    /\ consumer \in Nat
    /\ dataflag \in BOOLEAN
    /\ lock \in {"free", "write", "meta"}

-----------------------------------------------------------------------------
(* What the file holds. *)

Length(b) == <<[rec |-> b, at |-> 0]>>

\* The first n pieces of the payload of b: all of it when n is Size[b].
Payload(b, n) == [k \in 1..n |-> [rec |-> b, at |-> k]]

\* The last cell of the frame whose length is cell i.
FrameEnd(i) == i + Size[dat[i].rec]

\* Cell i starts a frame that is wholly in the file.
IsFrame(i) ==
    /\ i \in 1..Len(dat)
    /\ dat[i].at = 0
    /\ FrameEnd(i) <= Len(dat)
    /\ \A k \in 1..Size[dat[i].rec] : dat[i + k] = [rec |-> dat[i].rec, at |-> k]

\* Cell i is a length that its whole payload does not follow, and not the one
\* being written.
TornAt(i) ==
    /\ i \in 1..Len(dat)
    /\ dat[i].at = 0
    /\ ~IsFrame(i)
    /\ ~(lock = "write" /\ i = Len(dat))

Torn == \E i \in 1..Len(dat) : TornAt(i)

\* Where RollbackMeta and a restart leave the consumer.
ResumeOffset == IF meta = Empty THEN 0 ELSE meta

\* The batches a reader starting at an offset would come to.
FramesFrom(offset) ==
    {dat[i].rec : i \in {j \in 1..Len(dat) : j > offset /\ IsFrame(j)}}

-----------------------------------------------------------------------------
(* Operations with a mistake, which the properties must tell from the real    *)
(* ones below.                                                                *)

\* The flag is not recomputed when the files are opened.
NewFileBackendFlagDown(left) ==
    /\ dat' = left
    /\ consumer' = ResumeOffset
    /\ dataflag' = FALSE
    /\ lock' = "free"
    /\ UNCHANGED meta

\* The consumer is not moved back.
RollbackMetaStays ==
    /\ lock = "free"
    /\ UNCHANGED fileVars

\* CleanUp leaves the flag up.
CleanUpFlagUp ==
    /\ consumer' = 0
    /\ dat' = <<>>
    /\ UNCHANGED dataflag

\* The file is emptied whether or not all of it was consumed.
UpdateMetaBeginAlwaysCleans ==
    /\ lock = "free"
    /\ lock' = "meta"
    /\ consumer' = 0
    /\ dat' = <<>>
    /\ dataflag' = FALSE
    /\ UNCHANGED meta

\* The offset is not written.
UpdateMetaEndForgets(ok) ==
    /\ lock = "meta"
    /\ lock' = "free"
    /\ UNCHANGED <<meta, dat, consumer, dataflag>>

-----------------------------------------------------------------------------
(* The operations. *)

FileInit ==
    /\ dat = <<>>
    /\ meta = IF Fresh THEN Empty ELSE 0
    /\ consumer = 0
    /\ dataflag = FALSE
    /\ lock = "free"

\* What .dat may hold once the process has died: a Write that had appended its
\* length leaves any part of the payload behind it, or all of it.
Leavings ==
    IF lock = "write"
    THEN LET b == dat[Len(dat)].rec IN {dat \o Payload(b, n) : n \in 0..Size[b]}
    ELSE {dat}

\* Opening the files again after the process died, .dat as it was left: the new
\* consumer starts at 0 and RollbackMeta moves it when .rec holds an offset.
NewFileBackend(left) ==
    /\ dat' = left
    /\ consumer' = ResumeOffset
    /\ dataflag' = (Len(left) > ResumeOffset)
    /\ lock' = "free"
    /\ UNCHANGED meta

\* Write takes the lock and appends the length, or fails to.
WriteLength(b, ok) ==
    /\ lock = "free"
    /\ lock' = IF ok THEN "write" ELSE "free"
    /\ dat' = IF ok THEN dat \o Length(b) ELSE dat
    /\ UNCHANGED <<meta, consumer, dataflag>>

\* Write appends the payload, syncs, raises the flag and releases the lock.  n
\* pieces reach the file.  result: "ok", "payload" (the write failed or was
\* short, and what reached the file stays there), "sync" (Sync failed before the
\* flag was set).
WritePayload(b, n, result) ==
    /\ lock = "write"
    /\ IF result = "payload" THEN n < Size[b] ELSE n = Size[b]
    /\ lock' = "free"
    /\ dat' = dat \o Payload(b, n)
    /\ dataflag' = IF result = "ok" THEN TRUE ELSE dataflag
    /\ UNCHANGED <<meta, consumer>>

IsData == dataflag

\* Read's first half: the length.  At the end of the file it fails and the
\* consumer stays.
ReadLength ==
    /\ consumer < Len(dat)
    /\ consumer' = consumer + 1
    /\ UNCHANGED <<dat, meta, dataflag, lock>>

\* Read's second half takes as many cells as the length said.  ReadOffsets is
\* where it may leave the consumer and ReadsFrame whether it returns a batch.
\* Payload bytes taken for a length are any number at all.
ReadOffsets ==
    LET cell == dat[consumer]
        wanted == consumer + Size[cell.rec]
    IN IF cell.at = 0
       THEN {IF wanted <= Len(dat) THEN wanted ELSE Len(dat)}
       ELSE consumer..Len(dat)

ReadsFrame == IsFrame(consumer)

ReadFails == dat[consumer].at = 0 /\ FrameEnd(consumer) > Len(dat)

ReadPayload(offset) ==
    /\ offset \in ReadOffsets
    /\ consumer' = offset
    /\ UNCHANGED <<dat, meta, dataflag, lock>>

\* RollbackMeta returns io.EOF and moves nothing when .rec is empty.
RollbackMeta ==
    /\ lock = "free"
    /\ consumer' = IF meta = Empty THEN consumer ELSE meta
    /\ UNCHANGED <<dat, meta, dataflag, lock>>

\* CleanUp empties the file once everything in it has been consumed.
CleanUp ==
    /\ consumer' = 0
    /\ dat' = <<>>
    /\ dataflag' = FALSE

\* UpdateMeta up to the point where .rec is written.
UpdateMetaBegin ==
    /\ lock = "free"
    /\ lock' = "meta"
    /\ IF Len(dat) = consumer
       THEN CleanUp
       ELSE UNCHANGED <<dat, consumer, dataflag>>
    /\ UNCHANGED meta

\* UpdateMeta writes the offset (0 after CleanUp, and the consumer is at 0
\* then) and releases the lock.
UpdateMetaEnd(ok) ==
    /\ lock = "meta"
    /\ lock' = "free"
    /\ meta' = IF ok THEN consumer ELSE meta
    /\ UNCHANGED <<dat, consumer, dataflag>>

=============================================================================
