---------------------------- MODULE BacklogProofs ----------------------------
(***************************************************************************)
(* Theorems about Backlog, for any batches, sizes, pool and crash bound,    *)
(* and about what its replay does with the file where .rec can be relied on.*)
(***************************************************************************)
EXTENDS Backlog, OperatorProofs, SequenceTheorems, TLAPS

-----------------------------------------------------------------------------
(* Cells and appending. *)

\* A length is one cell.
LEMMA LengthType ==
    ASSUME NEW b \in Batch
    PROVE  /\ Length(b) \in Seq(Cell)
           /\ Len(Length(b)) = 1
           /\ Length(b)[1] = [rec |-> b, at |-> 0]
  BY DEF Length, Cell

\* The pieces of a payload are cells numbered from 1.
LEMMA PayloadType ==
    ASSUME NEW b \in Batch, NEW n \in Nat
    PROVE  /\ Payload(b, n) \in Seq(Cell)
           /\ Len(Payload(b, n)) = n
           /\ \A k \in 1..n : Payload(b, n)[k] = [rec |-> b, at |-> k]
<1>1. \A k \in 1..n : [rec |-> b, at |-> k] \in Cell
  BY DEF Cell
<1>2. Payload(b, n) \in Seq(Cell) /\ Len(Payload(b, n)) = n
  BY <1>1 DEF Payload
<1> QED
  BY <1>2 DEF Payload

\* Appending a length to the file.
LEMMA AppendLength ==
    ASSUME NEW s \in Seq(Cell), NEW b \in Batch
    PROVE  /\ s \o Length(b) \in Seq(Cell)
           /\ Len(s \o Length(b)) = Len(s) + 1
           /\ \A i \in 1..Len(s) : (s \o Length(b))[i] = s[i]
           /\ (s \o Length(b))[Len(s) + 1] = [rec |-> b, at |-> 0]
<1> DEFINE t == Length(b)
<1>1. t \in Seq(Cell) /\ Len(t) = 1 /\ t[1] = [rec |-> b, at |-> 0]
  BY LengthType
<1>2. Len(s) \in Nat
  BY LenProperties
<1> HIDE DEF t
<1>3. /\ s \o t \in Seq(Cell)
      /\ Len(s \o t) = Len(s) + Len(t)
      /\ \A i \in 1 .. Len(s) + Len(t) : (s \o t)[i] = IF i <= Len(s) THEN s[i] ELSE t[i - Len(s)]
  BY <1>1, ConcatProperties
<1> QED
  BY <1>1, <1>2, <1>3 DEF t

\* Appending pieces of a payload to the file.
LEMMA AppendPayload ==
    ASSUME NEW s \in Seq(Cell), NEW b \in Batch, NEW n \in Nat
    PROVE  /\ s \o Payload(b, n) \in Seq(Cell)
           /\ Len(s \o Payload(b, n)) = Len(s) + n
           /\ \A i \in 1..Len(s) : (s \o Payload(b, n))[i] = s[i]
           /\ \A k \in 1..n : (s \o Payload(b, n))[Len(s) + k] = [rec |-> b, at |-> k]
<1> DEFINE t == Payload(b, n)
<1>1. /\ t \in Seq(Cell) /\ Len(t) = n
      /\ \A k \in 1..n : t[k] = [rec |-> b, at |-> k]
  BY PayloadType
<1>2. Len(s) \in Nat
  BY LenProperties
<1> HIDE DEF t
<1>3. /\ s \o t \in Seq(Cell)
      /\ Len(s \o t) = Len(s) + n
      /\ \A i \in 1 .. Len(s) + n : (s \o t)[i] = IF i <= Len(s) THEN s[i] ELSE t[i - Len(s)]
  BY <1>1, ConcatProperties
<1> QED
  BY <1>1, <1>2, <1>3 DEF t

-----------------------------------------------------------------------------
(* Types. *)

\* A Write in progress has appended its length.
WriteBegun == lock = "write" => Len(dat) > 0

TypeInv == TypeOK /\ LengthRead /\ WriteBegun

LEMMA TypeInit == Init => TypeInv
<1> SUFFICES ASSUME Init PROVE TypeInv
  OBVIOUS
<1>1. FileTypeOK
  <2>1. dat \in Seq(Cell)
    BY DEF Init, FileInit
  <2>2. meta \in Nat \union {Empty}
    BY DEF Init, FileInit
  <2> QED
    BY <2>1, <2>2 DEF Init, FileInit, FileTypeOK
<1>2. task \in [Batch -> TaskStates] /\ crashes \in 0..MaxCrashes
  BY MaxCrashesNat DEF Init, TaskStates
<1> QED
  BY <1>1, <1>2 DEF Init, FileInit, TypeInv, TypeOK, LengthRead, WriteBegun, RewriterStates

\* A task's step keeps the types.
LEMMA TypeTask ==
    ASSUME TypeInv, NEW b \in Batch, Submit(b) \/ TaskNext(b)
    PROVE  TypeInv'
<1> USE DEF TypeInv, TypeOK, FileTypeOK, LengthRead, WriteBegun, TaskStates, Running,
        fileVars, rwVars, netVars, histVars, TaskGoes
<1>1. CASE Submit(b)
  BY <1>1 DEF Submit
<1>2. CASE TaskCheck(b)
  BY <1>2 DEF TaskCheck
<1>3. CASE TaskPost(b)
  BY <1>3 DEF TaskPost, WriteCompressed, GivenUp
<1>4. CASE TaskWriteLength(b)
  <2>1. PICK ok \in BOOLEAN : WriteLength(b, ok) /\ TaskGoes(b, "spill", IF ok THEN "payload" ELSE "gone")
    BY <1>4 DEF TaskWriteLength
  <2>2. dat' \in Seq(Cell) /\ Len(dat') >= Len(dat) /\ WriteBegun'
    <3>1. \/ dat' = dat /\ lock' = "free"
          \/ dat' = dat \o Length(b)
      BY <2>1 DEF WriteLength
    <3>2. dat \in Seq(Cell) /\ Len(dat) \in Nat
      OBVIOUS
    <3>3. dat \o Length(b) \in Seq(Cell) /\ Len(dat \o Length(b)) = Len(dat) + 1
      BY <3>2, AppendLength
    <3>4. CASE dat' = dat /\ lock' = "free"
      BY <3>2, <3>4
    <3>5. CASE dat' = dat \o Length(b)
      <4>1. dat' \in Seq(Cell) /\ Len(dat') = Len(dat) + 1
        BY <3>3, <3>5
      <4> QED
        BY <3>2, <4>1
    <3> QED
      BY <3>1, <3>4, <3>5
  <2>3. task' \in [Batch -> TaskStates]
    BY <2>1
  <2>4. consumer' = consumer /\ rewriter' = rewriter
    BY <1>4, <2>1 DEF TaskWriteLength, WriteLength
  <2>5. LengthRead'
    BY <2>2, <2>4
  <2>6. FileTypeOK'
    BY <2>1, <2>2 DEF WriteLength
  <2> QED
    BY <1>4, <2>2, <2>3, <2>5, <2>6 DEF TaskWriteLength
<1>5. CASE TaskWritePayload(b)
  <2>1. PICK n \in 0..Size[b], result \in {"ok", "payload", "sync"} :
            /\ WritePayload(b, n, result)
            /\ TaskGoes(b, "payload", IF result = "ok" THEN "done" ELSE "gone")
            /\ accepted' = IF result = "ok" THEN accepted \union {b} ELSE accepted
            /\ exposed' = IF result = "ok" /\ Torn THEN exposed \union {b} ELSE exposed
    BY <1>5 DEF TaskWritePayload
  <2>2. dat' \in Seq(Cell) /\ Len(dat') >= Len(dat)
    <3>1. n \in Nat /\ Len(dat) \in Nat
      BY LenProperties
    <3> QED
      BY <2>1, <3>1, AppendPayload DEF WritePayload
  <2>3. task' \in [Batch -> TaskStates]
    BY <2>1
  <2>4. consumer' = consumer /\ rewriter' = rewriter
    BY <1>5, <2>1 DEF TaskWritePayload, WritePayload
  <2>5. LengthRead'
    BY <2>2, <2>4
  <2>6. FileTypeOK'
    BY <2>1, <2>2 DEF WritePayload
  <2>7. accepted' \in SUBSET Batch /\ exposed' \in SUBSET Batch
    BY <2>1
  <2> QED
    BY <1>5, <2>1, <2>3, <2>5, <2>6, <2>7 DEF TaskWritePayload, WritePayload
<1> QED
  BY <1>1, <1>2, <1>3, <1>4, <1>5 DEF TaskNext

\* A step of the rewriter keeps the types.
LEMMA TypeRewriter ==
    ASSUME TypeInv, RewriterNext
    PROVE  TypeInv'
<1> USE DEF TypeInv, TypeOK, FileTypeOK, LengthRead, WriteBegun, RewriterStates,
        fileVars, rwVars, netVars, histVars, RewriterGoes
<1>1. CASE RewriteIdle
  BY <1>1 DEF RewriteIdle
<1>2. CASE RewriteLoop
  BY <1>2 DEF RewriteLoop
<1>3. CASE RewriteLoopExit
  BY <1>3 DEF RewriteLoopExit
<1>4. CASE RewriteReadLength
  BY <1>4 DEF RewriteReadLength, ReadLength
<1>5. CASE RewriteReadPayload
  <2>1. PICK offset \in ReadOffsets : ReadPayload(offset)
    BY <1>5 DEF RewriteReadPayload
  <2>2. consumer \in 1..Len(dat) /\ dat[consumer] \in Cell
    BY <1>5, ElementOfSeq DEF RewriteReadPayload
  <2>3. dat[consumer].rec \in Batch /\ Size[dat[consumer].rec] \in Nat
    BY <2>2, BatchSize DEF Cell
  <2>4. offset \in Nat
    BY <2>1, <2>2, <2>3 DEF ReadOffsets
  <2>5. inflight' \in SUBSET Batch /\ rewriter' \in {"post", "loop"}
    BY <1>5, <2>3 DEF RewriteReadPayload
  <2> QED
    BY <1>5, <2>1, <2>4, <2>5 DEF RewriteReadPayload, ReadPayload
<1>6. CASE RewritePost
  BY <1>6 DEF RewritePost, WriteCompressed
<1>7. CASE RewriteRollback
  BY <1>7 DEF RewriteRollback, RollbackMeta, Empty
<1>8. CASE RewriteUpdateBegin
  <2>1. CASE Len(dat) = consumer
    <3>1. dat' = <<>> /\ dat' \in Seq(Cell)
      BY <1>8, <2>1, EmptySeq DEF RewriteUpdateBegin, UpdateMetaBegin, CleanUp
    <3>2. consumer' = 0 /\ dataflag' = FALSE /\ meta' = meta /\ lock' = "meta"
      BY <1>8, <2>1 DEF RewriteUpdateBegin, UpdateMetaBegin, CleanUp
    <3> QED
      BY <1>8, <3>1, <3>2 DEF RewriteUpdateBegin
  <2>2. CASE Len(dat) # consumer
    BY <1>8, <2>2 DEF RewriteUpdateBegin, UpdateMetaBegin
  <2> QED
    BY <2>1, <2>2
<1>9. CASE RewriteUpdateEnd
  BY <1>9 DEF RewriteUpdateEnd, UpdateMetaEnd
<1> QED
  BY <1>1, <1>2, <1>3, <1>4, <1>5, <1>6, <1>7, <1>8, <1>9 DEF RewriterNext

\* What a crash leaves of the file is a file, no shorter than before.
LEMMA LeavingsType ==
    ASSUME TypeInv, NEW left \in Leavings
    PROVE  left \in Seq(Cell) /\ Len(left) >= Len(dat)
<1>1. dat \in Seq(Cell) /\ Len(dat) \in Nat
  BY LenProperties DEF TypeInv, TypeOK, FileTypeOK
<1>2. CASE lock # "write"
  BY <1>1, <1>2 DEF Leavings
<1>3. CASE lock = "write"
  <2>1. PICK b : b = dat[Len(dat)].rec
    OBVIOUS
  <2>2. b \in Batch
    <3>1. dat[Len(dat)] \in Cell
      BY <1>1, <1>3, ElementOfSeq DEF TypeInv, WriteBegun
    <3> QED
      BY <2>1, <3>1 DEF Cell
  <2>3. PICK n \in 0..Size[b] : left = dat \o Payload(b, n)
    BY <1>3, <2>1 DEF Leavings
  <2>4. n \in Nat
    BY <2>2, <2>3, BatchSize
  <2> QED
    BY <1>1, <2>2, <2>3, <2>4, AppendPayload
<1> QED
  BY <1>2, <1>3

\* Every step keeps the types.
LEMMA TypeStep == TypeInv /\ [Next]_vars => TypeInv'
<1> SUFFICES ASSUME TypeInv, [Next]_vars PROVE TypeInv'
  OBVIOUS
<1> USE DEF TypeInv, TypeOK, FileTypeOK, LengthRead, WriteBegun, fileVars, rwVars, netVars, histVars
<1>1. CASE \E b \in Batch : Submit(b) \/ TaskNext(b)
  BY <1>1, TypeTask
<1>2. CASE RewriterNext
  BY <1>2, TypeRewriter
<1>3. CASE CheckActive
  BY <1>3 DEF CheckActive, Ping
<1>4. CASE ServerChanges
  BY <1>4 DEF ServerChanges
<1>5. CASE Crash
  <2>1. ResumeOffset \in Nat
    BY DEF ResumeOffset, Empty
  <2>2. task' \in [Batch -> TaskStates]
    BY <1>5 DEF Crash, TaskStates
  <2>3. FileTypeOK'
    <3>1. PICK left \in Leavings : NewFileBackend(left)
      BY <1>5 DEF Crash
    <3>2. left \in Seq(Cell)
      BY LeavingsType
    <3>3. dataflag' \in BOOLEAN
      BY <3>1 DEF NewFileBackend
    <3> QED
      BY <2>1, <3>1, <3>2, <3>3 DEF NewFileBackend
  <2>4. crashes' \in 0..MaxCrashes
    BY <1>5, MaxCrashesNat DEF Crash
  <2> QED
    BY <1>5, <2>3, <2>2, <2>4 DEF Crash, NewFileBackend, RewriterStates
<1>6. CASE UNCHANGED vars
  BY <1>6 DEF vars
<1> QED
  BY <1>1, <1>2, <1>3, <1>4, <1>5, <1>6 DEF Next

\* Every state the machinery of one backend reaches is well typed, under
\* every fault of the model (backend/file.go, backend/backend.go).
THEOREM TypeCorrect == Spec => []TypeOK
<1>1. TypeInv => TypeOK
  BY DEF TypeInv
<1> QED
  BY <1>1, TypeInit, TypeStep, PTL DEF Spec

-----------------------------------------------------------------------------
(* Frames and boundaries. *)

\* What a cell belongs to.
LEMMA CellRec ==
    ASSUME dat \in Seq(Cell)
    PROVE  \A i \in 1..Len(dat) : dat[i] \in Cell /\ dat[i].rec \in Batch
<1>1. \A i \in 1..Len(dat) : dat[i] \in Cell
  BY ElementOfSeq
<1> QED
  BY <1>1 DEF Cell

\* What a frame is made of.
LEMMA FrameFacts ==
    ASSUME dat \in Seq(Cell), NEW i, IsFrame(i)
    PROVE  /\ i \in 1..Len(dat)
           /\ Len(dat) \in Nat
           /\ dat[i].rec \in Batch
           /\ dat[i].at = 0
           /\ FrameEnd(i) \in Nat
           /\ i < FrameEnd(i)
           /\ FrameEnd(i) <= Len(dat)
           /\ \A m \in (i + 1)..FrameEnd(i) : dat[m].at = m - i /\ dat[m].at # 0
<1>1. i \in 1..Len(dat) /\ Len(dat) \in Nat
  BY LenProperties DEF IsFrame
<1>2. dat[i] \in Cell
  BY <1>1, ElementOfSeq
<1>3. dat[i].rec \in Batch /\ Size[dat[i].rec] \in Nat \ {0}
  BY <1>2, BatchSize DEF Cell
<1>4. ASSUME NEW m \in (i + 1)..FrameEnd(i)
      PROVE  dat[m].at = m - i /\ dat[m].at # 0
  <2>1. m - i \in 1..Size[dat[i].rec] /\ i + (m - i) = m
    BY <1>1, <1>3 DEF FrameEnd
  <2>2. dat[i + (m - i)] = [rec |-> dat[i].rec, at |-> m - i]
    BY <2>1 DEF IsFrame
  <2>3. dat[m] = [rec |-> dat[i].rec, at |-> m - i]
    BY <2>1, <2>2
  <2> QED
    BY <1>1, <2>1, <2>3
<1> QED
  BY <1>1, <1>3, <1>4 DEF IsFrame, FrameEnd

\* What is in the file stays there when something is appended.
Appended ==
    /\ dat \in Seq(Cell)
    /\ dat' \in Seq(Cell)
    /\ Len(dat) <= Len(dat')
    /\ \A i \in 1..Len(dat) : dat'[i] = dat[i]

LEMMA FramesSurvive ==
    ASSUME Appended, NEW i, IsFrame(i)
    PROVE  IsFrame(i)' /\ FrameEnd(i)' = FrameEnd(i) /\ dat'[i] = dat[i]
<1>1. i \in 1..Len(dat) /\ Len(dat) \in Nat /\ Len(dat') \in Nat /\ dat'[i] = dat[i]
  BY LenProperties DEF IsFrame, Appended
<1>2. FrameEnd(i)' = FrameEnd(i) /\ FrameEnd(i) <= Len(dat') /\ dat'[i].at = 0
  BY <1>1, FrameFacts DEF FrameEnd, IsFrame, Appended
<1>3. ASSUME NEW k \in 1..Size[dat[i].rec]
      PROVE  dat'[i + k] = [rec |-> dat[i].rec, at |-> k]
  <2>1. Size[dat[i].rec] \in Nat
    BY FrameFacts, BatchSize DEF Appended
  <2>2. i + k \in 1..Len(dat)
    BY <1>1, <2>1 DEF IsFrame, FrameEnd
  <2> QED
    BY <2>2 DEF IsFrame, Appended
<1>4. \A k \in 1..Size[dat'[i].rec] : dat'[i + k] = [rec |-> dat'[i].rec, at |-> k]
  BY <1>1, <1>3
<1>5. i \in 1..Len(dat') /\ FrameEnd(i)' <= Len(dat')
  BY <1>1, <1>2 DEF Appended
<1> QED
  BY <1>1, <1>2, <1>4, <1>5 DEF IsFrame

\* A whole frame of the longer file that ended before the append was one then.
LEMMA FramesWereThere ==
    ASSUME Appended, NEW i, IsFrame(i)', FrameEnd(i)' <= Len(dat)
    PROVE  IsFrame(i) /\ FrameEnd(i)' = FrameEnd(i) /\ dat'[i] = dat[i]
<1>1. i \in 1..Len(dat') /\ Len(dat) \in Nat /\ Len(dat') \in Nat
  BY LenProperties DEF IsFrame, Appended
<1>2. dat'[i] \in Cell
  BY <1>1, ElementOfSeq DEF Appended
<1>3. Size[dat'[i].rec] \in Nat \ {0}
  BY <1>2, BatchSize DEF Cell
<1>4. i \in 1..Len(dat) /\ dat'[i] = dat[i]
  BY <1>1, <1>3 DEF FrameEnd, Appended
<1>5. FrameEnd(i)' = FrameEnd(i)
  BY <1>4 DEF FrameEnd
<1>6. ASSUME NEW k \in 1..Size[dat[i].rec]
      PROVE  dat[i + k] = [rec |-> dat[i].rec, at |-> k]
  <2>1. i + k \in 1..Len(dat)
    BY <1>1, <1>3, <1>4, <1>5 DEF FrameEnd
  <2> QED
    BY <1>4, <2>1 DEF IsFrame, Appended
<1> QED
  BY <1>4, <1>5, <1>6 DEF IsFrame

\* Appending a length makes no frame.
LEMMA LengthFrames ==
    ASSUME Appended, Len(dat') = Len(dat) + 1, dat'[Len(dat) + 1].at = 0,
           NEW i, IsFrame(i)'
    PROVE  IsFrame(i) /\ FrameEnd(i)' = FrameEnd(i) /\ dat'[i] = dat[i]
<1>1. i \in 1..Len(dat') /\ Len(dat) \in Nat /\ Len(dat') \in Nat
  BY LenProperties DEF IsFrame, Appended
<1>2. dat'[i] \in Cell
  BY <1>1, ElementOfSeq DEF Appended
<1>3. Size[dat'[i].rec] \in Nat \ {0} /\ FrameEnd(i)' = i + Size[dat'[i].rec]
  BY <1>2, BatchSize DEF Cell, FrameEnd
<1>4. dat'[i + Size[dat'[i].rec]].at # 0
  <2>1. PICK m : m = Size[dat'[i].rec]
    OBVIOUS
  <2>2. dat'[i + m] = [rec |-> dat'[i].rec, at |-> m]
    BY <1>3, <2>1 DEF IsFrame
  <2> QED
    BY <1>3, <2>1, <2>2
<1>5. FrameEnd(i)' <= Len(dat)
  BY <1>1, <1>3, <1>4 DEF IsFrame
<1> QED
  BY <1>5, FramesWereThere

\* Appending a payload completes only frames of its batch.
LEMMA PayloadFrames ==
    ASSUME Appended, NEW b \in Batch,
           \A k \in (Len(dat) + 1)..Len(dat') : dat'[k].rec = b /\ dat'[k].at # 0,
           NEW i, IsFrame(i)'
    PROVE  /\ i \in 1..Len(dat)
           /\ dat'[i] = dat[i]
           /\ FrameEnd(i)' = FrameEnd(i)
           /\ IsFrame(i) \/ dat[i].rec = b
<1>1. i \in 1..Len(dat') /\ Len(dat) \in Nat /\ Len(dat') \in Nat /\ dat'[i].at = 0
  BY LenProperties DEF IsFrame, Appended
<1>2. dat'[i] \in Cell
  BY <1>1, ElementOfSeq DEF Appended
<1>3. Size[dat'[i].rec] \in Nat \ {0} /\ FrameEnd(i)' = i + Size[dat'[i].rec]
  BY <1>2, BatchSize DEF Cell, FrameEnd
<1>4. i \in 1..Len(dat) /\ dat'[i] = dat[i]
  BY <1>1 DEF Appended
<1>5. FrameEnd(i)' = FrameEnd(i)
  BY <1>4 DEF FrameEnd
<1>6. CASE FrameEnd(i)' <= Len(dat)
  BY <1>4, <1>5, <1>6, FramesWereThere
<1>7. CASE FrameEnd(i)' > Len(dat)
  <2>1. dat'[i + Size[dat'[i].rec]] = [rec |-> dat'[i].rec, at |-> Size[dat'[i].rec]]
    BY <1>3 DEF IsFrame
  <2>2. i + Size[dat'[i].rec] \in (Len(dat) + 1)..Len(dat')
    BY <1>1, <1>3, <1>7 DEF IsFrame
  <2>3. dat'[i].rec = b
    BY <2>1, <2>2
  <2> QED
    BY <1>4, <1>5, <2>3
<1> QED
  BY <1>1, <1>3, <1>6, <1>7

\* While the content of the file stays, so do its frames.
LEMMA SameFrames ==
    ASSUME dat' = dat
    PROVE  \A i : (IsFrame(i)' <=> IsFrame(i)) /\ FrameEnd(i)' = FrameEnd(i)
  BY DEF IsFrame, FrameEnd

\* A Write ends, or dies: m pieces of the payload have reached the file.
Written(b, m) ==
    /\ lock = "write" /\ lock' = "free"
    /\ task[b] = "payload"
    /\ m \in 0..Size[b]
    /\ dat' = dat \o Payload(b, m)

\* What that does to the frames: the length that was the last cell, n, now starts
\* one, whole or torn.
LEMMA PiecesWritten ==
    ASSUME Bookkeeping, NEW b \in Batch, NEW m, Written(b, m), NEW n, n = Len(dat)
    PROVE  /\ Appended
           /\ m \in Nat /\ n \in Nat /\ n \in 1..n /\ Len(dat') = n + m
           /\ Size[b] \in Nat \ {0}
           /\ dat[n].rec = b /\ dat[n].at = 0 /\ dat'[n].rec = b /\ dat'[n].at = 0
           /\ \A k \in 1..m : dat'[n + k] = [rec |-> b, at |-> k]
           /\ \A k \in (n + 1)..Len(dat') : dat'[k].rec = b /\ dat'[k].at # 0
           /\ ~IsFrame(n)
           /\ m = Size[b] => IsFrame(n)' /\ FrameEnd(n)' = Len(dat')
           /\ m # Size[b] => TornAt(n)'
           /\ \A i : IsFrame(i)' => /\ i \in 1..n /\ dat'[i] = dat[i]
                                    /\ FrameEnd(i)' = FrameEnd(i)
                                    /\ IsFrame(i) \/ i = n
<1> DEFINE l == Len(dat')
<1>1. /\ dat \in Seq(Cell) /\ n \in Nat /\ lock = "write" /\ lock' = "free"
      /\ Size[b] \in Nat \ {0} /\ m \in Nat /\ m <= Size[b]
  BY LenProperties, BatchSize DEF Bookkeeping, TypeOK, FileTypeOK, Written
<1>2. /\ dat' \in Seq(Cell) /\ l = n + m
      /\ \A i \in 1..n : dat'[i] = dat[i]
      /\ \A k \in 1..m : dat'[n + k] = [rec |-> b, at |-> k]
  <2>1. /\ dat \o Payload(b, m) \in Seq(Cell)
        /\ Len(dat \o Payload(b, m)) = Len(dat) + m
        /\ \A i \in 1..Len(dat) : (dat \o Payload(b, m))[i] = dat[i]
        /\ \A k \in 1..m : (dat \o Payload(b, m))[Len(dat) + k] = [rec |-> b, at |-> k]
    BY <1>1, AppendPayload
  <2>2. dat' = dat \o Payload(b, m)
    BY DEF Written
  <2> QED
    BY <2>1, <2>2
<1>3. /\ n \in 1..n /\ dat[n].rec = b /\ dat[n].at = 0 /\ dat'[n] = dat[n]
  <2>1. Len(dat) > 0 /\ dat[Len(dat)] = [rec |-> b, at |-> 0]
    BY DEF Bookkeeping, WrittenOnce, Written
  <2>2. dat[n] = [rec |-> b, at |-> 0]
    BY <2>1
  <2> QED
    BY <1>1, <1>2, <2>1, <2>2
<1>4. Appended
  BY <1>1, <1>2 DEF Appended
<1>5. \A k \in (n + 1)..l : dat'[k].rec = b /\ dat'[k].at # 0
  <2> TAKE k \in (n + 1)..l
  <2>1. k - n \in 1..m /\ n + (k - n) = k
    BY <1>1, <1>2
  <2>2. dat'[n + (k - n)] = [rec |-> b, at |-> k - n]
    BY <1>2, <2>1
  <2>3. dat'[k] = [rec |-> b, at |-> k - n] /\ k - n # 0
    BY <2>1, <2>2
  <2> QED
    BY <2>3
<1>6. FrameEnd(n)' = n + Size[b] /\ n \in 1..l /\ dat'[n].rec = b /\ dat'[n].at = 0
  BY <1>1, <1>2, <1>3 DEF FrameEnd
<1>7. m = Size[b] => IsFrame(n)' /\ FrameEnd(n)' = l
  BY <1>2, <1>6 DEF IsFrame
<1>8. m # Size[b] => TornAt(n)'
  <2> SUFFICES ASSUME m # Size[b] PROVE TornAt(n)'
    OBVIOUS
  <2>1. ~(FrameEnd(n)' <= l)
    BY <1>1, <1>2, <1>6
  <2> QED
    BY <1>1, <1>6, <2>1 DEF TornAt, IsFrame
<1>9. ~IsFrame(n)
  BY <1>1, FrameFacts
<1>10. ASSUME NEW i, IsFrame(i)'
       PROVE  /\ i \in 1..n /\ dat'[i] = dat[i]
              /\ FrameEnd(i)' = FrameEnd(i)
              /\ IsFrame(i) \/ i = n
  <2>1. /\ i \in 1..n /\ dat'[i] = dat[i] /\ FrameEnd(i)' = FrameEnd(i)
        /\ IsFrame(i) \/ dat[i].rec = b
    BY <1>4, <1>5, <1>10, PayloadFrames
  <2>2. dat[i].at = 0
    BY <1>10, <2>1 DEF IsFrame
  <2>3. dat[i].rec = b => i = n
    BY <1>3, <2>1, <2>2 DEF Bookkeeping, WrittenOnce
  <2> QED
    BY <2>1, <2>3
<1> QED
  BY <1>1, <1>2, <1>3, <1>4, <1>5, <1>7, <1>8, <1>9, <1>10

\* What a crash leaves of the file: what it was, or a Write that has died.
LEMMA CrashFile ==
    ASSUME Bookkeeping, Crash
    PROVE  \/ lock # "write" /\ dat' = dat /\ lock' = "free"
           \/ \E b \in Batch, m \in Nat : Written(b, m)
<1>1. PICK left \in Leavings : NewFileBackend(left)
  BY DEF Crash
<1>2. CASE lock # "write"
  BY <1>1, <1>2 DEF Leavings, NewFileBackend
<1>3. CASE lock = "write"
  <2>1. PICK b \in Batch : task[b] = "payload"
    BY <1>3 DEF Bookkeeping, LockHolder
  <2>2. dat[Len(dat)].rec = b
    <3>1. dat[Len(dat)] = [rec |-> b, at |-> 0]
      BY <2>1 DEF Bookkeeping, WrittenOnce
    <3> QED
      BY <3>1
  <2>3. PICK m \in 0..Size[b] : left = dat \o Payload(b, m)
    BY <1>1, <1>3, <2>2 DEF Leavings
  <2>4. m \in Nat
    OBVIOUS
  <2>5. Written(b, m)
    BY <1>1, <1>3, <2>1, <2>3 DEF Written, NewFileBackend
  <2> QED
    BY <2>4, <2>5
<1> QED
  BY <1>2, <1>3

-----------------------------------------------------------------------------
(* The bookkeeping, which every fault of the model leaves true.                *)

LEMMA BookInit == Init => Bookkeeping
<1> SUFFICES ASSUME Init PROVE Bookkeeping
  OBVIOUS
<1>1. TypeOK /\ LengthRead
  BY TypeInit DEF TypeInv
<1>2. /\ dat = <<>> /\ Len(dat) = 0 /\ lock = "free" /\ rewriter = "off"
      /\ inflight = {} /\ accepted = {} /\ confirmed = {}
      /\ \A b \in Batch : task[b] = "new"
  BY DEF Init, FileInit
<1>3. WrittenOnce
  BY <1>2 DEF WrittenOnce
<1> QED
  BY <1>1, <1>2, <1>3 DEF Bookkeeping, LockHolder, InHand, ConfirmedIsPassed, FlagRaised,
     NoReplayAfterConfirm

\* A step that leaves the file and the rewriter alone and writes no batch.
LEMMA BookQuiet ==
    ASSUME Bookkeeping, (TypeOK /\ LengthRead)',
           UNCHANGED <<fileVars, rewriter, inflight, accepted, confirmed>>,
           \A c \in Batch : task[c] \in {"payload", "done", "gone"} => task'[c] = task[c],
           \A c \in Batch : task'[c] = "payload" => task[c] = "payload"
    PROVE  Bookkeeping'
<1> USE DEF Bookkeeping
<1>1. /\ dat' = dat /\ meta' = meta /\ consumer' = consumer /\ lock' = lock
      /\ dataflag' = dataflag /\ rewriter' = rewriter /\ inflight' = inflight
      /\ accepted' = accepted /\ confirmed' = confirmed
  BY DEF fileVars
<1>2. \A i : (IsFrame(i)' <=> IsFrame(i)) /\ FrameEnd(i)' = FrameEnd(i)
  BY <1>1, SameFrames
<1>3. WrittenOnce'
  <2>1. \A i \in 1..Len(dat) : dat[i].rec \in Batch
    <3>1. dat \in Seq(Cell)
      BY DEF TypeOK, FileTypeOK
    <3> QED
      BY <3>1, CellRec
  <2>2. accepted \subseteq Batch /\ inflight \subseteq Batch /\ confirmed \subseteq Batch
    BY DEF TypeOK
  <2> QED
    BY <1>1, <2>1, <2>2 DEF WrittenOnce
<1>4. LockHolder' /\ NoReplayAfterConfirm'
  BY <1>1 DEF LockHolder, NoReplayAfterConfirm
<1>5. InHand'
  BY <1>1, <1>2 DEF InHand, Truncated
<1>6. ConfirmedIsPassed' /\ FlagRaised'
  BY <1>1, <1>2 DEF ConfirmedIsPassed, FlagRaised
<1> QED
  BY <1>3, <1>4, <1>5, <1>6

\* The steps of a task that does not hold the file, and of the network.
LEMMA BookElsewhere ==
    ASSUME Bookkeeping, (TypeOK /\ LengthRead)', NEW b \in Batch,
           Submit(b) \/ TaskCheck(b) \/ TaskPost(b) \/ CheckActive \/ ServerChanges \/ UNCHANGED vars
    PROVE  Bookkeeping'
<1> USE DEF fileVars, rwVars, netVars, histVars, TaskGoes
<1>1. task \in [Batch -> TaskStates]
  BY DEF Bookkeeping, TypeOK
<1>2. CASE Submit(b)
  BY <1>1, <1>2, BookQuiet DEF Submit
<1>3. CASE TaskCheck(b)
  BY <1>1, <1>3, BookQuiet DEF TaskCheck
<1>4. CASE TaskPost(b)
  <2>1. UNCHANGED <<fileVars, rewriter, inflight, accepted, confirmed>>
    BY <1>4 DEF TaskPost
  <2>2. /\ \A c \in Batch : task[c] \in {"payload", "done", "gone"} => task'[c] = task[c]
        /\ \A c \in Batch : task'[c] = "payload" => task[c] = "payload"
    BY <1>1, <1>4 DEF TaskPost
  <2> QED
    BY <2>1, <2>2, BookQuiet
<1>5. CASE CheckActive
  BY <1>5, BookQuiet DEF CheckActive
<1>6. CASE ServerChanges
  BY <1>6, BookQuiet DEF ServerChanges
<1>7. CASE UNCHANGED vars
  BY <1>7, BookQuiet DEF vars
<1> QED
  BY <1>2, <1>3, <1>4, <1>5, <1>6, <1>7

\* What the rewriter holds survives an append, during which it is not in
\* UpdateMeta.
LEMMA BookInHand ==
    ASSUME Bookkeeping, Appended, lock # "meta",
           UNCHANGED <<consumer, rewriter, inflight>>
    PROVE  InHand'
<1>1. ~Truncated
  BY DEF Bookkeeping, LockHolder, Truncated
<1>2. CASE inflight = {}
  BY <1>2 DEF InHand
<1>3. CASE inflight # {}
  <2>1. PICK j \in 1..Len(dat) : IsFrame(j) /\ FrameEnd(j) = consumer /\ inflight = {dat[j].rec}
    BY <1>1, <1>3 DEF Bookkeeping, InHand
  <2>2. IsFrame(j)' /\ FrameEnd(j)' = FrameEnd(j) /\ dat'[j] = dat[j]
    BY <2>1, FramesSurvive
  <2>3. j \in 1..Len(dat')
    BY <2>2 DEF IsFrame
  <2> QED
    BY <2>1, <2>2, <2>3 DEF Bookkeeping, InHand
<1> QED
  BY <1>2, <1>3

LEMMA BookWriteLength ==
    ASSUME Bookkeeping, (TypeOK /\ LengthRead)', NEW b \in Batch, TaskWriteLength(b)
    PROVE  Bookkeeping'
<1> USE DEF Bookkeeping, fileVars, rwVars, netVars, histVars
<1>1. PICK ok \in BOOLEAN : WriteLength(b, ok) /\ TaskGoes(b, "spill", IF ok THEN "payload" ELSE "gone")
  BY DEF TaskWriteLength
<1>2. task \in [Batch -> TaskStates] /\ dat \in Seq(Cell) /\ Len(dat) \in Nat
  BY LenProperties DEF TypeOK, FileTypeOK
<1>3. UNCHANGED <<meta, consumer, dataflag, rewriter, inflight, accepted, confirmed>>
  BY <1>1 DEF TaskWriteLength, WriteLength
<1>4. CASE ~ok
  <2>1. UNCHANGED <<dat, lock>>
    BY <1>1, <1>4 DEF WriteLength
  <2>2. /\ \A c \in Batch : task[c] \in {"payload", "done", "gone"} => task'[c] = task[c]
        /\ \A c \in Batch : task'[c] = "payload" => task[c] = "payload"
    BY <1>1, <1>2, <1>4 DEF TaskGoes
  <2> QED
    BY <1>3, <2>1, <2>2, BookQuiet
<1>5. CASE ok
  <2>1. /\ dat' \in Seq(Cell) /\ Len(dat') = Len(dat) + 1
        /\ \A i \in 1..Len(dat) : dat'[i] = dat[i]
        /\ dat'[Len(dat) + 1] = [rec |-> b, at |-> 0]
    BY <1>1, <1>2, <1>5, AppendLength DEF WriteLength
  <2>2. Appended
    BY <1>2, <2>1 DEF Appended
  <2>3. /\ lock = "free" /\ lock' = "write" /\ task[b] = "spill"
        /\ \A c \in Batch : task'[c] = IF c = b THEN "payload" ELSE task[c]
    BY <1>1, <1>2, <1>5 DEF WriteLength, TaskGoes
  <2>4. \A i : IsFrame(i)' => IsFrame(i) /\ FrameEnd(i)' = FrameEnd(i) /\ dat'[i] = dat[i]
    BY <2>1, <2>2, LengthFrames
  <2>5. WrittenOnce'
    <3>1. ASSUME NEW i \in 1..Len(dat'), dat'[i].at = 0
          PROVE  /\ task'[dat'[i].rec] \in {"payload", "done", "gone"}
                 /\ \A j \in 1..Len(dat') :
                       dat'[j].at = 0 /\ dat'[j].rec = dat'[i].rec => j = i
      <4>1. \A j \in 1..Len(dat) : dat[j].at = 0 => dat[j].rec # b
        BY <2>3 DEF WrittenOnce
      <4>2. \A j \in 1..Len(dat) : dat[j].rec \in Batch
        BY <1>2, CellRec
      <4> QED
        BY <1>2, <2>1, <2>3, <3>1, <4>1, <4>2 DEF WrittenOnce
    <3>2. ASSUME NEW c \in Batch, task'[c] = "payload"
          PROVE  /\ lock' = "write"
                 /\ Len(dat') > 0
                 /\ dat'[Len(dat')] = [rec |-> c, at |-> 0]
      <4>1. c = b
        BY <2>3, <3>2 DEF WrittenOnce
      <4> QED
        BY <1>2, <2>1, <2>3, <4>1
    <3>3. \A c \in accepted : task'[c] = "done"
      BY <2>3 DEF WrittenOnce, TypeOK
    <3>4. \A c \in inflight \union confirmed : task'[c] \in {"done", "gone"}
      BY <2>3 DEF WrittenOnce, TypeOK
    <3> QED
      BY <1>3, <3>1, <3>2, <3>3, <3>4 DEF WrittenOnce
  <2>6. LockHolder' /\ NoReplayAfterConfirm'
    BY <1>3, <2>3 DEF LockHolder, NoReplayAfterConfirm
  <2>7. InHand'
    BY <1>3, <2>2, <2>3, BookInHand
  <2>8. ConfirmedIsPassed' /\ FlagRaised'
    BY <1>3, <2>4 DEF ConfirmedIsPassed, FlagRaised, IsFrame
  <2> QED
    BY <2>5, <2>6, <2>7, <2>8
<1> QED
  BY <1>4, <1>5

\* The end of a Write, or its death, leaves the bookkeeping of the file in order.
LEMMA BookWritten ==
    ASSUME Bookkeeping, NEW b \in Batch, NEW m, Written(b, m),
           inflight' \subseteq inflight, confirmed' = confirmed,
           task' \in [Batch -> TaskStates],
           \A c \in Batch : task[c] \in {"done", "gone"} => task'[c] = task[c],
           task'[b] \in {"done", "gone"},
           \A c \in Batch : task'[c] # "payload",
           accepted' \subseteq Batch, \A c \in accepted' : task'[c] = "done"
    PROVE  WrittenOnce'
<1> USE DEF Bookkeeping
<1>0. PICK n : n = Len(dat)
  OBVIOUS
<1>1. /\ Appended /\ n \in Nat /\ Len(dat') \in Nat /\ n <= Len(dat')
      /\ \A k \in (n + 1)..Len(dat') : dat'[k].at # 0
  <2>1. /\ Appended /\ n \in Nat /\ m \in Nat /\ Len(dat') = n + m
        /\ \A k \in (n + 1)..Len(dat') : dat'[k].rec = b /\ dat'[k].at # 0
    BY <1>0, PiecesWritten
  <2> QED
    BY <2>1
<1>2. ASSUME NEW i \in 1..Len(dat'), dat'[i].at = 0
      PROVE  i \in 1..n /\ dat'[i] = dat[i]
  <2>1. i \in 1..n
    BY <1>1, <1>2
  <2> QED
    BY <1>0, <2>1, <1>1 DEF Appended
<1>3. \A i \in 1..n : dat[i].rec \in Batch
  BY <1>0, <1>1, CellRec DEF Appended
<1>4. \A c \in Batch : task[c] = "payload" => c = b
  <2> SUFFICES ASSUME NEW c \in Batch, task[c] = "payload" PROVE c = b
    OBVIOUS
  <2>1. dat[Len(dat)] = [rec |-> b, at |-> 0] /\ dat[Len(dat)] = [rec |-> c, at |-> 0]
    BY DEF WrittenOnce, Written
  <2> QED
    BY <2>1
<1>5. ASSUME NEW i \in 1..Len(dat'), dat'[i].at = 0
      PROVE  /\ task'[dat'[i].rec] \in {"payload", "done", "gone"}
             /\ \A j \in 1..Len(dat') : dat'[j].at = 0 /\ dat'[j].rec = dat'[i].rec => j = i
  BY <1>0, <1>2, <1>3, <1>4, <1>5 DEF WrittenOnce
<1>6. \A c \in inflight' \union confirmed' : task'[c] \in {"done", "gone"}
  BY DEF WrittenOnce, TypeOK
<1> QED
  BY <1>5, <1>6 DEF WrittenOnce

\* The payload completes the frame of its own batch, whose length is the last
\* cell, and no other.
LEMMA BookWritePayload ==
    ASSUME Bookkeeping, (TypeOK /\ LengthRead)', NEW b \in Batch, TaskWritePayload(b)
    PROVE  Bookkeeping'
<1> USE DEF Bookkeeping, fileVars, rwVars, netVars, histVars
<1>0. PICK n \in Nat : n = Len(dat)
  BY LenProperties DEF TypeOK, FileTypeOK
<1>1. PICK m \in 0..Size[b], result \in {"ok", "payload", "sync"} :
          /\ WritePayload(b, m, result)
          /\ TaskGoes(b, "payload", IF result = "ok" THEN "done" ELSE "gone")
          /\ accepted' = IF result = "ok" THEN accepted \union {b} ELSE accepted
  BY DEF TaskWritePayload
<1>2. task \in [Batch -> TaskStates]
  BY DEF TypeOK
<1>3. /\ UNCHANGED <<meta, consumer, rewriter, inflight, confirmed>>
      /\ lock = "write" /\ lock' = "free" /\ task[b] = "payload"
      /\ \A c \in Batch \ {b} : task'[c] = task[c]
      /\ task'[b] = IF result = "ok" THEN "done" ELSE "gone"
      /\ dataflag' = IF result = "ok" THEN TRUE ELSE dataflag
  BY <1>1, <1>2 DEF TaskWritePayload, WritePayload, TaskGoes
<1>4. Written(b, m)
  BY <1>1, <1>3 DEF Written, WritePayload
<1>5. /\ Appended /\ n \in 1..n /\ dat[n] = [rec |-> b, at |-> 0]
      /\ \A i : IsFrame(i)' => /\ i \in 1..n /\ dat'[i] = dat[i]
                               /\ FrameEnd(i)' = FrameEnd(i)
                               /\ IsFrame(i) \/ i = n
  <2>1. dat[Len(dat)] = [rec |-> b, at |-> 0]
    BY <1>3 DEF WrittenOnce
  <2> QED
    BY <1>0, <1>4, <2>1, PiecesWritten
<1>6. \A c \in Batch : task'[c] # "payload"
  <2> TAKE c \in Batch
  <2>1. CASE c = b
    BY <1>3, <2>1
  <2>2. CASE c # b
    <3>1. task[c] = "payload" => dat[n] = [rec |-> c, at |-> 0]
      BY <1>0 DEF WrittenOnce
    <3> QED
      BY <1>3, <1>5, <2>2, <3>1
  <2> QED
    BY <2>1, <2>2
<1>7. WrittenOnce'
  <2>1. /\ accepted' \subseteq Batch /\ task' \in [Batch -> TaskStates]
        /\ \A c \in accepted' : task'[c] = "done"
    BY <1>1, <1>3 DEF WrittenOnce, TypeOK
  <2>2. \A c \in Batch : task[c] \in {"done", "gone"} => task'[c] = task[c]
    BY <1>3
  <2> QED
    BY <1>3, <1>4, <1>6, <2>1, <2>2, BookWritten
<1>8. LockHolder' /\ NoReplayAfterConfirm'
  BY <1>3 DEF LockHolder, NoReplayAfterConfirm
<1>9. InHand'
  BY <1>3, <1>5, BookInHand
<1>10. b \notin accepted /\ b \notin confirmed
  BY <1>3 DEF WrittenOnce
<1>11. ConfirmedIsPassed'
  BY <1>0, <1>3, <1>5, <1>10 DEF ConfirmedIsPassed
<1>12. FlagRaised'
  BY <1>0, <1>1, <1>3, <1>5, <1>10 DEF FlagRaised
<1> QED
  BY <1>7, <1>8, <1>9, <1>11, <1>12

\* The steps of the rewriter that touch neither the file nor what it holds.
LEMMA BookLoop ==
    ASSUME Bookkeeping, (TypeOK /\ LengthRead)',
           RewriteIdle \/ RewriteLoop \/ RewriteLoopExit
    PROVE  Bookkeeping'
<1> USE DEF Bookkeeping, fileVars, rwVars, netVars, histVars, RewriterGoes
<1>1. /\ UNCHANGED <<dat, meta, consumer, dataflag, lock, inflight, task, accepted, confirmed>>
      /\ rewriter \in {"off", "loop", "exit"}
      /\ rewriter' \in {"off", "loop", "exit", "length"}
      /\ rewriter' = "length" => dataflag
  BY DEF RewriteIdle, RewriteLoop, RewriteLoopExit, IsData
<1>2. \A i : (IsFrame(i)' <=> IsFrame(i)) /\ FrameEnd(i)' = FrameEnd(i)
  BY <1>1, SameFrames
<1>3. WrittenOnce'
  BY <1>1 DEF WrittenOnce
<1>4. LockHolder' /\ NoReplayAfterConfirm'
  BY <1>1 DEF LockHolder, NoReplayAfterConfirm
<1>5. InHand'
  BY <1>1 DEF InHand
<1>6. ConfirmedIsPassed' /\ FlagRaised'
  BY <1>1, <1>2 DEF ConfirmedIsPassed, FlagRaised
<1> QED
  BY <1>3, <1>4, <1>5, <1>6

LEMMA BookReadLength ==
    ASSUME Bookkeeping, (TypeOK /\ LengthRead)', RewriteReadLength
    PROVE  Bookkeeping'
<1> USE DEF Bookkeeping, fileVars, rwVars, netVars, histVars, RewriterGoes
<1>1. /\ UNCHANGED <<dat, meta, dataflag, lock, inflight, task, accepted, confirmed>>
      /\ rewriter = "length" /\ inflight = {}
      /\ \/ rewriter' = "payload" /\ consumer' = consumer + 1
         \/ rewriter' = "loop" /\ consumer' = consumer
  BY DEF RewriteReadLength, ReadLength, InHand
<1>2. \A i : (IsFrame(i)' <=> IsFrame(i)) /\ FrameEnd(i)' = FrameEnd(i)
  BY <1>1, SameFrames
<1>3. consumer \in Nat /\ meta \in Nat \union {Empty}
  BY DEF TypeOK, FileTypeOK
<1>4. WrittenOnce'
  BY <1>1 DEF WrittenOnce
<1>5. LockHolder' /\ NoReplayAfterConfirm' /\ InHand'
  BY <1>1 DEF LockHolder, NoReplayAfterConfirm, InHand
<1>6. ConfirmedIsPassed'
  BY <1>1, <1>2, <1>3 DEF ConfirmedIsPassed, Empty
<1>7. FlagRaised'
  BY <1>1, <1>2, <1>3 DEF FlagRaised
<1> QED
  BY <1>4, <1>5, <1>6, <1>7

\* What is read was not confirmed: confirmed frames are behind the consumer.
LEMMA BookReadPayload ==
    ASSUME Bookkeeping, (TypeOK /\ LengthRead)', RewriteReadPayload
    PROVE  Bookkeeping'
<1> USE DEF Bookkeeping, fileVars, rwVars, netVars, histVars, RewriterGoes
<1>0. PICK c \in Nat : c = consumer
  BY DEF TypeOK, FileTypeOK
<1>1. PICK offset \in ReadOffsets :
          /\ ReadPayload(offset)
          /\ \/ /\ ~ReadFails
                /\ inflight' = IF ReadsFrame THEN {dat[consumer].rec} ELSE {}
                /\ rewriter' = "post"
             \/ rewriter' = "loop" /\ inflight' = inflight
  BY DEF RewriteReadPayload
<1>2. /\ dat \in Seq(Cell) /\ Len(dat) \in Nat /\ c \in 1..Len(dat)
      /\ rewriter = "payload" /\ dataflag /\ inflight = {}
      /\ UNCHANGED <<dat, meta, dataflag, lock, task, accepted, confirmed>>
  BY <1>0, <1>1, LenProperties
     DEF RewriteReadPayload, ReadPayload, TypeOK, FileTypeOK, LengthRead, InHand, FlagRaised
<1>3. dat[c].rec \in Batch /\ Size[dat[c].rec] \in Nat \ {0}
  BY <1>2, CellRec, BatchSize
<1>4. offset \in Nat /\ c <= offset /\ (IsFrame(c) => offset = FrameEnd(c)) /\ consumer' = offset
  BY <1>0, <1>1, <1>2, <1>3 DEF ReadOffsets, ReadPayload, IsFrame, FrameEnd
<1>5. \A i : (IsFrame(i)' <=> IsFrame(i)) /\ FrameEnd(i)' = FrameEnd(i)
  BY <1>2, SameFrames
<1>6. /\ rewriter' \in {"post", "loop"}
      /\ rewriter' = "loop" => inflight' = {}
      /\ inflight' # {} => IsFrame(c) /\ inflight' = {dat[c].rec}
  BY <1>0, <1>1, <1>2 DEF ReadsFrame
<1>7. IsFrame(c) => task[dat[c].rec] \in {"done", "gone"}
  <2> SUFFICES ASSUME IsFrame(c), task[dat[c].rec] = "payload" PROVE FALSE
    BY <1>2 DEF IsFrame, WrittenOnce
  <2>0. PICK b \in Batch : b = dat[c].rec
    BY <1>3
  <2>1. Len(dat) \in 1..Len(dat) /\ dat[Len(dat)].at = 0 /\ dat[Len(dat)].rec = dat[c].rec
    <3>1. task[b] = "payload"
      BY <2>0
    <3>2. Len(dat) > 0 /\ dat[Len(dat)] = [rec |-> b, at |-> 0]
      BY <3>1 DEF WrittenOnce
    <3>3. dat[Len(dat)].at = 0 /\ dat[Len(dat)].rec = b
      BY <3>2
    <3> QED
      BY <1>2, <2>0, <3>2, <3>3
  <2>2. c = Len(dat)
    BY <1>2, <2>1 DEF WrittenOnce, IsFrame
  <2> QED
    BY <1>2, <1>3, <2>2 DEF IsFrame, FrameEnd
<1>8. WrittenOnce'
  BY <1>2, <1>6, <1>7 DEF WrittenOnce
<1>9. LockHolder'
  BY <1>2, <1>6 DEF LockHolder
<1>10. InHand'
  BY <1>2, <1>4, <1>5, <1>6 DEF InHand
<1>11. ConfirmedIsPassed'
  <2>1. \A i \in 1..Len(dat) : IsFrame(i) /\ dat[i].rec \in confirmed => FrameEnd(i) <= meta /\ meta < c
    BY <1>0, <1>2 DEF ConfirmedIsPassed
  <2>2. meta \in Nat \union {Empty}
    BY DEF TypeOK, FileTypeOK
  <2> QED
    BY <1>2, <1>4, <1>5, <1>6, <2>1, <2>2 DEF ConfirmedIsPassed, Empty
<1>12. FlagRaised'
  BY <1>2 DEF FlagRaised
<1>13. NoReplayAfterConfirm'
  <2> SUFFICES ASSUME IsFrame(c), dat[c].rec \in confirmed PROVE FALSE
    BY <1>2, <1>6 DEF NoReplayAfterConfirm
  <2>1. FrameEnd(c) <= meta /\ meta < c
    BY <1>0, <1>2 DEF ConfirmedIsPassed
  <2>2. meta \in Nat \union {Empty} /\ FrameEnd(c) = c + Size[dat[c].rec]
    BY DEF TypeOK, FileTypeOK, FrameEnd
  <2> QED
    BY <1>3, <2>1, <2>2 DEF Empty
<1> QED
  BY <1>8, <1>9, <1>10, <1>11, <1>12, <1>13

LEMMA BookRewritePost ==
    ASSUME Bookkeeping, (TypeOK /\ LengthRead)', RewritePost
    PROVE  Bookkeeping'
<1> USE DEF Bookkeeping, fileVars, rwVars, netVars, histVars, RewriterGoes
<1>1. /\ UNCHANGED <<dat, meta, consumer, dataflag, lock, inflight, task, accepted, confirmed>>
      /\ rewriter = "post" /\ rewriter' \in {"update", "rollback"}
  BY DEF RewritePost
<1>2. \A i : (IsFrame(i)' <=> IsFrame(i)) /\ FrameEnd(i)' = FrameEnd(i)
  BY <1>1, SameFrames
<1>3. WrittenOnce'
  BY <1>1 DEF WrittenOnce
<1>4. LockHolder' /\ NoReplayAfterConfirm'
  BY <1>1 DEF LockHolder, NoReplayAfterConfirm
<1>5. InHand'
  BY <1>1, <1>2 DEF InHand, Truncated
<1>6. ConfirmedIsPassed' /\ FlagRaised'
  BY <1>1, <1>2 DEF ConfirmedIsPassed, FlagRaised
<1> QED
  BY <1>3, <1>4, <1>5, <1>6

\* A rollback stops at the saved offset, behind what is confirmed.
LEMMA BookRollback ==
    ASSUME Bookkeeping, (TypeOK /\ LengthRead)', RewriteRollback
    PROVE  Bookkeeping'
<1> USE DEF Bookkeeping, fileVars, rwVars, netVars, histVars, RewriterGoes
<1>1. /\ UNCHANGED <<dat, meta, dataflag, lock, task, accepted, confirmed>>
      /\ rewriter = "rollback" /\ rewriter' = "loop" /\ inflight' = {} /\ dataflag
      /\ consumer' = IF meta = Empty THEN consumer ELSE meta
  BY DEF RewriteRollback, RollbackMeta, FlagRaised
<1>2. \A i : (IsFrame(i)' <=> IsFrame(i)) /\ FrameEnd(i)' = FrameEnd(i)
  BY <1>1, SameFrames
<1>3. consumer \in Nat /\ meta \in Nat \union {Empty}
  BY DEF TypeOK, FileTypeOK
<1>4. WrittenOnce'
  BY <1>1 DEF WrittenOnce
<1>5. LockHolder' /\ NoReplayAfterConfirm' /\ InHand' /\ FlagRaised'
  BY <1>1 DEF LockHolder, NoReplayAfterConfirm, InHand, FlagRaised
<1>6. ConfirmedIsPassed'
  BY <1>1, <1>2, <1>3 DEF ConfirmedIsPassed, Empty
<1> QED
  BY <1>4, <1>5, <1>6

\* CleanUp leaves no frame at all.
LEMMA BookUpdateBegin ==
    ASSUME Bookkeeping, (TypeOK /\ LengthRead)', RewriteUpdateBegin
    PROVE  Bookkeeping'
<1> USE DEF Bookkeeping, fileVars, rwVars, netVars, histVars, RewriterGoes
<1>1. /\ UNCHANGED <<meta, inflight, task, accepted, confirmed>>
      /\ rewriter = "update" /\ rewriter' = "meta" /\ lock = "free" /\ lock' = "meta"
  BY DEF RewriteUpdateBegin, UpdateMetaBegin
<1>2. LockHolder' /\ NoReplayAfterConfirm'
  BY <1>1 DEF LockHolder, NoReplayAfterConfirm
<1>3. \A b \in Batch : task[b] # "payload"
  BY <1>1 DEF WrittenOnce
<1>4. CASE Len(dat) = consumer
  <2>1. dat' = <<>> /\ Len(dat') = 0
    BY <1>4 DEF RewriteUpdateBegin, UpdateMetaBegin, CleanUp
  <2>2. WrittenOnce'
    BY <1>1, <1>3, <2>1 DEF WrittenOnce
  <2> QED
    BY <1>1, <1>2, <2>1, <2>2 DEF InHand, Truncated, ConfirmedIsPassed, FlagRaised
<1>5. CASE Len(dat) # consumer
  <2>1. UNCHANGED <<dat, consumer, dataflag>>
    BY <1>5 DEF RewriteUpdateBegin, UpdateMetaBegin
  <2>2. \A i : (IsFrame(i)' <=> IsFrame(i)) /\ FrameEnd(i)' = FrameEnd(i)
    BY <2>1, SameFrames
  <2>3. WrittenOnce'
    BY <1>1, <1>3, <2>1 DEF WrittenOnce
  <2>4. InHand'
    BY <1>1, <2>1, <2>2 DEF InHand, Truncated
  <2>5. ConfirmedIsPassed' /\ FlagRaised'
    BY <1>1, <2>1, <2>2 DEF ConfirmedIsPassed, FlagRaised
  <2> QED
    BY <1>2, <2>3, <2>4, <2>5
<1> QED
  BY <1>4, <1>5

\* What UpdateMeta confirms ends where it saves the offset.
LEMMA BookUpdateEnd ==
    ASSUME Bookkeeping, (TypeOK /\ LengthRead)', RewriteUpdateEnd
    PROVE  Bookkeeping'
<1> USE DEF Bookkeeping, fileVars, rwVars, netVars, histVars, RewriterGoes
<1>1. PICK ok \in BOOLEAN :
          /\ UpdateMetaEnd(ok)
          /\ confirmed' = IF ok THEN confirmed \union inflight ELSE confirmed
  BY DEF RewriteUpdateEnd
<1>2. /\ UNCHANGED <<dat, consumer, dataflag, task, accepted>>
      /\ rewriter = "meta" /\ rewriter' = "loop" /\ lock = "meta" /\ lock' = "free"
      /\ inflight' = {}
      /\ meta' = IF ok THEN consumer ELSE meta
  BY <1>1 DEF RewriteUpdateEnd, UpdateMetaEnd
<1>3. \A i : (IsFrame(i)' <=> IsFrame(i)) /\ FrameEnd(i)' = FrameEnd(i)
  BY <1>2, SameFrames
<1>4. consumer \in Nat /\ meta \in Nat \union {Empty} /\ dat \in Seq(Cell) /\ Len(dat) \in Nat
  BY LenProperties DEF TypeOK, FileTypeOK
<1>5. \A b \in Batch : task[b] # "payload"
  BY <1>2 DEF WrittenOnce
<1>6. WrittenOnce'
  BY <1>1, <1>2, <1>5 DEF WrittenOnce
<1>7. LockHolder' /\ NoReplayAfterConfirm' /\ InHand' /\ FlagRaised'
  BY <1>2, <1>3 DEF LockHolder, NoReplayAfterConfirm, InHand, FlagRaised
<1>8. ConfirmedIsPassed'
  <2> SUFFICES ASSUME NEW i \in 1..Len(dat), IsFrame(i), dat[i].rec \in confirmed'
               PROVE  FrameEnd(i) <= meta' /\ meta' <= consumer
    BY <1>2, <1>3 DEF ConfirmedIsPassed
  <2>1. CASE dat[i].rec \in confirmed
    <3>1. FrameEnd(i) <= meta /\ meta <= consumer /\ FrameEnd(i) \in Nat
      BY <1>4, <2>1, FrameFacts DEF ConfirmedIsPassed
    <3> QED
      BY <1>2, <1>4, <3>1 DEF Empty
  <2>2. CASE dat[i].rec \notin confirmed
    <3>1. ok /\ dat[i].rec \in inflight
      BY <1>1, <2>2
    <3>2. ~Truncated
      BY <1>4 DEF Truncated
    <3>3. PICK j \in 1..Len(dat) : IsFrame(j) /\ FrameEnd(j) = consumer /\ inflight = {dat[j].rec}
      BY <3>1, <3>2 DEF InHand
    <3>4. dat[i].at = 0 /\ dat[j].at = 0 /\ dat[i].rec = dat[j].rec
      BY <3>1, <3>3 DEF IsFrame
    <3>5. i = j
      BY <3>4 DEF WrittenOnce
    <3> QED
      BY <1>2, <1>4, <3>1, <3>3, <3>5
  <2> QED
    BY <2>1, <2>2
<1> QED
  BY <1>6, <1>7, <1>8

\* A restart begins at the saved offset, with the flag up when cells follow it.
LEMMA BookCrash ==
    ASSUME Bookkeeping, (TypeOK /\ LengthRead)', Crash
    PROVE  Bookkeeping'
<1> USE DEF Bookkeeping, fileVars, rwVars, netVars, histVars
<1>1. /\ UNCHANGED <<meta, accepted, confirmed>>
      /\ consumer' = ResumeOffset /\ dataflag' = (Len(dat') > ResumeOffset) /\ lock' = "free"
      /\ rewriter' = "off" /\ inflight' = {}
      /\ task' = [b \in Batch |-> IF task[b] \in Running THEN "gone" ELSE task[b]]
  BY DEF Crash, NewFileBackend
<1>2. /\ dat \in Seq(Cell) /\ Len(dat) \in Nat /\ meta \in Nat \union {Empty}
      /\ ResumeOffset \in Nat /\ (meta # Empty => ResumeOffset = meta)
      /\ Len(dat') \in Nat
  BY LenProperties DEF TypeOK, FileTypeOK, ResumeOffset, Empty
<1>3. \A b \in Batch : /\ task[b] \in {"payload", "done", "gone"} => task'[b] \in {"done", "gone"}
                       /\ task[b] \in {"done", "gone"} => task'[b] = task[b]
                       /\ task'[b] # "payload"
  BY <1>1 DEF Running
<1>4. accepted \subseteq Batch /\ confirmed \subseteq Batch
  BY DEF TypeOK
<1>5. ASSUME dat' = dat
      PROVE  /\ WrittenOnce'
             /\ \A i : IsFrame(i)' /\ dat'[i].rec \in confirmed =>
                    IsFrame(i) /\ FrameEnd(i)' = FrameEnd(i) /\ dat'[i] = dat[i]
  <2>1. \A i \in 1..Len(dat) : dat[i].rec \in Batch
    BY <1>2, CellRec
  <2>2. WrittenOnce'
    BY <1>1, <1>3, <1>4, <1>5, <2>1 DEF WrittenOnce
  <2>3. \A i : IsFrame(i)' => IsFrame(i) /\ FrameEnd(i)' = FrameEnd(i) /\ dat'[i] = dat[i]
    BY <1>5, SameFrames
  <2> QED
    BY <2>2, <2>3
<1>6. ASSUME NEW b \in Batch, NEW m \in Nat, Written(b, m)
      PROVE  /\ WrittenOnce'
             /\ \A i : IsFrame(i)' /\ dat'[i].rec \in confirmed =>
                    IsFrame(i) /\ FrameEnd(i)' = FrameEnd(i) /\ dat'[i] = dat[i]
  <2>1. task[b] = "payload" /\ b \notin confirmed
    BY <1>6 DEF Written, WrittenOnce
  <2>2. \A c \in accepted' : task'[c] = "done"
    BY <1>1, <1>3, <1>4 DEF WrittenOnce
  <2>3. WrittenOnce'
    BY <1>1, <1>3, <1>4, <1>6, <2>1, <2>2, BookWritten DEF TypeOK
  <2>4. PICK n : n = Len(dat)
    OBVIOUS
  <2>5. /\ dat'[n].rec = b
        /\ \A i : IsFrame(i)' => /\ dat'[i] = dat[i] /\ FrameEnd(i)' = FrameEnd(i)
                                 /\ IsFrame(i) \/ i = n
    BY <1>6, <2>4, PiecesWritten
  <2> QED
    BY <2>1, <2>3, <2>5
<1>7. /\ WrittenOnce'
      /\ \A i : IsFrame(i)' /\ dat'[i].rec \in confirmed =>
             IsFrame(i) /\ FrameEnd(i)' = FrameEnd(i) /\ dat'[i] = dat[i]
  BY <1>5, <1>6, CrashFile
<1>8. LockHolder' /\ NoReplayAfterConfirm' /\ InHand'
  BY <1>1 DEF LockHolder, NoReplayAfterConfirm, InHand
<1>9. ConfirmedIsPassed'
  <2> SUFFICES ASSUME NEW i, IsFrame(i), dat[i].rec \in confirmed
               PROVE  FrameEnd(i) <= meta /\ meta <= ResumeOffset
    BY <1>1, <1>7 DEF ConfirmedIsPassed
  <2>1. FrameEnd(i) <= meta /\ FrameEnd(i) \in Nat
    BY <1>2, FrameFacts DEF ConfirmedIsPassed
  <2> QED
    BY <1>2, <2>1 DEF Empty
<1>10. FlagRaised'
  <2>1. ASSUME NEW i \in 1..Len(dat'), ResumeOffset < i
        PROVE  dataflag'
    <3>1. Len(dat') > ResumeOffset
      BY <1>2, <2>1
    <3> QED
      BY <1>1, <3>1
  <2> QED
    BY <1>1, <2>1 DEF FlagRaised
<1> QED
  BY <1>7, <1>8, <1>9, <1>10

LEMMA BookStep == Bookkeeping /\ [Next]_vars => Bookkeeping'
<1> SUFFICES ASSUME Bookkeeping, [Next]_vars PROVE Bookkeeping'
  OBVIOUS
<1>1. (TypeOK /\ LengthRead)'
  <2>1. WriteBegun
    BY DEF WriteBegun, Bookkeeping, LockHolder, WrittenOnce
  <2> QED
    BY <2>1, TypeStep DEF TypeInv, Bookkeeping
<1>2. CASE \E b \in Batch : Submit(b) \/ TaskNext(b)
  BY <1>1, <1>2, BookElsewhere, BookWriteLength, BookWritePayload DEF TaskNext
<1>3. CASE RewriterNext
  BY <1>1, <1>3, BookLoop, BookReadLength, BookReadPayload, BookRewritePost, BookRollback,
     BookUpdateBegin, BookUpdateEnd DEF RewriterNext
<1>4. CASE Crash
  BY <1>1, <1>4, BookCrash
<1>5. CASE CheckActive \/ ServerChanges \/ UNCHANGED vars
  <2>1. UNCHANGED <<fileVars, task, rewriter, inflight, accepted, confirmed>>
    BY <1>5 DEF CheckActive, ServerChanges, vars, rwVars, histVars
  <2> QED
    BY <1>1, <2>1, BookQuiet
<1> QED
  BY <1>2, <1>3, <1>4, <1>5 DEF Next

\* Whatever crashes and disk errors of AllFaults happen, every batch, frame, lock
\* and flag is accounted for as Bookkeeping says (backend/file.go,
\* backend/backend.go).  CleanUp's own errors are not among them.
THEOREM BookkeepingCorrect == Spec => []Bookkeeping
  BY BookInit, BookStep, PTL DEF Spec

\* Under every fault of the model the replay that .rec records is the last one of its batch
\* (backend/backend.go Rewrite, backend/file.go UpdateMeta, RollbackMeta).
THEOREM NoReplayAfterConfirmCorrect == Spec => []NoReplayAfterConfirm
<1>1. Bookkeeping => NoReplayAfterConfirm
  BY DEF Bookkeeping
<1> QED
  BY <1>1, BookkeepingCorrect, PTL

\* Under every fault of the model the flag is up while an accepted batch lies ahead of the
\* consumer, so that the next tick starts a rewriter (backend/file.go IsData).
THEOREM FlagUpWhilePendingCorrect == Spec => []FlagUpWhilePending
<1>1. Bookkeeping => FlagUpWhilePending
  BY DEF Bookkeeping, FlagRaised, FlagUpWhilePending, FramesFrom
<1> QED
  BY <1>1, BookkeepingCorrect, PTL

-----------------------------------------------------------------------------
(* Frames and boundaries. *)

\* No boundary is inside a frame.
LEMMA NoStraddle ==
    ASSUME dat \in Seq(Cell), NEW i, IsFrame(i), NEW k, Boundary(k), i <= k
    PROVE  FrameEnd(i) <= k
<1> SUFFICES ASSUME FrameEnd(i) > k PROVE FALSE
  BY FrameFacts DEF Boundary
<1>1. k \in Nat /\ k < Len(dat) /\ k + 1 \in (i + 1)..FrameEnd(i)
  BY FrameFacts DEF Boundary
<1>2. dat[k + 1].at # 0
  BY <1>1, FrameFacts
<1> QED
  BY <1>1, <1>2, FrameFacts DEF Boundary

\* Frames do not overlap.
LEMMA Disjoint ==
    ASSUME dat \in Seq(Cell), NEW i, IsFrame(i), NEW j, IsFrame(j), i < j
    PROVE  FrameEnd(i) < j
<1> SUFFICES ASSUME FrameEnd(i) >= j PROVE FALSE
  BY FrameFacts
<1>1. j \in (i + 1)..FrameEnd(i)
  BY FrameFacts
<1> QED
  BY <1>1, FrameFacts

\* Where a length was read off a boundary there is a frame, whole or torn.
LEMMA AtBoundary ==
    ASSUME dat \in Seq(Cell), Framed, NEW k, Boundary(k), k < Len(dat)
    PROVE  IsFrame(k + 1) \/ TornAt(k + 1) \/ (lock = "write" /\ k + 1 = Len(dat))
<1>1. PICK m : m = k + 1
  OBVIOUS
<1>2. k \in Nat /\ Len(dat) \in Nat
  BY LenProperties DEF Boundary
<1>3. m \in 1..Len(dat) /\ dat[m].at = 0
  BY <1>1, <1>2 DEF Boundary
<1>4. IsFrame(m) \/ TornAt(m) \/ (lock = "write" /\ m = Len(dat))
  BY <1>3 DEF Framed, FramedAt, TornAfter
<1> QED
  BY <1>1, <1>4

\* Steps that append nothing and neither begin nor end a Write.
SameFile == dat' = dat /\ (lock' = "write" <=> lock = "write")

LEMMA FileSame ==
    ASSUME SameFile
    PROVE  \A i : /\ IsFrame(i)' <=> IsFrame(i)
                  /\ FrameEnd(i)' = FrameEnd(i)
                  /\ TornAt(i)' <=> TornAt(i)
                  /\ Boundary(i)' <=> Boundary(i)
                  /\ Clean(i)' <=> Clean(i)
<1>1. \A i : /\ IsFrame(i)' <=> IsFrame(i)
             /\ FrameEnd(i)' = FrameEnd(i)
  BY SameFrames DEF SameFile
<1>2. \A i : /\ TornAt(i)' <=> TornAt(i)
             /\ Boundary(i)' <=> Boundary(i)
  BY <1>1 DEF SameFile, TornAt, Boundary
<1>3. \A i : Clean(i)' <=> Clean(i)
  BY <1>2 DEF SameFile, Clean
<1> QED
  BY <1>1, <1>2, <1>3

\* What every step leaves true of the frames but the one that empties the file:
\* only the length a Write has just appended can become a frame, whole or torn.
Grown ==
    /\ Appended
    /\ \A i : /\ IsFrame(i)' => /\ i \in 1..Len(dat)
                                /\ IsFrame(i) \/ (lock = "write" /\ i = Len(dat))
              /\ TornAt(i) => TornAt(i)'
              /\ TornAt(i)' => TornAt(i) \/ (lock = "write" /\ i = Len(dat))
              /\ Boundary(i) => Boundary(i)'

LEMMA SameGrown ==
    ASSUME SameFile, dat \in Seq(Cell)
    PROVE  Grown
<1>1. Appended
  BY LenProperties DEF SameFile, Appended
<1>2. \A i : IsFrame(i)' => i \in 1..Len(dat)
  BY FileSame DEF IsFrame
<1> QED
  BY <1>1, <1>2, FileSame DEF Grown

\* A Write that ends, or dies.
LEMMA PiecesGrown ==
    ASSUME Bookkeeping, NEW b \in Batch, NEW m, Written(b, m)
    PROVE  Grown
<1>0. PICK n : n = Len(dat)
  OBVIOUS
<1>1. /\ Appended
      /\ m \in Nat /\ n \in Nat /\ n \in 1..n /\ Len(dat') = n + m
      /\ \A k \in (n + 1)..Len(dat') : dat'[k].rec = b /\ dat'[k].at # 0
      /\ \A i : IsFrame(i)' => i \in 1..n /\ dat'[i] = dat[i] /\ (IsFrame(i) \/ i = n)
  BY <1>0, PiecesWritten
<1>2. lock = "write" /\ lock' = "free"
  BY DEF Written
<1>3. \A i \in 1..n : dat'[i] = dat[i] /\ i \in 1..Len(dat')
  BY <1>0, <1>1 DEF Appended
<1>4. ASSUME NEW i, TornAt(i) PROVE TornAt(i)'
  <2>1. i \in 1..n /\ i # n /\ dat[i].at = 0 /\ ~IsFrame(i)
    BY <1>0, <1>2, <1>4 DEF TornAt
  <2> QED
    BY <1>1, <1>2, <1>3, <2>1 DEF TornAt
<1>5. ASSUME NEW i, TornAt(i)' PROVE TornAt(i) \/ i = n
  <2>1. i \in 1..n /\ dat'[i].at = 0 /\ ~IsFrame(i)'
    BY <1>1, <1>5 DEF TornAt
  <2>2. dat[i].at = 0 /\ ~IsFrame(i)
    BY <1>1, <1>3, <2>1, FramesSurvive
  <2> QED
    BY <1>0, <2>1, <2>2 DEF TornAt
<1>6. ASSUME NEW k, Boundary(k) PROVE Boundary(k)'
  <2>1. k \in 0..n /\ k # n /\ dat[k + 1].at = 0
    BY <1>0, <1>2, <1>6 DEF Boundary
  <2>2. k \in Nat /\ k + 1 \in 1..n
    BY <1>1, <2>1
  <2>3. dat'[k + 1].at = 0
    BY <1>3, <2>1, <2>2
  <2>4. k \in 0..Len(dat') /\ k # Len(dat')
    BY <1>1, <2>2
  <2> QED
    BY <2>3, <2>4 DEF Boundary
<1> QED
  BY <1>0, <1>1, <1>2, <1>4, <1>5, <1>6 DEF Grown

\* A length that is framed stays so.
LEMMA GrownFramedAt ==
    ASSUME Grown, NEW i \in 1..Len(dat), FramedAt(i)
    PROVE  FramedAt(i)'
<1>1. /\ dat'[i] = dat[i] /\ dat \in Seq(Cell) /\ dat' \in Seq(Cell)
      /\ Len(dat) \in Nat /\ Len(dat') \in Nat /\ Len(dat) <= Len(dat')
      /\ dat[i].rec \in Batch
  BY CellRec, LenProperties DEF Grown, Appended
<1>2. CASE IsFrame(i) /\ Boundary(FrameEnd(i))
  <2>1. PICK k : k = FrameEnd(i)
    OBVIOUS
  <2>2. Boundary(k)' /\ k = FrameEnd(i)' /\ IsFrame(i)'
    BY <1>2, <2>1, FramesSurvive DEF Grown
  <2>3. Boundary(FrameEnd(i))'
    BY <2>2 DEF Boundary
  <2> QED
    BY <2>2, <2>3 DEF FramedAt
<1>3. ASSUME NEW n \in 0..(Size[dat[i].rec] - 1), TornAfter(i, n)
      PROVE  FramedAt(i)'
  <2>1. n \in Nat
    BY <1>1, BatchSize
  <2>2. PICK k : k = i + n
    OBVIOUS
  <2>3. Boundary(k)' /\ k <= Len(dat) /\ TornAt(i)'
    BY <1>3, <2>2 DEF Grown, TornAfter
  <2>4. \A j \in 1..n : dat'[i + j] = [rec |-> dat'[i].rec, at |-> j]
    <3> TAKE j \in 1..n
    <3>1. i + j \in 1..Len(dat)
      BY <1>1, <2>1, <2>2, <2>3
    <3>2. dat'[i + j] = dat[i + j]
      BY <3>1 DEF Grown, Appended
    <3> QED
      BY <1>1, <1>3, <3>2 DEF TornAfter
  <2>5. Boundary(i + n)' /\ i + n <= Len(dat')
    BY <1>1, <2>1, <2>2, <2>3 DEF Boundary
  <2>6. TornAfter(i, n)'
    BY <2>3, <2>4, <2>5 DEF TornAfter
  <2>7. n \in 0..(Size[dat'[i].rec] - 1)
    BY <1>1
  <2> QED
    BY <2>6, <2>7 DEF FramedAt
<1> QED
  BY <1>2, <1>3 DEF FramedAt

LEMMA SameFramed ==
    ASSUME SameFile, Framed, dat \in Seq(Cell)
    PROVE  Framed'
<1>1. \A i \in 1..Len(dat) : FramedAt(i) => FramedAt(i)'
  BY SameGrown, GrownFramedAt
<1> QED
  BY <1>1 DEF Framed, SameFile

\* A Write that ends leaves a whole frame or a torn one.
LEMMA PiecesFramed ==
    ASSUME Bookkeeping, Framed, NEW b \in Batch, NEW m, Written(b, m)
    PROVE  Framed'
<1>0. PICK n, l : n = Len(dat) /\ l = Len(dat')
  OBVIOUS
<1>1. /\ Appended
      /\ m \in Nat /\ n \in Nat /\ n \in 1..n /\ l = n + m
      /\ Size[b] \in Nat \ {0}
      /\ dat'[n].rec = b
      /\ \A k \in 1..m : dat'[n + k] = [rec |-> b, at |-> k]
      /\ m = Size[b] => IsFrame(n)' /\ FrameEnd(n)' = l
      /\ m # Size[b] => TornAt(n)'
  BY <1>0, PiecesWritten
<1>2. /\ \A k \in (n + 1)..l : dat'[k].at # 0
      /\ \A i \in 1..n : dat'[i] = dat[i]
  <2>1. \A k \in (n + 1)..l : dat'[k].rec = b /\ dat'[k].at # 0
    BY <1>0, PiecesWritten
  <2> QED
    BY <1>0, <1>1, <2>1 DEF Appended
<1>3. lock' = "free" /\ lock = "write" /\ m \in 0..Size[b]
  BY DEF Written
<1>4. Boundary(l)'
  BY <1>0, <1>1, <1>3 DEF Boundary
<1>5. FramedAt(n)'
  <2>1. CASE m = Size[b]
    <3>1. Boundary(FrameEnd(n))'
      BY <1>1, <1>4, <2>1 DEF Boundary
    <3> QED
      BY <1>1, <2>1, <3>1 DEF FramedAt
  <2>2. CASE m # Size[b]
    <3>1. Boundary(n + m)'
      BY <1>1, <1>4 DEF Boundary
    <3>2. TornAfter(n, m)'
      BY <1>0, <1>1, <2>2, <3>1 DEF TornAfter
    <3>3. m \in 0..(Size[dat'[n].rec] - 1)
      BY <1>1, <1>3, <2>2
    <3> QED
      BY <3>2, <3>3 DEF FramedAt
  <2> QED
    BY <2>1, <2>2
<1>6. ASSUME NEW i \in 1..Len(dat'), dat'[i].at = 0
      PROVE  FramedAt(i)'
  <2>1. i \in 1..n
    BY <1>0, <1>1, <1>2, <1>6
  <2>2. CASE i = n
    BY <1>5, <2>2
  <2>3. CASE i # n
    <3>1. FramedAt(i)
      BY <1>0, <1>2, <1>6, <2>1, <2>3 DEF Framed
    <3> QED
      BY <1>0, <2>1, <3>1, PiecesGrown, GrownFramedAt
  <2> QED
    BY <2>2, <2>3
<1> QED
  BY <1>3, <1>6 DEF Framed

\* A cell with no torn frame before it keeps none there, unless it is the last
\* one, whose Write ends.
LEMMA GrownClean ==
    ASSUME Grown, NEW i, i \in Nat, i <= Len(dat), i < Len(dat) \/ lock # "write"
    PROVE  Clean(i)' <=> Clean(i)
<1>1. Len(dat) \in Nat /\ Len(dat') \in Nat /\ Len(dat) <= Len(dat')
  BY LenProperties DEF Grown, Appended
<1>2. \A k : /\ TornAt(k) => TornAt(k)' /\ k \in 1..Len(dat) /\ k \in 1..Len(dat')
             /\ TornAt(k)' => TornAt(k) \/ (lock = "write" /\ k = Len(dat))
  BY <1>1 DEF Grown, TornAt
<1> QED
  BY <1>1, <1>2 DEF Clean

\* Clean frames stay so.
LEMMA GrownCleanFrame ==
    ASSUME Grown, NEW i, IsFrame(i)
    PROVE  Clean(i)' <=> Clean(i)
<1>1. i \in Nat /\ i < Len(dat)
  BY FrameFacts DEF Grown, Appended
<1> QED
  BY <1>1, GrownClean

\* What a boundary or a frame leaves of a Write in progress.
LEMMA BeforeWrite ==
    ASSUME dat \in Seq(Cell), NEW k, Boundary(k) \/ IsFrame(k)
    PROVE  /\ k \in Nat /\ k <= Len(dat) /\ Len(dat) \in Nat
           /\ k < Len(dat) \/ lock # "write"
  BY FrameFacts, LenProperties DEF Boundary

-----------------------------------------------------------------------------
(* The invariant. *)

LEMMA IInvInit == ASSUME RecSound PROVE Init => IInv
<1> SUFFICES ASSUME Init PROVE IInv
  OBVIOUS
<1>1. Bookkeeping
  BY BookInit
<1>2. /\ dat = <<>> /\ Len(dat) = 0 /\ meta = 0 /\ consumer = 0 /\ lock = "free"
      /\ dataflag = FALSE /\ rewriter = "off" /\ inflight = {} /\ accepted = {}
  BY DEF Init, FileInit, RecSound
<1>3. Framed
  BY <1>2 DEF Framed
<1>4. SavedOffset /\ Consumer
  BY <1>2 DEF SavedOffset, Consumer, Boundary
<1>5. Clean(consumer) /\ Flag /\ PassedIsSettled /\ AcceptedIsKept
  BY <1>2 DEF Clean, Flag, PassedIsSettled, AcceptedIsKept
<1> QED
  BY <1>1, <1>2, <1>3, <1>4, <1>5 DEF IInv, Orderly, Empty

\* Behind a torn frame nothing comes before it.
LEMMA GrownAstray ==
    ASSUME Grown, Astray
    PROVE  /\ Torn'
           /\ \A i \in 1..Len(dat') : IsFrame(i)' /\ Clean(i)' => dat'[i].rec \in Settled
<1>1. /\ Len(dat) \in Nat /\ Len(dat') \in Nat /\ Len(dat) <= Len(dat')
      /\ \A i \in 1..Len(dat) : dat'[i] = dat[i] /\ i \in 1..Len(dat')
  BY LenProperties DEF Grown, Appended
<1>2. PICK t \in 1..Len(dat) : TornAt(t) /\ TornAt(t)' /\ t \in 1..Len(dat')
  BY <1>1 DEF Astray, Torn, Grown
<1>3. ASSUME NEW i \in 1..Len(dat'), IsFrame(i)', Clean(i)'
      PROVE  dat'[i].rec \in Settled
  <2>1. i < t
    BY <1>2, <1>3 DEF Clean
  <2>2. i \in 1..Len(dat) /\ IsFrame(i)
    BY <1>1, <1>2, <1>3, <2>1 DEF Grown
  <2>3. Clean(i)
    BY <1>3, <2>2, GrownCleanFrame
  <2> QED
    BY <1>1, <2>2, <2>3 DEF Astray
<1> QED
  BY <1>2, <1>3 DEF Torn

\* What a step leaves to show that accepts nothing and does not empty the file:
\* behind a torn frame there is nothing to keep.
LEMMA IInvGrown ==
    ASSUME IInv, Bookkeeping', Grown, Framed', meta' # Empty,
           UNCHANGED <<accepted, exposed>>, Settled \subseteq Settled',
           rewriter' \in {"update", "meta"} => inflight' \subseteq Settled',
           Orderly => (Orderly \/ Astray)'
    PROVE  IInv'
<1> USE DEF IInv
<1>1. /\ Len(dat) \in Nat /\ Len(dat') \in Nat /\ Len(dat) <= Len(dat')
      /\ \A i \in 1..Len(dat) : dat'[i] = dat[i] /\ i \in 1..Len(dat')
  BY LenProperties DEF Grown, Appended
<1>2. AcceptedIsKept'
  <2> SUFFICES ASSUME NEW c \in accepted \ exposed, c \notin Settled
               PROVE  \E i \in 1..Len(dat') : IsFrame(i)' /\ Clean(i)' /\ dat'[i].rec = c
    BY DEF AcceptedIsKept
  <2>1. PICK i \in 1..Len(dat) : IsFrame(i) /\ Clean(i) /\ dat[i].rec = c
    BY DEF AcceptedIsKept
  <2>2. IsFrame(i)' /\ Clean(i)'
    BY <2>1, FramesSurvive, GrownCleanFrame DEF Grown
  <2> QED
    BY <1>1, <2>1, <2>2
<1>3. Astray => Astray'
  <2> SUFFICES ASSUME Astray PROVE Astray'
    OBVIOUS
  <2>1. Torn' /\ \A i \in 1..Len(dat') : IsFrame(i)' /\ Clean(i)' => dat'[i].rec \in Settled
    BY GrownAstray
  <2> QED
    BY <2>1 DEF Astray
<1> QED
  BY <1>2, <1>3

LEMMA IInvKept ==
    ASSUME IInv, Bookkeeping', SameFile, meta' # Empty,
           UNCHANGED <<accepted, exposed>>, Settled \subseteq Settled',
           rewriter' \in {"update", "meta"} => inflight' \subseteq Settled',
           Orderly => (Orderly \/ Astray)'
    PROVE  IInv'
<1>1. dat \in Seq(Cell) /\ Framed
  BY DEF IInv, Bookkeeping, TypeOK, FileTypeOK
<1>2. Grown /\ Framed'
  BY <1>1, SameGrown, SameFramed
<1> QED
  BY <1>2, IInvGrown

\* Steps that leave the file and the rewriter alone.
LEMMA IInvQuiet ==
    ASSUME IInv, Bookkeeping', SameFile,
           UNCHANGED <<meta, consumer, dataflag, rewriter, inflight, accepted, exposed>>,
           Settled \subseteq Settled'
    PROVE  IInv'
<1>1. /\ dat' = dat
      /\ \A i : /\ IsFrame(i)' <=> IsFrame(i)
                /\ FrameEnd(i)' = FrameEnd(i)
                /\ TornAt(i)' <=> TornAt(i)
                /\ Boundary(i)' <=> Boundary(i)
                /\ Clean(i)' <=> Clean(i)
  BY FileSame DEF SameFile
<1>2. ASSUME Orderly PROVE Orderly'
  <2> USE <1>2 DEF Orderly
  <2>1. Clean(consumer)' /\ SavedOffset'
    BY <1>1 DEF SavedOffset, Truncated, Clean, Boundary
  <2>2. Consumer'
    <3>1. HoldsFrame => HoldsFrame'
      BY <1>1 DEF HoldsFrame
    <3> QED
      BY <1>1, <3>1 DEF Consumer, Truncated
  <2>3. Flag'
    BY <1>1 DEF Flag
  <2>4. PassedIsSettled'
    BY <1>1 DEF PassedIsSettled
  <2> QED
    BY <2>1, <2>2, <2>3, <2>4
<1> QED
  BY <1>2, IInvKept DEF IInv

\* The steps of a task that does not hold the file, and of the network.
Elsewhere ==
    \/ \E b \in Batch : Submit(b) \/ TaskCheck(b) \/ TaskPost(b)
    \/ CheckActive
    \/ ServerChanges
    \/ UNCHANGED vars

LEMMA ElsewhereFile ==
    ASSUME Elsewhere
    PROVE  /\ UNCHANGED <<fileVars, rewriter, inflight, accepted, exposed, confirmed>>
           /\ Settled \subseteq Settled'
  BY DEF Elsewhere, Submit, TaskCheck, TaskPost, CheckActive, ServerChanges, vars, rwVars,
     histVars, netVars, WriteCompressed, Settled

LEMMA IInvElsewhere ==
    ASSUME IInv, Bookkeeping', Elsewhere
    PROVE  IInv'
<1>1. SameFile /\ UNCHANGED <<meta, consumer, dataflag>>
  BY ElsewhereFile DEF SameFile, fileVars
<1> QED
  BY <1>1, ElsewhereFile, IInvQuiet

\* What Write's first step does to the frames.
LEMMA LengthWritten ==
    ASSUME dat \in Seq(Cell), NEW b \in Batch, WriteLength(b, TRUE)
    PROVE  /\ Grown
           /\ Len(dat) \in Nat /\ Len(dat') = Len(dat) + 1 /\ dat'[Len(dat) + 1].at = 0
           /\ lock = "free" /\ lock' = "write"
           /\ \A i : /\ IsFrame(i) => IsFrame(i)' /\ FrameEnd(i)' = FrameEnd(i)
                     /\ IsFrame(i)' => IsFrame(i) /\ i \in 1..Len(dat) /\ dat'[i] = dat[i]
                     /\ TornAt(i)' <=> TornAt(i)
                     /\ Boundary(i) => Boundary(i)'
<1>1. /\ dat' \in Seq(Cell) /\ Len(dat) \in Nat /\ Len(dat') = Len(dat) + 1
      /\ \A i \in 1..Len(dat) : dat'[i] = dat[i]
      /\ dat'[Len(dat) + 1] = [rec |-> b, at |-> 0]
      /\ lock = "free" /\ lock' = "write"
  BY AppendLength, LenProperties DEF WriteLength
<1>2. dat'[Len(dat) + 1].at = 0
  BY <1>1
<1>3. Appended
  BY <1>1 DEF Appended
<1>4. \A i : /\ IsFrame(i) => IsFrame(i)' /\ FrameEnd(i)' = FrameEnd(i)
             /\ IsFrame(i)' => IsFrame(i) /\ i \in 1..Len(dat) /\ dat'[i] = dat[i]
  BY <1>1, <1>2, <1>3, FramesSurvive, LengthFrames DEF IsFrame
<1>5. \A i : TornAt(i)' <=> TornAt(i)
  BY <1>1, <1>4 DEF TornAt
<1>6. \A k : Boundary(k) => Boundary(k)'
  BY <1>1 DEF Boundary
<1>7. Grown
  BY <1>3, <1>4, <1>5, <1>6 DEF Grown
<1> QED
  BY <1>1, <1>2, <1>4, <1>5, <1>6, <1>7

\* What appending to the file leaves to show.
LEMMA IInvAppend ==
    ASSUME IInv, Bookkeeping', Grown, lock # "meta",
           UNCHANGED <<meta, consumer, rewriter, inflight, Settled>>,
           Framed', AcceptedIsKept', Orderly => Flag'
    PROVE  IInv'
<1> USE DEF IInv
<1>0. /\ Len(dat) \in Nat /\ Len(dat') \in Nat /\ Len(dat) <= Len(dat')
      /\ dat \in Seq(Cell) /\ dat' \in Seq(Cell) /\ Appended
  BY LenProperties DEF Grown, Appended
<1>1. rewriter # "meta" /\ rewriter' = rewriter
  BY DEF Bookkeeping, LockHolder
<1>2. \A i : Boundary(i) => Boundary(i)'
  BY DEF Grown
<1>3. CASE Astray
  <2>1. Torn' /\ \A i \in 1..Len(dat') : IsFrame(i)' /\ Clean(i)' => dat'[i].rec \in Settled
    BY <1>3, GrownAstray
  <2> QED
    BY <2>1 DEF Astray
<1>4. CASE Orderly
  <2>0. consumer \in Nat /\ consumer <= Len(dat) /\ Boundary(meta)
    BY <1>0, <1>1, <1>4 DEF Orderly, Consumer, Boundary, IsFrame, Bookkeeping, TypeOK,
       FileTypeOK, SavedOffset, Truncated
  <2>1. Clean(consumer)'
    <3>1. PICK c : c = consumer
      OBVIOUS
    <3>2. Boundary(c) \/ IsFrame(c)
      BY <1>4, <3>1 DEF Orderly, Consumer
    <3>3. Clean(c)'
      BY <1>0, <1>4, <3>1, <3>2, BeforeWrite, GrownClean DEF Orderly
    <3> QED
      BY <3>1, <3>3 DEF Clean
  <2>2. SavedOffset'
    <3>1. Boundary(meta)'
      BY <1>2, <2>0 DEF Boundary
    <3> QED
      BY <1>1, <1>4, <3>1 DEF Orderly, SavedOffset, Truncated
  <2>3. Consumer'
    <3>1. PICK c : c = consumer
      OBVIOUS
    <3>2. (IsFrame(c) => IsFrame(c)') /\ (Boundary(c) => Boundary(c)')
      BY <1>0, <1>2, FramesSurvive
    <3>3. /\ IsFrame(consumer) => IsFrame(consumer)'
          /\ Boundary(consumer) => Boundary(consumer)'
      BY <3>1, <3>2 DEF IsFrame, FrameEnd, Boundary
    <3>4. HoldsFrame => HoldsFrame'
      <4> SUFFICES ASSUME HoldsFrame PROVE HoldsFrame'
        OBVIOUS
      <4>1. PICK j \in 1..Len(dat) :
                IsFrame(j) /\ FrameEnd(j) = consumer /\ meta < j /\ inflight = {dat[j].rec}
        BY DEF HoldsFrame
      <4>2. IsFrame(j)' /\ FrameEnd(j)' = FrameEnd(j) /\ dat'[j] = dat[j]
        BY <1>0, <4>1, FramesSurvive
      <4>3. j \in 1..Len(dat')
        BY <4>2 DEF IsFrame
      <4> QED
        BY <4>1, <4>2, <4>3 DEF HoldsFrame
    <3> QED
      BY <1>1, <1>4, <3>3, <3>4 DEF Orderly, Consumer
  <2>4. PassedIsSettled'
    <3> SUFFICES ASSUME NEW i \in 1..Len(dat'), IsFrame(i)', FrameEnd(i)' <= consumer'
                 PROVE  \/ dat'[i].rec \in Settled'
                        \/ /\ rewriter' \in {"post", "rollback"}
                           /\ FrameEnd(i)' = consumer'
                           /\ dat'[i].rec \in inflight'
      BY DEF PassedIsSettled
    <3>1. FrameEnd(i)' \in Nat
      <4>1. dat'[i] \in Cell
        BY <1>0, ElementOfSeq
      <4> QED
        BY <4>1, BatchSize DEF FrameEnd, Cell
    <3>2. FrameEnd(i)' <= Len(dat)
      BY <1>0, <2>0, <3>1
    <3>3. IsFrame(i) /\ FrameEnd(i)' = FrameEnd(i) /\ dat'[i] = dat[i]
      BY <1>0, <3>2, FramesWereThere
    <3> QED
      BY <1>4, <3>3 DEF Orderly, PassedIsSettled, IsFrame
  <2> QED
    BY <1>4, <2>1, <2>2, <2>3, <2>4 DEF Orderly
<1>5. (Orderly \/ Astray)'
  BY <1>3, <1>4
<1> QED
  BY <1>1, <1>5

\* Write's first step.
LEMMA IInvWriteLength ==
    ASSUME IInv, Bookkeeping', NEW b \in Batch, TaskWriteLength(b)
    PROVE  IInv'
<1> USE DEF IInv, fileVars, rwVars, netVars, histVars
<1>1. PICK ok \in BOOLEAN : WriteLength(b, ok)
  BY DEF TaskWriteLength
<1>2. dat \in Seq(Cell)
  BY DEF Bookkeeping, TypeOK, FileTypeOK
<1>3. /\ UNCHANGED <<meta, consumer, dataflag, rewriter, inflight, accepted, exposed, Settled>>
      /\ lock = "free"
  BY <1>1 DEF TaskWriteLength, WriteLength, Settled
<1>4. CASE ~ok
  <2>1. SameFile
    BY <1>1, <1>4 DEF WriteLength, SameFile
  <2> QED
    BY <1>3, <2>1, IInvQuiet
<1>5. CASE ok
  <2>1. WriteLength(b, TRUE)
    BY <1>1, <1>5
  <2>2. /\ Grown
        /\ Len(dat) \in Nat /\ Len(dat') = Len(dat) + 1
        /\ dat'[Len(dat) + 1].at = 0 /\ lock' = "write"
        /\ \A i : /\ IsFrame(i) => IsFrame(i)' /\ FrameEnd(i)' = FrameEnd(i)
                  /\ IsFrame(i)' => IsFrame(i) /\ i \in 1..Len(dat) /\ dat'[i] = dat[i]
                  /\ TornAt(i)' <=> TornAt(i)
                  /\ Boundary(i) => Boundary(i)'
    BY <1>2, <2>1, LengthWritten
  <2>3. \A i \in 1..Len(dat) : dat'[i] = dat[i] /\ i \in 1..Len(dat')
    BY <2>2 DEF Grown, Appended
  <2>4. Framed'
    <3>1. ASSUME NEW i \in 1..Len(dat'), dat'[i].at = 0
          PROVE  FramedAt(i)' \/ (lock' = "write" /\ i = Len(dat'))
      <4>1. CASE i <= Len(dat)
        <5>1. i \in 1..Len(dat) /\ dat[i].at = 0
          BY <2>2, <2>3, <3>1, <4>1
        <5>2. FramedAt(i)
          BY <1>3, <5>1 DEF Framed
        <5> QED
          BY <2>2, <5>1, <5>2, GrownFramedAt
      <4>2. CASE i > Len(dat)
        BY <2>2, <4>2
      <4> QED
        BY <2>2, <4>1, <4>2
    <3>2. dat'[Len(dat')].at = 0
      BY <2>2
    <3> QED
      BY <2>2, <3>1, <3>2 DEF Framed
  <2>5. AcceptedIsKept'
    <3> SUFFICES ASSUME NEW c \in accepted \ exposed, c \notin Settled
                 PROVE  \E i \in 1..Len(dat') : IsFrame(i)' /\ Clean(i)' /\ dat'[i].rec = c
      BY <1>3 DEF AcceptedIsKept
    <3>1. PICK i \in 1..Len(dat) : IsFrame(i) /\ Clean(i) /\ dat[i].rec = c
      BY DEF AcceptedIsKept
    <3>2. Clean(i)'
      BY <2>2, <3>1 DEF Clean, TornAt
    <3> QED
      BY <2>2, <2>3, <3>1, <3>2
  <2>6. Orderly => Flag'
    <3>1. PICK k : k = consumer + 1
      OBVIOUS
    <3>2. IsFrame(k) \/ TornAt(k) => IsFrame(k)' \/ TornAt(k)'
      BY <2>2
    <3>3. IsFrame(consumer + 1) \/ TornAt(consumer + 1) =>
              IsFrame(consumer + 1)' \/ TornAt(consumer + 1)'
      BY <1>3, <3>1, <3>2 DEF IsFrame, TornAt, FrameEnd
    <3> QED
      BY <1>3, <3>3 DEF Orderly, Flag
  <2> QED
    BY <1>3, <2>2, <2>4, <2>5, <2>6, IInvAppend
<1> QED
  BY <1>4, <1>5

\* Write's second step: the payload completes the frame its length began, or
\* leaves it torn.
LEMMA IInvWritePayload ==
    ASSUME IInv, Bookkeeping', NEW b \in Batch, TaskWritePayload(b)
    PROVE  IInv'
<1> USE DEF IInv, fileVars, rwVars, netVars, histVars
<1>0. PICK n : n = Len(dat)
  OBVIOUS
<1>1. PICK m \in 0..Size[b], result \in {"ok", "payload", "sync"} :
          /\ WritePayload(b, m, result)
          /\ accepted' = IF result = "ok" THEN accepted \union {b} ELSE accepted
          /\ exposed' = IF result = "ok" /\ Torn THEN exposed \union {b} ELSE exposed
  BY DEF TaskWritePayload
<1>2. /\ UNCHANGED <<meta, consumer, rewriter, inflight, Settled>>
      /\ lock = "write" /\ lock' = "free" /\ task[b] = "payload"
      /\ result = "ok" => m = Size[b]
  BY <1>1 DEF TaskWritePayload, WritePayload, Settled, TaskGoes
<1>3. Written(b, m)
  BY <1>1, <1>2 DEF Written, WritePayload
<1>4. Grown /\ Framed'
  BY <1>3, PiecesGrown, PiecesFramed
<1>5. /\ n \in Nat /\ n \in 1..n /\ dat'[n].rec = b
      /\ m = Size[b] => IsFrame(n)'
      /\ m # Size[b] => TornAt(n)'
  BY <1>0, <1>3, PiecesWritten
<1>6. \A i \in 1..n : dat'[i] = dat[i] /\ i \in 1..Len(dat')
  <2>1. Len(dat') \in Nat /\ n <= Len(dat') /\ \A i \in 1..n : dat'[i] = dat[i]
    BY <1>0, <1>4, LenProperties DEF Grown, Appended
  <2> QED
    BY <1>5, <2>1
<1>7. AcceptedIsKept'
  <2> SUFFICES ASSUME NEW c \in accepted' \ exposed', c \notin Settled
               PROVE  \E i \in 1..Len(dat') : IsFrame(i)' /\ Clean(i)' /\ dat'[i].rec = c
    BY <1>2 DEF AcceptedIsKept
  <2>1. CASE c \in accepted \ exposed
    <3>1. PICK i \in 1..n : IsFrame(i) /\ Clean(i) /\ dat[i].rec = c
      BY <1>0, <2>1 DEF AcceptedIsKept
    <3>2. IsFrame(i)' /\ Clean(i)'
      BY <1>4, <3>1, FramesSurvive, GrownCleanFrame DEF Grown
    <3> QED
      BY <1>6, <3>1, <3>2
  <2>2. CASE c \notin accepted \ exposed
    <3>1. c = b /\ ~Torn /\ result = "ok"
      BY <1>1, <2>2
    <3>2. IsFrame(n)' /\ n \in 1..Len(dat') /\ dat'[n].rec = c
      BY <1>2, <1>5, <1>6, <3>1
    <3>3. \A k : ~TornAt(k)
      BY <3>1 DEF Torn, TornAt
    <3>4. \A k : TornAt(k)' => k = n /\ ~IsFrame(k)'
      BY <1>0, <1>4, <3>3 DEF Grown, TornAt
    <3>5. Clean(n)'
      BY <3>2, <3>4 DEF Clean
    <3> QED
      BY <3>2, <3>5
  <2> QED
    BY <2>1, <2>2
<1>8. Orderly => Flag'
  <2> SUFFICES ASSUME Orderly, rewriter # "payload"
               PROVE  IsFrame(consumer + 1)' \/ TornAt(consumer + 1)'
    BY <1>2 DEF Flag
  <2>1. PICK k : k = consumer + 1
    OBVIOUS
  <2>2. k \in 1..n /\ dat[k].at = 0
    BY <1>0, <1>2, <1>5, <2>1 DEF Orderly, Consumer, Boundary
  <2>3. IsFrame(k) \/ TornAt(k) \/ k = n
    BY <1>0, <2>2 DEF Framed, FramedAt, TornAfter
  <2>4. IsFrame(k)' \/ TornAt(k)'
    BY <1>4, <1>5, <2>3, FramesSurvive DEF Grown
  <2> QED
    BY <1>2, <2>1, <2>4 DEF IsFrame, TornAt, FrameEnd
<1> QED
  BY <1>2, <1>4, <1>7, <1>8, IInvAppend

-----------------------------------------------------------------------------
(* The rewriter.  Its steps leave the cells and Write alone, so that torn      *)
(* frames and boundaries are what they were.                                  *)

\* The steps of the rewriter that post nothing and leave the file alone.
LEMMA IInvLoop ==
    ASSUME IInv, Bookkeeping', RewriteIdle \/ RewriteLoop \/ RewriteLoopExit
    PROVE  IInv'
<1> USE DEF fileVars, rwVars, netVars, histVars, RewriterGoes
<1>1. /\ UNCHANGED <<dat, meta, consumer, dataflag, lock, inflight, accepted, exposed, Settled>>
      /\ rewriter \in {"off", "loop", "exit"}
      /\ rewriter' \in {"off", "loop", "exit", "length"}
  BY DEF RewriteIdle, RewriteLoop, RewriteLoopExit, Settled
<1>2. /\ SameFile
      /\ \A i : /\ IsFrame(i)' <=> IsFrame(i)
                /\ FrameEnd(i)' = FrameEnd(i)
                /\ TornAt(i)' <=> TornAt(i)
                /\ Boundary(i)' <=> Boundary(i)
                /\ Clean(i)' <=> Clean(i)
  BY <1>1, FileSame DEF SameFile
<1>3. ASSUME Orderly PROVE Orderly'
  <2> USE <1>3 DEF Orderly
  <2>1. Clean(consumer)' /\ SavedOffset' /\ Consumer'
    BY <1>1, <1>2 DEF SavedOffset, Truncated, Consumer, Clean
  <2>2. Flag'
    BY <1>1, <1>2 DEF Flag
  <2>3. PassedIsSettled'
    BY <1>1, <1>2 DEF PassedIsSettled
  <2> QED
    BY <2>1, <2>2, <2>3
<1> QED
  BY <1>1, <1>2, <1>3, IInvKept DEF IInv

\* Read's first step: the flag was up, so there is a frame at the consumer.  A
\* torn one is the first the rewriter meets, and all before it is settled.
LEMMA IInvReadLength ==
    ASSUME IInv, Bookkeeping', RewriteReadLength
    PROVE  IInv'
<1> USE DEF fileVars, rwVars, netVars, histVars, RewriterGoes
<1>0. PICK k : k = consumer + 1
  OBVIOUS
<1>1. /\ UNCHANGED <<dat, meta, dataflag, lock, inflight, accepted, exposed, Settled>>
      /\ rewriter = "length" /\ rewriter' \in {"payload", "loop"} /\ dataflag
  BY DEF RewriteReadLength, ReadLength, Settled, IInv, Bookkeeping, FlagRaised
<1>2. /\ SameFile
      /\ \A i : /\ IsFrame(i)' <=> IsFrame(i)
                /\ FrameEnd(i)' = FrameEnd(i)
                /\ TornAt(i)' <=> TornAt(i)
                /\ Boundary(i)' <=> Boundary(i)
                /\ Clean(i)' <=> Clean(i)
  BY <1>1, FileSame DEF SameFile
<1>3. dat \in Seq(Cell) /\ consumer \in Nat /\ Len(dat) \in Nat
  BY LenProperties DEF IInv, Bookkeeping, TypeOK, FileTypeOK
<1>4. ASSUME Orderly PROVE (Orderly \/ Astray)'
  <2> USE <1>4 DEF Orderly
  <2>1. /\ Boundary(consumer) /\ Boundary(meta) /\ meta <= consumer /\ meta \in Nat
        /\ IsFrame(k) \/ TornAt(k)
    BY <1>0, <1>1, <1>3 DEF Consumer, Flag, SavedOffset, Truncated, Boundary
  <2>2. k \in 1..Len(dat) /\ consumer < Len(dat)
    BY <1>0, <1>3, <2>1 DEF IsFrame, TornAt
  <2>3. consumer' = k /\ rewriter' = "payload"
    BY <1>0, <1>3, <2>2 DEF RewriteReadLength, ReadLength
  <2>4. ASSUME NEW i \in 1..Len(dat), IsFrame(i), FrameEnd(i) <= consumer
        PROVE  dat[i].rec \in Settled
    BY <1>1, <2>4 DEF PassedIsSettled
  <2>5. CASE IsFrame(k)
    <3>1. Clean(k)
      BY <1>0, <1>3, <2>5 DEF Clean, TornAt
    <3>2. Clean(consumer)'
      BY <1>1, <1>2, <2>3, <3>1 DEF Clean
    <3>3. SavedOffset'
      BY <1>0, <1>1, <1>2, <1>3, <2>1, <2>3 DEF SavedOffset
    <3>4. Consumer'
      <4>1. IsFrame(consumer)'
        BY <1>2, <2>3, <2>5 DEF IsFrame, FrameEnd
      <4> QED
        BY <1>0, <1>1, <1>3, <2>1, <2>3, <4>1 DEF Consumer
    <3>5. Flag'
      BY <2>3 DEF Flag
    <3>6. PassedIsSettled'
      <4> SUFFICES ASSUME NEW i \in 1..Len(dat), IsFrame(i), FrameEnd(i) <= k
                   PROVE  dat[i].rec \in Settled
        BY <1>1, <1>2, <2>3 DEF PassedIsSettled
      <4>1. FrameEnd(i) \in Nat /\ FrameEnd(i) # k
        BY <1>3, <2>5, FrameFacts
      <4> QED
        BY <1>0, <1>3, <2>4, <4>1
    <3> QED
      BY <3>2, <3>3, <3>4, <3>5, <3>6
  <2>6. CASE TornAt(k)
    <3>1. Torn'
      BY <1>1, <1>2, <2>2, <2>6 DEF Torn
    <3>2. ASSUME NEW i \in 1..Len(dat), IsFrame(i), Clean(i)
          PROVE  dat[i].rec \in Settled
      <4>1. i <= consumer
        BY <1>0, <1>3, <2>2, <2>6, <3>2 DEF Clean
      <4> QED
        BY <1>3, <2>1, <2>4, <3>2, <4>1, NoStraddle
    <3> QED
      BY <1>1, <1>2, <3>1, <3>2 DEF Astray
  <2> QED
    BY <2>1, <2>5, <2>6
<1> QED
  BY <1>1, <1>2, <1>4, IInvKept DEF IInv

\* Read's second step hands the frame to the rewriter.
LEMMA IInvReadPayload ==
    ASSUME IInv, Bookkeeping', RewriteReadPayload
    PROVE  IInv'
<1> USE DEF fileVars, rwVars, netVars, histVars, RewriterGoes
<1>0. PICK j : j = consumer
  OBVIOUS
<1>1. /\ UNCHANGED <<dat, meta, dataflag, lock, accepted, exposed, Settled>>
      /\ rewriter = "payload" /\ rewriter' \in {"post", "loop"}
  BY DEF RewriteReadPayload, ReadPayload, Settled
<1>2. /\ SameFile
      /\ \A i : /\ IsFrame(i)' <=> IsFrame(i)
                /\ FrameEnd(i)' = FrameEnd(i)
                /\ TornAt(i)' <=> TornAt(i)
                /\ Boundary(i)' <=> Boundary(i)
                /\ Clean(i)' <=> Clean(i)
  BY <1>1, FileSame DEF SameFile
<1>3. dat \in Seq(Cell) /\ consumer \in Nat /\ Len(dat) \in Nat
  BY LenProperties DEF IInv, Bookkeeping, TypeOK, FileTypeOK
<1>4. ASSUME Orderly PROVE Orderly'
  <2> USE <1>4 DEF Orderly
  <2>1. IsFrame(j) /\ meta < j /\ Boundary(meta) /\ meta \in Nat
    BY <1>0, <1>1 DEF Consumer, SavedOffset, Truncated, Boundary
  <2>2. /\ j \in 1..Len(dat) /\ dat[j].at = 0
        /\ FrameEnd(j) \in Nat /\ j < FrameEnd(j) /\ FrameEnd(j) <= Len(dat)
        /\ \A m \in (j + 1)..FrameEnd(j) : dat[m].at # 0
    BY <1>3, <2>1, FrameFacts
  <2>3. PICK e : e = FrameEnd(j)
    OBVIOUS
  <2>4. consumer' = e /\ rewriter' = "post" /\ inflight' = {dat[j].rec}
    <3>1. PICK offset \in ReadOffsets :
              /\ ReadPayload(offset)
              /\ \/ /\ ~ReadFails
                    /\ inflight' = IF ReadsFrame THEN {dat[consumer].rec} ELSE {}
                    /\ rewriter' = "post"
                 \/ ~ReadsFrame
      BY DEF RewriteReadPayload
    <3>2. offset = e
      BY <1>0, <2>2, <2>3, <3>1 DEF ReadOffsets, FrameEnd
    <3>3. ReadsFrame
      BY <1>0, <2>1 DEF ReadsFrame
    <3> QED
      BY <1>0, <3>1, <3>2, <3>3 DEF ReadPayload
  <2>5. Boundary(e)
    <3>1. ~(lock = "write" /\ j = Len(dat)) /\ ~TornAt(j)
      BY <2>1, <2>2 DEF TornAt
    <3>2. Boundary(FrameEnd(j))
      BY <2>2, <3>1 DEF IInv, Framed, FramedAt, TornAfter
    <3> QED
      BY <2>3, <3>2 DEF Boundary
  <2>6. Clean(consumer)'
    <3>1. Clean(e)
      <4> SUFFICES ASSUME NEW t \in 1..Len(dat), TornAt(t), t <= e PROVE FALSE
        BY <1>3, <2>2, <2>3 DEF Clean
      <4>1. j < t
        BY <1>0 DEF Clean
      <4>2. t \in (j + 1)..FrameEnd(j)
        BY <2>2, <2>3, <4>1
      <4> QED
        BY <2>2, <4>2 DEF TornAt
    <3> QED
      BY <1>1, <1>2, <2>4, <3>1 DEF Clean
  <2>7. SavedOffset'
    <3>1. meta <= e
      BY <2>1, <2>2, <2>3
    <3> QED
      BY <1>1, <1>2, <2>1, <2>4, <3>1 DEF SavedOffset
  <2>8. Consumer'
    <3>1. HoldsFrame'
      BY <1>1, <1>2, <2>1, <2>2, <2>3, <2>4 DEF HoldsFrame
    <3>2. Boundary(consumer)'
      BY <1>1, <1>2, <2>4, <2>5 DEF Boundary
    <3> QED
      BY <2>4, <3>1, <3>2 DEF Consumer
  <2>9. Flag'
    BY <2>4 DEF Flag
  <2>10. PassedIsSettled'
    <3> SUFFICES ASSUME NEW i \in 1..Len(dat), IsFrame(i), FrameEnd(i) <= e
                 PROVE  dat[i].rec \in Settled \/ i = j
      BY <1>1, <1>2, <2>3, <2>4 DEF PassedIsSettled
    <3>1. CASE i < j
      <4>1. FrameEnd(i) < j
        BY <1>3, <2>1, <3>1, Disjoint
      <4>2. FrameEnd(i) \in Nat /\ FrameEnd(i) <= consumer
        BY <1>0, <1>3, <4>1, FrameFacts
      <4> QED
        BY <1>1, <4>2 DEF PassedIsSettled
    <3>2. CASE j < i
      BY <1>3, <2>1, <2>2, <2>3, <3>2, Disjoint, FrameFacts
    <3> QED
      BY <2>2, <3>1, <3>2
  <2> QED
    BY <2>6, <2>7, <2>8, <2>9, <2>10
<1> QED
  BY <1>1, <1>2, <1>4, IInvKept DEF IInv

\* The post settles the batch or sends the rewriter back.
LEMMA IInvRewritePost ==
    ASSUME IInv, Bookkeeping', RewritePost
    PROVE  IInv'
<1> USE DEF fileVars, rwVars, netVars, histVars, RewriterGoes
<1>1. PICK outcome \in Outcomes :
          /\ WriteCompressed(inflight, outcome)
          /\ rewriter' = IF GivenUp(outcome) THEN "update" ELSE "rollback"
  BY DEF RewritePost
<1>2. /\ rewriter = "post" /\ rewriter' \in {"update", "rollback"}
      /\ UNCHANGED <<dat, meta, consumer, dataflag, lock, inflight, accepted, exposed>>
      /\ Settled \subseteq Settled'
  BY <1>1 DEF RewritePost, WriteCompressed, Settled
<1>3. rewriter' = "update" => inflight \subseteq Settled'
  BY <1>1 DEF WriteCompressed, Settled, GivenUp
<1>4. /\ SameFile
      /\ \A i : /\ IsFrame(i)' <=> IsFrame(i)
                /\ FrameEnd(i)' = FrameEnd(i)
                /\ TornAt(i)' <=> TornAt(i)
                /\ Boundary(i)' <=> Boundary(i)
                /\ Clean(i)' <=> Clean(i)
  BY <1>2, FileSame DEF SameFile
<1>5. ASSUME Orderly PROVE Orderly'
  <2> USE <1>5 DEF Orderly
  <2>1. Clean(consumer)' /\ SavedOffset' /\ Flag'
    BY <1>2, <1>4 DEF Clean, SavedOffset, Truncated, Flag
  <2>2. Consumer'
    <3>1. HoldsFrame'
      BY <1>2, <1>4 DEF Consumer, HoldsFrame
    <3> QED
      BY <1>2, <1>4, <3>1 DEF Consumer
  <2>3. PassedIsSettled'
    BY <1>2, <1>3, <1>4 DEF PassedIsSettled
  <2> QED
    BY <2>1, <2>2, <2>3
<1> QED
  BY <1>2, <1>3, <1>4, <1>5, IInvKept DEF IInv

\* RollbackMeta takes the consumer to the saved offset, before the batch.
LEMMA IInvRollback ==
    ASSUME IInv, Bookkeeping', RewriteRollback
    PROVE  IInv'
<1> USE DEF fileVars, rwVars, netVars, histVars, RewriterGoes
<1>1. /\ rewriter = "rollback" /\ rewriter' = "loop" /\ consumer' = meta /\ inflight' = {}
      /\ meta # Empty /\ lock = "free"
      /\ UNCHANGED <<dat, meta, dataflag, lock, accepted, exposed, Settled>>
  BY DEF RewriteRollback, RollbackMeta, Settled, IInv
<1>2. /\ SameFile
      /\ \A i : /\ IsFrame(i)' <=> IsFrame(i)
                /\ FrameEnd(i)' = FrameEnd(i)
                /\ TornAt(i)' <=> TornAt(i)
                /\ Boundary(i)' <=> Boundary(i)
                /\ Clean(i)' <=> Clean(i)
  BY <1>1, FileSame DEF SameFile
<1>3. dat \in Seq(Cell) /\ Len(dat) \in Nat /\ consumer \in Nat /\ meta \in Nat
  BY <1>1, LenProperties DEF IInv, Bookkeeping, TypeOK, FileTypeOK
<1>4. ASSUME Orderly PROVE Orderly'
  <2> USE <1>4 DEF Orderly
  <2>1. PICK j \in 1..Len(dat) : IsFrame(j) /\ FrameEnd(j) = consumer /\ meta < j
    BY <1>1 DEF Consumer, HoldsFrame
  <2>2. j < consumer /\ consumer <= Len(dat) /\ meta < consumer /\ Boundary(meta)
    BY <1>1, <1>3, <2>1, FrameFacts DEF SavedOffset, Truncated
  <2>3. Clean(consumer)'
    BY <1>1, <1>2, <1>3, <2>2 DEF Clean
  <2>4. SavedOffset' /\ Consumer'
    BY <1>1, <1>2, <1>3, <2>2 DEF SavedOffset, Consumer, Boundary
  <2>5. Flag'
    <3>1. PICK k : k = meta + 1
      OBVIOUS
    <3>2. IsFrame(k) \/ TornAt(k)
      BY <1>1, <1>3, <2>2, <3>1, AtBoundary DEF IInv
    <3>3. IsFrame(consumer + 1)' \/ TornAt(consumer + 1)'
      BY <1>1, <1>2, <3>1, <3>2 DEF IsFrame, TornAt, FrameEnd
    <3> QED
      BY <3>3 DEF Flag
  <2>6. PassedIsSettled'
    <3> SUFFICES ASSUME NEW i \in 1..Len(dat), IsFrame(i), FrameEnd(i) <= meta
                 PROVE  dat[i].rec \in Settled
      BY <1>1, <1>2 DEF PassedIsSettled
    <3>1. FrameEnd(i) \in Nat /\ FrameEnd(i) < consumer
      BY <1>3, <2>2, FrameFacts
    <3> QED
      BY <1>3, <3>1 DEF PassedIsSettled
  <2> QED
    BY <2>3, <2>4, <2>5, <2>6
<1> QED
  BY <1>1, <1>2, <1>4, IInvKept DEF IInv

\* UpdateMeta up to the write of .rec: the file is emptied only when everything
\* in it was passed, and what was passed, or met before a torn frame, is settled.
LEMMA IInvUpdateBegin ==
    ASSUME IInv, Bookkeeping', RewriteUpdateBegin
    PROVE  IInv'
<1> USE DEF fileVars, rwVars, netVars, histVars, RewriterGoes
<1>1. /\ rewriter = "update" /\ rewriter' = "meta" /\ lock = "free" /\ lock' = "meta"
      /\ inflight \subseteq Settled /\ meta # Empty
      /\ UNCHANGED <<meta, inflight, accepted, exposed, Settled>>
  BY DEF RewriteUpdateBegin, UpdateMetaBegin, Settled, IInv
<1>2. dat \in Seq(Cell) /\ Len(dat) \in Nat /\ consumer \in Nat
  BY LenProperties DEF IInv, Bookkeeping, TypeOK, FileTypeOK
<1>3. CASE Len(dat) = consumer
  <2>1. dat' = <<>> /\ Len(dat') = 0 /\ consumer' = 0 /\ dataflag' = FALSE
    BY <1>3 DEF RewriteUpdateBegin, UpdateMetaBegin, CleanUp
  <2>2. Framed'
    BY <1>1, <2>1 DEF Framed
  <2>3. Orderly'
    BY <1>1, <2>1 DEF Orderly, Clean, SavedOffset, Truncated, Consumer, Boundary, Flag,
       PassedIsSettled
  <2>4. AcceptedIsKept'
    <3> SUFFICES ASSUME NEW b \in accepted \ exposed, b \notin Settled PROVE FALSE
      BY <1>1 DEF AcceptedIsKept
    <3>1. PICK i \in 1..Len(dat) : IsFrame(i) /\ Clean(i) /\ dat[i].rec = b
      BY DEF IInv, AcceptedIsKept
    <3>2. CASE Orderly
      <4>1. FrameEnd(i) <= consumer
        BY <1>2, <1>3, <3>1, FrameFacts
      <4> QED
        BY <1>1, <3>1, <3>2, <4>1 DEF Orderly, PassedIsSettled
    <3>3. CASE Astray
      BY <3>1, <3>3 DEF Astray
    <3> QED
      BY <3>2, <3>3 DEF IInv
  <2> QED
    BY <1>1, <2>2, <2>3, <2>4 DEF IInv
<1>4. CASE Len(dat) # consumer
  <2>1. UNCHANGED <<dat, consumer, dataflag>>
    BY <1>4 DEF RewriteUpdateBegin, UpdateMetaBegin
  <2>2. /\ SameFile
        /\ \A i : /\ IsFrame(i)' <=> IsFrame(i)
                  /\ FrameEnd(i)' = FrameEnd(i)
                  /\ TornAt(i)' <=> TornAt(i)
                  /\ Boundary(i)' <=> Boundary(i)
                  /\ Clean(i)' <=> Clean(i)
    BY <1>1, <2>1, FileSame DEF SameFile
  <2>3. ASSUME Orderly PROVE Orderly'
    <3> USE <2>3 DEF Orderly
    <3>1. Clean(consumer)' /\ SavedOffset'
      BY <1>1, <2>1, <2>2 DEF Clean, SavedOffset, Truncated
    <3>2. Consumer'
      <4>1. HoldsFrame'
        BY <1>1, <2>1, <2>2 DEF Consumer, HoldsFrame
      <4> QED
        BY <1>1, <2>1, <2>2, <4>1 DEF Consumer
    <3>3. Flag'
      <4>1. PICK k : k = consumer + 1
        OBVIOUS
      <4>2. Boundary(consumer) /\ consumer < Len(dat)
        BY <1>1, <1>2, <1>4 DEF Consumer, Boundary
      <4>3. IsFrame(k) \/ TornAt(k)
        BY <1>1, <1>2, <4>1, <4>2, AtBoundary DEF IInv
      <4>4. IsFrame(consumer + 1)' \/ TornAt(consumer + 1)'
        BY <2>1, <2>2, <4>1, <4>3 DEF IsFrame, TornAt, FrameEnd
      <4> QED
        BY <4>4 DEF Flag
    <3>4. PassedIsSettled'
      BY <1>1, <2>1, <2>2 DEF PassedIsSettled
    <3> QED
      BY <3>1, <3>2, <3>3, <3>4
  <2> QED
    BY <1>1, <2>1, <2>2, <2>3, IInvKept
<1> QED
  BY <1>3, <1>4

\* UpdateMeta's last step; its failure leaves the saved offset behind.
LEMMA IInvUpdateEnd ==
    ASSUME RecSound, IInv, Bookkeeping', RewriteUpdateEnd
    PROVE  IInv'
<1> USE DEF fileVars, rwVars, netVars, histVars, RewriterGoes
<1>1. PICK ok \in BOOLEAN :
          /\ ok \/ ("meta" \in Faults /\ (Truncated => "truncated" \in Faults))
          /\ UpdateMetaEnd(ok)
  BY DEF RewriteUpdateEnd
<1>2. /\ rewriter = "meta" /\ rewriter' = "loop" /\ lock = "meta" /\ lock' = "free"
      /\ inflight' = {} /\ inflight \subseteq Settled /\ meta # Empty
      /\ meta' = IF ok THEN consumer ELSE meta
      /\ UNCHANGED <<dat, consumer, dataflag, accepted, exposed, Settled>>
  BY <1>1 DEF RewriteUpdateEnd, UpdateMetaEnd, Settled, IInv
<1>3. consumer \in Nat /\ meta' # Empty
  BY <1>2 DEF IInv, Bookkeeping, TypeOK, FileTypeOK, Empty
<1>4. /\ SameFile
      /\ \A i : /\ IsFrame(i)' <=> IsFrame(i)
                /\ FrameEnd(i)' = FrameEnd(i)
                /\ TornAt(i)' <=> TornAt(i)
                /\ Boundary(i)' <=> Boundary(i)
                /\ Clean(i)' <=> Clean(i)
  BY <1>2, FileSame DEF SameFile
<1>5. ASSUME Orderly PROVE Orderly'
  <2> USE <1>5 DEF Orderly
  <2>1. Boundary(consumer)
    BY <1>2 DEF Consumer
  <2>2. SavedOffset'
    <3>1. CASE ok
      BY <1>2, <1>3, <1>4, <2>1, <3>1 DEF SavedOffset, Boundary
    <3>2. CASE ~ok
      <4>1. ~Truncated
        BY <1>1, <3>2 DEF RecSound
      <4> QED
        BY <1>2, <1>4, <3>2, <4>1 DEF SavedOffset
    <3> QED
      BY <3>1, <3>2
  <2>3. Clean(consumer)' /\ Consumer' /\ Flag'
    BY <1>2, <1>4, <2>1 DEF Clean, Consumer, Flag
  <2>4. PassedIsSettled'
    BY <1>2, <1>4 DEF PassedIsSettled
  <2> QED
    BY <2>2, <2>3, <2>4
<1> QED
  BY <1>2, <1>3, <1>4, <1>5, IInvKept

\* A crash outside UpdateMeta's window takes the consumer to the saved offset,
\* and what lies before it is settled.
LEMMA IInvCrash ==
    ASSUME RecSound, IInv, Bookkeeping', Crash
    PROVE  IInv'
<1> USE DEF fileVars, rwVars, netVars, histVars
<1>1. ~Truncated /\ meta # Empty
  BY DEF Crash, CrashWindow, RecSound, IInv, Bookkeeping, LockHolder, Truncated
<1>2. /\ consumer' = meta /\ dataflag' = (Len(dat') > meta) /\ lock' = "free"
      /\ rewriter' = "off" /\ inflight' = {}
      /\ UNCHANGED <<meta, accepted, exposed, Settled>>
  BY <1>1 DEF Crash, NewFileBackend, ResumeOffset, Settled
<1>3. dat \in Seq(Cell) /\ consumer \in Nat /\ meta \in Nat
  BY <1>1 DEF IInv, Bookkeeping, TypeOK, FileTypeOK
<1>4. Grown /\ Framed'
  <2>1. CASE lock # "write" /\ dat' = dat
    <3>1. SameFile
      BY <1>2, <2>1 DEF SameFile
    <3> QED
      BY <1>3, <3>1, SameGrown, SameFramed DEF IInv
  <2>2. ASSUME NEW b \in Batch, NEW m \in Nat, Written(b, m) PROVE Grown /\ Framed'
    BY <2>2, PiecesGrown, PiecesFramed DEF IInv
  <2> QED
    BY <2>1, <2>2, CrashFile DEF IInv
<1>5. /\ Appended /\ dat' \in Seq(Cell)
      /\ Len(dat) \in Nat /\ Len(dat') \in Nat /\ Len(dat) <= Len(dat')
      /\ \A i : Boundary(i) => Boundary(i)'
  BY <1>4, LenProperties DEF Grown, Appended
<1>6. ASSUME Orderly PROVE Orderly'
  <2> USE <1>6 DEF Orderly
  <2>1. Boundary(meta) /\ meta <= consumer
    BY <1>1 DEF SavedOffset
  <2>2. PICK r : r = meta
    OBVIOUS
  <2>3. Boundary(r) /\ Boundary(r)' /\ r \in Nat
    BY <1>3, <1>5, <2>1, <2>2
  <2>4. Clean(consumer)'
    <3>1. Clean(r)
      BY <1>3, <2>1, <2>2 DEF Clean, TornAt
    <3>2. Clean(r)'
      BY <1>3, <1>4, <2>3, <3>1, BeforeWrite, GrownClean
    <3> QED
      BY <1>2, <2>2, <3>2 DEF Clean
  <2>5. SavedOffset' /\ Consumer'
    BY <1>2, <1>3, <2>2, <2>3 DEF SavedOffset, Consumer, Boundary
  <2>6. Flag'
    <3>1. PICK k : k = r + 1
      OBVIOUS
    <3>2. Len(dat') > meta => IsFrame(k)' \/ TornAt(k)'
      <4> SUFFICES ASSUME Len(dat') > meta PROVE IsFrame(k)' \/ TornAt(k)'
        OBVIOUS
      <4>1. k \in 1..Len(dat') /\ dat'[k].at = 0
        BY <1>3, <1>5, <2>2, <2>3, <3>1 DEF Boundary
      <4>2. FramedAt(k)'
        BY <1>2, <1>4, <4>1 DEF Framed
      <4> QED
        BY <4>2 DEF FramedAt, TornAfter
    <3>3. IsFrame(k)' \/ TornAt(k)' => IsFrame(consumer + 1)' \/ TornAt(consumer + 1)'
      BY <1>2, <2>2, <3>1 DEF IsFrame, TornAt, FrameEnd
    <3> QED
      BY <1>2, <3>2, <3>3 DEF Flag
  <2>7. PassedIsSettled'
    <3> SUFFICES ASSUME NEW i \in 1..Len(dat'), IsFrame(i)', FrameEnd(i)' <= meta
                 PROVE  dat'[i].rec \in Settled
      BY <1>2 DEF PassedIsSettled
    <3>0. IsFrame(i) /\ FrameEnd(i) <= meta /\ dat'[i] = dat[i] /\ i \in 1..Len(dat)
      <4>1. FrameEnd(i)' \in Nat
        <5>1. dat'[i] \in Cell
          BY <1>5, ElementOfSeq
        <5> QED
          BY <5>1, BatchSize DEF FrameEnd, Cell
      <4>2. FrameEnd(i)' <= Len(dat)
        BY <1>3, <1>5, <2>1, <4>1 DEF Boundary
      <4> QED
        BY <1>5, <4>2, FramesWereThere DEF IsFrame
    <3>1. FrameEnd(i) \in Nat /\ FrameEnd(i) <= consumer
      BY <1>3, <2>1, <3>0, FrameFacts
    <3>2. CASE rewriter \in {"post", "rollback"}
      <4>1. PICK j \in 1..Len(dat) : IsFrame(j) /\ FrameEnd(j) = consumer /\ meta < j
        BY <3>2 DEF Consumer, HoldsFrame
      <4>2. FrameEnd(i) # consumer
        BY <1>3, <3>0, <3>1, <4>1, FrameFacts
      <4> QED
        BY <3>0, <3>1, <4>2 DEF PassedIsSettled
    <3>3. CASE rewriter \notin {"post", "rollback"}
      BY <3>0, <3>1, <3>3 DEF PassedIsSettled
    <3> QED
      BY <3>2, <3>3
  <2> QED
    BY <2>4, <2>5, <2>6, <2>7
<1> QED
  BY <1>1, <1>2, <1>4, <1>6, IInvGrown

\* Every step keeps the invariant.
LEMMA IInvStep == ASSUME RecSound PROVE IInv /\ [Next]_vars => IInv'
<1> SUFFICES ASSUME IInv, [Next]_vars PROVE IInv'
  OBVIOUS
<1>1. Bookkeeping'
  BY BookStep DEF IInv
<1>2. CASE Elsewhere \/ (\E b \in Batch : TaskWriteLength(b) \/ TaskWritePayload(b))
  BY <1>1, <1>2, IInvElsewhere, IInvWriteLength, IInvWritePayload
<1>3. CASE RewriterNext
  BY <1>1, <1>3, IInvLoop, IInvReadLength, IInvReadPayload, IInvRewritePost, IInvRollback,
     IInvUpdateBegin, IInvUpdateEnd DEF RewriterNext
<1>4. CASE Crash
  BY <1>1, <1>4, IInvCrash
<1> QED
  BY <1>2, <1>3, <1>4 DEF Next, TaskNext, Elsewhere

-----------------------------------------------------------------------------
(* What follows from it. *)

\* On a store that has been used before, with torn frames, disk errors and
\* crashes anywhere but between CleanUp and the write of .rec, the file, the
\* saved offset, the consumer and the flag fit together as IInv says
\* (backend/file.go, backend/backend.go).
THEOREM IInvCorrect == ASSUME RecSound PROVE Spec => []IInv
<1>1. IInv /\ [Next]_vars => IInv'
  BY IInvStep
<1> QED
  BY <1>1, IInvInit, PTL DEF Spec

LEMMA IInvNoLoss == ASSUME IInv PROVE NoLoss
<1> SUFFICES ASSUME NEW b \in accepted \ exposed, b \notin Settled PROVE b \in Pending
  BY DEF NoLoss
<1>1. PICK i \in 1..Len(dat) : IsFrame(i) /\ Clean(i) /\ dat[i].rec = b
  BY DEF IInv, AcceptedIsKept
<1>2. Orderly
  BY <1>1 DEF IInv, Astray
<1>3. dat \in Seq(Cell) /\ Len(dat) \in Nat /\ FrameEnd(i) \in Nat /\ consumer \in Nat
  BY <1>1, FrameFacts DEF IInv, Bookkeeping, TypeOK, FileTypeOK
<1>4. CASE FrameEnd(i) <= consumer
  <2>1. b \in inflight
    BY <1>1, <1>2, <1>4 DEF Orderly, PassedIsSettled
  <2> QED
    BY <2>1 DEF Pending
<1>5. CASE i > consumer
  BY <1>1, <1>5 DEF Pending, FramesFrom
<1>6. CASE i <= consumer /\ consumer < FrameEnd(i)
  <2>1. ~Boundary(consumer)
    BY <1>1, <1>3, <1>6, NoStraddle
  <2>2. rewriter = "payload" /\ IsFrame(consumer) /\ meta < consumer
    BY <1>2, <2>1 DEF Orderly, Consumer
  <2>3. i = consumer
    <3> SUFFICES ASSUME i < consumer PROVE FALSE
      BY <1>3, <1>6
    <3>1. FrameEnd(i) < consumer
      BY <1>1, <1>3, <2>2, Disjoint
    <3> QED
      BY <1>3, <1>6, <3>1
  <2>4. i > ResumeOffset
    BY <2>2, <2>3 DEF ResumeOffset, IInv
  <2> QED
    BY <1>1, <2>4 DEF Pending, FramesFrom
<1> QED
  BY <1>3, <1>4, <1>5, <1>6

\* No interleaving of the pool tasks with the rewriter, failed post, failed
\* write or crash loses a batch that fb.Write has accepted, unless it was written
\* behind a torn frame (backend/file.go, backend/backend.go Rewrite).
THEOREM NoLossCorrect == ASSUME RecSound PROVE Spec => []NoLoss
<1>1. IInv => NoLoss
  BY IInvNoLoss
<1> QED
  BY <1>1, IInvCorrect, PTL

LEMMA IInvReplay == ASSUME IInv PROVE ReplayInOrder
<1> SUFFICES ASSUME rewriter = "post",
                    NEW i \in 1..Len(dat), NEW j \in 1..Len(dat), i < j,
                    IsFrame(i), IsFrame(j), dat[j].rec \in inflight,
                    dat[i].rec \in accepted \ exposed
             PROVE  dat[i].rec \in Settled
  BY DEF ReplayInOrder
<1>1. dat \in Seq(Cell) /\ Len(dat) \in Nat /\ dat[i].at = 0 /\ dat[j].at = 0
  BY FrameFacts DEF IInv, Bookkeeping, TypeOK, FileTypeOK
<1>2. \A m, k \in 1..Len(dat) :
          dat[m].at = 0 /\ dat[k].at = 0 /\ dat[m].rec = dat[k].rec => m = k
  BY DEF IInv, Bookkeeping, WrittenOnce
<1>3. CASE Astray
  <2> SUFFICES ASSUME dat[i].rec \notin Settled PROVE FALSE
    OBVIOUS
  <2>1. PICK k \in 1..Len(dat) : IsFrame(k) /\ Clean(k) /\ dat[k].rec = dat[i].rec
    BY DEF IInv, AcceptedIsKept
  <2>2. k = i
    BY <1>1, <1>2, <2>1 DEF IsFrame
  <2> QED
    BY <1>3, <2>1, <2>2 DEF Astray
<1>4. CASE Orderly
  <2>1. PICK k \in 1..Len(dat) : IsFrame(k) /\ FrameEnd(k) = consumer /\ inflight = {dat[k].rec}
    BY <1>4 DEF Orderly, Consumer, HoldsFrame
  <2>2. k = j
    BY <1>1, <1>2, <2>1 DEF IsFrame
  <2>3. FrameEnd(i) < j /\ j < consumer /\ FrameEnd(i) \in Nat /\ consumer \in Nat
    BY <1>1, <2>1, <2>2, Disjoint, FrameFacts
  <2>4. FrameEnd(i) <= consumer /\ FrameEnd(i) # consumer
    BY <1>1, <2>3
  <2> QED
    BY <1>4, <2>4 DEF Orderly, PassedIsSettled
<1> QED
  BY <1>3, <1>4 DEF IInv

\* Replay goes in the order of the file: no batch is posted while one accepted
\* before it is unsettled, but for those behind a torn frame (backend/backend.go
\* RewriteLoop, Rewrite).
THEOREM ReplayInOrderCorrect == ASSUME RecSound PROVE Spec => []ReplayInOrder
<1>1. IInv => ReplayInOrder
  BY IInvReplay
<1> QED
  BY <1>1, IInvCorrect, PTL

\* Only a payload that was not wholly written or a crash inside Write tears a
\* frame.
LEMMA TornByFault ==
    ASSUME IInv, ~Torn, [Next]_vars, Torn'
    PROVE  {"payload", "torn"} \intersect Faults # {}
<1> USE DEF fileVars, rwVars, netVars, histVars
<1>1. PICK t \in 1..Len(dat') : TornAt(t)'
  BY DEF Torn
<1>2. dat \in Seq(Cell) /\ Bookkeeping
  BY DEF IInv, Bookkeeping, TypeOK, FileTypeOK
<1>3. \A i : ~TornAt(i)
  BY DEF Torn, TornAt
<1>4. ~SameFile
  BY <1>1, <1>3, FileSame
<1>5. ASSUME NEW b \in Batch, TaskWriteLength(b) PROVE FALSE
  <2>1. WriteLength(b, TRUE)
    BY <1>4, <1>5 DEF TaskWriteLength, WriteLength, SameFile
  <2> QED
    BY <1>1, <1>2, <1>3, <2>1, LengthWritten
<1>6. ASSUME NEW b \in Batch, TaskWritePayload(b) PROVE "payload" \in Faults
  <2>1. PICK m \in 0..Size[b], result \in {"ok", "payload", "sync"} :
            (result = "ok" \/ result \in Faults) /\ WritePayload(b, m, result)
    BY <1>6 DEF TaskWritePayload
  <2>2. Written(b, m)
    BY <1>6, <2>1 DEF TaskWritePayload, TaskGoes, WritePayload, Written
  <2>3. PICK n : n = Len(dat)
    OBVIOUS
  <2>4. t = n
    BY <1>1, <1>2, <1>3, <2>2, <2>3, PiecesGrown DEF Grown
  <2>5. m # Size[b]
    BY <1>1, <1>2, <2>2, <2>3, <2>4, PiecesWritten DEF TornAt
  <2> QED
    BY <2>1, <2>5 DEF WritePayload
<1>7. Crash => "torn" \in Faults
  <2> SUFFICES ASSUME Crash PROVE "torn" \in Faults
    OBVIOUS
  <2>1. lock = "write"
    BY <1>2, <1>4, CrashFile DEF SameFile, Written
  <2>2. ~Truncated
    BY <1>2, <2>1 DEF Truncated, Bookkeeping, LockHolder
  <2> QED
    BY <2>1, <2>2 DEF Crash, CrashWindow
<1>8. RewriteUpdateBegin => dat' = <<>> /\ Len(dat') = 0
  BY <1>4 DEF RewriteUpdateBegin, UpdateMetaBegin, CleanUp, SameFile
<1>9. \/ \E b \in Batch : TaskWriteLength(b) \/ TaskWritePayload(b)
      \/ RewriteUpdateBegin
      \/ Crash
  BY <1>4 DEF SameFile, Next, TaskNext, RewriterNext, vars, Submit, TaskCheck, TaskPost,
     RewriteIdle, RewriteLoop, RewriteLoopExit, RewriteReadLength, ReadLength,
     RewriteReadPayload, ReadPayload, RewritePost, RewriteRollback, RollbackMeta,
     RewriteUpdateEnd, UpdateMetaEnd, CheckActive, ServerChanges
<1> QED
  BY <1>1, <1>5, <1>6, <1>7, <1>8, <1>9

Whole == IInv /\ ~Torn

LEMMA NeverTorn == ASSUME Undamaged PROVE Spec => []Whole
<1>1. RecSound
  BY DEF Undamaged
<1>2. Init => Whole
  <2>1. Init => ~Torn
    BY DEF Init, FileInit, Torn
  <2> QED
    BY <1>1, <2>1, IInvInit DEF Whole
<1>3. Whole /\ [Next]_vars => Whole'
  BY <1>1, IInvStep, TornByFault DEF Whole, Undamaged
<1> QED
  BY <1>2, <1>3, PTL DEF Spec

LEMMA WholeReader == ASSUME Whole PROVE ReaderBehindWriter
<1>1. Orderly /\ (rewriter = "length" => dataflag)
  BY DEF Whole, IInv, Astray, Bookkeeping, FlagRaised
<1>2. \A i : ~TornAt(i)
  BY DEF Whole, Torn, TornAt
<1> QED
  BY <1>1, <1>2 DEF Orderly, ReaderBehindWriter, Flag, Consumer

\* While no frame is torn, Read, which takes no lock, never meets a frame that
\* Write has not completed (backend/file.go Read, Write).
THEOREM ReaderBehindWriterCorrect == ASSUME Undamaged PROVE Spec => []ReaderBehindWriter
<1>1. Whole => ReaderBehindWriter
  BY WholeReader
<1> QED
  BY <1>1, NeverTorn, PTL

-----------------------------------------------------------------------------
(* The backlog implements the queue of BacklogSpec. *)

\* Held is the sequence of the batches of HeldFrames.
LEMMA HeldIs ==
    ASSUME dat \in Seq(Cell)
    PROVE  /\ Numbers(HeldFrames)
           /\ Cardinality(HeldFrames) \in Nat
           /\ Held \in Seq(Batch)
           /\ Len(Held) = Cardinality(HeldFrames)
           /\ DOMAIN Held = 1..Cardinality(HeldFrames)
           /\ \A n \in 1..Cardinality(HeldFrames) :
                 Held[n] = dat[Nth(HeldFrames, n)].rec /\ Nth(HeldFrames, n) \in HeldFrames
<1>1. Len(dat) \in Nat
  BY LenProperties
<1>2. HeldFrames \in SUBSET (1..Len(dat)) /\ IsFiniteSet(1..Len(dat))
  BY <1>1, FS_Interval DEF HeldFrames
<1>3. Numbers(HeldFrames)
  <2>1. HeldFrames \subseteq Nat
    BY DEF HeldFrames
  <2> QED
    BY <1>2, <2>1, FS_Subset DEF Numbers
<1>4. Cardinality(HeldFrames) \in Nat
  BY <1>3, UpToFinite
<1>5. \A n \in 1..Cardinality(HeldFrames) :
          Nth(HeldFrames, n) \in HeldFrames /\ dat[Nth(HeldFrames, n)].rec \in Batch
  BY <1>2, <1>3, NthType, CellRec
<1> QED
  BY <1>3, <1>4, <1>5 DEF Held

\* Each held batch has its frame.
LEMMA HeldMembers ==
    ASSUME dat \in Seq(Cell)
    PROVE  {Held[n] : n \in DOMAIN Held} = {dat[i].rec : i \in HeldFrames}
<1>1. ASSUME NEW n \in DOMAIN Held PROVE \E i \in HeldFrames : Held[n] = dat[i].rec
  BY <1>1, HeldIs
<1>2. ASSUME NEW i \in HeldFrames PROVE \E n \in DOMAIN Held : Held[n] = dat[i].rec
  BY <1>2, HeldIs, RankType, NthIs
<1> QED
  BY <1>1, <1>2

\* What is held does not depend on anything but the frames and the saved offset.
LEMMA HeldSame ==
    ASSUME meta' = meta, \A i : IsFrame(i)' <=> IsFrame(i), dat \in Seq(Cell), Appended
    PROVE  Held' = Held
<1>1. Len(dat) \in Nat /\ Len(dat') \in Nat /\ Len(dat) <= Len(dat')
  BY LenProperties DEF Appended
<1>2. HeldFrames' = HeldFrames
  <2>1. \A i : i \in HeldFrames' <=> i \in HeldFrames
    BY DEF HeldFrames, ResumeOffset, IsFrame
  <2> QED
    BY <2>1
<1>3. \A i \in HeldFrames : dat'[i] = dat[i]
  BY DEF HeldFrames, Appended
<1>4. PICK h : h = HeldFrames
  OBVIOUS
<1>5. \A n \in 1..Cardinality(h) : dat'[Nth(h, n)] = dat[Nth(h, n)]
  BY <1>3, <1>4, HeldIs
<1> QED
  BY <1>2, <1>4, <1>5 DEF Held

LEMMA HeldUntouched ==
    ASSUME Whole, UNCHANGED <<dat, meta, Settled>>
    PROVE  UNCHANGED Queue!vars
<1>1. dat \in Seq(Cell) /\ Appended
  BY LenProperties DEF Whole, IInv, Bookkeeping, TypeOK, FileTypeOK, Appended
<1>2. Held' = Held
  BY <1>1, SameFrames, HeldSame
<1> QED
  BY <1>2 DEF Queue!vars

\* A batch that has not been written is not held.
LEMMA NotHeld ==
    ASSUME Whole, NEW b \in Batch, task[b] \notin {"done", "gone"}
    PROVE  b \notin {Held[n] : n \in DOMAIN Held}
<1>1. dat \in Seq(Cell) /\ Len(dat) \in Nat
  BY LenProperties DEF Whole, IInv, Bookkeeping, TypeOK, FileTypeOK
<1>2. ASSUME NEW i \in HeldFrames, dat[i].rec = b PROVE FALSE
  <2>1. i \in 1..Len(dat) /\ IsFrame(i) /\ dat[i].at = 0
    BY <1>2 DEF HeldFrames, IsFrame
  <2>2. task[b] = "payload"
    BY <1>2, <2>1 DEF Whole, IInv, Bookkeeping, WrittenOnce
  <2>3. Len(dat) > 0 /\ dat[Len(dat)] = [rec |-> b, at |-> 0]
    BY <2>2 DEF Whole, IInv, Bookkeeping, WrittenOnce
  <2>4. i = Len(dat)
    BY <1>1, <1>2, <2>1, <2>3 DEF Whole, IInv, Bookkeeping, WrittenOnce
  <2> QED
    BY <1>1, <2>1, <2>4, FrameFacts
<1> QED
  BY <1>1, <1>2, HeldMembers

\* Write's payload adds its batch to the held ones.
LEMMA HoldStep ==
    ASSUME Undamaged, Whole, NEW b \in Batch, TaskWritePayload(b)
    PROVE  [Queue!Next]_(Queue!vars)
<1> USE DEF fileVars, rwVars, netVars, histVars
<1>1. PICK m \in 0..Size[b], result \in {"ok", "sync"} : WritePayload(b, m, result)
  BY DEF TaskWritePayload, Undamaged
<1>2. /\ dat \in Seq(Cell) /\ task[b] = "payload" /\ UNCHANGED <<meta, Settled>>
      /\ lock = "write" /\ meta # Empty /\ m = Size[b]
  BY <1>1 DEF TaskWritePayload, WritePayload, TaskGoes, Settled, Whole, IInv, Bookkeeping,
     TypeOK, FileTypeOK
<1>3. Written(b, m)
  BY <1>1, <1>2 DEF Written, WritePayload
<1>4. QED
  <2>0. PICK n : n = Len(dat)
    OBVIOUS
  <2>1. /\ Appended
        /\ n \in Nat /\ n \in 1..n /\ dat'[n].rec = b
        /\ Len(dat') \in Nat /\ n < Len(dat')
        /\ IsFrame(n)' /\ ~IsFrame(n)
        /\ \A i : /\ IsFrame(i) => IsFrame(i)'
                  /\ IsFrame(i)' => i \in 1..n /\ dat'[i] = dat[i] /\ (IsFrame(i) \/ i = n)
    <3>1. /\ Appended
          /\ m \in Nat /\ n \in Nat /\ n \in 1..n /\ Len(dat') = n + m
          /\ Size[b] \in Nat \ {0}
          /\ dat'[n].rec = b
          /\ ~IsFrame(n)
          /\ m = Size[b] => IsFrame(n)'
          /\ \A i : IsFrame(i)' => i \in 1..n /\ dat'[i] = dat[i] /\ (IsFrame(i) \/ i = n)
      BY <1>3, <2>0, PiecesWritten DEF Whole, IInv
    <3>2. \A i : IsFrame(i) => IsFrame(i)'
      BY <3>1, FramesSurvive
    <3>3. Len(dat') \in Nat /\ n < Len(dat')
      BY <1>2, <3>1
    <3> QED
      BY <1>2, <3>1, <3>2, <3>3
  <2>2. meta \in Nat /\ meta < n
    <3>1. Orderly /\ rewriter # "meta"
      BY <1>2 DEF Whole, IInv, Astray, Bookkeeping, LockHolder
    <3>2. Boundary(meta)
      BY <3>1 DEF Orderly, SavedOffset, Truncated
    <3> QED
      BY <1>2, <2>0, <2>1, <3>2 DEF Boundary
  <2>3. PICK S, T : S = HeldFrames /\ T = HeldFrames'
    OBVIOUS
  <2>4. T = S \union {n}
    <3>1. \A i : i \in S <=> i \in 1..n /\ i > meta /\ IsFrame(i)
      BY <1>2, <2>0, <2>3 DEF HeldFrames, ResumeOffset
    <3>2. \A i : i \in T <=> i \in 1..Len(dat') /\ i > meta /\ IsFrame(i)'
      BY <1>2, <2>3 DEF HeldFrames, ResumeOffset
    <3>3. \A i : i \in T <=> i \in S \/ i = n
      BY <2>1, <2>2, <3>1, <3>2
    <3> QED
      BY <3>3
  <2>5. \A i \in S : i < n /\ dat'[i] = dat[i]
    BY <2>0, <2>1, <2>3 DEF HeldFrames
  <2>6. Numbers(S) /\ Cardinality(S) \in Nat
    BY <1>2, <2>3, HeldIs
  <2>7. /\ Cardinality(T) = Cardinality(S) + 1
        /\ \A k \in 1..Cardinality(S) : Nth(T, k) = Nth(S, k) /\ Nth(S, k) \in S
        /\ Nth(T, Cardinality(S) + 1) = n
    BY <2>1, <2>4, <2>5, <2>6, NthAdded, NthType
  <2>8. Held = [k \in 1..Cardinality(S) |-> dat[Nth(S, k)].rec]
    BY <2>3 DEF Held
  <2>9. Held' = [k \in 1..Cardinality(T) |-> dat'[Nth(T, k)].rec]
    BY <2>3 DEF Held
  <2>10. Held \in Seq(Batch) /\ Len(Held) = Cardinality(S)
    BY <1>2, <2>3, HeldIs
  <2>11. /\ Append(Held, b) \in Seq(Batch)
         /\ Len(Append(Held, b)) = Cardinality(S) + 1
         /\ \A k \in 1..(Cardinality(S) + 1) :
               Append(Held, b)[k] = IF k <= Cardinality(S) THEN Held[k] ELSE b
    BY <2>6, <2>10, AppendProperties
  <2>12. Held' = Append(Held, b)
    <3>1. ASSUME NEW k \in 1..(Cardinality(S) + 1)
          PROVE  /\ dat'[Nth(T, k)].rec = IF k <= Cardinality(S) THEN Held[k] ELSE b
                 /\ dat'[Nth(T, k)].rec \in Batch
      <4>1. CASE k <= Cardinality(S)
        <5>1. k \in 1..Cardinality(S) /\ Held[k] \in Batch
          BY <2>6, <2>10, <4>1
        <5>2. Nth(T, k) = Nth(S, k) /\ dat'[Nth(S, k)] = dat[Nth(S, k)]
          BY <2>5, <2>7, <5>1
        <5>3. Held[k] = dat[Nth(S, k)].rec
          BY <2>8, <5>1
        <5> QED
          BY <4>1, <5>1, <5>2, <5>3
      <4>2. CASE k = Cardinality(S) + 1
        BY <2>1, <2>6, <2>7, <4>2
      <4> QED
        BY <2>6, <4>1, <4>2
    <3>2. /\ Held' \in Seq(Batch) /\ Len(Held') = Cardinality(S) + 1
          /\ \A k \in 1..(Cardinality(S) + 1) : Held'[k] = dat'[Nth(T, k)].rec
      BY <2>6, <2>7, <2>9, <3>1
    <3> QED
      BY <2>11, <3>1, <3>2, SeqEqual
  <2>13. Queue!Hold(b)
    BY <1>2, <2>12, NotHeld DEF Queue!Hold
  <2> QED
    BY <2>13 DEF Queue!Next

\* A post of a task settles a batch that is not held.
LEMMA SettleDirectlyStep ==
    ASSUME Whole, NEW b \in Batch, TaskPost(b)
    PROVE  [Queue!Next]_(Queue!vars)
<1> USE DEF fileVars
<1>1. UNCHANGED <<dat, meta>> /\ task[b] = "post"
  BY DEF TaskPost, TaskGoes
<1>2. Settled' = Settled \/ Settled' = Settled \union {b}
  BY DEF TaskPost, WriteCompressed, Settled
<1>3. CASE Settled' = Settled
  BY <1>1, <1>3, HeldUntouched
<1>4. CASE Settled' = Settled \union {b}
  <2>1. Held' = Held
    <3>1. dat \in Seq(Cell) /\ Appended
      BY <1>1, LenProperties DEF Whole, IInv, Bookkeeping, TypeOK, FileTypeOK, Appended
    <3> QED
      BY <1>1, <3>1, SameFrames, HeldSame
  <2>2. Queue!SettleDirectly(b)
    BY <1>1, <1>4, <2>1, NotHeld DEF Queue!SettleDirectly
  <2> QED
    BY <2>2 DEF Queue!Next
<1> QED
  BY <1>2, <1>3, <1>4

\* A post of the rewriter settles a held batch all of whose elders are settled.
LEMMA SettleHeldStep ==
    ASSUME Whole, RewritePost
    PROVE  [Queue!Next]_(Queue!vars)
<1> USE DEF fileVars
<1>1. UNCHANGED <<dat, meta>> /\ rewriter = "post" /\ meta # Empty
  BY DEF RewritePost, RewriterGoes, Whole, IInv
<1>2. Settled' = Settled \/ Settled' = Settled \union inflight
  BY DEF RewritePost, WriteCompressed, Settled
<1>3. CASE Settled' = Settled
  BY <1>1, <1>3, HeldUntouched
<1>4. CASE Settled' = Settled \union inflight
  <2>1. dat \in Seq(Cell) /\ Appended /\ Len(dat) \in Nat
    BY <1>1, LenProperties DEF Whole, IInv, Bookkeeping, TypeOK, FileTypeOK, Appended
  <2>2. Held' = Held
    BY <1>1, <2>1, SameFrames, HeldSame
  <2>3. Orderly
    BY DEF Whole, IInv, Astray
  <2>4. PICK j \in 1..Len(dat) :
            IsFrame(j) /\ FrameEnd(j) = consumer /\ meta < j /\ inflight = {dat[j].rec}
    BY <1>1, <2>3 DEF Orderly, Consumer, HoldsFrame
  <2>5. j \in HeldFrames
    BY <1>1, <2>4 DEF HeldFrames, ResumeOffset
  <2>6. PICK r : r = Rank(HeldFrames, j)
    OBVIOUS
  <2>7. r \in DOMAIN Held /\ Nth(HeldFrames, r) = j /\ Held[r] = dat[j].rec
    BY <2>1, <2>5, <2>6, HeldIs, RankType, NthIs
  <2>8. ASSUME NEW k \in 1..(r - 1) PROVE Held[k] \in Settled
    <3>1. k \in 1..Cardinality(HeldFrames) /\ k < r /\ r \in 1..Cardinality(HeldFrames)
      BY <2>1, <2>7, HeldIs
    <3>2. PICK i : i = Nth(HeldFrames, k)
      OBVIOUS
    <3>3. i < j /\ i \in HeldFrames /\ Held[k] = dat[i].rec
      BY <2>1, <2>7, <3>1, <3>2, HeldIs, NthMonotone
    <3>4. i \in 1..Len(dat) /\ IsFrame(i)
      BY <3>3 DEF HeldFrames
    <3>5. FrameEnd(i) < j /\ j < consumer /\ FrameEnd(i) \in Nat /\ consumer \in Nat
      BY <2>1, <2>4, <3>3, <3>4, Disjoint, FrameFacts
    <3>6. FrameEnd(i) <= consumer /\ FrameEnd(i) # consumer
      BY <2>1, <3>5
    <3> QED
      BY <2>3, <3>3, <3>4, <3>6 DEF Orderly, PassedIsSettled
  <2>9. Queue!SettleHeld
    BY <1>4, <2>2, <2>4, <2>7, <2>8 DEF Queue!SettleHeld
  <2> QED
    BY <2>9 DEF Queue!Next
<1> QED
  BY <1>2, <1>3, <1>4

\* CleanUp releases all that is held; it is settled, as everything was consumed.
LEMMA CleanUpStep ==
    ASSUME Whole, RewriteUpdateBegin
    PROVE  [Queue!Next]_(Queue!vars)
<1> USE DEF fileVars, rwVars, netVars, histVars
<1>1. /\ dat \in Seq(Cell) /\ Len(dat) \in Nat /\ rewriter = "update"
      /\ inflight \subseteq Settled /\ UNCHANGED <<meta, Settled>> /\ Orderly
  BY LenProperties DEF RewriteUpdateBegin, UpdateMetaBegin, RewriterGoes, Settled, Whole, IInv,
     Astray, Bookkeeping, TypeOK, FileTypeOK
<1>2. CASE Len(dat) # consumer
  <2>1. dat' = dat
    BY <1>2 DEF RewriteUpdateBegin, UpdateMetaBegin
  <2> QED
    BY <1>1, <2>1, HeldUntouched
<1>3. CASE Len(dat) = consumer
  <2>1. dat' = <<>> /\ Len(dat') = 0
    BY <1>3 DEF RewriteUpdateBegin, UpdateMetaBegin, CleanUp
  <2>2. Held' = <<>>
    <3>1. HeldFrames' = {}
      BY <2>1 DEF HeldFrames
    <3>2. Cardinality(HeldFrames') = 0
      BY <3>1, FS_EmptySet
    <3> QED
      BY <3>2 DEF Held
  <2>3. ASSUME NEW n \in DOMAIN Held PROVE Held[n] \in Settled
    <3>1. PICK i \in HeldFrames : Held[n] = dat[i].rec
      BY <1>1, <2>3, HeldIs
    <3>2. i \in 1..Len(dat) /\ IsFrame(i)
      BY DEF HeldFrames
    <3>3. FrameEnd(i) <= consumer
      BY <1>1, <1>3, <3>2, FrameFacts
    <3> QED
      BY <1>1, <3>1, <3>2, <3>3 DEF Orderly, PassedIsSettled
  <2>4. PICK l \in Nat : l = Len(Held) /\ DOMAIN Held = 1..l
    BY <1>1, HeldIs
  <2>5. CASE l = 0
    <3>1. Held = <<>>
      BY <1>1, <2>4, <2>5, HeldIs, EmptySeq
    <3> QED
      BY <1>1, <2>2, <3>1 DEF Queue!vars
  <2>6. CASE l # 0
    <3>1. l \in DOMAIN Held /\ SubSeq(Held, l + 1, Len(Held)) = <<>>
      BY <2>4, <2>6, SubSeqEmpty
    <3>2. Queue!Release
      BY <1>1, <2>2, <2>3, <2>4, <3>1 DEF Queue!Release
    <3> QED
      BY <3>2 DEF Queue!Next
  <2> QED
    BY <2>5, <2>6
<1> QED
  BY <1>2, <1>3

\* The write of .rec releases the batches up to the one the rewriter holds.
LEMMA ReleaseStep ==
    ASSUME Whole, RewriteUpdateEnd
    PROVE  [Queue!Next]_(Queue!vars)
<1> USE DEF fileVars, rwVars, netVars, histVars
<1>0. PICK ok \in BOOLEAN : UpdateMetaEnd(ok)
  BY DEF RewriteUpdateEnd
<1>1. /\ dat \in Seq(Cell) /\ Len(dat) \in Nat /\ consumer \in Nat /\ rewriter = "meta"
      /\ inflight \subseteq Settled /\ UNCHANGED <<dat, Settled>> /\ Orderly /\ meta # Empty
      /\ meta' = IF ok THEN consumer ELSE meta
  BY <1>0, LenProperties DEF RewriteUpdateEnd, UpdateMetaEnd, RewriterGoes, Settled, Whole, IInv,
     Astray, Bookkeeping, TypeOK, FileTypeOK
<1>2. CASE ~ok
  BY <1>1, <1>2, HeldUntouched
<1>3. CASE ok /\ Truncated
  <2>1. HeldFrames = {} /\ HeldFrames' = {}
    BY <1>1, <1>3 DEF Truncated, HeldFrames
  <2>2. Cardinality(HeldFrames) = 0 /\ Cardinality(HeldFrames') = 0
    BY <2>1, FS_EmptySet
  <2>3. Held = <<>> /\ Held' = <<>>
    BY <2>2 DEF Held
  <2> QED
    BY <1>1, <2>3 DEF Queue!vars
<1>4. CASE ok /\ ~Truncated
  <2>1. PICK j \in 1..Len(dat) :
            IsFrame(j) /\ FrameEnd(j) = consumer /\ meta < j /\ inflight = {dat[j].rec}
    BY <1>1, <1>4 DEF Orderly, Consumer, HoldsFrame
  <2>2. Boundary(consumer) /\ Boundary(meta) /\ meta \in Nat /\ meta <= consumer /\ consumer # Empty
    BY <1>1, <1>4 DEF Orderly, Consumer, SavedOffset, Boundary, Empty
  <2>3. PICK S, T : S = HeldFrames /\ T = HeldFrames'
    OBVIOUS
  <2>4. T = {i \in S : i > consumer}
    <3>1. \A i : i \in S <=> i \in 1..Len(dat) /\ i > meta /\ IsFrame(i)
      BY <1>1, <2>3 DEF HeldFrames, ResumeOffset
    <3>2. \A i : i \in T <=> i \in 1..Len(dat) /\ i > consumer /\ IsFrame(i)
      BY <1>1, <1>4, <2>2, <2>3, SameFrames DEF HeldFrames, ResumeOffset
    <3>3. \A i \in 1..Len(dat) : i > consumer => i > meta
      BY <1>1, <2>2
    <3>4. \A i : i \in T <=> i \in S /\ i > consumer
      BY <3>1, <3>2, <3>3
    <3> QED
      BY <3>4
  <2>5. PICK m : m = Cardinality(UpTo(S, consumer))
    OBVIOUS
  <2>6. /\ Numbers(S) /\ Cardinality(S) \in Nat /\ m \in 0..Cardinality(S)
        /\ Cardinality(T) = Cardinality(S) - m
        /\ \A n \in 1..Cardinality(T) : Nth(T, n) = Nth(S, n + m)
        /\ \A n \in 1..m : Nth(S, n) <= consumer
    <3>1. Numbers(S) /\ Cardinality(S) \in Nat
      BY <1>1, <2>3, HeldIs
    <3>2. PICK c \in Nat : c = consumer
      BY <1>1
    <3>3. /\ T = {i \in S : i > c}
          /\ m = Cardinality(UpTo(S, c))
      BY <2>4, <2>5, <3>2
    <3>4. /\ m \in 0..Cardinality(S)
          /\ Cardinality(T) = Cardinality(S) - m
          /\ \A n \in 1..Cardinality(T) : Nth(T, n) = Nth(S, n + m)
          /\ \A n \in 1..m : Nth(S, n) <= c
      BY ONLY <3>1, <3>3, c \in Nat, NthPast
    <3> QED
      BY <3>1, <3>2, <3>4
  <2>7. /\ Held = [n \in 1..Cardinality(S) |-> dat[Nth(S, n)].rec]
        /\ Held' = [n \in 1..Cardinality(T) |-> dat[Nth(T, n)].rec]
    BY <1>1, <2>3 DEF Held
  <2>8. Held \in Seq(Batch) /\ Len(Held) = Cardinality(S) /\ DOMAIN Held = 1..Cardinality(S)
    BY <1>1, <2>3, HeldIs
  <2>9. m # 0
    <3>1. j \in UpTo(S, consumer)
      BY <1>1, <2>1, <2>3, FrameFacts DEF UpTo, HeldFrames, ResumeOffset
    <3>2. IsFiniteSet(UpTo(S, consumer))
      BY <2>6, UpToFinite
    <3> QED
      BY <2>5, <3>1, <3>2, FS_EmptySet
  <2>10. ASSUME NEW n \in 1..m PROVE Held[n] \in Settled
    <3>1. PICK i : i = Nth(S, n)
      OBVIOUS
    <3>2. i \in S /\ i <= consumer /\ Held[n] = dat[i].rec
      BY <2>6, <2>7, <3>1, NthType
    <3>3. i \in 1..Len(dat) /\ IsFrame(i)
      BY <2>3, <3>2 DEF HeldFrames
    <3>4. FrameEnd(i) <= consumer
      BY <1>1, <2>2, <3>2, <3>3, NoStraddle
    <3> QED
      BY <1>1, <3>2, <3>3, <3>4 DEF Orderly, PassedIsSettled
  <2>11. Held' = SubSeq(Held, m + 1, Len(Held))
    <3> DEFINE q == SubSeq(Held, m + 1, Cardinality(S))
               c == Cardinality(S)
    <3>1. \A i \in (m + 1)..c : Held[i] \in Batch
      BY <2>6, <2>8
    <3>2. /\ q \in Seq(Batch)
          /\ Len(q) = IF m + 1 <= c THEN c - (m + 1) + 1 ELSE 0
          /\ \A i \in 1..(c - (m + 1) + 1) : q[i] = Held[(m + 1) + i - 1]
      BY <2>6, <3>1, SubSeqProperties
    <3>3. Len(q) = Cardinality(T) /\ \A i \in 1..Cardinality(T) : q[i] = Held[i + m]
      <4>1. Len(q) = c - m
        BY <2>6, <3>2
      <4>2. ASSUME NEW i \in 1..(c - m) PROVE q[i] = Held[i + m]
        <5>1. i \in 1..(c - (m + 1) + 1) /\ (m + 1) + i - 1 = i + m
          BY <2>6
        <5> QED
          BY <3>2, <5>1
      <4> QED
        BY <2>6, <4>1, <4>2
    <3>4. ASSUME NEW i \in 1..Cardinality(T) PROVE Held[i + m] = dat[Nth(T, i)].rec
      <4>1. i + m \in 1..Cardinality(S)
        BY <2>6
      <4> QED
        BY <2>6, <2>7, <4>1
    <3> HIDE DEF q
    <3>5. /\ Held' \in Seq(Batch) /\ Len(Held') = Cardinality(T)
          /\ \A i \in 1..Cardinality(T) : Held'[i] = q[i]
      <4>1. Cardinality(T) \in Nat
        BY <2>6
      <4>2. \A i \in 1..Cardinality(T) : dat[Nth(T, i)].rec = q[i] /\ q[i] \in Batch
        BY <3>2, <3>3, <3>4, ElementOfSeq
      <4> QED
        BY <2>7, <4>1, <4>2
    <3>6. Held' = q
      BY <3>2, <3>3, <3>5, SeqEqual
    <3> QED
      BY <2>8, <3>6 DEF q
  <2>12. Queue!Release
    <3>1. m \in DOMAIN Held
      BY <2>6, <2>8, <2>9
    <3> QED
      BY <1>1, <2>10, <2>11, <3>1 DEF Queue!Release
  <2> QED
    BY <2>12 DEF Queue!Next
<1> QED
  BY <1>2, <1>3, <1>4

\* Every step of the backlog is one of the queue's or leaves it alone.
LEMMA QueueStep == ASSUME Undamaged PROVE Whole /\ [Next]_vars => [Queue!Next]_(Queue!vars)
<1> SUFFICES ASSUME Whole, [Next]_vars PROVE [Queue!Next]_(Queue!vars)
  OBVIOUS
<1> USE DEF fileVars, rwVars, netVars, histVars
<1>1. ASSUME NEW b \in Batch, TaskWriteLength(b) PROVE UNCHANGED Queue!vars
  <2>1. PICK ok \in BOOLEAN : WriteLength(b, ok)
    BY <1>1 DEF TaskWriteLength
  <2>2. UNCHANGED <<meta, Settled>> /\ dat \in Seq(Cell)
    BY <1>1, <2>1 DEF TaskWriteLength, WriteLength, Settled, Whole, IInv, Bookkeeping, TypeOK,
       FileTypeOK
  <2>3. CASE ok
    <3>1. WriteLength(b, TRUE)
      BY <2>1, <2>3
    <3>2. Appended /\ \A i : IsFrame(i)' <=> IsFrame(i)
      BY <2>2, <3>1, LengthWritten DEF Grown
    <3>3. Held' = Held
      BY <2>2, <3>2, HeldSame
    <3> QED
      BY <2>2, <3>3 DEF Queue!vars
  <2>4. CASE ~ok
    BY <2>1, <2>2, <2>4, HeldUntouched DEF WriteLength
  <2> QED
    BY <2>3, <2>4
<1>2. CASE \/ \E b \in Batch : Submit(b) \/ TaskCheck(b)
           \/ RewriteIdle \/ RewriteLoop \/ RewriteLoopExit \/ RewriteReadLength
           \/ RewriteReadPayload \/ RewriteRollback
           \/ CheckActive \/ ServerChanges \/ UNCHANGED vars
  <2>1. UNCHANGED <<dat, meta, Settled>>
    BY <1>2 DEF Submit, TaskCheck, RewriteIdle, RewriteLoop, RewriteLoopExit, RewriteReadLength,
       ReadLength, RewriteReadPayload, ReadPayload, RewriteRollback, RollbackMeta, CheckActive,
       ServerChanges, vars, Settled
  <2> QED
    BY <2>1, HeldUntouched
<1>3. CASE Crash
  <2>1. lock # "write"
    <3> SUFFICES ASSUME lock = "write" PROVE FALSE
      OBVIOUS
    <3>1. "torn" \notin Faults
      BY DEF Undamaged
    <3>2. ~Truncated
      BY DEF Truncated, Whole, IInv, Bookkeeping, LockHolder
    <3> QED
      BY <1>3, <3>1, <3>2 DEF Crash, CrashWindow
  <2>2. dat' = dat
    BY <1>3, <2>1, CrashFile DEF Written, Whole, IInv
  <2>3. UNCHANGED <<meta, Settled>>
    BY <1>3 DEF Crash, NewFileBackend, Settled
  <2> QED
    BY <2>2, <2>3, HeldUntouched
<1> QED
  BY <1>1, <1>2, <1>3, HoldStep, SettleDirectlyStep, SettleHeldStep, CleanUpStep, ReleaseStep
     DEF Next, TaskNext, RewriterNext

LEMMA QueueInit == Init => Queue!Init
<1> SUFFICES ASSUME Init PROVE Queue!Init
  OBVIOUS
<1>1. Len(dat) = 0 /\ Settled = {}
  BY DEF Init, FileInit, Settled
<1>2. HeldFrames = {}
  BY <1>1 DEF HeldFrames
<1>3. Cardinality(HeldFrames) = 0
  BY <1>2, FS_EmptySet
<1>4. Held = <<>>
  BY <1>3 DEF Held
<1> QED
  BY <1>1, <1>4 DEF Queue!Init

\* While no frame is torn and .rec can be relied on, the disk queue with its
\* locks, failed posts, disk errors and crashes is a first-in first-out
\* at-least-once queue (README, "Cache data to file when write failed, then
\* rewrite"; backend/file.go, backend/backend.go).
THEOREM ImplementsQueueCorrect == ASSUME Undamaged PROVE Spec => ImplementsQueue
<1>1. Spec => []Whole
  BY NeverTorn
<1>2. Whole /\ [Next]_vars => [Queue!Next]_(Queue!vars)
  BY QueueStep
<1> QED
  BY <1>1, <1>2, QueueInit, PTL DEF Spec, ImplementsQueue, Queue!Spec

=============================================================================
