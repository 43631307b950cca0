-------------------------- MODULE WriteBufferProofs --------------------------
(***************************************************************************)
(* Theorems about WriteBuffer, for any points, keys and bounds.             *)
(***************************************************************************)
EXTENDS WriteBuffer, OperatorProofs, SequenceTheorems

\* The part of the typing the flush timer depends on.
BufferTypes ==
    /\ worker \in WorkerStates
    /\ chWrite \in Seq(Point)
    /\ buffers \in [Key -> Seq(Point)]

\* Below flush_size a buffer waits for the timer; at flush_size, while the pool
\* has no worker to spare, only the buffer just filled does not need it.
WaitsForTimer(k) ==
    /\ Len(buffers[k]) < FlushSize
    /\ buffers[k] # <<>> => chTimer # "nil"

TimerInv ==
    /\ BufferTypes
    /\ worker \in {"top", "select"} => \A k \in Key : WaitsForTimer(k)
    /\ worker = "full" => \E k \in Key : \A j \in Key \ {k} : WaitsForTimer(j)

LEMMA TimerInit == Init => TimerInv
<1> SUFFICES ASSUME Init PROVE TimerInv
  OBVIOUS
<1>1. BufferTypes
  BY EmptySeq DEF Init, BufferTypes, WorkerStates
<1>2. \A k \in Key : Len(buffers[k]) = 0 /\ buffers[k] = <<>>
  BY DEF Init
<1>3. FlushSize > 0
  BY BoundsPositive
<1> QED
  BY <1>1, <1>2, <1>3 DEF Init, TimerInv, WaitsForTimer

\* The worker takes a point from the channel.
LEMMA TimerReceive ==
    ASSUME TimerInv, Receive
    PROVE  TimerInv'
<1> DEFINE p == Head(chWrite)
           k == KeyOf[p]
           buffer == Append(buffers[k], p)
<1>1. worker = "select" /\ chWrite # <<>> /\ chWrite \in Seq(Point) /\ buffers \in [Key -> Seq(Point)]
  BY DEF Receive, TimerInv, BufferTypes
<1>2. p \in Point /\ k \in Key /\ chWrite' \in Seq(Point)
  BY <1>1, HeadTailProperties, KeyOfPoint DEF Receive
<1>3. buffer \in Seq(Point) /\ Len(buffer) \in Nat
  BY <1>1, <1>2, AppendProperties, LenProperties
<1>4. buffers' = [buffers EXCEPT ![k] = buffer]
  BY DEF Receive, WriteBuffer
<1>5. buffers' \in [Key -> Seq(Point)] /\ buffers'[k] = buffer
      /\ \A j \in Key \ {k} : buffers'[j] = buffers[j]
  BY <1>1, <1>2, <1>3, <1>4
<1>6. \A j \in Key : WaitsForTimer(j)
  BY <1>1 DEF TimerInv
<1>7. FlushSize \in Nat
  BY BoundsPositive
<1>8. CASE Len(buffer) >= FlushSize
  <2>1. worker' = "full" /\ chTimer' = chTimer
    BY <1>8 DEF Receive, WriteBuffer
  <2>2. \A j \in Key \ {k} : WaitsForTimer(j)'
    BY <1>5, <1>6, <2>1 DEF WaitsForTimer
  <2> QED
    BY <1>2, <1>5, <2>1, <2>2 DEF TimerInv, BufferTypes, WorkerStates
<1>9. CASE ~(Len(buffer) >= FlushSize)
  <2>1. worker' = "top" /\ chTimer' = IF chTimer = "nil" THEN "armed" ELSE chTimer
    BY <1>9 DEF Receive, WriteBuffer
  <2>2. chTimer' # "nil"
    BY <2>1
  <2>3. \A j \in Key : Len(buffers'[j]) < FlushSize
    BY <1>3, <1>5, <1>6, <1>7, <1>9 DEF WaitsForTimer
  <2>4. \A j \in Key : WaitsForTimer(j)'
    BY <2>2, <2>3 DEF WaitsForTimer
  <2> QED
    BY <1>2, <1>5, <2>1, <2>4 DEF TimerInv, BufferTypes, WorkerStates
<1> QED
  BY <1>8, <1>9

\* A buffer at flush_size is flushed; the others keep their timer.
LEMMA TimerFlushFull ==
    ASSUME TimerInv, FlushFull
    PROVE  TimerInv'
<1>1. PICK k \in Key : Len(buffers[k]) >= FlushSize /\ FlushBuffer(k)
  BY DEF FlushFull
<1>2. worker = "full" /\ worker' = "top" /\ chWrite' = chWrite /\ chTimer' = chTimer
  BY <1>1 DEF FlushFull, FlushBuffer, WorkerGoes
<1>3. buffers \in [Key -> Seq(Point)] /\ buffers' = [buffers EXCEPT ![k] = <<>>]
  BY <1>1 DEF FlushBuffer, TimerInv, BufferTypes
<1>4. \A j \in Key : Len(buffers[j]) \in Nat
  BY <1>3, LenProperties
<1>5. FlushSize \in Nat \ {0}
  BY BoundsPositive
<1>6. \A j \in Key \ {k} : WaitsForTimer(j)
  <2>1. PICK f \in Key : \A j \in Key \ {f} : WaitsForTimer(j)
    BY <1>2 DEF TimerInv
  <2>2. f = k
    <3> SUFFICES ASSUME f # k PROVE FALSE
      OBVIOUS
    <3>1. Len(buffers[k]) < FlushSize
      BY <2>1 DEF WaitsForTimer
    <3> QED
      BY <1>1, <1>4, <1>5, <3>1
  <2> QED
    BY <2>1, <2>2
<1>7. buffers' \in [Key -> Seq(Point)]
  BY <1>3, EmptySeq
<1>8. buffers'[k] = <<>> /\ Len(buffers'[k]) < FlushSize
  BY <1>3, <1>5
<1>9. \A j \in Key : WaitsForTimer(j)'
  BY <1>2, <1>3, <1>6, <1>8 DEF WaitsForTimer
<1> QED
  BY <1>2, <1>7, <1>9 DEF TimerInv, BufferTypes, WorkerStates

\* Flush goes over the buffers; the timer matters again when it is through.
LEMMA TimerFlush ==
    ASSUME TimerInv, FlushNext \/ FlushEnd \/ OnClosed \/ OnTimer
    PROVE  TimerInv'
<1>1. CASE FlushNext
  <2>1. PICK k \in Key : FlushBuffer(k) /\ WorkerGoes("flush", "flush")
    BY <1>1 DEF FlushNext
  <2>2. buffers' \in [Key -> Seq(Point)]
    BY <2>1, EmptySeq DEF FlushBuffer, TimerInv, BufferTypes
  <2> QED
    BY <2>1, <2>2 DEF FlushBuffer, WorkerGoes, TimerInv, BufferTypes, WorkerStates
<1>2. CASE FlushEnd
  <2>1. /\ buffers' = buffers /\ chWrite' = chWrite /\ worker' \in {"top", "wait"}
        /\ \A k \in Key : buffers[k] = <<>>
    BY <1>2 DEF FlushEnd, WorkerGoes
  <2>2. \A k \in Key : Len(buffers[k]) = 0
    BY <2>1
  <2>3. \A k \in Key : WaitsForTimer(k)'
    BY <2>1, <2>2, BoundsPositive DEF WaitsForTimer
  <2> QED
    BY <2>1, <2>3 DEF TimerInv, BufferTypes, WorkerStates
<1>3. CASE OnClosed \/ OnTimer
  BY <1>3 DEF OnClosed, OnTimer, Flush, WorkerGoes, TimerInv, BufferTypes, WorkerStates
<1> QED
  BY <1>1, <1>2, <1>3

\* The rest of the system can only bring points and make an armed timer due.
LEMMA TimerElsewhere ==
    ASSUME TimerInv, UNCHANGED buffers,
           chTimer' = chTimer \/ chTimer' = "due",
           \/ worker' = worker
           \/ worker = "top" /\ worker' \in {"select", "left"}
           \/ worker' = "drained",
           chWrite' \in Seq(Point)
    PROVE  TimerInv'
  BY DEF TimerInv, BufferTypes, WorkerStates, WaitsForTimer

LEMMA TimerStep == TimerInv /\ [Next]_vars => TimerInv'
<1> SUFFICES ASSUME TimerInv, [Next]_vars PROVE TimerInv'
  OBVIOUS
<1>1. chWrite \in Seq(Point)
  BY DEF TimerInv, BufferTypes
<1>2. ASSUME NEW p \in Point, Check(p) \/ Send(p) \/ SendOnClosed(p)
      PROVE  TimerInv'
  <2>1. chWrite' \in Seq(Point)
    BY <1>1, <1>2, AppendProperties DEF Check, Send, SendOnClosed
  <2> QED
    BY <1>2, <2>1, TimerElsewhere DEF Check, Send, SendOnClosed
<1>3. CASE CloseStop \/ CloseChannel \/ TimerDue \/ TaskDone
  BY <1>1, <1>3, TimerElsewhere DEF CloseStop, CloseChannel, TimerDue, TaskDone
<1>4. CASE Top \/ Drained
  BY <1>1, <1>4, TimerElsewhere DEF Top, Drained, WorkerGoes
<1>5. CASE UNCHANGED vars
  BY <1>1, <1>5, TimerElsewhere DEF vars
<1> QED
  BY <1>2, <1>3, <1>4, <1>5, TimerReceive, TimerFlushFull, TimerFlush DEF Next, WorkerNext

\* Whenever the worker waits with points in some buffer, the flush timer is
\* armed or due (backend/backend.go WriteBuffer, Flush): no point waits for a
\* later one to be flushed.
THEOREM TimerArmedCorrect == Spec => []TimerArmed
<1>1. TimerInv => TimerArmed
  BY DEF TimerInv, TimerArmed, WaitsForTimer
<1> QED
  BY <1>1, TimerInit, TimerStep, PTL DEF Spec

-----------------------------------------------------------------------------
(* The points of one key. *)

One(k, p) == IF KeyOf[p] = k THEN <<p>> ELSE <<>>
Parts(k, points) == [i \in 1..Len(points) |-> One(k, points[i])]

LEMMA OfParts ==
    ASSUME NEW k, NEW points \in Seq(Point)
    PROVE  /\ Parts(k, points) \in Seq(Seq(Point))
           /\ Len(Parts(k, points)) = Len(points)
           /\ \A i \in 1..Len(points) : Parts(k, points)[i] = One(k, points[i])
           /\ Of(k, points) = FlattenSeq(Parts(k, points))
           /\ Of(k, points) \in Seq(Point)
<1>1. Len(points) \in Nat /\ \A i \in 1..Len(points) : points[i] \in Point
  BY LenProperties, ElementOfSeq
<1>2. \A p \in Point : One(k, p) \in Seq(Point)
  BY DEF One
<1>3. Parts(k, points) \in [1..Len(points) -> Seq(Point)]
  BY <1>1, <1>2 DEF Parts
<1>4. Parts(k, points) \in Seq(Seq(Point)) /\ Len(Parts(k, points)) = Len(points)
  BY <1>1, <1>3
<1>5. Of(k, points) = FlattenSeq(Parts(k, points))
  BY DEF Of, Parts, One
<1> QED
  BY <1>1, <1>4, <1>5, FlattenType DEF Parts

LEMMA OfAppend ==
    ASSUME NEW k, NEW points \in Seq(Point), NEW p \in Point
    PROVE  Of(k, Append(points, p)) = Of(k, points) \o One(k, p)
<1>0. PICK q : q = Append(points, p)
  OBVIOUS
<1>1. /\ q \in Seq(Point) /\ Len(points) \in Nat /\ Len(q) = Len(points) + 1
      /\ q[Len(points) + 1] = p
      /\ \A i \in 1..Len(points) : q[i] = points[i]
  BY <1>0, AppendProperties, LenProperties
<1>2. One(k, p) \in Seq(Point)
  BY DEF One
<1>3. Parts(k, q) = Append(Parts(k, points), One(k, p))
  <2>1. PICK a, b : a = Parts(k, points) /\ b = Parts(k, q)
    OBVIOUS
  <2>2. /\ a \in Seq(Seq(Point)) /\ Len(a) = Len(points)
        /\ \A i \in 1..Len(points) : a[i] = One(k, points[i])
        /\ b \in Seq(Seq(Point)) /\ Len(b) = Len(q)
        /\ \A i \in 1..Len(q) : b[i] = One(k, q[i])
    BY <1>1, <2>1, OfParts
  <2>3. PICK c : c = Append(a, One(k, p))
    OBVIOUS
  <2>4. /\ c \in Seq(Seq(Point)) /\ Len(c) = Len(points) + 1
        /\ c[Len(points) + 1] = One(k, p)
        /\ \A i \in 1..Len(points) : c[i] = a[i]
    BY <1>2, <2>2, <2>3, AppendProperties
  <2>5. \A i \in 1..Len(b) : b[i] = c[i]
    <3> TAKE i \in 1..Len(b)
    <3>1. CASE i \in 1..Len(points)
      BY <1>1, <2>2, <2>4, <3>1
    <3>2. CASE i = Len(points) + 1
      BY <1>1, <2>2, <2>4, <3>2
    <3> QED
      BY <1>1, <2>2, <3>1, <3>2
  <2> QED
    BY <1>1, <2>1, <2>2, <2>3, <2>4, <2>5, SeqEqual
<1>4. Of(k, q) = FlattenSeq(Append(Parts(k, points), One(k, p)))
  BY <1>1, <1>3, OfParts
<1> QED
  BY <1>0, <1>2, <1>4, OfParts, FlattenAppend

LEMMA InFront ==
    ASSUME NEW T, NEW e \in T, NEW u \in Seq(T), NEW c, c = <<e>> \o u
    PROVE  /\ c \in Seq(T) /\ Len(c) = Len(u) + 1 /\ c[1] = e
           /\ \A i \in 1..Len(u) : c[i + 1] = u[i]
  OBVIOUS

LEMMA OfHead ==
    ASSUME NEW k, NEW points \in Seq(Point), points # <<>>
    PROVE  Of(k, points) = One(k, Head(points)) \o Of(k, Tail(points))
<1>0. PICK h, t : h = Head(points) /\ t = Tail(points)
  OBVIOUS
<1>1. /\ h \in Point /\ t \in Seq(Point) /\ Len(points) \in Nat \ {0}
      /\ Len(t) = Len(points) - 1 /\ points[1] = h
      /\ \A i \in 1..Len(t) : t[i] = points[i + 1]
  BY <1>0, HeadTailProperties, LenProperties, EmptySeq
<1>2. One(k, h) \in Seq(Point) /\ <<One(k, h)>> \in Seq(Seq(Point))
  BY <1>1 DEF One
<1>3. Parts(k, points) = <<One(k, h)>> \o Parts(k, t)
  <2>1. PICK a, b : a = Parts(k, points) /\ b = Parts(k, t)
    OBVIOUS
  <2>2. /\ a \in Seq(Seq(Point)) /\ Len(a) = Len(points)
        /\ \A i \in 1..Len(points) : a[i] = One(k, points[i])
        /\ b \in Seq(Seq(Point)) /\ Len(b) = Len(t)
        /\ \A i \in 1..Len(t) : b[i] = One(k, t[i])
    BY <1>1, <2>1, OfParts
  <2>3. PICK c : c = <<One(k, h)>> \o b
    OBVIOUS
  <2>4. /\ c \in Seq(Seq(Point)) /\ Len(c) = Len(b) + 1 /\ c[1] = One(k, h)
        /\ \A i \in 1..Len(b) : c[i + 1] = b[i]
    BY <1>2, <2>2, <2>3, InFront
  <2>5. \A i \in 1..Len(a) : a[i] = c[i]
    <3> TAKE i \in 1..Len(a)
    <3>1. CASE i = 1
      BY <1>1, <2>2, <2>4, <3>1
    <3>2. CASE i # 1
      <4>1. PICK m \in 1..Len(t) : i = m + 1
        <5>1. i - 1 \in 1..Len(t) /\ i = (i - 1) + 1
          BY <1>1, <2>2, <3>2
        <5> QED
          BY <5>1
      <4> QED
        BY <1>1, <2>2, <2>4, <4>1
    <3> QED
      BY <3>1, <3>2
  <2>6. a = c
    BY <1>1, <2>2, <2>4, <2>5, SeqEqual
  <2> QED
    BY <2>1, <2>3, <2>6
<1>4. Of(k, points) = FlattenSeq(<<One(k, h)>>) \o FlattenSeq(Parts(k, t))
  <2>1. Parts(k, t) \in Seq(Seq(Point)) /\ Of(k, points) = FlattenSeq(Parts(k, points))
    BY <1>1, OfParts
  <2> QED
    BY <1>2, <1>3, <2>1, FlattenConcat
<1> QED
  BY <1>0, <1>1, <1>2, <1>4, OfParts, FlattenOne

-----------------------------------------------------------------------------
(* Types, order and shutdown. *)

LEMMA TypeInit == Init => TypeOK
<1> SUFFICES ASSUME Init PROVE TypeOK
  OBVIOUS
<1>1. <<>> \in Seq(Point) /\ <<>> \in Seq(Seq(Point)) /\ 0 \in 0..PoolSize
  BY EmptySeq, BoundsPositive
<1> QED
  BY <1>1 DEF Init, TypeOK, WorkerStates

LEMMA FlushBufferType ==
    ASSUME TypeOK, NEW k \in Key, FlushBuffer(k)
    PROVE  /\ busy' \in 0..PoolSize
           /\ buffers' \in [Key -> Seq(Point)]
           /\ batches' \in [Key -> Seq(Seq(Point))]
<1>1. batches[k] \in Seq(Seq(Point)) /\ buffers[k] \in Seq(Point)
  BY DEF TypeOK
<1>2. Append(batches[k], buffers[k]) \in Seq(Seq(Point)) /\ <<>> \in Seq(Point)
  BY <1>1, AppendProperties, EmptySeq
<1> QED
  BY <1>2, BoundsPositive DEF FlushBuffer, TypeOK

LEMMA TypeStep == TypeOK /\ [Next]_vars => TypeOK'
<1> SUFFICES ASSUME TypeOK, [Next]_vars PROVE TypeOK'
  OBVIOUS
<1> USE DEF TypeOK
<1>1. ASSUME NEW p \in Point, Check(p) PROVE TypeOK'
  BY <1>1 DEF Check
<1>2. ASSUME NEW p \in Point, Send(p) PROVE TypeOK'
  <2>1. chWrite' \in Seq(Point) /\ sent' \in Seq(Point)
    BY <1>2, AppendProperties DEF Send
  <2> QED
    BY <1>2, <2>1 DEF Send
<1>3. ASSUME NEW p \in Point, SendOnClosed(p) PROVE TypeOK'
  BY <1>3 DEF SendOnClosed
<1>4. CASE CloseStop
  BY <1>4 DEF CloseStop
<1>5. CASE CloseChannel
  BY <1>5 DEF CloseChannel
<1>6. CASE Receive
  <2>1. PICK h : h = Head(chWrite)
    OBVIOUS
  <2>2. h \in Point /\ chWrite' \in Seq(Point) /\ KeyOf[h] \in Key
    BY <1>6, <2>1, HeadTailProperties, KeyOfPoint DEF Receive
  <2>3. Append(buffers[KeyOf[h]], h) \in Seq(Point)
    BY <2>2, AppendProperties
  <2>4. buffers' \in [Key -> Seq(Point)]
    BY <1>6, <2>1, <2>2, <2>3 DEF Receive, WriteBuffer
  <2> QED
    BY <1>6, <2>2, <2>4 DEF Receive, WriteBuffer, WorkerStates
<1>7. CASE OnClosed \/ OnTimer
  BY <1>7 DEF OnClosed, OnTimer, Flush, WorkerGoes, WorkerStates
<1>8. CASE Top
  BY <1>8 DEF Top, WorkerGoes, WorkerStates
<1>9. CASE FlushFull \/ FlushNext
  <2>1. PICK k \in Key : FlushBuffer(k) /\ worker' \in {"top", "flush"}
    BY <1>9 DEF FlushFull, FlushNext, WorkerGoes
  <2> QED
    BY <2>1, FlushBufferType DEF FlushBuffer, WorkerStates
<1>10. CASE FlushEnd
  BY <1>10 DEF FlushEnd, WorkerGoes, WorkerStates
<1>11. CASE Drained
  BY <1>11 DEF Drained, WorkerGoes, WorkerStates
<1>12. CASE TimerDue
  BY <1>12 DEF TimerDue
<1>13. CASE TaskDone
  BY <1>13, BoundsPositive DEF TaskDone
<1>14. CASE UNCHANGED vars
  BY <1>14 DEF vars
<1> QED
  BY <1>1, <1>2, <1>3, <1>4, <1>5, <1>6, <1>7, <1>8, <1>9, <1>10, <1>11, <1>12, <1>13, <1>14
     DEF Next, WorkerNext

\* Every state is well typed, and the pool never runs more than its tasks.
THEOREM TypeCorrect == Spec => []TypeOK
  BY TypeInit, TypeStep, PTL DEF Spec

\* Where the points of key k are: submitted, buffered, in the channel.
OrderOf(k) == FlattenSeq(batches[k]) \o buffers[k] \o Of(k, chWrite) = Of(k, sent)

LEMMA OrderInit == Init => PointsInOrder
<1> SUFFICES ASSUME Init, NEW k \in Key PROVE OrderOf(k)
  BY DEF PointsInOrder, OrderOf
<1>1. FlattenSeq(<<>>) = <<>>
  BY DEF FlattenSeq
<1>2. batches[k] = <<>> /\ buffers[k] = <<>> /\ chWrite = <<>> /\ sent = <<>>
  BY DEF Init
<1>3. Of(k, <<>>) \in Seq(Point) /\ <<>> \o <<>> = <<>>
  <2>1. <<>> \in Seq(Point)
    BY EmptySeq
  <2> QED
    BY <2>1, OfParts, ConcatEmptySeq
<1>4. <<>> \o Of(k, <<>>) = Of(k, <<>>)
  BY <1>3, ConcatEmptySeq
<1> QED
  BY <1>1, <1>2, <1>3, <1>4 DEF OrderOf

\* A handler puts a point into the channel.
LEMMA OrderSend ==
    ASSUME TypeOK, NEW p \in Point, Send(p), NEW k \in Key, OrderOf(k)
    PROVE  OrderOf(k)'
<1>1. PICK a, b, c, s, o :
        /\ a = FlattenSeq(batches[k]) /\ b = buffers[k] /\ c = Of(k, chWrite)
        /\ s = Of(k, sent) /\ o = One(k, p)
  OBVIOUS
<1>2. batches[k] \in Seq(Seq(Point)) /\ chWrite \in Seq(Point) /\ sent \in Seq(Point)
      /\ b \in Seq(Point)
  BY <1>1 DEF TypeOK
<1>3. a \in Seq(Point) /\ c \in Seq(Point) /\ s \in Seq(Point) /\ o \in Seq(Point)
  BY <1>1, <1>2, FlattenType, OfParts DEF One
<1>4. batches' = batches /\ buffers' = buffers
      /\ chWrite' = Append(chWrite, p) /\ sent' = Append(sent, p)
  BY DEF Send
<1>5. Of(k, Append(chWrite, p)) = c \o o /\ Of(k, Append(sent, p)) = s \o o
  BY <1>1, <1>2, OfAppend
<1>6. (a \o b) \o c = s
  BY <1>1 DEF OrderOf
<1>7. a \o b \in Seq(Point)
  BY <1>2, <1>3, ConcatProperties
<1>8. (a \o b) \o (c \o o) = s \o o
  <2>1. ((a \o b) \o c) \o o = (a \o b) \o (c \o o)
    BY <1>3, <1>7, ConcatAssociative
  <2> QED
    BY <1>6, <2>1
<1> QED
  BY <1>1, <1>4, <1>5, <1>8 DEF OrderOf

\* The worker moves one from the channel to its buffer.
LEMMA OrderReceive ==
    ASSUME TypeOK, Receive, NEW k \in Key, OrderOf(k)
    PROVE  OrderOf(k)'
<1>1. PICK h, t : h = Head(chWrite) /\ t = Tail(chWrite)
  OBVIOUS
<1>2. chWrite \in Seq(Point) /\ chWrite # <<>> /\ h \in Point /\ t \in Seq(Point)
  BY <1>1, HeadTailProperties DEF TypeOK, Receive
<1>3. PICK a, b, c, s, o :
        /\ a = FlattenSeq(batches[k]) /\ b = buffers[k] /\ c = Of(k, t)
        /\ s = Of(k, sent) /\ o = One(k, h)
  OBVIOUS
<1>4. batches[k] \in Seq(Seq(Point)) /\ b \in Seq(Point) /\ buffers \in [Key -> Seq(Point)]
  BY <1>3 DEF TypeOK
<1>5. a \in Seq(Point) /\ c \in Seq(Point) /\ o \in Seq(Point)
  BY <1>2, <1>3, <1>4, FlattenType, OfParts DEF One
<1>6. (a \o b) \o (o \o c) = s
  BY <1>1, <1>2, <1>3, OfHead DEF OrderOf
<1>7. batches' = batches /\ sent' = sent /\ chWrite' = t
      /\ buffers' = [buffers EXCEPT ![KeyOf[h]] = Append(buffers[KeyOf[h]], h)]
  BY <1>1 DEF Receive, WriteBuffer
<1>8. buffers'[k] = b \o o
  <2>1. CASE KeyOf[h] = k
    <3>1. buffers'[k] = Append(b, h) /\ o = <<h>>
      BY <1>3, <1>4, <1>7, <2>1 DEF One
    <3> QED
      BY <1>2, <1>4, <3>1, AppendIsConcat
  <2>2. CASE KeyOf[h] # k
    <3>1. buffers'[k] = b /\ o = <<>>
      BY <1>3, <1>4, <1>7, <2>2 DEF One
    <3> QED
      BY <1>4, <3>1, ConcatEmptySeq
  <2> QED
    BY <2>1, <2>2
<1>9. a \o b \in Seq(Point) /\ b \o o \in Seq(Point)
  BY <1>4, <1>5, ConcatProperties
<1>10. (a \o (b \o o)) \o c = s
  <2>1. (a \o b) \o o = a \o (b \o o)
    BY <1>4, <1>5, ConcatAssociative
  <2>2. ((a \o b) \o o) \o c = (a \o b) \o (o \o c)
    BY <1>5, <1>9, ConcatAssociative
  <2> QED
    BY <1>6, <2>1, <2>2
<1> QED
  BY <1>3, <1>7, <1>8, <1>10 DEF OrderOf

\* A buffer becomes a batch of its key.
LEMMA OrderFlush ==
    ASSUME TypeOK, NEW j \in Key, FlushBuffer(j), NEW k \in Key, OrderOf(k)
    PROVE  OrderOf(k)'
<1>1. /\ buffers \in [Key -> Seq(Point)] /\ batches \in [Key -> Seq(Seq(Point))]
      /\ chWrite' = chWrite /\ sent' = sent
      /\ buffers' = [buffers EXCEPT ![j] = <<>>]
      /\ batches' = [batches EXCEPT ![j] = Append(batches[j], buffers[j])]
  BY DEF TypeOK, FlushBuffer
<1>2. CASE k # j
  BY <1>1, <1>2 DEF OrderOf
<1>3. CASE k = j
  <2>1. buffers'[k] = <<>> /\ batches'[k] = Append(batches[k], buffers[k])
    BY <1>1, <1>3
  <2>2. batches[k] \in Seq(Seq(Point)) /\ buffers[k] \in Seq(Point)
    BY <1>1
  <2>3. FlattenSeq(batches'[k]) = FlattenSeq(batches[k]) \o buffers[k]
    BY <2>1, <2>2, FlattenAppend
  <2>4. FlattenSeq(batches[k]) \o buffers[k] \in Seq(Point)
    BY <2>2, FlattenType, ConcatProperties
  <2>5. FlattenSeq(batches'[k]) \o buffers'[k] = FlattenSeq(batches[k]) \o buffers[k]
    BY <2>1, <2>3, <2>4, ConcatEmptySeq
  <2> QED
    BY <1>1, <2>5 DEF OrderOf
<1> QED
  BY <1>2, <1>3

LEMMA OrderStep == TypeOK /\ PointsInOrder /\ [Next]_vars => PointsInOrder'
<1> SUFFICES ASSUME TypeOK, [Next]_vars, NEW k \in Key, OrderOf(k) PROVE OrderOf(k)'
  BY DEF PointsInOrder, OrderOf
<1>1. ASSUME UNCHANGED <<batches, buffers, chWrite, sent>> PROVE OrderOf(k)'
  BY <1>1 DEF OrderOf
<1>2. ASSUME NEW p \in Point, Check(p) \/ Send(p) \/ SendOnClosed(p) PROVE OrderOf(k)'
  BY <1>1, <1>2, OrderSend DEF Check, SendOnClosed
<1>3. CASE FlushFull \/ FlushNext
  BY <1>3, OrderFlush DEF FlushFull, FlushNext
<1>4. CASE CloseStop \/ CloseChannel \/ OnClosed \/ OnTimer \/ TimerDue \/ TaskDone
  BY <1>1, <1>4 DEF CloseStop, CloseChannel, OnClosed, OnTimer, Flush, TimerDue, TaskDone
<1>5. CASE Top \/ FlushEnd \/ Drained
  BY <1>1, <1>5 DEF Top, FlushEnd, Drained
<1>6. CASE UNCHANGED vars
  BY <1>1, <1>6 DEF vars
<1> QED
  BY <1>2, <1>3, <1>4, <1>5, <1>6, OrderReceive DEF Next, WorkerNext

\* Key by key, the batches the pool got, the buffer and the channel together are
\* the points the channel took, in their order (backend/backend.go WritePoint,
\* WriteBuffer, FlushBuffer, Flush): no interleaving of handlers, timer, full
\* pool and Close loses, doubles or reorders a point on its way to the pool.
THEOREM PointsInOrderCorrect == Spec => []PointsInOrder
  BY OrderInit, OrderStep, TypeInit, TypeStep, PTL DEF Spec

\* A worker past its last flush is stopped, and has no points; past wg.Wait it
\* has no tasks either.
StoppedInv ==
    /\ worker \in {"wait", "drained"} => ~running /\ \A k \in Key : buffers[k] = <<>>
    /\ worker = "drained" => busy = 0

LEMMA StoppedStep == StoppedInv /\ [Next]_vars => StoppedInv'
<1> SUFFICES ASSUME StoppedInv, [Next]_vars PROVE StoppedInv'
  OBVIOUS
<1> USE DEF StoppedInv
<1>1. ASSUME NEW p \in Point, Check(p) \/ Send(p) \/ SendOnClosed(p) PROVE StoppedInv'
  BY <1>1 DEF Check, Send, SendOnClosed
<1>2. CASE Receive
  BY <1>2 DEF Receive, WriteBuffer
<1>3. CASE CloseStop \/ CloseChannel \/ OnClosed \/ OnTimer \/ TimerDue
  BY <1>3 DEF CloseStop, CloseChannel, OnClosed, OnTimer, Flush, WorkerGoes, TimerDue
<1>4. CASE TaskDone
  BY <1>4 DEF TaskDone
<1>5. CASE Top \/ FlushEnd \/ Drained
  BY <1>5 DEF Top, FlushEnd, Drained, WorkerGoes
<1>6. CASE FlushFull \/ FlushNext
  BY <1>6 DEF FlushFull, FlushNext, FlushBuffer, WorkerGoes
<1>7. CASE UNCHANGED vars
  BY <1>7 DEF vars
<1> QED
  BY <1>1, <1>2, <1>3, <1>4, <1>5, <1>6, <1>7 DEF Next, WorkerNext

\* All points of k but those in the channel are in submitted batches.
SubmittedOf(k) == buffers[k] = <<>> /\ FlattenSeq(batches[k]) \o Of(k, chWrite) = Of(k, sent)

\* A worker that shut down in order has submitted every point it had received and
\* waited for every task (backend/backend.go worker), although handlers send, the timer
\* ticks and tasks end while it does: what is missing of the points sent is in the
\* channel.
THEOREM DrainedIsEmptyCorrect == Spec => []DrainedIsEmpty
<1>1. Init => StoppedInv
  BY DEF Init, StoppedInv
<1>2. TypeOK /\ StoppedInv /\ PointsInOrder => DrainedIsEmpty
  <2> SUFFICES ASSUME TypeOK, StoppedInv, PointsInOrder, worker = "drained", NEW k \in Key
               PROVE  SubmittedOf(k)
    BY DEF DrainedIsEmpty, SubmittedOf, StoppedInv
  <2>1. buffers[k] = <<>>
    BY DEF StoppedInv
  <2>2. PICK a : a = FlattenSeq(batches[k])
    OBVIOUS
  <2>3. a \in Seq(Point)
    BY <2>2, FlattenType DEF TypeOK
  <2>4. a \o <<>> = a
    BY <2>3, ConcatEmptySeq
  <2>5. (a \o buffers[k]) \o Of(k, chWrite) = Of(k, sent)
    BY <2>2 DEF PointsInOrder
  <2> QED
    BY <2>1, <2>2, <2>4, <2>5 DEF SubmittedOf
<1> QED
  BY <1>1, <1>2, StoppedStep, TypeInit, TypeStep, OrderInit, OrderStep, PTL DEF Spec

=============================================================================
