------------------------------ MODULE CopyProofs ------------------------------
(***************************************************************************)
(* Theorems about Copy, for any points, changes, limits, batches and pools. *)
(***************************************************************************)
EXTENDS Copy, OperatorProofs, SequenceTheorems

HasTime(rows, t) == \E i \in 1..Len(rows) : rows[i][1] = t

-----------------------------------------------------------------------------
(* What is on its way, or has arrived, comes from the source. *)

\* A row is from the tick on, and not newer than what source has, n being changes.
Sound(row, source, n) ==
    /\ row[1] >= Tick
    /\ row[2] <= n + 1
    /\ source[row[1]] # 0 => row[2] <= source[row[1]]

SoundRows(rows, source, n) == \A i \in 1..Len(rows) : Sound(rows[i], source, n)

RowsSound ==
    /\ SoundRows(query.page, src, changes)
    /\ \A i \in 1..Len(ch) : SoundRows(ch[i], src, changes)
    /\ SoundRows(write, src, changes)
    /\ \A b \in tasks : SoundRows(b.rows, src, changes)

\* The versions a client gives to a point grow.
SrcSound == \A t \in Time : src[t] <= changes + 1

DstSound ==
    \A d \in Dst, t \in Time :
        dst[d][t] # 0 =>
            /\ t >= Tick
            /\ dst[d][t] <= changes + 1
            /\ src[t] # 0 => dst[d][t] <= src[t]

SoundInv == TypeOK /\ SrcSound /\ RowsSound /\ DstSound

-----------------------------------------------------------------------------
(* What is not on its way yet will be asked for. *)

\* How many rows the source lists before that of t.
Above(t) == Cardinality({u \in Live : u > t})

\* The row of t is in a page to come, or in the page at hand.
Coming(t) ==
    \/ query.pc \in {"text", "ask"} /\ Above(t) >= query.offset
    \/ query.pc = "send" /\ HasTime(query.page, t)
    \/ /\ query.pc = "send"
       /\ Len(query.page) = query.limit
       /\ Above(t) >= query.offset + Len(query.page)

\* The row of t has been handed to write.
Handed(t) == HasTime(write, t) \/ \E i \in 1..Len(ch) : HasTime(ch[i], t)

\* Destination d has t, or a task still has to write it, or its loss was logged.
Reached(d, t) ==
    \/ dst[d][t] # 0
    \/ \E b \in tasks : b.dst = d /\ HasTime(b.rows, t)
    \/ \E e \in logged : e.dst = d /\ HasTime(e.rows, t)

\* An error is on its way to write, or there, or the source keeps the query waiting.
Failed ==
    \/ query.pc = "hung"
    \/ query.pc = "send" /\ query.page = <<>>
    \/ \E i \in 1..Len(ch) : ch[i] = <<>>
    \/ result = "error"

\* The row of t is accounted for.
Safe(t) == Coming(t) \/ Handed(t) \/ \A d \in Dst : Reached(d, t)

\* Nothing has happened yet that excuses a loss.
NoExcuse == ~skipped /\ ~Failed /\ keys["tags"] # "failed"

NotLost == NoExcuse => \A t \in Wanted \ deleted : Safe(t)

\* Only what was deleted meanwhile is missing at the source.
Kept == \A t \in Present \ deleted : src[t] # 0

KeysRead == tasks # {} => \A k \in DOMAIN keys : keys[k] \in {"read", "failed"}

DoneIsIdle ==
    result = "done" => query.pc = "ended" /\ ch = <<>> /\ write = <<>> /\ tasks = {}

LossInv == Kept /\ KeysRead /\ DoneIsIdle /\ NotLost

-----------------------------------------------------------------------------
(* Rows and pages. *)

LEMMA LiveFinite ==
    Numbers(Live) /\ Cardinality(Live) \in 0..Times /\ Live \subseteq Time
<1>1. Times \in Nat
  BY PointsSound
<1>2. IsFiniteSet(Time) /\ Cardinality(Time) = Times
  BY <1>1, FS_Interval DEF Time
<1>3. Live \subseteq Time /\ Time \subseteq Nat
  BY <1>1 DEF Live, Time
<1>4. IsFiniteSet(Live) /\ Cardinality(Live) <= Times
  BY <1>2, <1>3, FS_Subset
<1>5. Cardinality(Live) \in Nat
  BY <1>4, FS_CardinalityType
<1> QED
  BY <1>1, <1>3, <1>4, <1>5 DEF Numbers

\* The rows listed before that of t, and it.
LEMMA AboveIs ==
    ASSUME NEW t \in Live
    PROVE  Above(t) \in Nat /\ Above(t) = Cardinality(Live) - Rank(Live, t)
<1> DEFINE A == {u \in Live : u > t}
           B == UpTo(Live, t)
<1>1. IsFiniteSet(Live) /\ Live \subseteq Nat /\ t \in Nat
  BY LiveFinite DEF Numbers
<1>2. IsFiniteSet(A) /\ IsFiniteSet(B)
  BY <1>1, FS_Subset DEF UpTo
<1>3. Live = A \union B /\ A \intersect B = {}
  <2>1. \A e \in Live : e \in A <=> e \notin B
    BY <1>1 DEF UpTo
  <2> QED
    BY <2>1 DEF UpTo
<1>4. Cardinality(Live) = Cardinality(A) + Cardinality(B) - 0
  BY <1>2, <1>3, FS_Union, FS_EmptySet
<1>5. Cardinality(A) \in Nat /\ Cardinality(B) \in Nat
  BY <1>2, FS_CardinalityType
<1> QED
  BY <1>4, <1>5 DEF Above, Rank, UpTo

\* Rows lists the live points, each once, latest first.
LEMMA RowsAre ==
    ASSUME TypeOK, SrcSound
    PROVE  /\ Rows \in Pages
           /\ Len(Rows) = Cardinality(Live)
           /\ \A t \in Live :
                /\ Above(t) + 1 \in 1..Len(Rows)
                /\ Rows[Above(t) + 1] = <<t, src[t]>>
           /\ \A i \in 1..Len(Rows) :
                \E t \in Live : Rows[i] = <<t, src[t]>> /\ i = Above(t) + 1
<1> DEFINE n == Cardinality(Live)
           time(i) == Nth(Live, n - i + 1)
<1>1. Numbers(Live) /\ n \in 0..Times /\ n \in Nat /\ Times \in Nat /\ Live \subseteq Time
  BY LiveFinite, PointsSound
<1>2. ASSUME NEW i \in 1..n
      PROVE  time(i) \in Live /\ Rank(Live, time(i)) = n - i + 1 /\ i = Above(time(i)) + 1
  <2>1. n - i + 1 \in 1..n
    BY <1>1
  <2>2. PICK m \in 1..n : m = n - i + 1
    BY <2>1
  <2>3. Nth(Live, m) \in Live /\ Rank(Live, Nth(Live, m)) = m
    BY <1>1, NthType
  <2>4. Above(Nth(Live, m)) = n - m
    BY <2>3, AboveIs
  <2> QED
    BY <1>1, <2>2, <2>3, <2>4
<1>3. ASSUME NEW t \in Live PROVE <<t, src[t]>> \in Row
  <2>1. t \in Time /\ src[t] # 0 /\ src[t] \in 0..(MaxChanges + 1) /\ MaxChanges \in Nat
    BY <1>1, BoundsSound DEF Live, TypeOK
  <2> QED
    BY <2>1 DEF Row
<1>4. Rows = [i \in 1..n |-> <<time(i), src[time(i)]>>]
  BY DEF Rows, RowsOf
<1>5. \A i \in 1..n : Rows[i] = <<time(i), src[time(i)]>>
  BY <1>4
<1>6. Rows \in Seq(Row) /\ Len(Rows) = n
  <2> HIDE DEF time
  <2>1. Rows \in [1..n -> Row]
    BY <1>2, <1>3, <1>4
  <2> QED
    BY <1>1, <2>1
<1>7. Rows \in Pages
  BY <1>1, <1>6 DEF Pages
<1>8. ASSUME NEW t \in Live
      PROVE  Above(t) + 1 \in 1..n /\ Rows[Above(t) + 1] = <<t, src[t]>>
  <2>1. Rank(Live, t) \in 1..n /\ Above(t) = n - Rank(Live, t) /\ Nth(Live, Rank(Live, t)) = t
    BY <1>1, RankType, AboveIs, NthIs
  <2>2. PICK r \in 1..n : r = Rank(Live, t)
    BY <2>1
  <2>3. PICK i : i = Above(t) + 1
    OBVIOUS
  <2>4. i \in 1..n /\ n - i + 1 = r
    BY <1>1, <2>1, <2>2, <2>3
  <2>5. time(i) = t
    BY <2>1, <2>2, <2>4
  <2> QED
    BY <1>5, <2>3, <2>4, <2>5
<1>9. ASSUME NEW i \in 1..n
      PROVE  \E t \in Live : Rows[i] = <<t, src[t]>> /\ i = Above(t) + 1
  <2> HIDE DEF time
  <2> QED
    BY <1>2, <1>5
<1> QED
  BY <1>6, <1>7, <1>8, <1>9

\* What the pages of a measurement are made of.
LEMMA PageFacts ==
    ASSUME NEW p \in Pages
    PROVE  /\ p \in Seq(Row) /\ Len(p) \in 0..Times /\ Len(p) \in Nat
           /\ \A i \in 1..Len(p) : p[i] \in Row
  BY LenProperties, PointsSound DEF Pages

LEMMA RowFacts ==
    ASSUME NEW r \in Row
    PROVE  r[1] \in Time /\ r[2] \in 1..(MaxChanges + 1)
  BY DEF Row

LEMMA NoRows == <<>> \in Pages /\ Len(<<>>) = 0 /\ SoundRows(<<>>, src, changes)
  BY EmptySeq, PointsSound DEF Pages, SoundRows

\* A part of a page is a page.
LEMMA PartOfPage ==
    ASSUME NEW p \in Pages, NEW m \in Nat, NEW n \in Nat, n <= Len(p)
    PROVE  /\ SubSeq(p, m + 1, n) \in Pages
           /\ Len(SubSeq(p, m + 1, n)) = IF m < n THEN n - m ELSE 0
           /\ \A i \in 1..Len(SubSeq(p, m + 1, n)) : SubSeq(p, m + 1, n)[i] = p[i + m]
<1>1. p \in Seq(Row) /\ Len(p) \in Nat /\ Len(p) <= Times /\ Times \in Nat
  BY PageFacts, PointsSound
<1>2. PICK q : q = SubSeq(p, m + 1, n)
  OBVIOUS
<1>3. /\ q \in Seq(Row)
      /\ Len(q) = IF m < n THEN n - m ELSE 0
      /\ \A i \in 1..Len(q) : q[i] = p[i + m]
  BY <1>1, <1>2
<1> QED
  BY <1>1, <1>2, <1>3 DEF Pages

LEMMA FrontOfPage ==
    ASSUME NEW p \in Pages, NEW n \in Nat, n <= Len(p)
    PROVE  /\ SubSeq(p, 1, n) \in Pages
           /\ Len(SubSeq(p, 1, n)) = n
           /\ \A i \in 1..n : SubSeq(p, 1, n)[i] = p[i]
<1>1. p \in Seq(Row) /\ Len(p) \in Nat /\ Len(p) <= Times /\ Times \in Nat
  BY PageFacts, PointsSound
<1>2. PICK q : q = SubSeq(p, 1, n)
  OBVIOUS
<1>3. q \in Seq(Row) /\ Len(q) = n /\ \A i \in 1..n : q[i] = p[i]
  BY <1>1, <1>2
<1> QED
  BY <1>1, <1>2, <1>3 DEF Pages

\* The page the source answers with continues where the offset is.
LEMMA NextPageIs ==
    ASSUME TypeOK, SrcSound
    PROVE  /\ NextPage \in Pages
           /\ Len(NextPage) <= query.limit
           /\ \A i \in 1..Len(NextPage) :
                 i + query.offset \in 1..Len(Rows) /\ NextPage[i] = Rows[i + query.offset]
           /\ \A j \in 1..Len(Rows) :
                 j > query.offset /\ j > query.offset + Len(NextPage) =>
                     Len(NextPage) = query.limit
<1>1. PICK o, l, r, n : o = query.offset /\ l = query.limit /\ r = Rows /\ n = Len(Rows)
  OBVIOUS
<1>2. o \in Nat /\ l \in Nat \ {0} /\ r \in Pages /\ n \in Nat /\ n = Len(r)
  BY <1>1, RowsAre, PageFacts, SizesPositive DEF TypeOK, Queries
<1>3. PICK q : q = SubSeq(r, o + 1, n)
  OBVIOUS
<1>4. /\ q \in Pages /\ Len(q) = IF o < n THEN n - o ELSE 0
      /\ \A i \in 1..Len(q) : q[i] = r[i + o]
  BY <1>2, <1>3, PartOfPage
<1>5. PICK p : p = NextPage
  OBVIOUS
<1>6. p = IF Len(q) < l THEN q ELSE SubSeq(q, 1, l)
  BY <1>1, <1>3, <1>5 DEF NextPage
<1>7. /\ p \in Pages /\ Len(p) = IF Len(q) < l THEN Len(q) ELSE l
      /\ \A i \in 1..Len(p) : p[i] = q[i]
  <2>1. CASE Len(q) < l
    BY <1>4, <1>6, <2>1
  <2>2. CASE ~(Len(q) < l)
    <3>1. Len(q) \in Nat /\ l <= Len(q) /\ l \in Nat /\ p = SubSeq(q, 1, l)
      BY <1>2, <1>4, <1>6, <2>2
    <3> QED
      BY <1>4, <2>2, <3>1, FrontOfPage
  <2> QED
    BY <2>1, <2>2
<1>8. Len(p) \in Nat /\ Len(p) <= Len(q)
  BY <1>2, <1>4, <1>7
<1>9. \A i \in 1..Len(p) : i + o \in 1..n /\ p[i] = r[i + o]
  BY <1>2, <1>4, <1>7, <1>8
<1>10. \A j \in 1..n : j > o /\ j > o + Len(p) => Len(p) = l
  BY <1>2, <1>4, <1>7, <1>8
<1> QED
  BY <1>1, <1>2, <1>5, <1>7, <1>9, <1>10

-----------------------------------------------------------------------------
(* Types. *)

LEMMA TypeInit == Init => TypeOK
<1> SUFFICES ASSUME Init PROVE TypeOK
  OBVIOUS
<1>1. <<>> \in Pages /\ <<>> \in Seq(Pages) /\ Len(<<>>) = 0
  BY NoRows, EmptySeq
<1>2. src \in [Time -> 0..(MaxChanges + 1)] /\ dst \in [Dst -> [Time -> 0..(MaxChanges + 1)]]
  BY BoundsSound DEF Init
<1>3. query \in Queries
  BY <1>1, BoundsSound, SizesPositive DEF Init, Queries
<1>4. ch \in Seq(Pages) /\ Len(ch) <= ChanCap /\ write \in Pages
  BY <1>1, SizesPositive DEF Init
<1>5. keys \in [{"tags", "fields"} -> KeyStates] /\ limit \in Limits
  BY DEF Init, KeyStates
<1>6. tasks = {} /\ logged = {} /\ deleted = {} /\ skipped = FALSE
  BY DEF Init
<1>7. result = "none" /\ changes \in 0..MaxChanges
  BY BoundsSound DEF Init
<1> QED
  BY <1>2, <1>3, <1>4, <1>5, <1>6, <1>7 DEF TypeOK

\* A batch of rows that are sound leaves a destination sound.
LEMMA StoredType ==
    ASSUME TypeOK, NEW b \in tasks, Stored(b)
    PROVE  /\ dst' \in [Dst -> [Time -> 0..(MaxChanges + 1)]]
           /\ \A d \in Dst, t \in Time :
                 \/ dst'[d][t] = dst[d][t]
                 \/ /\ d = b.dst
                    /\ \E i \in 1..Len(b.rows) :
                          b.rows[i][1] = t /\ dst'[d][t] = b.rows[i][2]
           /\ keys["tags"] = "read" =>
                 \A t \in Time : HasTime(b.rows, t) => dst'[b.dst][t] # 0
           /\ \A d \in Dst, t \in Time : dst[d][t] # 0 => dst'[d][t] # 0
<1>1. /\ b.dst \in Dst /\ b.rows \in Pages
      /\ dst \in [Dst -> [Time -> 0..(MaxChanges + 1)]] /\ MaxChanges \in Nat
  BY BoundsSound DEF TypeOK, Tasks
<1>2. CASE keys["tags"] # "read"
  BY <1>1, <1>2 DEF Stored
<1>3. CASE keys["tags"] = "read"
  <2> DEFINE has(t) == \E i \in 1..Len(b.rows) : b.rows[i][1] = t
             at(t) == CHOOSE i \in 1..Len(b.rows) : b.rows[i][1] = t
             new == [t \in Time |-> IF has(t) THEN b.rows[at(t)][2] ELSE dst[b.dst][t]]
  <2>1. dst' = [dst EXCEPT ![b.dst] = new]
    BY <1>1, <1>3 DEF Stored
  <2>2. ASSUME NEW t \in Time, has(t)
        PROVE  /\ at(t) \in 1..Len(b.rows) /\ b.rows[at(t)][1] = t
               /\ b.rows[at(t)][2] \in 1..(MaxChanges + 1)
    <3>1. at(t) \in 1..Len(b.rows) /\ b.rows[at(t)][1] = t
      BY <2>2
    <3> HIDE DEF at
    <3>2. b.rows[at(t)] \in Row
      BY <1>1, <3>1, PageFacts
    <3> QED
      BY <3>1, <3>2, RowFacts
  <2> HIDE DEF at
  <2>3. \A t \in Time : new[t] = IF has(t) THEN b.rows[at(t)][2] ELSE dst[b.dst][t]
    OBVIOUS
  <2>4. new \in [Time -> 0..(MaxChanges + 1)]
    <3>1. \A t \in Time : new[t] \in 0..(MaxChanges + 1)
      BY <1>1, <2>2, <2>3
    <3> QED
      BY <3>1
  <2> HIDE DEF new
  <2>5. dst'[b.dst] = new /\ \A d \in Dst : d # b.dst => dst'[d] = dst[d]
    BY <1>1, <2>1
  <2>6. dst' \in [Dst -> [Time -> 0..(MaxChanges + 1)]]
    BY <1>1, <2>1, <2>4
  <2>7. ASSUME NEW d \in Dst, NEW t \in Time
        PROVE  \/ dst'[d][t] = dst[d][t]
               \/ /\ d = b.dst
                  /\ \E i \in 1..Len(b.rows) : b.rows[i][1] = t /\ dst'[d][t] = b.rows[i][2]
    BY <2>2, <2>3, <2>5
  <2>8. \A t \in Time : HasTime(b.rows, t) => dst'[b.dst][t] # 0
    <3>1. \A t \in Time : HasTime(b.rows, t) <=> has(t)
      BY DEF HasTime
    <3>2. \A t \in Time : has(t) => b.rows[at(t)][2] # 0
      BY <1>1, <2>2
    <3> QED
      BY <2>3, <2>5, <3>1, <3>2
  <2>9. \A d \in Dst, t \in Time : dst[d][t] # 0 => dst'[d][t] # 0
    <3>2. \A t \in Time : has(t) => b.rows[at(t)][2] # 0
      BY <1>1, <2>2
    <3> QED
      BY <2>3, <2>5, <3>2
  <2> QED
    BY <2>6, <2>7, <2>8, <2>9
<1> QED
  BY <1>2, <1>3

-----------------------------------------------------------------------------
(* What becomes of the query goroutine and of a task. *)

LEMMA QueryTextIs ==
    ASSUME TypeOK, QueryText
    PROVE  /\ query' \in Queries /\ query.pc = "text" /\ query'.pc = "ask"
           /\ query'.offset = query.offset
<1>1. PICK q \in Queries : q = query
  BY DEF TypeOK
<1>2. 0 \in 0..RetryCount /\ limit \in Nat \ {0}
  BY BoundsSound, SizesPositive DEF TypeOK
<1>3. [q EXCEPT !.pc = "ask", !.limit = limit, !.tries = 0] \in Queries
  BY <1>2 DEF Queries
<1> QED
  BY <1>1, <1>3 DEF QueryText, Queries

\* An answer with rows, or the empty page: a page of the source's rows from the
\* offset on, and if it is not the last, as long as the query's limit is then.
LEMMA QueryAnsweredIs ==
    ASSUME TypeOK, SrcSound, QueryAnswered \/ QueryCutShort
    PROVE  /\ query' \in Queries /\ query.pc = "ask"
           /\ query'.pc = IF query'.page = <<>> THEN "ended" ELSE "send"
           /\ query'.offset = query.offset
           /\ \A i \in 1..Len(query'.page) :
                 i + query.offset \in 1..Len(Rows) /\ query'.page[i] = Rows[i + query.offset]
           /\ \A j \in 1..Len(Rows) :
                 j > query.offset /\ j > query.offset + Len(query'.page) =>
                     Len(query'.page) = query'.limit
<1>1. PICK q \in Queries : q = query
  BY DEF TypeOK
<1>2. /\ NextPage \in Pages /\ Len(NextPage) \in Nat
      /\ \A i \in 1..Len(NextPage) :
            i + query.offset \in 1..Len(Rows) /\ NextPage[i] = Rows[i + query.offset]
      /\ \A j \in 1..Len(Rows) :
            j > query.offset /\ j > query.offset + Len(NextPage) => Len(NextPage) = query.limit
  BY NextPageIs, PageFacts
<1>3. CASE QueryAnswered
  <2>1. PICK p \in Pages, c \in {"send", "ended"} :
          p = NextPage /\ c = IF NextPage = <<>> THEN "ended" ELSE "send"
    BY <1>2
  <2>2. [q EXCEPT !.pc = c, !.page = p] \in Queries
    BY DEF Queries
  <2>3. query' = [q EXCEPT !.pc = c, !.page = p] /\ query.pc = "ask"
    BY <1>1, <1>3, <2>1 DEF QueryAnswered
  <2>4. query' \in Queries /\ query'.pc = c /\ query'.page = p /\ query'.offset = query.offset
        /\ query'.limit = query.limit
    BY <1>1, <2>2, <2>3 DEF Queries
  <2> QED
    BY <1>2, <2>1, <2>3, <2>4
<1>4. CASE QueryCutShort
  <2>1. PICK n \in 1..(Len(NextPage) - 1) :
          query' = [q EXCEPT !.pc = "send", !.page = SubSeq(NextPage, 1, n), !.limit = n]
    BY <1>1, <1>4 DEF QueryCutShort
  <2>2. PICK p : p = SubSeq(NextPage, 1, n)
    OBVIOUS
  <2>3. n \in Nat \ {0} /\ n <= Len(NextPage)
    BY <1>2
  <2>4. p \in Pages /\ Len(p) = n /\ \A i \in 1..n : p[i] = NextPage[i]
    BY <1>2, <2>2, <2>3, FrontOfPage
  <2>5. [q EXCEPT !.pc = "send", !.page = p, !.limit = n] \in Queries
    BY <2>3, <2>4 DEF Queries
  <2>6. query' \in Queries /\ query'.pc = "send" /\ query'.page = p /\ query'.limit = n
        /\ query'.offset = query.offset /\ query.pc = "ask"
    BY <1>1, <1>4, <2>1, <2>2, <2>5 DEF Queries, QueryCutShort
  <2>7. p # <<>>
    BY <2>3, <2>4, EmptySeq
  <2>8. \A i \in 1..n : i \in 1..Len(NextPage)
    BY <1>2, <2>3
  <2> QED
    BY <1>2, <2>4, <2>6, <2>7, <2>8
<1> QED
  BY <1>3, <1>4

\* The request that ends the query: refused, or never answered.
LEMMA QueryGivesUp ==
    ASSUME TypeOK, QueryRefused \/ QueryHangs
    PROVE  /\ query' \in Queries /\ query.pc = "ask" /\ query'.offset = query.offset
           /\ query'.pc \in {"ended", "hung"}
           /\ query'.page \in {query.page, <<>>}
           /\ skipped' \in BOOLEAN
<1>1. PICK q \in Queries : q = query
  BY DEF TypeOK
<1>2. [q EXCEPT !.pc = "ended", !.page = <<>>] \in Queries /\ [q EXCEPT !.pc = "hung"] \in Queries
  BY NoRows DEF Queries
<1>3. skipped' \in BOOLEAN
  BY DEF QueryRefused, QueryHangs, TypeOK
<1> QED
  BY <1>1, <1>2, <1>3 DEF QueryRefused, QueryHangs, Queries

LEMMA QueryFailsIs ==
    ASSUME TypeOK, QueryFails \/ QueryUnreadable
    PROVE  /\ query' \in Queries /\ query.pc = "ask" /\ query'.offset = query.offset
           /\ \/ query'.pc = "ask" /\ query'.page = query.page
              \/ query'.pc = "send" /\ query'.page = <<>>
<1>1. PICK q \in Queries : q = query
  BY DEF TypeOK
<1>2. CASE QueryFails /\ query.tries < RetryCount
  <2>1. [q EXCEPT !.tries = @ + 1] \in Queries
    BY <1>1, <1>2, BoundsSound DEF Queries
  <2> QED
    BY <1>1, <1>2, <2>1 DEF QueryFails, Queries
<1>3. CASE QueryUnreadable \/ (QueryFails /\ ~(query.tries < RetryCount))
  <2>1. [q EXCEPT !.pc = "send", !.page = <<>>] \in Queries
    BY NoRows DEF Queries
  <2> QED
    BY <1>1, <1>3, <2>1 DEF QueryFails, QueryUnreadable, Queries
<1> QED
  BY <1>2, <1>3

LEMMA SendPageIs ==
    ASSUME TypeOK, SendPage
    PROVE  /\ query' \in Queries /\ query.pc = "send"
           /\ query'.pc = IF query.page = <<>> THEN "ended" ELSE "text"
           /\ query'.page = query.page
           /\ query'.offset = query.offset + (IF query.page = <<>> THEN 0 ELSE limit)
           /\ limit \in Nat
           /\ ch' \in Seq(Pages) /\ Len(ch') = Len(ch) + 1 /\ Len(ch') <= ChanCap
           /\ ch'[Len(ch')] = query.page
           /\ \A i \in 1..Len(ch) : ch'[i] = ch[i]
           /\ Len(ch) \in Nat
<1>1. PICK q \in Queries : q = query
  BY DEF TypeOK
<1>2. PICK n \in Nat, c \in {"ended", "text"} :
        /\ n = query.offset + (IF query.page = <<>> THEN 0 ELSE limit)
        /\ c = IF query.page = <<>> THEN "ended" ELSE "text"
  BY <1>1, SizesPositive DEF TypeOK, Queries
<1>3. [q EXCEPT !.pc = c, !.offset = n] \in Queries
  BY DEF Queries
<1>4. query' = [q EXCEPT !.pc = c, !.offset = n]
  BY <1>1, <1>2 DEF SendPage
<1>5. /\ ch \in Seq(Pages) /\ query.page \in Pages /\ limit \in Nat
      /\ ch' = Append(ch, query.page) /\ Len(ch) < ChanCap /\ ChanCap \in Nat
      /\ query.pc = "send"
  BY <1>1, SizesPositive DEF SendPage, TypeOK, Queries
<1>6. /\ ch' \in Seq(Pages) /\ Len(ch') = Len(ch) + 1 /\ Len(ch) \in Nat
      /\ ch'[Len(ch) + 1] = query.page
      /\ \A i \in 1..Len(ch) : ch'[i] = ch[i]
  BY <1>5, AppendProperties, LenProperties
<1> QED
  BY <1>1, <1>2, <1>3, <1>4, <1>5, <1>6 DEF Queries

LEMMA ReceivePageIs ==
    ASSUME TypeOK, ReceivePage
    PROVE  /\ ch' \in Seq(Pages) /\ Len(ch) \in Nat \ {0} /\ Len(ch') = Len(ch) - 1
           /\ Len(ch') <= ChanCap
           /\ write' = ch[1] /\ write' \in Pages
           /\ \A i \in 1..Len(ch') : ch'[i] = ch[i + 1]
<1>1. ch \in Seq(Pages) /\ ch # <<>> /\ ch' = Tail(ch) /\ write' = Head(ch)
      /\ Len(ch) <= ChanCap /\ ChanCap \in Nat
  BY SizesPositive DEF TypeOK, ReceivePage
<1> QED
  BY <1>1, HeadTailProperties, LenProperties, EmptySeq

\* A batch that is tried again keeps its rows.
LEMMA RetryIs ==
    ASSUME NEW b \in Tasks, b.tries < RetryCount, NEW c, c = [b EXCEPT !.tries = @ + 1]
    PROVE  c \in Tasks /\ c.rows = b.rows /\ c.dst = b.dst
<1>1. b.tries + 1 \in 0..RetryCount
  BY BoundsSound DEF Tasks
<1>2. c \in Tasks
  BY <1>1 DEF Tasks
<1> QED
  BY <1>2 DEF Tasks

LEMMA TaskFacts ==
    ASSUME NEW b \in Tasks
    PROVE  b.dst \in Dst /\ b.rows \in Pages
  BY DEF Tasks

LEMMA TypeQuery == ASSUME TypeOK, SrcSound, QueryStep PROVE TypeOK'
<1> USE DEF TypeOK
<1>1. CASE QueryText
  BY <1>1, QueryTextIs DEF QueryText
<1>2. CASE QueryAnswered \/ QueryCutShort
  BY <1>2, QueryAnsweredIs DEF QueryAnswered, QueryCutShort
<1>3. CASE QueryFails \/ QueryUnreadable
  BY <1>3, QueryFailsIs DEF QueryFails, QueryUnreadable
<1>5. CASE QueryRefused \/ QueryHangs
  BY <1>5, QueryGivesUp DEF QueryRefused, QueryHangs
<1>4. CASE SendPage
  <2>1. skipped' \in BOOLEAN
    BY <1>4 DEF SendPage
  <2> QED
    BY <1>4, <2>1, SendPageIs DEF SendPage
<1> QED
  BY <1>1, <1>2, <1>3, <1>4, <1>5 DEF QueryStep

\* A batch becomes a task for every destination.
LEMMA SubmitBatchIs ==
    ASSUME TypeOK, SubmitBatch
    PROVE  \E rows \in Pages :
              /\ Len(rows) \in 1..Batch /\ Len(rows) <= Len(write) /\ Len(write) \in Nat
              /\ \A i \in 1..Len(rows) : rows[i] = write[i]
              /\ write' \in Pages /\ Len(write') = Len(write) - Len(rows)
              /\ \A i \in 1..Len(write') : write'[i] = write[i + Len(rows)]
              /\ tasks' = tasks \cup {[dst |-> d, rows |-> rows, tries |-> 0] : d \in Dst}
              /\ \A d \in Dst : [dst |-> d, rows |-> rows, tries |-> 0] \in Tasks
<1>1. PICK size, rows, rest :
        /\ size = IF Len(write) < Batch THEN Len(write) ELSE Batch
        /\ rows = SubSeq(write, 1, size)
        /\ rest = SubSeq(write, size + 1, Len(write))
  OBVIOUS
<1>2. /\ write # <<>> /\ write' = rest
      /\ tasks' = tasks \cup {[dst |-> d, rows |-> rows, tries |-> 0] : d \in Dst}
  BY <1>1 DEF SubmitBatch
<1>3. /\ size \in 1..Len(write) /\ size <= Batch
      /\ rows \in Pages /\ Len(rows) = size
      /\ \A i \in 1..size : rows[i] = write[i]
      /\ rest \in Pages /\ Len(rest) = Len(write) - size
      /\ \A i \in 1..Len(rest) : rest[i] = write[i + size]
  <2>1. write \in Pages /\ write \in Seq(Row) /\ Len(write) \in Nat
    BY PageFacts DEF TypeOK
  <2>2. Len(write) # 0 /\ Batch \in Nat \ {0}
    BY <1>2, <2>1, EmptySeq, SizesPositive
  <2>3. size \in 1..Len(write) /\ size <= Batch /\ size \in Nat
    BY <1>1, <2>1, <2>2
  <2>4. /\ rest \in Pages /\ Len(rest) = IF size < Len(write) THEN Len(write) - size ELSE 0
        /\ \A i \in 1..Len(rest) : rest[i] = write[i + size]
    <3>1. PICK w \in Pages, n \in Nat, o \in Nat : w = write /\ n = Len(write) /\ o = size
      BY <2>1, <2>3
    <3>2. rest = SubSeq(w, o + 1, n) /\ n <= Len(w)
      BY <1>1, <2>1, <3>1
    <3>3. rest \in Pages /\ Len(rest) = (IF o < n THEN n - o ELSE 0)
          /\ \A i \in 1..Len(rest) : rest[i] = w[i + o]
      BY <3>2, PartOfPage
    <3> QED
      BY <3>1, <3>3
  <2>5. rows \in Pages /\ Len(rows) = size /\ \A i \in 1..size : rows[i] = write[i]
    BY <1>1, <2>1, <2>3, FrontOfPage
  <2> QED
    BY <2>1, <2>3, <2>4, <2>5
<1>4. Len(write) \in Nat /\ Batch \in Nat
  BY PageFacts, SizesPositive DEF TypeOK
<1>5. \A d \in Dst : [dst |-> d, rows |-> rows, tries |-> 0] \in Tasks
  BY <1>3, BoundsSound DEF Tasks
<1>6. Len(rows) \in 1..Batch /\ Len(rows) <= Len(write)
  BY <1>3, <1>4
<1> QED
  BY <1>2, <1>3, <1>4, <1>5, <1>6

LEMMA TypeWrite == ASSUME TypeOK, WriteStep PROVE TypeOK'
<1> USE DEF TypeOK
<1>1. CASE ReceivePage
  BY <1>1, ReceivePageIs DEF ReceivePage
<1>2. CASE SubmitBatch
  <2>1. PICK rows \in Pages :
          /\ Len(rows) \in 1..Batch
          /\ write' \in Pages
          /\ tasks' = tasks \cup {[dst |-> d, rows |-> rows, tries |-> 0] : d \in Dst}
          /\ \A d \in Dst : [dst |-> d, rows |-> rows, tries |-> 0] \in Tasks
    BY <1>2, SubmitBatchIs
  <2>2. tasks' \subseteq Tasks /\ \A b \in tasks' : Len(b.rows) \in 1..Batch
    BY <2>1
  <2> QED
    BY <1>2, <2>1, <2>2 DEF SubmitBatch
<1>3. CASE WriteEnds
  BY <1>3 DEF WriteEnds
<1> QED
  BY <1>1, <1>2, <1>3 DEF WriteStep

\* A task writes its batch, tries it again with the same rows, or logs its loss.
LEMMA TaskStepIs ==
    ASSUME TypeOK, NEW b \in tasks, TaskWrites(b) \/ TaskFails(b)
    PROVE  /\ dst' = dst \/ Stored(b)
           /\ \/ /\ Stored(b) /\ tasks' = tasks \ {b} /\ logged' = logged
              \/ /\ logged' = logged
                 /\ \E c \in Tasks : /\ c.rows = b.rows /\ c.dst = b.dst
                                     /\ tasks' = (tasks \ {b}) \cup {c}
              \/ /\ tasks' = tasks \ {b}
                 /\ logged' = logged \cup {[dst |-> b.dst, rows |-> b.rows]}
           /\ UNCHANGED <<src, limit, query, ch, keys, write, result, changes, skipped, deleted>>
<1>1. b \in Tasks
  BY DEF TypeOK
<1>2. CASE TaskWrites(b)
  BY <1>2 DEF TaskWrites
<1>3. CASE TaskFails(b)
  <2>1. CASE b.tries < RetryCount
    <3>1. PICK c : c = [b EXCEPT !.tries = @ + 1]
      OBVIOUS
    <3> QED
      BY <1>1, <1>3, <2>1, <3>1, RetryIs DEF TaskFails
  <2>2. CASE ~(b.tries < RetryCount)
    BY <1>3, <2>2 DEF TaskFails
  <2> QED
    BY <1>3, <2>1, <2>2 DEF TaskFails
<1> QED
  BY <1>2, <1>3

LEMMA TypeTask == ASSUME TypeOK, TaskStep PROVE TypeOK'
<1> USE DEF TypeOK
<1>0. PICK b \in tasks : TaskWrites(b) \/ TaskFails(b)
  BY DEF TaskStep
<1>1. b \in Tasks /\ b.dst \in Dst /\ b.rows \in Pages /\ Len(b.rows) \in 1..Batch
  BY TaskFacts
<1>2. dst' \in [Dst -> [Time -> 0..(MaxChanges + 1)]]
  BY <1>0, TaskStepIs, StoredType
<1>3. tasks' \subseteq Tasks /\ \A c \in tasks' : Len(c.rows) \in 1..Batch
  BY <1>0, <1>1, TaskStepIs
<1>4. logged' \subseteq [dst : Dst, rows : Pages]
  <2>1. [dst |-> b.dst, rows |-> b.rows] \in [dst : Dst, rows : Pages]
    BY <1>1
  <2>2. logged' = logged \/ logged' = logged \cup {[dst |-> b.dst, rows |-> b.rows]}
    BY <1>0, TaskStepIs
  <2>3. logged \subseteq [dst : Dst, rows : Pages]
    OBVIOUS
  <2> HIDE DEF TypeOK
  <2> QED
    BY <2>1, <2>2, <2>3
<1> QED
  BY <1>0, <1>2, <1>3, <1>4, TaskStepIs

LEMMA TypeElsewhere ==
    ASSUME TypeOK,
           \/ \E k \in DOMAIN keys, st \in KeyStates : ReadKeys(k, st)
           \/ \E t \in Time : ClientWrites(t) \/ ClientDeletes(t)
           \/ \E n \in Limits : SetLimit(n)
           \/ UNCHANGED vars
    PROVE  TypeOK'
<1> USE DEF TypeOK
<1>0. Changes => changes \in 0..MaxChanges /\ changes' \in 0..MaxChanges /\ changes' = changes + 1
  BY BoundsSound DEF Changes
<1>1. ASSUME NEW k \in DOMAIN keys, NEW st \in KeyStates, ReadKeys(k, st) PROVE TypeOK'
  BY <1>1 DEF ReadKeys
<1>2. ASSUME NEW t \in Time, ClientWrites(t) PROVE TypeOK'
  <2>1. src' \in [Time -> 0..(MaxChanges + 1)]
    BY <1>0, <1>2, BoundsSound DEF ClientWrites, Changes
  <2> QED
    BY <1>0, <1>2, <2>1 DEF ClientWrites
<1>3. ASSUME NEW t \in Time, ClientDeletes(t) PROVE TypeOK'
  <2>1. src' \in [Time -> 0..(MaxChanges + 1)] /\ deleted' \subseteq Time /\ skipped' \in BOOLEAN
    BY <1>3, BoundsSound DEF ClientDeletes
  <2> QED
    BY <1>0, <1>3, <2>1 DEF ClientDeletes
<1>4. ASSUME NEW n \in Limits, SetLimit(n) PROVE TypeOK'
  BY <1>0, <1>4 DEF SetLimit
<1>5. CASE UNCHANGED vars
  BY <1>5 DEF vars
<1> QED
  BY <1>1, <1>2, <1>3, <1>4, <1>5

-----------------------------------------------------------------------------
(* Nothing is invented. *)

LEMMA SoundInit == Init => SoundInv
<1> SUFFICES ASSUME Init PROVE SoundInv
  OBVIOUS
<1>1. SrcSound
  BY DEF Init, SrcSound
<1>2. RowsSound
  BY NoRows DEF Init, RowsSound
<1>3. DstSound
  BY DEF Init, DstSound
<1> QED
  BY <1>1, <1>2, <1>3, TypeInit DEF SoundInv

\* Whatever clients do to the source, what was read from it stays sound.
LEMMA SourceMoves ==
    ASSUME TypeOK, SrcSound, changes' \in Nat, changes <= changes',
           \A t \in Time : \/ src'[t] \in {src[t], 0}
                           \/ changes' = changes + 1 /\ src'[t] = changes + 2
    PROVE  /\ SrcSound'
           /\ \A r \in Row : Sound(r, src, changes) => Sound(r, src', changes')
           /\ \A p \in Pages : SoundRows(p, src, changes) => SoundRows(p, src', changes')
           /\ dst' = dst /\ DstSound => DstSound'
<1>1. changes \in Nat /\ MaxChanges \in Nat /\ Tick \in Nat
      /\ \A t \in Time : src[t] \in Nat /\ src[t] <= changes + 1
  BY BoundsSound, PointsSound DEF TypeOK, SrcSound
<1>2. SrcSound'
  BY <1>1 DEF SrcSound
<1>3. ASSUME NEW r \in Row, Sound(r, src, changes) PROVE Sound(r, src', changes')
  <2>1. PICK t \in Time, v \in Nat : t = r[1] /\ v = r[2]
    BY RowFacts, <1>1
  <2>2. t >= Tick /\ v <= changes + 1 /\ (src[t] # 0 => v <= src[t])
    BY <1>3, <2>1 DEF Sound
  <2>3. v <= changes' + 1 /\ (src'[t] # 0 => v <= src'[t])
    BY <1>1, <2>1, <2>2
  <2> QED
    BY <2>1, <2>2, <2>3 DEF Sound
<1>4. \A p \in Pages : SoundRows(p, src, changes) => SoundRows(p, src', changes')
  BY <1>3, PageFacts DEF SoundRows
<1>5. ASSUME dst' = dst, DstSound PROVE DstSound'
  <2> SUFFICES ASSUME NEW d \in Dst, NEW t \in Time, dst[d][t] # 0
               PROVE  /\ t >= Tick
                      /\ dst[d][t] <= changes' + 1
                      /\ src'[t] # 0 => dst[d][t] <= src'[t]
    BY <1>5 DEF DstSound
  <2>1. PICK v \in Nat : v = dst[d][t]
    BY <1>1 DEF TypeOK
  <2>2. t >= Tick /\ v <= changes + 1 /\ (src[t] # 0 => v <= src[t])
    BY <1>5, <2>1 DEF DstSound
  <2> QED
    BY <1>1, <2>1, <2>2
<1> QED
  BY <1>2, <1>3, <1>4, <1>5

LEMMA SoundStep == SoundInv /\ [Next]_vars => SoundInv'
<1> SUFFICES ASSUME SoundInv, [Next]_vars PROVE SoundInv'
  OBVIOUS
<1>1. /\ TypeOK /\ SrcSound /\ RowsSound /\ DstSound
      /\ changes \in Nat
      /\ query \in Queries /\ query.page \in Pages
      /\ ch \in Seq(Pages) /\ Len(ch) \in Nat /\ \A i \in 1..Len(ch) : ch[i] \in Pages
      /\ write \in Pages
      /\ \A b \in tasks : b \in Tasks /\ b.rows \in Pages
  BY BoundsSound, TaskFacts, LenProperties, ElementOfSeq DEF SoundInv, TypeOK, Queries
<1>2. ASSUME UNCHANGED <<src, changes>>
      PROVE  /\ SrcSound'
             /\ \A p \in Pages : SoundRows(p, src, changes) => SoundRows(p, src', changes')
             /\ dst' = dst => DstSound'
  BY <1>1, <1>2, SourceMoves
<1>3. ASSUME NEW p \in Pages, UNCHANGED <<src, changes>>, SoundRows(p, src, changes)
      PROVE  SoundRows(p, src', changes')
  BY <1>2, <1>3
<1>4. ASSUME UNCHANGED <<query, ch, write, tasks>>, \A p \in Pages : SoundRows(p, src, changes) => SoundRows(p, src', changes')
      PROVE  RowsSound'
  BY <1>1, <1>4 DEF RowsSound
<1>5. CASE QueryStep
  <2>1. TypeOK' /\ UNCHANGED <<src, dst, changes, write, tasks>>
    BY <1>1, <1>5, TypeQuery
       DEF QueryStep, QueryText, QueryAnswered, QueryCutShort, QueryRefused, QueryFails,
          QueryUnreadable, QueryHangs, SendPage
  <2>2. SoundRows(query'.page, src', changes')
    <3>1. CASE QueryText
      <4>1. query'.page = query.page
        BY <1>1, <3>1 DEF QueryText, Queries
      <4> QED
        BY <1>1, <2>1, <1>3, <4>1 DEF RowsSound
    <3>2. CASE QueryAnswered \/ QueryCutShort
      <4>1. PICK p : p = query'.page
        OBVIOUS
      <4>2. SoundRows(p, src, changes)
        <5> SUFFICES ASSUME NEW i \in 1..Len(p) PROVE Sound(p[i], src, changes)
          BY DEF SoundRows
        <5>1. i + query.offset \in 1..Len(Rows) /\ p[i] = Rows[i + query.offset]
          BY <1>1, <3>2, <4>1, QueryAnsweredIs
        <5>2. PICK t \in Live : p[i] = <<t, src[t]>>
          BY <1>1, <5>1, RowsAre
        <5>3. t \in Time /\ t >= Tick /\ src[t] \in Nat /\ src[t] <= changes + 1
          BY <1>1 DEF Live, TypeOK, SrcSound
        <5> QED
          BY <5>2, <5>3 DEF Sound
      <4>3. p \in Pages
        BY <1>1, <3>2, <4>1, QueryAnsweredIs DEF Queries
      <4> QED
        BY <2>1, <1>3, <4>1, <4>2, <4>3
    <3>3. CASE QueryFails \/ QueryUnreadable \/ QueryRefused \/ QueryHangs
      <4>1. query'.page \in {query.page, <<>>}
        BY <1>1, <3>3, QueryFailsIs, QueryGivesUp
      <4> QED
        BY <1>1, <2>1, <1>3, <4>1, NoRows DEF RowsSound
    <3>4. CASE SendPage
      <4>1. query'.page = query.page
        BY <1>1, <3>4, SendPageIs
      <4> QED
        BY <1>1, <2>1, <1>3, <4>1 DEF RowsSound
    <3> QED
      BY <1>5, <3>1, <3>2, <3>3, <3>4 DEF QueryStep
  <2>3. \A i \in 1..Len(ch') : SoundRows(ch'[i], src', changes')
    <3>1. ASSUME NEW p \in Pages, SoundRows(p, src, changes) PROVE SoundRows(p, src', changes')
      BY <1>3, <2>1, <3>1
    <3>2. CASE ch' = ch
      BY <1>1, <3>1, <3>2 DEF RowsSound
    <3>3. CASE SendPage
      <4>1. /\ Len(ch') = Len(ch) + 1 /\ ch'[Len(ch')] = query.page
            /\ \A i \in 1..Len(ch) : ch'[i] = ch[i]
        BY <1>1, <3>3, SendPageIs
      <4>2. ASSUME NEW i \in 1..Len(ch') PROVE SoundRows(ch'[i], src', changes')
        <5>1. CASE i = Len(ch')
          BY <1>1, <3>1, <4>1, <5>1 DEF RowsSound
        <5>2. CASE i # Len(ch')
          <6>1. i \in 1..Len(ch)
            BY <1>1, <4>1, <5>2
          <6> QED
            BY <1>1, <3>1, <4>1, <6>1 DEF RowsSound
        <5> QED
          BY <5>1, <5>2
      <4> QED
        BY <4>2
    <3> QED
      BY <1>5, <3>2, <3>3 DEF QueryStep, QueryText, QueryAnswered, QueryCutShort, QueryRefused, QueryFails, QueryUnreadable, QueryHangs
  <2>4. SoundRows(write', src', changes') /\ \A b \in tasks' : SoundRows(b.rows, src', changes')
    BY <1>1, <1>3, <2>1 DEF RowsSound
  <2> QED
    BY <1>2, <2>1, <2>2, <2>3, <2>4 DEF SoundInv, RowsSound
<1>6. CASE WriteStep
  <2>1. TypeOK' /\ UNCHANGED <<src, dst, changes, query>>
    BY <1>1, <1>6, TypeWrite DEF WriteStep, ReceivePage, SubmitBatch, WriteEnds
  <2>2. ASSUME NEW p \in Pages, SoundRows(p, src, changes) PROVE SoundRows(p, src', changes')
    BY <1>3, <2>1, <2>2
  <2>3. RowsSound'
    <3>1. CASE ReceivePage
      <4>1. /\ Len(ch) \in Nat \ {0} /\ Len(ch') = Len(ch) - 1 /\ write' = ch[1]
            /\ \A i \in 1..Len(ch') : ch'[i] = ch[i + 1]
            /\ tasks' = tasks
        BY <1>1, <3>1, ReceivePageIs DEF ReceivePage
      <4>2. \A i \in 1..Len(ch') : i + 1 \in 1..Len(ch)
        BY <4>1
      <4>3. \A i \in 1..Len(ch') : SoundRows(ch'[i], src', changes')
        BY <1>1, <2>2, <4>1, <4>2 DEF RowsSound
      <4>4. SoundRows(write', src', changes')
        BY <1>1, <2>2, <4>1 DEF RowsSound
      <4> QED
        BY <1>1, <2>1, <2>2, <4>1, <4>3, <4>4 DEF RowsSound
    <3>2. CASE SubmitBatch
      <4>1. PICK rows \in Pages :
              /\ Len(rows) <= Len(write) /\ Len(write) \in Nat
              /\ \A i \in 1..Len(rows) : rows[i] = write[i]
              /\ write' \in Pages /\ Len(write') = Len(write) - Len(rows)
              /\ \A i \in 1..Len(write') : write'[i] = write[i + Len(rows)]
              /\ tasks' = tasks \cup {[dst |-> d, rows |-> rows, tries |-> 0] : d \in Dst}
        BY <1>1, <3>2, SubmitBatchIs
      <4>2. Len(rows) \in Nat /\ Len(write') \in Nat
        BY <4>1, PageFacts
      <4>3. \A i \in 1..Len(write) : Sound(write[i], src, changes)
        BY <1>1 DEF RowsSound, SoundRows
      <4>4. SoundRows(rows, src, changes)
        <5>1. \A i \in 1..Len(rows) : i \in 1..Len(write)
          BY <4>1, <4>2
        <5> QED
          BY <4>1, <4>3, <5>1 DEF SoundRows
      <4>5. PICK w : w = write'
        OBVIOUS
      <4>6. SoundRows(w, src, changes)
        <5>1. \A i \in 1..Len(w) : i + Len(rows) \in 1..Len(write)
          BY <4>1, <4>2, <4>5
        <5> QED
          BY <4>1, <4>3, <4>5, <5>1 DEF SoundRows
      <4>7. SoundRows(rows, src', changes') /\ SoundRows(write', src', changes')
        BY <2>2, <4>1, <4>4, <4>5, <4>6
      <4>8. \A b \in tasks' : SoundRows(b.rows, src', changes')
        BY <1>1, <2>2, <4>1, <4>7 DEF RowsSound
      <4>9. ch' = ch
        BY <3>2 DEF SubmitBatch
      <4> QED
        BY <1>1, <2>1, <2>2, <4>7, <4>8, <4>9 DEF RowsSound
    <3>3. CASE WriteEnds
      BY <1>4, <2>2, <3>3 DEF WriteEnds
    <3> QED
      BY <1>6, <3>1, <3>2, <3>3 DEF WriteStep
  <2> QED
    BY <1>2, <2>1, <2>3 DEF SoundInv
<1>7. CASE TaskStep
  <2>1. PICK b \in tasks : TaskWrites(b) \/ TaskFails(b)
    BY <1>7 DEF TaskStep
  <2>2. TypeOK' /\ UNCHANGED <<src, changes, query, ch, write>>
    BY <1>1, <1>7, <2>1, TypeTask, TaskStepIs
  <2>3. ASSUME NEW p \in Pages, SoundRows(p, src, changes) PROVE SoundRows(p, src', changes')
    BY <1>3, <2>2, <2>3
  <2>4. \A c \in tasks' : SoundRows(c.rows, src', changes')
    <3>1. \A c \in tasks' : c.rows = b.rows \/ c \in tasks
      BY <1>1, <2>1, TaskStepIs
    <3> QED
      BY <1>1, <2>1, <2>3, <3>1 DEF RowsSound
  <2>5. RowsSound'
    BY <1>1, <2>2, <2>3, <2>4 DEF RowsSound
  <2>6. DstSound'
    <3>1. CASE dst' = dst
      BY <1>2, <2>2, <3>1
    <3>2. CASE Stored(b)
      <4> SUFFICES ASSUME NEW d \in Dst, NEW t \in Time, dst'[d][t] # 0
                   PROVE  /\ t >= Tick
                          /\ dst'[d][t] <= changes + 1
                          /\ src[t] # 0 => dst'[d][t] <= src[t]
        BY <2>2 DEF DstSound
      <4>1. \/ dst'[d][t] = dst[d][t]
            \/ \E i \in 1..Len(b.rows) : b.rows[i][1] = t /\ dst'[d][t] = b.rows[i][2]
        BY <1>1, <2>1, <3>2, StoredType
      <4>2. CASE dst'[d][t] = dst[d][t]
        BY <1>1, <4>2 DEF DstSound
      <4>3. CASE \E i \in 1..Len(b.rows) : b.rows[i][1] = t /\ dst'[d][t] = b.rows[i][2]
        <5>1. SoundRows(b.rows, src, changes)
          BY <1>1, <2>1 DEF RowsSound
        <5>2. PICK i \in 1..Len(b.rows) : b.rows[i][1] = t /\ dst'[d][t] = b.rows[i][2]
          BY <4>3
        <5>3. PICK r : r = b.rows[i] /\ Sound(r, src, changes)
          BY <5>1 DEF SoundRows
        <5> QED
          BY <5>2, <5>3 DEF Sound
      <4> QED
        BY <4>1, <4>2, <4>3
    <3> QED
      BY <1>1, <2>1, <3>1, <3>2, TaskStepIs
  <2> QED
    BY <1>2, <2>2, <2>5, <2>6 DEF SoundInv
<1>8. ASSUME NEW k \in DOMAIN keys, NEW st \in KeyStates, ReadKeys(k, st) PROVE SoundInv'
  <2>1. TypeOK' /\ UNCHANGED <<src, dst, changes, query, ch, write, tasks>>
    BY <1>1, <1>8, TypeElsewhere DEF ReadKeys
  <2> QED
    BY <1>2, <1>4, <2>1 DEF SoundInv
<1>9. ASSUME UNCHANGED <<dst, query, ch, write, tasks>>, TypeOK',
             changes' \in Nat, changes <= changes',
             \A t \in Time : \/ src'[t] \in {src[t], 0}
                             \/ changes' = changes + 1 /\ src'[t] = changes + 2
      PROVE  SoundInv'
  BY <1>1, <1>4, <1>9, SourceMoves DEF SoundInv
<1>10. ASSUME NEW t \in Time, ClientWrites(t) PROVE SoundInv'
  <2>1. TypeOK' /\ changes' = changes + 1 /\ UNCHANGED <<dst, query, ch, write, tasks>>
        /\ src' = [src EXCEPT ![t] = changes + 2] /\ src \in [Time -> 0..(MaxChanges + 1)]
    BY <1>1, <1>10, TypeElsewhere DEF ClientWrites, Changes, TypeOK
  <2>2. \A u \in Time : src'[u] = src[u] \/ src'[u] = changes + 2
    BY <2>1
  <2> QED
    BY <1>1, <1>9, <2>1, <2>2
<1>11. ASSUME NEW t \in Time, ClientDeletes(t) PROVE SoundInv'
  <2>1. TypeOK' /\ changes' = changes + 1 /\ UNCHANGED <<dst, query, ch, write, tasks>>
        /\ src' = [src EXCEPT ![t] = 0] /\ src \in [Time -> 0..(MaxChanges + 1)]
    BY <1>1, <1>11, TypeElsewhere DEF ClientDeletes, Changes, TypeOK
  <2>2. \A u \in Time : src'[u] = src[u] \/ src'[u] = 0
    BY <2>1
  <2> QED
    BY <1>1, <1>9, <2>1, <2>2
<1>12. ASSUME NEW n \in Limits, SetLimit(n) PROVE SoundInv'
  <2>1. TypeOK' /\ changes' = changes + 1 /\ UNCHANGED <<src, dst, query, ch, write, tasks>>
    BY <1>1, <1>12, TypeElsewhere DEF SetLimit, Changes
  <2> QED
    BY <1>1, <1>9, <2>1
<1>13. CASE UNCHANGED vars
  <2>1. TypeOK' /\ UNCHANGED <<src, dst, changes, query, ch, write, tasks>>
    BY <1>1, <1>13, TypeElsewhere DEF vars
  <2> QED
    BY <1>2, <1>4, <2>1 DEF SoundInv
<1> QED
  BY <1>5, <1>6, <1>7, <1>8, <1>10, <1>11, <1>12, <1>13 DEF Next

\* Every state is well typed: no page is longer than the measurement, no batch
\* longer than tx.Batch or tried more than RetryCount times over.
THEOREM TypeCorrect == Spec => []TypeOK
<1>1. SoundInv => TypeOK
  BY DEF SoundInv
<1> QED
  BY <1>1, SoundInit, SoundStep, PTL DEF Spec

\* A destination has only what the source had, from the tick on, and nothing newer
\* (transfer/transfer.go query and write), whatever clients write and delete,
\* tx.Limit becomes and requests fail meanwhile.
THEOREM NothingInventedCorrect == Spec => []NothingInvented
<1>1. SoundInv => NothingInvented
  BY DEF SoundInv, DstSound, NothingInvented
<1> QED
  BY <1>1, SoundInit, SoundStep, PTL DEF Spec

-----------------------------------------------------------------------------
(* What is lost was logged. *)

\* Every wanted point that was not deleted is at the source.
LEMMA WantedIsLive ==
    ASSUME Kept, NEW t \in Wanted \ deleted
    PROVE  t \in Live /\ t \in Time
  BY PointsSound DEF Kept, Wanted, Live

LEMMA LossInit == Init => LossInv
<1> SUFFICES ASSUME Init PROVE LossInv
  OBVIOUS
<1>1. TypeOK /\ SrcSound
  BY SoundInit DEF SoundInv
<1>2. Kept
  BY PointsSound DEF Init, Kept
<1>3. KeysRead /\ DoneIsIdle
  BY DEF Init, KeysRead, DoneIsIdle
<1>4. ASSUME NEW t \in Wanted \ deleted PROVE Safe(t)
  <2>1. Above(t) \in Nat
    BY <1>2, WantedIsLive, AboveIs
  <2> QED
    BY <2>1 DEF Init, Safe, Coming
<1> QED
  BY <1>2, <1>3, <1>4 DEF LossInv, NotLost

\* What changes nothing of the rows loses none of them.
LEMMA SafeStays ==
    ASSUME UNCHANGED <<src, dst, query, ch, write, tasks, logged>>, NEW t, Safe(t)
    PROVE  Safe(t)'
  BY DEF Safe, Coming, Above, Live, Handed, Reached

\* The query goroutine takes up the rows in their order.
LEMMA LossQuery ==
    ASSUME SoundInv, LossInv, QueryStep
    PROVE  LossInv'
<1>1. /\ TypeOK /\ SrcSound /\ Kept /\ KeysRead /\ DoneIsIdle /\ NotLost
      /\ query \in Queries /\ query.offset \in Nat /\ query.limit \in Nat \ {0}
      /\ query.page \in Pages
  BY SizesPositive DEF SoundInv, LossInv, TypeOK, Queries
<1>2. UNCHANGED <<src, dst, keys, write, tasks, result, logged, deleted>>
  BY DEF QueryStep, QueryText, QueryAnswered, QueryCutShort, QueryRefused, QueryFails,
          QueryUnreadable, QueryHangs, SendPage
<1>3. query.pc # "ended"
  BY DEF QueryStep, QueryText, QueryAnswered, QueryCutShort, QueryRefused, QueryFails,
          QueryUnreadable, QueryHangs, SendPage
<1>4. Kept' /\ KeysRead' /\ DoneIsIdle'
  BY <1>1, <1>2, <1>3 DEF Kept, KeysRead, DoneIsIdle
<1>5. \A t : Above(t)' = Above(t) /\ HasTime(write, t)' = HasTime(write, t)
             /\ \A d \in Dst : Reached(d, t)' = Reached(d, t)
  BY <1>2 DEF Above, Live, HasTime, Reached
<1> SUFFICES ASSUME NoExcuse', NEW t \in Wanted \ deleted
             PROVE  Safe(t)'
  BY <1>2, <1>4 DEF LossInv, NotLost
<1>6. t \in Live /\ Above(t) \in Nat
  BY <1>1, WantedIsLive, AboveIs
<1>7. CASE QueryText
  <2>1. ch' = ch /\ skipped' = skipped /\ query.pc = "text" /\ query'.pc = "ask"
        /\ query'.offset = query.offset
    BY <1>1, <1>7, QueryTextIs DEF QueryText
  <2>2. NoExcuse
    BY <1>2, <2>1 DEF NoExcuse, Failed
  <2>3. Safe(t)
    BY <1>1, <2>2 DEF NotLost
  <2> QED
    BY <1>5, <2>1, <2>3 DEF Safe, Coming, Handed
<1>8. ASSUME QueryAnswered \/ QueryCutShort PROVE Safe(t)'
  <2>1. /\ ch' = ch /\ skipped' = skipped /\ query.pc = "ask"
        /\ query' \in Queries
        /\ query'.pc = IF query'.page = <<>> THEN "ended" ELSE "send"
        /\ query'.offset = query.offset
    BY <1>1, <1>8, QueryAnsweredIs DEF QueryAnswered, QueryCutShort
  <2>2. NoExcuse
    BY <1>2, <2>1 DEF NoExcuse, Failed
  <2>3. Safe(t)
    BY <1>1, <2>2 DEF NotLost
  <2>4. CASE Above(t) >= query.offset
    <3>1. PICK o, l, p, n, j :
            /\ o = query.offset /\ l = query'.limit /\ p = query'.page
            /\ n = Len(Rows) /\ j = Above(t) + 1
      OBVIOUS
    <3>2. o \in Nat /\ l \in Nat \ {0} /\ p \in Pages /\ Len(p) \in Nat
          /\ j \in 1..n /\ j > o /\ n \in Nat /\ Rows[j] = <<t, src[t]>> /\ Above(t) = j - 1
      <4>1. Rows \in Pages /\ p \in Pages /\ l \in Nat \ {0}
        BY <1>1, <2>1, <3>1, RowsAre DEF Queries
      <4>2. j \in 1..n /\ Rows[j] = <<t, src[t]>>
        BY <1>1, <1>6, <3>1, RowsAre
      <4> QED
        BY <1>1, <1>6, <2>4, <3>1, <4>1, <4>2, PageFacts
    <3>3. \A i \in 1..Len(p) : i + o \in 1..n /\ p[i] = Rows[i + o]
      BY <1>1, <1>8, <3>1, QueryAnsweredIs
    <3>4. j > o /\ j > o + Len(p) => Len(p) = l
      BY <1>1, <1>8, <3>1, <3>2, QueryAnsweredIs
    <3>5. CASE j <= o + Len(p)
      <4>1. PICK i \in 1..Len(p) : j = i + o
        <5>1. j - o \in 1..Len(p) /\ j = (j - o) + o
          BY <3>2, <3>5
        <5> QED
          BY <5>1
      <4>2. p[i] = <<t, src[t]>>
        BY <3>2, <3>3, <4>1
      <4>3. HasTime(p, t) /\ p # <<>>
        BY <4>2, EmptySeq DEF HasTime
      <4> QED
        BY <2>1, <3>1, <4>3 DEF Safe, Coming, HasTime
    <3>6. CASE ~(j <= o + Len(p))
      <4>1. Len(p) = l /\ Above(t) >= o + Len(p)
        BY <3>2, <3>4, <3>6
      <4>2. p # <<>>
        BY <3>2, <4>1, EmptySeq
      <4> QED
        BY <1>5, <2>1, <3>1, <4>1, <4>2 DEF Safe, Coming
    <3> QED
      BY <3>5, <3>6
  <2>5. CASE Handed(t) \/ \A d \in Dst : Reached(d, t)
    BY <1>2, <1>5, <2>1, <2>5 DEF Safe, Handed
  <2> QED
    BY <2>1, <2>3, <2>4, <2>5 DEF Safe, Coming
<1>9. CASE QueryFails \/ QueryUnreadable
  <2>1. /\ ch' = ch /\ skipped' = skipped /\ query.pc = "ask" /\ query'.offset = query.offset
        /\ query'.pc = "ask" \/ (query'.pc = "send" /\ query'.page = <<>>)
    BY <1>1, <1>9, QueryFailsIs DEF QueryFails, QueryUnreadable
  <2>2. query'.pc = "ask"
    BY <2>1 DEF NoExcuse, Failed
  <2>3. NoExcuse
    BY <1>2, <2>1 DEF NoExcuse, Failed
  <2>4. Safe(t)
    BY <1>1, <2>3 DEF NotLost
  <2> QED
    BY <1>5, <2>1, <2>2, <2>4 DEF Safe, Coming, Handed
<1>10. CASE SendPage
  <2>1. /\ query.pc = "send"
        /\ query'.pc = IF query.page = <<>> THEN "ended" ELSE "text"
        /\ query'.offset = query.offset + (IF query.page = <<>> THEN 0 ELSE limit)
        /\ limit \in Nat
        /\ Len(ch) \in Nat /\ Len(ch') = Len(ch) + 1
        /\ ch'[Len(ch')] = query.page
        /\ \A i \in 1..Len(ch) : ch'[i] = ch[i]
    BY <1>1, <1>10, SendPageIs
  <2>2. /\ skipped' = (skipped \/ query'.offset > query.offset + query.limit)
    BY <1>10, <2>1 DEF SendPage
  <2>3. query.page # <<>>
    <3>1. Len(ch') \in 1..Len(ch')
      BY <2>1
    <3> QED
      BY <2>1, <3>1 DEF NoExcuse, Failed
  <2>4. \A i \in 1..Len(ch) : i \in 1..Len(ch')
    BY <2>1
  <2>5. NoExcuse
    BY <1>2, <2>1, <2>2, <2>3, <2>4 DEF NoExcuse, Failed
  <2>6. Safe(t)
    BY <1>1, <2>5 DEF NotLost
  <2>7. query'.offset <= query.offset + query.limit /\ query'.offset \in Nat /\ query'.pc = "text"
    <3>1. ~skipped' /\ query'.offset = query.offset + limit /\ query'.pc = "text"
      BY <2>1, <2>3 DEF NoExcuse
    <3>2. PICK o, l, m : o = query'.offset /\ l = query.limit /\ m = query.offset
      OBVIOUS
    <3>3. o \in Nat /\ l \in Nat /\ m \in Nat /\ ~(o > m + l)
      <4>1. o \in Nat /\ l \in Nat /\ m \in Nat
        BY <1>1, <2>1, <3>1, <3>2
      <4>2. ~(query'.offset > query.offset + query.limit)
        BY <2>2, <3>1, Zenon
      <4> QED
        BY <3>2, <4>1, <4>2
    <3>4. o <= m + l
      BY <3>3
    <3> QED
      BY <3>1, <3>2, <3>3, <3>4
  <2>8. CASE HasTime(query.page, t)
    <3>1. Len(ch') \in 1..Len(ch') /\ HasTime(ch'[Len(ch')], t)
      BY <2>1, <2>8
    <3>2. \E i \in 1..Len(ch') : HasTime(ch'[i], t)
      BY <3>1
    <3> QED
      BY <3>2 DEF Safe, Handed, HasTime
  <2>9. CASE Len(query.page) = query.limit /\ Above(t) >= query.offset + Len(query.page)
    <3>1. Above(t) >= query'.offset
      BY <1>1, <1>6, <2>7, <2>9
    <3> QED
      BY <1>5, <2>7, <3>1 DEF Safe, Coming
  <2>10. CASE Handed(t)
    <3>1. CASE HasTime(write, t)
      BY <1>5, <3>1 DEF Safe, Handed
    <3>2. CASE \E i \in 1..Len(ch) : HasTime(ch[i], t)
      <4>1. \E i \in 1..Len(ch') : HasTime(ch'[i], t)
        BY <2>1, <2>4, <3>2
      <4> QED
        BY <4>1 DEF Safe, Handed, HasTime
    <3> QED
      BY <2>10, <3>1, <3>2 DEF Handed
  <2>11. CASE \A d \in Dst : Reached(d, t)
    BY <1>5, <2>11 DEF Safe
  <2> QED
    BY <2>1, <2>6, <2>8, <2>9, <2>10, <2>11 DEF Safe, Coming
<1>11. CASE QueryHangs
  BY <1>1, <1>11 DEF QueryHangs, Queries, NoExcuse, Failed
<1>12. CASE QueryRefused
  <2>1. NextPage = <<>> /\ skipped' = skipped
    BY <1>1, <1>12 DEF QueryRefused, NoExcuse, SoundInv, TypeOK
  <2>2. QueryAnswered
    BY <1>12, <2>1 DEF QueryRefused, QueryAnswered
  <2> QED
    BY <1>8, <2>2
<1> QED
  BY <1>7, <1>8, <1>9, <1>10, <1>11, <1>12 DEF QueryStep

\* write takes the pages one by one and every row of a page into a batch.
LEMMA LossWrite ==
    ASSUME SoundInv, LossInv, WriteStep
    PROVE  LossInv'
<1>1. /\ TypeOK /\ Kept /\ KeysRead /\ DoneIsIdle /\ NotLost
  BY DEF SoundInv, LossInv
<1>2. /\ UNCHANGED <<src, dst, query, keys, logged, skipped, deleted>>
      /\ Writing
  BY DEF WriteStep, ReceivePage, SubmitBatch, WriteEnds
<1>3. Kept'
  BY <1>1, <1>2 DEF Kept
<1>4. \A t : Coming(t)' = Coming(t)
  BY <1>2 DEF Coming, Above, Live, HasTime
<1>5. CASE ReceivePage
  <2>1. /\ Len(ch) \in Nat \ {0} /\ Len(ch') = Len(ch) - 1 /\ write' = ch[1]
        /\ \A i \in 1..Len(ch') : ch'[i] = ch[i + 1]
    BY <1>1, <1>5, ReceivePageIs
  <2>2. /\ write = <<>> /\ tasks' = tasks
        /\ result' = IF ch[1] = <<>> THEN "error" ELSE result
        /\ result = "none"
    BY <1>5, <2>1 DEF ReceivePage, Writing
  <2>3. ASSUME NEW i \in 1..Len(ch)
        PROVE  i = 1 \/ \E j \in 1..Len(ch') : ch'[j] = ch[i]
    <3>1. CASE i # 1
      <4>1. PICK j : j = i - 1
        OBVIOUS
      <4>2. j \in 1..Len(ch') /\ i = j + 1
        BY <2>1, <3>1, <4>1
      <4> QED
        BY <2>1, <4>2
    <3> QED
      BY <3>1
  <2>4. Failed => Failed'
    <3> SUFFICES ASSUME Failed PROVE Failed'
      OBVIOUS
    <3>1. CASE (query.pc = "send" /\ query.page = <<>>) \/ query.pc = "hung"
      BY <1>2, <3>1 DEF Failed
    <3>2. CASE \E i \in 1..Len(ch) : ch[i] = <<>>
      <4>1. PICK i \in 1..Len(ch) : ch[i] = <<>>
        BY <3>2
      <4>2. CASE i = 1
        BY <2>2, <4>1, <4>2 DEF Failed
      <4>3. CASE i # 1
        <5>1. \E j \in 1..Len(ch') : ch'[j] = <<>>
          BY <2>3, <4>1, <4>3
        <5> QED
          BY <5>1 DEF Failed
      <4> QED
        BY <4>2, <4>3
    <3> QED
      BY <2>2, <3>1, <3>2 DEF Failed
  <2>5. KeysRead' /\ DoneIsIdle'
    BY <1>1, <1>2, <2>2 DEF KeysRead, DoneIsIdle
  <2>6. ASSUME NEW t, Safe(t) PROVE Safe(t)'
    <3>1. CASE Handed(t)
      <4>1. ~HasTime(write, t)
        BY <2>2, EmptySeq DEF HasTime
      <4>2. PICK i \in 1..Len(ch) : HasTime(ch[i], t)
        BY <3>1, <4>1 DEF Handed
      <4>3. CASE i = 1
        <5>1. HasTime(write', t)
          BY <2>1, <4>2, <4>3
        <5> QED
          BY <5>1 DEF Safe, Handed, HasTime
      <4>4. CASE i # 1
        <5>1. \E j \in 1..Len(ch') : HasTime(ch'[j], t)
          BY <2>3, <4>2, <4>4
        <5> QED
          BY <5>1 DEF Safe, Handed, HasTime
      <4> QED
        BY <4>3, <4>4
    <3>2. CASE \A d \in Dst : Reached(d, t)
      BY <1>2, <2>2, <3>2 DEF Safe, Reached, HasTime
    <3> QED
      BY <1>4, <2>6, <3>1, <3>2 DEF Safe
  <2> QED
    BY <1>1, <1>2, <1>3, <2>4, <2>5, <2>6 DEF LossInv, NotLost, NoExcuse
<1>6. CASE SubmitBatch
  <2>1. PICK rows \in Pages :
          /\ Len(rows) \in 1..Batch /\ Len(rows) <= Len(write) /\ Len(write) \in Nat
          /\ \A i \in 1..Len(rows) : rows[i] = write[i]
          /\ write' \in Pages /\ Len(write') = Len(write) - Len(rows)
          /\ \A i \in 1..Len(write') : write'[i] = write[i + Len(rows)]
          /\ tasks' = tasks \cup {[dst |-> d, rows |-> rows, tries |-> 0] : d \in Dst}
    BY <1>1, <1>6, SubmitBatchIs
  <2>2. ch' = ch /\ result' = result /\ result = "none" /\ \A k \in DOMAIN keys : keys[k] \in {"read", "failed"}
    BY <1>6 DEF SubmitBatch, Writing
  <2>3. KeysRead' /\ DoneIsIdle'
    BY <1>2, <2>2 DEF KeysRead, DoneIsIdle
  <2>4. Failed => Failed'
    BY <1>2, <2>2 DEF Failed
  <2>5. \A t : \A d \in Dst : Reached(d, t) => Reached(d, t)'
    BY <1>2, <2>1 DEF Reached, HasTime
  <2>6. ASSUME NEW t, HasTime(write, t) PROVE Safe(t)'
    <3>1. PICK i \in 1..Len(write) : write[i][1] = t
      BY <2>6 DEF HasTime
    <3>2. Len(rows) \in Nat /\ Len(write') \in Nat
      BY <2>1, PageFacts
    <3>3. CASE i <= Len(rows)
      <4>1. rows[i][1] = t /\ i \in 1..Len(rows)
        BY <2>1, <3>1, <3>2, <3>3
      <4>2. ASSUME NEW d \in Dst PROVE Reached(d, t)'
        <5>1. PICK b : b = [dst |-> d, rows |-> rows, tries |-> 0]
          OBVIOUS
        <5>2. b \in tasks' /\ b.dst = d /\ b.rows = rows
          BY <2>1, <5>1
        <5>3. \E i2 \in 1..Len(b.rows) : b.rows[i2][1] = t
          BY <4>1, <5>2
        <5> QED
          BY <5>2, <5>3 DEF Reached, HasTime
      <4> QED
        BY <4>2 DEF Safe
    <3>4. CASE ~(i <= Len(rows))
      <4>1. PICK j : j = i - Len(rows)
        OBVIOUS
      <4>2. j \in 1..Len(write') /\ i = j + Len(rows)
        BY <2>1, <3>1, <3>2, <3>4, <4>1
      <4>3. write'[j][1] = t
        BY <2>1, <3>1, <4>2
      <4> QED
        BY <4>2, <4>3 DEF Safe, Handed, HasTime
    <3> QED
      BY <3>3, <3>4
  <2>7. ASSUME NEW t, Safe(t) PROVE Safe(t)'
    <3>1. CASE Handed(t)
      <4>1. CASE \E i \in 1..Len(ch) : HasTime(ch[i], t)
        BY <2>2, <4>1 DEF Safe, Handed, HasTime
      <4> QED
        BY <2>6, <3>1, <4>1 DEF Handed
    <3> QED
      BY <1>4, <2>5, <2>7, <3>1 DEF Safe
  <2> QED
    BY <1>1, <1>2, <1>3, <2>3, <2>4, <2>7 DEF LossInv, NotLost, NoExcuse
<1>7. CASE WriteEnds
  <2>1. UNCHANGED <<ch, write, tasks>> /\ write = <<>> /\ ch = <<>> /\ query.pc = "ended"
        /\ tasks = {} /\ result = "none"
    BY <1>7 DEF WriteEnds, Writing
  <2>2. KeysRead' /\ DoneIsIdle'
    BY <1>1, <1>2, <2>1 DEF KeysRead, DoneIsIdle
  <2>3. ~Failed
    BY <2>1, EmptySeq DEF Failed
  <2>4. \A t : Safe(t) => Safe(t)'
    BY <1>2, <2>1, SafeStays
  <2> QED
    BY <1>1, <1>2, <1>3, <2>2, <2>3, <2>4 DEF LossInv, NotLost, NoExcuse
<1> QED
  BY <1>5, <1>6, <1>7 DEF WriteStep

\* A task delivers its rows, keeps them for another try, or logs their loss.
LEMMA LossTask ==
    ASSUME SoundInv, LossInv, TaskStep
    PROVE  LossInv'
<1>1. TypeOK /\ Kept /\ KeysRead /\ DoneIsIdle /\ NotLost
  BY DEF SoundInv, LossInv
<1>2. PICK b \in tasks : TaskWrites(b) \/ TaskFails(b)
  BY DEF TaskStep
<1>3. /\ dst' = dst \/ Stored(b)
      /\ \/ /\ Stored(b) /\ tasks' = tasks \ {b} /\ logged' = logged
         \/ /\ logged' = logged
            /\ \E c \in Tasks : /\ c.rows = b.rows /\ c.dst = b.dst
                                /\ tasks' = (tasks \ {b}) \cup {c}
         \/ /\ tasks' = tasks \ {b}
            /\ logged' = logged \cup {[dst |-> b.dst, rows |-> b.rows]}
      /\ UNCHANGED <<src, limit, query, ch, keys, write, result, changes, skipped, deleted>>
  BY <1>1, <1>2, TaskStepIs
<1>4. Kept' /\ KeysRead' /\ DoneIsIdle' /\ (Failed <=> Failed')
  BY <1>1, <1>2, <1>3 DEF Kept, KeysRead, DoneIsIdle, Failed
<1>5. \A t : Coming(t)' = Coming(t) /\ Handed(t)' = Handed(t)
  BY <1>3 DEF Coming, Above, Live, Handed, HasTime
<1>6. ASSUME NoExcuse, NEW t \in Time, NEW d \in Dst, Reached(d, t) PROVE Reached(d, t)'
  <2>1. keys["tags"] = "read"
    BY <1>1, <1>2, <1>6 DEF NoExcuse, KeysRead, TypeOK
  <2>2. CASE dst[d][t] # 0
    <3>1. dst'[d][t] # 0
      BY <1>1, <1>2, <1>3, <2>2, StoredType
    <3> QED
      BY <3>1 DEF Reached
  <2>3. CASE \E e \in logged : e.dst = d /\ HasTime(e.rows, t)
    <3>1. \E e \in logged' : e.dst = d /\ HasTime(e.rows, t)
      BY <1>3, <2>3
    <3> QED
      BY <3>1 DEF Reached, HasTime
  <2>4. CASE \E c \in tasks : c # b /\ c.dst = d /\ HasTime(c.rows, t)
    <3>1. \E c \in tasks' : c.dst = d /\ HasTime(c.rows, t)
      BY <1>3, <2>4
    <3> QED
      BY <3>1 DEF Reached, HasTime
  <2>5. CASE b.dst = d /\ HasTime(b.rows, t)
    <3>1. CASE Stored(b)
      <4>1. dst'[d][t] # 0
        BY <1>1, <1>2, <2>1, <2>5, <3>1, StoredType
      <4> QED
        BY <4>1 DEF Reached
    <3>2. ASSUME NEW c, c \in tasks', c.rows = b.rows, c.dst = b.dst PROVE Reached(d, t)'
      BY <2>5, <3>2 DEF Reached, HasTime
    <3>3. CASE logged' = logged \cup {[dst |-> b.dst, rows |-> b.rows]}
      <4>1. PICK e : e = [dst |-> b.dst, rows |-> b.rows]
        OBVIOUS
      <4>2. e \in logged' /\ e.dst = d /\ HasTime(e.rows, t)
        BY <2>5, <3>3, <4>1
      <4> QED
        BY <4>2 DEF Reached, HasTime
    <3> QED
      BY <1>3, <3>1, <3>2, <3>3
  <2> QED
    BY <1>6, <2>2, <2>3, <2>4, <2>5 DEF Reached
<1>7. ASSUME NoExcuse, NEW t \in Time, Safe(t) PROVE Safe(t)'
  BY <1>5, <1>6, <1>7 DEF Safe
<1>8. NoExcuse' => NoExcuse
  BY <1>3, <1>4 DEF NoExcuse
<1> QED
  BY <1>1, <1>3, <1>4, <1>7, <1>8, WantedIsLive DEF LossInv, NotLost

LEMMA SubsetOfTimes ==
    ASSUME NEW S, NEW T, S \subseteq T, T \subseteq Time
    PROVE  Cardinality(S) \in Nat /\ Cardinality(T) \in Nat /\ Cardinality(S) <= Cardinality(T)
<1>1. IsFiniteSet(Time)
  BY PointsSound, FS_Interval DEF Time
<1>2. IsFiniteSet(T) /\ IsFiniteSet(S)
  BY <1>1, FS_Subset
<1> QED
  BY <1>2, FS_Subset, FS_CardinalityType

\* A row that clients do not delete stays ahead of the query, or where it is.
LEMMA SafeAmongChanges ==
    ASSUME NEW t, Safe(t),
           UNCHANGED <<dst, query, ch, write, tasks, logged>>,
           query.pc \in {"text", "ask"} /\ Above(t) >= query.offset
              => Above(t)' >= query.offset,
           query.pc = "send" /\ Above(t) >= query.offset + Len(query.page)
              => Above(t)' >= query.offset + Len(query.page)
    PROVE  Safe(t)'
<1>1. Coming(t) => Coming(t)'
  BY DEF Coming, HasTime
<1>2. Handed(t) => Handed(t)'
  BY DEF Handed, HasTime
<1>3. \A d \in Dst : Reached(d, t) => Reached(d, t)'
  BY DEF Reached, HasTime
<1> QED
  BY <1>1, <1>2, <1>3 DEF Safe

\* A point that is written goes before others, which is not a way to skip them.
LEMMA LossClientWrites ==
    ASSUME SoundInv, LossInv, NEW u \in Time, ClientWrites(u)
    PROVE  LossInv'
<1>1. /\ TypeOK /\ Kept /\ KeysRead /\ DoneIsIdle /\ NotLost
      /\ src \in [Time -> 0..(MaxChanges + 1)]
      /\ query.offset \in Nat /\ query.page \in Pages
      /\ changes \in Nat
  BY BoundsSound DEF SoundInv, LossInv, TypeOK, Queries
<1>2. /\ UNCHANGED <<dst, limit, query, ch, keys, write, tasks, result, logged, skipped, deleted>>
      /\ src' = [src EXCEPT ![u] = changes + 2]
  BY DEF ClientWrites
<1>3. \A t \in Time : src[t] # 0 => src'[t] # 0
  BY <1>1, <1>2
<1>4. Kept' /\ KeysRead' /\ DoneIsIdle' /\ (NoExcuse' => NoExcuse)
  BY <1>1, <1>2, <1>3, PointsSound DEF Kept, KeysRead, DoneIsIdle, NoExcuse, Failed
<1> SUFFICES ASSUME NoExcuse', NEW t \in Wanted \ deleted
             PROVE  Safe(t)'
  BY <1>2, <1>4 DEF LossInv, NotLost
<1>5. Safe(t) /\ t \in Live
  BY <1>1, <1>4, WantedIsLive DEF NotLost
<1>6. Above(t)' >= Above(t) /\ Above(t) \in Nat /\ Above(t)' \in Nat
  <2>1. PICK S, T : S = {v \in Live : v > t} /\ T = {v \in Live' : v > t}
    OBVIOUS
  <2>2. S \subseteq T /\ T \subseteq Time
    BY <1>3, <2>1 DEF Live
  <2> QED
    BY <2>1, <2>2, SubsetOfTimes DEF Above
<1>7. PICK o, k, a, b : o = query.offset /\ k = Len(query.page) /\ a = Above(t) /\ b = Above(t)'
  OBVIOUS
<1>8. o \in Nat /\ k \in Nat /\ a \in Nat /\ b \in Nat /\ b >= a
  BY <1>1, <1>6, <1>7, PageFacts
<1>9. (a >= o => b >= o) /\ (a >= o + k => b >= o + k)
  BY <1>8
<1> QED
  BY <1>2, <1>5, <1>7, <1>9, SafeAmongChanges

\* Unless a page boundary moved over rows that were not read, what was deleted was
\* behind it, and what is ahead stays ahead.
LEMMA LossClientDeletes ==
    ASSUME SoundInv, LossInv, NEW u \in Time, ClientDeletes(u)
    PROVE  LossInv'
<1>1. /\ TypeOK /\ SrcSound /\ Kept /\ KeysRead /\ DoneIsIdle /\ NotLost
      /\ src \in [Time -> 0..(MaxChanges + 1)]
      /\ query.offset \in Nat /\ query.page \in Pages
  BY DEF SoundInv, LossInv, TypeOK, Queries
<1>2. /\ UNCHANGED <<dst, limit, query, ch, keys, write, tasks, result, logged>>
      /\ src' = [src EXCEPT ![u] = 0]
      /\ deleted' = deleted \cup {u}
  BY DEF ClientDeletes
<1>3. PICK read : read = query.offset + (IF query.pc = "send" THEN Len(query.page) ELSE 0)
  OBVIOUS
<1>4. skipped' = (skipped \/ \E i \in 1..Len(Rows) : i <= read /\ Rows[i][1] = u)
  BY <1>3 DEF ClientDeletes
<1>5. \A t \in Time : t # u => src'[t] = src[t]
  BY <1>1, <1>2
<1>6. KeysRead' /\ DoneIsIdle' /\ (NoExcuse' => NoExcuse)
  BY <1>1, <1>2, <1>4 DEF KeysRead, DoneIsIdle, NoExcuse, Failed
<1>7. Kept'
  BY <1>1, <1>2, <1>5, PointsSound DEF Kept
<1>8. Live' = Live \ {u} /\ Live \subseteq Time
  BY <1>1, <1>2 DEF Live
<1> SUFFICES ASSUME NoExcuse', NEW t \in Wanted \ deleted'
             PROVE  Safe(t)'
  BY <1>6, <1>7 DEF LossInv, NotLost
<1>9. Safe(t) /\ t \in Live /\ t # u /\ t \in Nat /\ u \in Nat /\ Above(t) \in Nat
  <2>1. t \in Wanted \ deleted /\ t # u
    BY <1>2
  <2> QED
    BY <1>1, <1>6, <2>1, WantedIsLive, AboveIs, PointsSound DEF NotLost, Time
<1>10. read \in Nat
  BY <1>1, <1>3, PageFacts
<1>11. PICK S, T : S = {v \in Live : v > t} /\ T = {v \in Live' : v > t}
  OBVIOUS
<1>12. Above(t) = Cardinality(S) /\ Above(t)' = Cardinality(T) /\ T \subseteq S /\ S \subseteq Time
  BY <1>8, <1>11 DEF Above
<1>13. ASSUME Above(t) >= read PROVE Above(t)' >= read
  <2>1. CASE u \in Live /\ u > t
    <3>1. PICK U : U = {v \in Live : v > u}
      OBVIOUS
    <3>2. U \subseteq T /\ T \subseteq Time
      <4>1. \A v \in Live : v \in Nat
        BY <1>8, PointsSound DEF Time
      <4>2. ASSUME NEW v \in Live, v > u PROVE v > t /\ v # u
        BY <1>9, <2>1, <4>1, <4>2
      <4>3. ASSUME NEW v \in U PROVE v \in T
        <5>1. v \in Live /\ v > u
          BY <3>1, <4>3
        <5>2. v \in Live' /\ v > t
          BY <1>8, <4>2, <5>1
        <5> QED
          BY <1>11, <5>2
      <4> QED
        BY <1>8, <1>11, <4>3
    <3>3. Above(u) = Cardinality(U)
      BY <3>1 DEF Above
    <3>4. PICK i : i = Above(u) + 1
      OBVIOUS
    <3>5. i \in 1..Len(Rows) /\ Rows[i] = <<u, src[u]>> /\ Above(u) \in Nat
      BY <1>1, <2>1, <3>4, RowsAre, AboveIs
    <3>6. ~(i <= read)
      <4>1. Rows[i][1] = u
        BY <3>5
      <4>2. ~skipped'
        BY DEF NoExcuse
      <4> QED
        BY <1>4, <3>5, <4>1, <4>2, Zenon
    <3>7. Len(Rows) \in Nat
      BY <1>1, RowsAre, PageFacts
    <3>8. Above(u) >= read
      BY <1>10, <3>4, <3>5, <3>6, <3>7
    <3> QED
      BY <1>10, <1>12, <3>2, <3>3, <3>8, SubsetOfTimes
  <2>2. CASE ~(u \in Live /\ u > t)
    <3>1. T = S
      BY <1>8, <1>11, <2>2
    <3> QED
      BY <1>12, <1>13, <3>1
  <2> QED
    BY <2>1, <2>2
<1>14. CASE query.pc = "send"
  <2>1. read = query.offset + Len(query.page)
    BY <1>3, <1>14
  <2> QED
    BY <1>2, <1>9, <1>13, <1>14, <2>1, SafeAmongChanges
<1>15. CASE query.pc # "send"
  <2>1. read = query.offset
    BY <1>1, <1>3, <1>15
  <2> QED
    BY <1>2, <1>9, <1>13, <1>15, <2>1, SafeAmongChanges
<1> QED
  BY <1>14, <1>15

LEMMA LossElsewhere ==
    ASSUME SoundInv, LossInv,
           \/ \E k \in DOMAIN keys, st \in KeyStates : ReadKeys(k, st)
           \/ \E n \in Limits : SetLimit(n)
           \/ UNCHANGED vars
    PROVE  LossInv'
<1>1. TypeOK /\ Kept /\ KeysRead /\ DoneIsIdle /\ NotLost
  BY DEF SoundInv, LossInv
<1>2. UNCHANGED <<src, dst, query, ch, write, tasks, result, logged, skipped, deleted>>
  BY DEF ReadKeys, SetLimit, Changes, vars
<1>3. /\ keys["tags"] = "failed" => keys'["tags"] = "failed"
      /\ KeysRead'
  <2>1. ASSUME NEW k \in DOMAIN keys, NEW st \in KeyStates, ReadKeys(k, st)
        PROVE  /\ keys["tags"] = "failed" => keys'["tags"] = "failed"
               /\ KeysRead'
    <3>1. keys \in [{"tags", "fields"} -> KeyStates]
          /\ keys[k] = "unread" /\ keys' = [keys EXCEPT ![k] = st]
      BY <1>1, <2>1 DEF TypeOK, ReadKeys
    <3>2. DOMAIN keys' = DOMAIN keys /\ \A j \in DOMAIN keys : keys'[j] \in {keys[j], st}
      BY <3>1
    <3>3. keys["tags"] = "failed" => keys'["tags"] = "failed"
      BY <3>1
    <3>4. tasks = {}
      BY <1>1, <3>1 DEF KeysRead
    <3> QED
      BY <1>2, <3>3, <3>4 DEF KeysRead
  <2>2. CASE keys' = keys
    BY <1>1, <1>2, <2>2 DEF KeysRead
  <2> QED
    BY <2>1, <2>2 DEF SetLimit, vars
<1>4. Kept' /\ DoneIsIdle' /\ (NoExcuse' => NoExcuse)
  BY <1>1, <1>2, <1>3 DEF Kept, DoneIsIdle, NoExcuse, Failed
<1>5. \A t : Safe(t) => Safe(t)'
  BY <1>2, SafeStays
<1> QED
  BY <1>1, <1>2, <1>3, <1>4, <1>5 DEF LossInv, NotLost

LEMMA LossStep == SoundInv /\ LossInv /\ [Next]_vars => LossInv'
  BY LossQuery, LossWrite, LossTask, LossClientWrites, LossClientDeletes, LossElsewhere DEF Next

\* A transfer that ends without an error has left at every destination each point
\* there was, except those of the batches whose error was logged
\* (transfer/transfer.go write), unless the query passed over rows it had not read (a
\* boundary moved, a page was cut short, the source refused the statement inside a
\* 200) or the tag keys could not be read; whatever clients write and delete and
\* however often requests fail.
THEOREM LossIsLoggedCorrect == Spec => []LossIsLogged
<1>1. SoundInv /\ LossInv => LossIsLogged
  <2> SUFFICES ASSUME SoundInv, LossInv,
                      result = "done" /\ ~skipped /\ keys["tags"] = "read",
                      NEW d \in Dst, NEW t \in Wanted \ deleted
               PROVE  \/ dst[d][t] # 0
                      \/ \E e \in logged : e.dst = d /\ HasTime(e.rows, t)
    BY DEF LossIsLogged, HasTime
  <2>1. query.pc = "ended" /\ ch = <<>> /\ write = <<>> /\ tasks = {} /\ Len(<<>>) = 0
    BY EmptySeq DEF LossInv, DoneIsIdle
  <2>2. NoExcuse
    BY <2>1 DEF NoExcuse, Failed
  <2>3. ~Coming(t) /\ ~Handed(t)
    BY <2>1 DEF Coming, Handed, HasTime
  <2>4. Reached(d, t)
    BY <2>2, <2>3 DEF LossInv, NotLost, Safe
  <2> QED
    BY <2>1, <2>4 DEF Reached
<1>2. Init => SoundInv /\ LossInv
  BY SoundInit, LossInit
<1>3. SoundInv /\ LossInv /\ [Next]_vars => (SoundInv /\ LossInv)'
  BY SoundStep, LossStep
<1> QED
  BY <1>1, <1>2, <1>3, PTL DEF Spec

=============================================================================
