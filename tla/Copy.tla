--------------------------------- MODULE Copy ---------------------------------
(***************************************************************************)
(* How one measurement is copied: transfer.query reads it from the source   *)
(* page by page, latest points first, while transfer.write puts the pages   *)
(* that come through a channel together into batches and a pool of tasks    *)
(* writes the batches to the destinations (transfer/transfer.go).           *)
(*                                                                          *)
(* A point is its time; src[t] is the version of its value, 0 when there is *)
(* none.  Meanwhile clients write to the source and delete from it, and     *)
(* another operation may set tx.Limit.  The destination takes a batch as a  *)
(* whole; it is told whole points, which is why versions do not mix.        *)
(***************************************************************************)
EXTENDS Naturals, Sequences, FiniteSets, Ranks

CONSTANTS
    Times,        \* how many times there are
    Present,      \* the times of the points the source has at the start
    Tick,         \* the earliest time to copy
    Dst,          \* the destinations
    Limits,       \* values of tx.Limit
    Batch,        \* tx.Batch
    RetryCount,   \* how often a failed request is tried again
    ChanCap,      \* capacity of the channel of pages
    PoolSize,     \* workers of the pool of writes
    MaxChanges    \* bound: what clients and operations do meanwhile

Time == 1..Times
Wanted == {t \in Present : t >= Tick}

ASSUME PointsSound == Times \in Nat /\ Present \subseteq Time /\ Tick \in Nat
ASSUME SizesPositive == Limits \cup {Batch, ChanCap, PoolSize} \subseteq Nat \ {0}
ASSUME BoundsSound == {RetryCount, MaxChanges} \subseteq Nat

VARIABLES
    src,       \* src[t]
    dst,       \* dst[d][t]: what d has with the tags it has at the source
    limit,     \* tx.Limit
    query,     \* the query goroutine: [pc, offset, limit, page, tries]; limit is
               \* the statement's, or the length of a page the source cut short
    ch,        \* the channel of pages; <<>> stands for an error
    keys,      \* tags and fields, from the source: "unread", "read", "failed" or "hung"
    write,     \* the rows of the page that are not yet in a batch
    tasks,     \* the batches being written: [dst, rows, tries]
    result,    \* "none", "done" or "error"
    changes,   \* counts what clients and operations did
    logged,    \* history: the write errors that were logged, [dst, rows]
    skipped,   \* history: the query passed over rows that it had not read
    deleted    \* history: what was deleted at the source meanwhile

vars == <<src, dst, limit, query, ch, keys, write, tasks, result, changes, logged, skipped,
          deleted>>

Row == Time \X (1..(MaxChanges + 1))
Pages == {p \in Seq(Row) : Len(p) <= Times}
Queries == [pc : {"text", "ask", "send", "ended", "hung"}, offset : Nat, limit : Nat \ {0},
            page : Pages, tries : 0..RetryCount]
KeyStates == {"unread", "read", "failed", "hung"}
Tasks == [dst : Dst, rows : Pages, tries : 0..RetryCount]

TypeOK ==
    /\ src \in [Time -> 0..(MaxChanges + 1)]
    /\ dst \in [Dst -> [Time -> 0..(MaxChanges + 1)]]
    /\ limit \in Limits
    /\ query \in Queries
    /\ ch \in Seq(Pages) /\ Len(ch) <= ChanCap
    /\ keys \in [{"tags", "fields"} -> KeyStates]
    /\ write \in Pages
    /\ tasks \subseteq Tasks
    /\ \A b \in tasks : Len(b.rows) \in 1..Batch
    /\ result \in {"none", "done", "error"}
    /\ changes \in 0..MaxChanges
    /\ logged \subseteq [dst : Dst, rows : Pages]
    /\ skipped \in BOOLEAN /\ deleted \subseteq Time

Init ==
    /\ src = [t \in Time |-> IF t \in Present THEN 1 ELSE 0]
    /\ dst = [d \in Dst |-> [t \in Time |-> 0]]
    /\ limit \in Limits
    /\ query = [pc |-> "text", offset |-> 0, limit |-> limit, page |-> <<>>, tries |-> 0]
    /\ ch = <<>>
    /\ keys = [k \in {"tags", "fields"} |-> "unread"]
    /\ write = <<>>
    /\ tasks = {}
    /\ result = "none"
    /\ changes = 0
    /\ logged = {}
    /\ skipped = FALSE
    /\ deleted = {}

-----------------------------------------------------------------------------
(* The query goroutine. *)

\* The rows of a set of times, latest first.
RowsOf(times) ==
    LET row(t) == <<t, src[t]>>
        n == Cardinality(times)
    IN  [i \in 1..n |-> row(Nth(times, n - i + 1))]

\* A mistake: the tick is forgotten.
RowsFromStart == RowsOf({t \in Time : src[t] # 0})

\* The rows from the tick on.
Live == {t \in Time : src[t] # 0 /\ t >= Tick}

Rows == RowsOf(Live)

\* The statement with the page's limit and offset.
QueryText ==
    /\ query.pc = "text"
    /\ query' = [query EXCEPT !.pc = "ask", !.limit = limit, !.tries = 0]
    /\ UNCHANGED <<src, dst, limit, ch, keys, write, tasks, result, changes, logged, skipped, deleted>>

\* The page the statement asks for.
NextPage ==
    LET rest == SubSeq(Rows, query.offset + 1, Len(Rows))
    IN  IF Len(rest) < query.limit THEN rest ELSE SubSeq(rest, 1, query.limit)

\* The source answers with a page; an empty one is the end.
QueryAnswered ==
    /\ query.pc = "ask"
    /\ query' = [query EXCEPT !.pc = IF NextPage = <<>> THEN "ended" ELSE "send",
                              !.page = NextPage]
    /\ UNCHANGED <<src, dst, limit, ch, keys, write, tasks, result, changes, logged, skipped,
                   deleted>>

\* It answers with a part of the page (its max-row-limit): nobody looks at the
\* "partial" of the answer.
QueryCutShort ==
    /\ query.pc = "ask"
    /\ \E n \in 1..(Len(NextPage) - 1) :
          query' = [query EXCEPT !.pc = "send", !.page = SubSeq(NextPage, 1, n), !.limit = n]
    /\ UNCHANGED <<src, dst, limit, ch, keys, write, tasks, result, changes, logged, skipped,
                   deleted>>

\* It answers 200 with an error and no rows, which passes for the empty page: no
\* retry, no error, nothing logged.
QueryRefused ==
    /\ query.pc = "ask"
    /\ query' = [query EXCEPT !.pc = "ended", !.page = <<>>]
    /\ skipped' = (skipped \/ NextPage # <<>>)
    /\ UNCHANGED <<src, dst, limit, ch, keys, write, tasks, result, changes, logged, deleted>>

\* It never answers, and the transport has no timeout for that.
QueryHangs ==
    /\ query.pc = "ask"
    /\ query' = [query EXCEPT !.pc = "hung"]
    /\ UNCHANGED <<src, dst, limit, ch, keys, write, tasks, result, changes, logged, skipped,
                   deleted>>

\* A mistake: the attempts are counted anew.
QueryFailsAlways ==
    /\ query.pc = "ask"
    /\ query' = IF query.tries < RetryCount THEN [query EXCEPT !.tries = @ + 1]
                ELSE [query EXCEPT !.tries = 0]
    /\ UNCHANGED <<src, dst, limit, ch, keys, write, tasks, result, changes, logged, skipped, deleted>>

\* The request fails: the page is asked for again, and in the end an error is sent.
QueryFails ==
    /\ query.pc = "ask"
    /\ query' = IF query.tries < RetryCount THEN [query EXCEPT !.tries = @ + 1]
                ELSE [query EXCEPT !.pc = "send", !.page = <<>>]
    /\ UNCHANGED <<src, dst, limit, ch, keys, write, tasks, result, changes, logged, skipped, deleted>>

\* What it answers cannot be decoded: an error is sent at once.
QueryUnreadable ==
    /\ query.pc = "ask"
    /\ query' = [query EXCEPT !.pc = "send", !.page = <<>>]
    /\ UNCHANGED <<src, dst, limit, ch, keys, write, tasks, result, changes, logged, skipped, deleted>>

\* The page goes into the channel, and the offset on by tx.Limit, read once more.
SendPage ==
    LET next == query.offset + (IF query.page = <<>> THEN 0 ELSE limit)
    IN  /\ query.pc = "send" /\ Len(ch) < ChanCap
        /\ ch' = Append(ch, query.page)
        /\ query' = [query EXCEPT !.pc = IF query.page = <<>> THEN "ended" ELSE "text",
                                  !.offset = next]
        /\ skipped' = (skipped \/ next > query.offset + query.limit)
        /\ UNCHANGED <<src, dst, limit, keys, write, tasks, result, changes, logged, deleted>>

-----------------------------------------------------------------------------
(* The keys, read at the same time; write begins when both are there. *)

\* GetTagKeys or GetFieldKeys: an error, inside a 200 too, leaves the answer empty.
ReadKeys(k, st) ==
    /\ keys[k] = "unread" /\ st # "unread"
    /\ keys' = [keys EXCEPT ![k] = st]
    /\ UNCHANGED <<src, dst, limit, query, ch, write, tasks, result, changes, logged, skipped, deleted>>

Writing == result = "none" /\ \A k \in DOMAIN keys : keys[k] \in {"read", "failed"}

ReceivePage ==
    /\ Writing /\ write = <<>> /\ ch # <<>>
    /\ ch' = Tail(ch)
    /\ write' = Head(ch)
    /\ result' = IF Head(ch) = <<>> THEN "error" ELSE result
    /\ UNCHANGED <<src, dst, limit, query, keys, tasks, changes, logged, skipped, deleted>>

\* The next batch of the page goes to a task for every destination, once the pool
\* has workers for them all; what the batch's earlier tasks do before that, they do
\* after it here.
SubmitBatch ==
    LET size == IF Len(write) < Batch THEN Len(write) ELSE Batch
        rows == SubSeq(write, 1, size)
    IN  /\ Writing /\ write # <<>>
        /\ Cardinality(tasks) + Cardinality(Dst) <= PoolSize
        /\ tasks' = tasks \cup {[dst |-> d, rows |-> rows, tries |-> 0] : d \in Dst}
        /\ write' = SubSeq(write, size + 1, Len(write))
        /\ UNCHANGED <<src, dst, limit, query, ch, keys, result, changes, logged, skipped, deleted>>

\* The destination takes a batch.  Without the tag keys the points become those
\* of another series.
Stored(b) ==
    dst' = IF keys["tags"] # "read" THEN dst
           ELSE [dst EXCEPT ![b.dst] =
                    [t \in Time |-> IF \E i \in 1..Len(b.rows) : b.rows[i][1] = t
                                    THEN b.rows[CHOOSE i \in 1..Len(b.rows) : b.rows[i][1] = t][2]
                                    ELSE @[t]]]

\* Without the field keys no line has a field, and no batch is taken.
TaskWrites(b) ==
    /\ keys["fields"] = "read"
    /\ Stored(b)
    /\ tasks' = tasks \ {b}
    /\ UNCHANGED <<src, limit, query, ch, keys, write, result, changes, logged, skipped, deleted>>

\* A mistake: it is tried again for ever.
TaskFailsAgain(b) ==
    /\ dst' = dst \/ (keys["fields"] = "read" /\ Stored(b))
    /\ tasks' = (tasks \ {b}) \cup {[b EXCEPT !.tries = @ + 1]}
    /\ UNCHANGED <<src, limit, query, ch, keys, write, result, changes, logged, skipped, deleted>>

\* The request fails, though the destination may have taken the batch.  After
\* the last attempt the error is logged, and that is all.
TaskFails(b) ==
    /\ dst' = dst \/ (keys["fields"] = "read" /\ Stored(b))
    /\ IF b.tries < RetryCount
       THEN /\ tasks' = (tasks \ {b}) \cup {[b EXCEPT !.tries = @ + 1]}
            /\ logged' = logged
       ELSE /\ tasks' = tasks \ {b}
            /\ logged' = logged \cup {[dst |-> b.dst, rows |-> b.rows]}
    /\ UNCHANGED <<src, limit, query, ch, keys, write, result, changes, skipped, deleted>>

\* A mistake: write does not wait for its tasks.
WriteReturns ==
    /\ Writing /\ write = <<>> /\ ch = <<>> /\ query.pc = "ended"
    /\ result' = "done"
    /\ UNCHANGED <<src, dst, limit, query, ch, keys, write, tasks, changes, logged, skipped, deleted>>

\* The channel is closed and empty, and the wait group's count is zero.
WriteEnds ==
    /\ Writing /\ write = <<>> /\ ch = <<>> /\ query.pc = "ended"
    /\ tasks = {}
    /\ result' = "done"
    /\ UNCHANGED <<src, dst, limit, query, ch, keys, write, tasks, changes, logged, skipped, deleted>>

-----------------------------------------------------------------------------
(* Meanwhile. *)

Changes == result = "none" /\ changes < MaxChanges /\ changes' = changes + 1

ClientWrites(t) ==
    /\ Changes
    /\ src' = [src EXCEPT ![t] = changes + 2]
    /\ UNCHANGED <<dst, limit, query, ch, keys, write, tasks, result, logged, skipped, deleted>>

\* Where t was read already, the rows behind it move over the page boundary.
ClientDeletes(t) ==
    LET read == query.offset + (IF query.pc = "send" THEN Len(query.page) ELSE 0)
    IN  /\ Changes
        /\ src[t] # 0
        /\ src' = [src EXCEPT ![t] = 0]
        /\ deleted' = deleted \cup {t}
        /\ skipped' = (skipped \/ \E i \in 1..Len(Rows) : i <= read /\ Rows[i][1] = t)
        /\ UNCHANGED <<dst, limit, query, ch, keys, write, tasks, result, logged>>

\* setLimit of another operation's request, or resetBasicParam at its end.
SetLimit(n) ==
    /\ Changes
    /\ limit' = n
    /\ UNCHANGED <<src, dst, query, ch, keys, write, tasks, result, logged, skipped, deleted>>

-----------------------------------------------------------------------------
QueryStep ==
    \/ QueryText
    \/ QueryAnswered \/ QueryCutShort \/ QueryRefused
    \/ QueryFails \/ QueryUnreadable \/ QueryHangs
    \/ SendPage
WriteStep == ReceivePage \/ SubmitBatch \/ WriteEnds
TaskStep == \E b \in tasks : TaskWrites(b) \/ TaskFails(b)

Next ==
    \/ QueryStep
    \/ WriteStep
    \/ \E k \in DOMAIN keys, st \in KeyStates : ReadKeys(k, st)
    \/ TaskStep
    \/ \E t \in Time : ClientWrites(t) \/ ClientDeletes(t)
    \/ \E n \in Limits : SetLimit(n)

\* The goroutines go on.  A write has an answer or a timeout.  A request to the
\* source has no timeout: it may hang, and then its goroutine has no further step.
Fairness ==
    /\ WF_vars(QueryStep)
    /\ WF_vars(WriteStep)
    /\ \A k \in {"tags", "fields"} : WF_vars(\E st \in KeyStates : ReadKeys(k, st))
    /\ WF_vars(TaskStep)

Spec == Init /\ [][Next]_vars /\ Fairness

-----------------------------------------------------------------------------
\* What a destination has was at the source, from the tick on; and a value is
\* never older than the source's at the start.  Deleted points may come back.
NothingInvented ==
    \A d \in Dst, t \in Time :
        dst[d][t] # 0 => /\ t >= Tick
                         /\ src[t] # 0 => dst[d][t] <= src[t]

\* A loss is confined to the rows of the batches whose errors were logged, as long
\* as the query has not passed over rows it had not read.  It does so without a word
\* when a boundary moves over them (tx.Limit grows, a point is deleted), when the
\* source cuts a page short, and when it refuses the statement inside a 200.
LossIsLogged ==
    result = "done" /\ ~skipped /\ keys["tags"] = "read" =>
        \A d \in Dst, t \in Wanted \ deleted :
            \/ dst[d][t] # 0
            \/ \E e \in logged : e.dst = d /\ \E i \in 1..Len(e.rows) : e.rows[i][1] = t

\* A request to the source was never answered.
Hung == query.pc = "hung" \/ \E k \in DOMAIN keys : keys[k] = "hung"

\* A transfer ends, with or without an error, unless the source leaves a request
\* unanswered: failing requests, retries and full channels do not hold it.
TransferEnds == <>(result # "none" \/ Hung)

=============================================================================
