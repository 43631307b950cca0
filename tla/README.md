# InfluxDB Proxy in TLA+

A TLA+ model of InfluxDB Proxy: what it keeps, what its goroutines do to it, and
what must hold whatever the order they run in, whatever the servers answer and
wherever the process dies. TLC checks small instances; TLAPS proves the theorems
at the end of this page for every value of the constants. Source paths are
relative to the repository.

## The system

A proxy forwards writes to every *circle* and queries to one of them. A circle is
a set of InfluxDB backends; a consistent-hash ring over a circle's backends picks
the one that stores a measurement of a database. A backend that cannot be reached
gets its batches later: they are kept in a file and replayed. Tools move data
between backends and circles while all this runs.

| component | state | operations | talks to |
|---|---|---|---|
| disk queue, `backend/file.go` | `<name>.dat`, `<name>.rec`, the consumer's offset, `dataflag`, a mutex | `Write`, `Read`, `IsData`, `RollbackMeta`, `UpdateMeta`, `CleanUp`, opening | the pool tasks append, the rewriter reads |
| delivery, `backend/backend.go` 150-285 | pool, `rewriting` | `FlushBuffer`'s task, `RewriteIdle`, `RewriteLoop`, `Rewrite` | disk queue, HTTP client |
| write buffering, `backend/backend.go` 70-208, 291-295 | `chWrite`, `buffers`, `chTimer`, `running`, `wg` | `WritePoint`, `worker`, `WriteBuffer`, `FlushBuffer`, `Flush`, `Close` | called by handlers; submits to the pool |
| HTTP client, `backend/http.go` | `active`, `rewriting`, `transferIn`, `writeOnly` | `CheckActive`, `WriteStream`, `Query`, ... | InfluxDB |
| circle, `backend/circle.go` | ring, `routerCache`, backends | `GetBackend`, `SetTransferIn`, `IsActive` | proxy, transfer |
| proxy, `backend/proxy.go` | circles, database white list | `Write`, `WriteRow`, `WritePoints`, `Query`, `Close` | circles |
| executor, `backend/executor.go`, `result.go` | none | two-pass query, parallel query, reduction of answers | backends' flags |
| InfluxQL and Flux, `influxql.go`, `flux.go` | none | token analysis that picks the executor's operation | proxy |
| line protocol, `lineproto.go` | none | `ScanKey`, `ScanTime`, `AppendNano`, `RapidCheck` | proxy |
| transfer, `transfer/` | `pool`, `Worker`, `Batch`, `Limit`, `Resyncing`, per circle `Transferring`, `Stats`, `wg` | `Rebalance`, `Recovery`, `Resync`, `Cleanup`, broadcasts | circles, InfluxDB, other proxies |
| service, `service/http.go` | none of its own | handlers; guards and parameters of the transfers | all of the above |
| configuration, utilities, prometheus types, `main.go` | none at run time | | |

What is hard in it, and what makes each part correct:

* **Disk queue and delivery.** Appending is two system calls, reading takes no
  lock, truncation and the saved offset are two files, and posts fail before or
  after the server applied them. Correct means: a spilled batch is delivered or
  given up on or still to come (`NoLoss`), in file order (`ReplayInOrder`), not
  again once recorded (`NoReplayAfterConfirm`), and in the end
  (`BacklogDrains`); the flag that starts the rewriter is never down over unread
  data (`FlagUpWhilePending`); the reader never meets half a frame
  (`ReaderBehindWriter`).
* **Write buffering.** One worker, one timer for all buffers, a bounded channel
  in front and a bounded pool behind, and a `Close` that races with senders.
  Correct means: nothing lost, doubled or reordered up to the pool
  (`PointsInOrder`), nothing left in a buffer without a timer (`TimerArmed`),
  everything flushed in the end (`EveryPointSubmitted`).
* **Routing and fan-out.** Handlers fill one cache at once, wait at full channels
  one circle after the other, and meet a `Close` between the test and the send.
  Correct means: the cache is the ring (`RouteIsRing`), every circle gets every
  point (`Replicated`) at its home, once and in order (`HandedHome`), and a request
  ends (`RequestsEnd`).
* **Queries.** Flags are read once per pass and change between the passes and
  the request. Correct means: no answer from a backend that lacks data while
  another has it (`PrefersFit`); no "unavailable" while one is available
  (`FailoverWorks`).
* **Transfers.** Check-then-act guards, one pool and one set of parameters for
  all operations, flags lowered by whoever ends first, pages cut by offset from
  data that changes. Correct means: a circle is not queried while it is filled, an
  operation ends, what a copy loses is in the log or is one of the silent losses that
  `LossIsLogged` names, and cleanup
  drops nothing that has not been copied (`OperationsKeepData`).
* **Analysis and merging.** Pure functions with scanners of their own for the same
  names. Correct means: a query goes where the points went (`RoutesAgree`), a line
  is written or dropped but never keeps its handler (`EveryLineEnds`), a time stays
  what it was (`PointIsWritten`), and the reduced answer is whole whichever backend
  answers first (`ShowIsWhole`).

## Modules

| module | models |
|---|---|
| `FileBackend` | `file.go`: the queue's files and its operations, as action operators |
| `Backlog` | extends it with pool tasks, rewriter, network outcomes, `CheckActive`, crash and restart |
| `BacklogSpec` | the abstract queue `Backlog` implements: first in first out, at least once |
| `WriteBuffer` | `WritePoint`, channel, worker, buffers, timer, pool slots, `Close` |
| `Executor` | `executor.go`: the two passes of a query, statements for all backends, while flags change |
| `Merge` | the reductions of `executor.go`: many answers to a show become one |
| `Transfer` | the four operations of `transfer.go`, their handlers' guards, tasks, pool, wait groups, flags and broadcasts |
| `Moves` | what each of these operations copies or drops, and where to |
| `Copy` | one task of a transfer: `query`, `write` and its pool, while the source changes |
| `Proxy` | configuration, ring and cache of `circle.go`, the handlers of `proxy.go` over the circles, `Close` |
| `LineProto` | `lineproto.go`, the cutting of a body into lines, `WriteRow` |
| `InfluxQL` | `influxql.go` and the dispatch of `Proxy.Query` |
| `Text` | what the last two need to speak of text |
| `Ranks` | the order of a finite set of numbers: the frames of a file, the rows of a page |
| `MCBacklog`, `MCWriteBuffer`, `MCExecutor`, `MCTransfer`, `MCCopy`, `MCProxy`, `MCAnalysis` | the instances TLC checks |
| `BacklogProofs` | theorems about `Backlog`: what holds under every fault of the model; order, loss and refinement |
| `WriteBufferProofs`, `ExecutorProofs`, `TransferProofs`, `CopyProofs`, `ProxyProofs` | theorems about the modules they are named after |
| `AnalysisProofs` | theorems about `LineProto`, `InfluxQL` and `Merge`, and what they say of the inputs of `MCAnalysis` |
| `OperatorProofs` | lemmas about `Ranks` and `Text` that several of these share, and theorems about `Moves` |

`FileBackend` and `Backlog` are composed, and so are the pure modules in
`MCAnalysis`: the measurement `LineProto` finds in a point and the one `InfluxQL`
finds in a query are compared through the key that both route by. What the others
share is kept on the boundary. A point goes from `LineProto` to `Proxy` to
`WriteBuffer` to `Backlog`: `Proxy` ends behind the channel `WriteBuffer` reads, and
`WriteBuffer` where a batch is submitted, where `Backlog` begins. The flags
`Executor` reads change as `Backlog`'s ping and rewriter and `Transfer`'s flags would
change them, and at other times too. A task of `Transfer` is a run of `Copy`, and
which tasks there are is in `Moves`.

### FileBackend and Backlog

The file is a sequence of cells. Batch `b` takes `1 + Size[b]` of them: the
length and the pieces of its payload, so that an offset inside a frame reads
payload for a length as it would in the file. `meta` is what `.rec` holds and
`Empty` while nothing was ever written to it. The mutex is held over two steps in
`Write` (length, payload) and in `UpdateMeta` (truncate, write `.rec`), because a
crash or another goroutine's unlocked read can fall between the two; `lock` says
by whom. A `Write` that fails or is killed leaves any part of its payload in the file
(`WritePayload`, `Leavings`): a full disk cuts it short, and nothing takes the part
back. The four bytes of the length are taken to reach the file together or not at all.

The actions follow the goroutines:

* pool task of `b`: `Submit` (the pool has a free worker), `TaskCheck`
  (`IsActive`), `TaskPost`, `TaskWriteLength`, `TaskWritePayload`;
* rewriter: `RewriteIdle` (the worker's tick starts it), `RewriteLoop`,
  `RewriteReadLength`, `RewriteReadPayload`, `RewritePost`, then `RewriteRollback`
  or `RewriteUpdateBegin` and `RewriteUpdateEnd`, and `RewriteLoopExit`;
* `CheckActive`, and `ServerChanges` for the server itself;
* `Crash`, which is also the restart: memory is gone, the files stay, and
  `NewFileBackend` opens them.

A post ends in one of five ways: 204, given up (400, 404, unknown retention
policy), another status, a transport error with nothing applied, and a transport
error after the server applied the batch.

`delivered`, `rejected`, `accepted`, `exposed` and `confirmed` are history
variables: what the server applied, what was given up, what `Write` returned nil
for, which of these lie behind a torn frame, and which replays are recorded.

Left out: sleeping (it changes no state), `Close` of the files, errors of `Seek`, and
`CleanUp`'s own errors (`backend/file.go:191-210`: truncating, closing, reopening). A
failed truncation would leave the consumer at 0 with the flag up, and recorded batches
would be posted again; nothing below is claimed of it. The write of `.rec` may fail.
Left out too is what the garbage read at a wrong offset contains (it
is posted or skipped, nondeterministically).

### WriteBuffer

A handler's `WritePoint` is `Check` and `Send` (or `SendOnClosed`, the panic). The
worker loops through `Top` (the loop's test) and one of `Receive`, `OnClosed`,
`OnTimer`; `FlushFull` and `FlushNext` are `FlushBuffer` waiting in `Submit`.
`FlushEnd` and `Drained` are the ways on and out. `sent` and `batches` are history
variables. The third case of the select, the rewrite tick, touches none of this
and is in `Backlog`.

### Executor

One request: `select` and `stream` (Flux and Prometheus, whose body is the client's)
go through the two passes of `query`, `show` through `QueryInParallel`, `alter`
through `QueryBackends` and then `QueryInParallel`. A look at a backend is three
reads, `LookActive`, `LookRewriting` and `LookWriteOnly`; between any two of them
`SetActive`, `SetRewriting` and `SetTransferIn` may change a flag. `AskAnswered`
and `AskFails` are the request; `PassEnds` is the step to the second pass or to the
last error. For all backends at once: `Verify`, `Verified`, then `Spawn` and
`Spawned` for the goroutines, `Reply`, `CollectError`, `Collected`; `ClientLeaves`
cancels their context, which the clones share. What counts as an answer is what
`HttpBackend.Query` takes for one (`Taken`): besides a statement that was executed
(`ok`), an error that the server reports inside a 200, or any status sent for a
`stream` (`refused`: `backend/http.go:390`, 306, 336), and the empty body of a
parallel request whose context is cancelled (`cancelled`, lines 361 to 366), which a
show then fails to decode and `QueryBackends` hands on. History:
`steady`, the backends whose flags have not changed since the start, and
`executed`, those whose server executed the request. `body` is what is left of the
body of a `stream`: a backend that fails may have used it up, and then every further
request fails before it is sent. Described as the code does it, and not claimed to
be right: that, and that a statement for all backends silently leaves out one that
goes down between the test and the spawning loop (with all of them down, `bodies[0]`
at `executor.go:175` indexes an empty slice, result `panic`). `FailoverWorks` and
`DoneIsDone` say what is left; the second excepts by name what the code cannot tell
from done: a refused statement, and one whose client has left. A backend that never answers is not modelled: queries
have no timeout (`backend/http.go:91`), and no progress is claimed.

`Merge` takes the answers in the order they came in. Where the code walks over a Go
map, the result is a set. What `json` does is left out; a body is the series it
decodes to. `ValuesAreWhole`, `SeriesAreWhole` and `PoliciesAreWhole` say what a
reduction promises of whatever it is given; `ShowIsWhole` checks them on the answers
of two circles and adds which of those answers are enough.

### Transfer

An operation goes through `Accept` (the handler finds the flags down), `NothingToDo`
or `NewPool`, `Raise`, `Tell` or `TellFails` per peer, `Spawn`, `Lower` once the wait
group is zero, `Tell` again, and `Release`. A resync repeats `Spawn` by
`NextCircle`. `Submit`, `Start`, `SubmitFails` and `TaskEnds` are a task's life and
`MoverEnds` is a mover's. The pool is external (`ants`): it runs at most `Worker`
tasks and refuses after `Release`; a `Submit` that waits while it is released is
taken to fail like one that comes later. A pool is named by the operation that
made it, and `owned` is the pool the deferred call is for, since Go evaluates
`tx.pool` at the `defer`. `up[p]` is the set of flags that are up at a proxy.

`heard` and `met` are history: where the operation raised its flag and has not
lowered it, and which operations ran at the same time. Left out here: what tasks
read and write (`Moves`, `Copy`), statistics, the databases that are created first, flags that an
administrator sets by hand, a broadcast that arrives after its sender gave up on
it, a `WaitGroup` used again while an earlier `Wait` is still returning, and a
restart of a proxy.

### Moves and Copy

`Moves` has one operator per operation: from what each backend has and which are
active, to what each has afterwards. It takes the tasks as done; how a task may fail
is in `Copy`. A measurement away from its home is moved by `Rebalance`, copied by
`Recovery` and `Resync`, and dropped by `Cleanup`, which does not ask whether the home
has it. `Resync` goes through the circles one after the other (`ResyncFrom` is one's
turn), so that what the first gives the second is there when the second's turn comes.
A backend that is being removed has data and no key; only the rebalance it is named to
goes through it, and a cleanup leaves it what it has. What the operations promise of any
placement stands in the module too: `CleanupIsSafe`, `RecoveryIsWhole`, `ResyncIsWhole`;
`OperationsKeepData` is the three of them.

`Copy` is one measurement of one retention policy. The query goroutine goes through
`QueryText` (it reads `tx.Limit`), what becomes of the request, and `SendPage` (it
reads `tx.Limit` again, for the offset). The source answers with the page
(`QueryAnswered`) or with a part of it, where it has a limit of its own
(`QueryCutShort`); the request fails and is repeated (`QueryFails`), or its answer
cannot be decoded (`QueryUnreadable`); the source refuses the statement inside a 200,
which `SeriesFromResponseBytes` turns into no series, and `query` takes that for the
empty last page (`QueryRefused`, `transfer.go:298-305`); or it never answers
(`QueryHangs`). `ReadKeys` are the two goroutines that read
tag and field keys. Then `ReceivePage`, `SubmitBatch` and `WriteEnds` are `write`, and
`TaskWrites` and `TaskFails` its pool tasks; a failing task may have been applied.
Meanwhile `ClientWrites`, `ClientDeletes` and `SetLimit` change what is copied and how.
An error page makes `write` return at once; tasks that are still there go on.
A point is its time and the version of its value. `skipped` says that the query passed
over rows it had not read: a boundary moved (by a delete, or because the limit grew
between its two reads), the page was cut short and the offset went on by all of
`tx.Limit`, or the statement was refused. Such rows are not copied, the copy is reported
done, and nobody is told: `LossIsLogged` excepts them. `logged` are the errors
written to the log. Left out: writes of clients at the destination, retention policies
(a failing `GetRetentionPolicies` or `GetMeasurements` is taken for an empty answer and
yields no tasks), and the conversion of values to lines. Two batches of equal rows
count as one, and `tx.Batch` does not change.

### Proxy

A configuration is the `hash_key`, the urls, and a ring per circle: any function from
keys to the labels `addRouter` gave it. Backends with one label share a place, and the
last added has it, as in the map `mapToBackend`. A handler goes for each point of its
request through `Load` (the cache) and, where that has nothing, `Route` (the ring, and
into the cache) for each circle, then `Check` and `Send` or `SendOnClosed` for each
backend found. A request of kind `replica` only looks. `Receive` is the backend's worker, which
may leave its loop with points in the channel once `running` is false,
and `CloseStop` and `CloseChannel` are `Proxy.Close` at one backend after the other (no
code path calls it: the model does, at any time). The ring itself
(`stathat.com/c/consistent`) is not modelled: it answers with one of the labels it was
given, always the same for a key. `handed` is history.

### LineProto and InfluxQL

Text is a sequence of symbols. `LineProto` takes characters one by one, since what it
does is scanning; `Base`, `Width`, `Zeros` and `Multiplier` stand for ten, 64 and the
nanoseconds of the precisions, so that a small instance reaches the limits of an
`int64`. `WriteRow` is what becomes of a line: written, dropped, or the handler panics
or hangs; `LineEnds` says that it is one of the first two. A zero byte is a character
of its own, which `ScanTime` takes for part of a time. In `InfluxQL` a run of characters that no scanner looks into is one symbol.
`Query` is `Proxy.Query`: refused, to the backends of a key one after the other (`one`)
or all (`each`), or to all backends (`show`, `all`).

Described as the code does it, without a property that says otherwise: a time beyond an
`int64` wraps around for the precisions `m` and `h` and gets its zeros appended for the
others; a negative time is not recognised as one, and the clock's is added; `RapidCheck`
is given the rest of the line behind as many bytes as the unescaped measurement has; a
measurement with a backslash in its name is routed differently when written and when
queried, which is why `RoutesAgree` is about names without; a statement without a token
(";") or with a backslash at its end inside quotes panics in its handler, which the
HTTP server recovers; an error of the scanner ends the statement where it stands. The
test that a subquery has more than 16 characters is left out (a select with a field and
a source has), and names in parentheses are not among the inputs.

## Runs

| run | instance | checks |
|---|---|---|
| `MCBacklog` | three batches with payloads of one and two cells, two pool workers, one crash, `.rec` written before; crashes outside the two unsafe windows, failing `.rec` writes | whole frames for the reader, nothing recorded is replayed, and that the backlog implements `BacklogSpec` |
| `MCBacklogFaults` | the same with failing appends and syncs and a crash inside `Write`, of which any part of the payload stays in the file | the inductive invariant `IInv` (types among its conjuncts), and what holds in spite of torn frames: no loss but behind a torn frame, order, and the flag |
| `MCBacklogLive` | two batches, fairness | `BacklogDrains`, `RewritingEnds` |
| `MCBacklogFresh` | new data directory, two batches, no crash, no fault | violates `NoLoss` (see below) |
| `MCBacklogTruncated` | a crash between truncation and the write of `.rec` | violates `NoLoss` (see below) |
| `MCWriteBuffer` | four points of two keys, channel of one, batches of two, one pool worker, `Close` at any time | order, timer, shutdown, progress |
| `MCExecutor` | three backends, the third configured write-only, every initial flag, two flag changes, all kinds of requests | that no steady backend is missed, that one that is behind is the last resort, and what "unavailable" and done mean, with answers that only look like one and a client that leaves |
| `MCTransfer` | two operations, two proxies, two circles, six kinds of jobs, one mover, two tasks each, a pool of one worker, lossy broadcasts, fairness | wait groups, flags, exclusion, and that an operation alone on its proxy ends |
| `MCTransferOverlap` | rebalances of two circles on one proxy, no broadcast lost | violates `EveryOperationEnds` (see below) |
| `MCProxy` | two handlers, two circles of two backends, two keys, hashing by index and by url with one url configured twice, channels of one, `Close` at any time, fairness | cache, fan-out, order, and that requests end |
| `MCCopy` | three points and a free time, a tick that leaves one out, one destination, limits 1 and 3, batches of two, one retry, a channel of one, two changes by clients or operations, fairness | what a copy may lose, that it makes nothing up, that it ends unless the source leaves a request unanswered |
| `MCAnalysis` | every state is one of 162,681 inputs: lines, points, bodies, statements, answers to shows, placements of data | the pure parts against what they promise |

**Bounds.** Three batches are enough for one to be saved, one in the rewriter's
hands and one being appended at the same time, for a rollback over more than one
frame, and for an append after a truncation; payloads of different lengths make
offsets of one batch wrong for another, and one of two cells can be cut in its middle.
The two batches of one size are interchangeable, which `MCBacklogFaults` uses as a
symmetry (it checks invariants only). Two pool workers make appends wait for
each other. One crash reaches every window once; an inductive invariant (below)
covers any number. Batches of two points and a channel of one make every wait in
`WriteBuffer` happen: for room in the channel, for a pool worker, for the timer.

In `Executor`, two flag changes are one between the passes and one within a look,
and three backends let one fail, one change and one stay; the two that are
configured alike are symmetric. In `Transfer`, two operations are what a clash, a
replaced pool, a shared wait group or a lost broadcast takes; their jobs include
pairs with the same flag, with one wait group and different flags (recovery from
a circle that is rebalanced), and on different proxies. A worker that is busy
makes the other operation's task wait; one mover per operation keeps the liveness
check small, and the theorems hold for any number.

In `Proxy`, two handlers fill the cache for one key at once, their points meet in one
channel or in two, and a send waits while the backend is closed; the theorems hold for
any number. In `Copy`, a limit of 1 makes three pages and one of 3 makes one, so that
the offset can jump over rows or fall behind; two changes are a delete and a change of
the limit, or a write and a delete; with one destination tasks still overlap, since the
pool takes two. In `MCAnalysis`, lines are all of up to five characters out of seven;
names have up to three symbols, with every one that a scanner looks for; integers
have 20 bits, so that the coarse precisions overflow and the fine ones do not; the forms
of statements are those of the supported commands and some that are not, with database
and policy given or not, quoted or not, and subqueries of depth two; answers are those of
two circles of two backends, in every order and with some missing as long as one circle
is whole; placements are all of two keys over four backends with at most one down.

The bounds on behaviours are `MaxCrashes`, `MaxChanges` (flag changes; in `Copy` what
clients and operations do) and `MaxTasks` (tasks of an operation); the numbers of
batches, points, requests and operations are constants of each model.

**Fairness.** `Backlog`: a pool task or a rewriter that can run does, and pings are
repeated, which is goroutine scheduling and `time.Sleep`. Nothing makes a server
recover or a client send, so `BacklogDrains` and `RewritingEnds` assume that the
server is healthy from some point on. `WriteBuffer`: the worker runs, each case of
its select that stays ready is taken in the end (Go picks at random), a timer
comes due, tasks end (the client has a timeout, file writes end), and `Close`,
once begun, goes on. No fairness on the handlers. `Transfer`: goroutines run, broadcasts
end (the client has a timeout of ten seconds), a mover ends (a circle has finitely
many measurements), and a task or a waiting `Submit` that can go on does. That
tasks end assumes that backends answer: the requests of a copy have no timeout.
No fairness on requests, nor on `Submit`: a mover need not have anything to move.
`Proxy`: a handler that can go on does, strongly fair, because a channel with room is
given to waiting senders in turn; a backend's worker comes back to its channel as long as
the backend is running, and a `Close` that has begun goes on, both weakly fair. That the
worker comes back is `EveryPointSubmitted`'s business in `WriteBuffer`. `Copy`:
the goroutines go on, and a write has an answer or a timeout. The requests to the source
go through a transport without a timeout for the answer (`backend/http.go:91`), so they
may hang: fairness then asks nothing, and `TransferEnds` says that a copy ends or waits
for such a request. Clients and other operations owe nothing.

**Deadlock** is checked everywhere but in `MCWriteBuffer`, whose system ends when
all points are written and the backend is closed, in the runs of `Transfer`, where it
ends with the operations, in `MCProxy`, where it ends with the requests, and in `MCCopy`,
where it ends with the copy.

### What the violated runs show

`README.md:37` of the repository says "Cache data to file when write failed, then
rewrite."

* `MCBacklogFresh`: `RollbackMeta` returns `io.EOF` when `.rec` is empty and does not
  move the consumer (`backend/file.go:127`). Spill two batches in a new data
  directory, let the replay of the first fail and that of the second succeed:
  `UpdateMeta` finds the consumer at the end and truncates the file, with the
  first batch never delivered. After the first successful replay `.rec` is never
  empty again, which is why the other runs assume it is not.
* `MCBacklogTruncated`: `UpdateMeta` truncates `.dat` before it writes 0 to `.rec`
  (`backend/file.go:159`). A crash in between, after an earlier replay was
  recorded, leaves an offset beyond the end of the file; what is appended below
  it is never read.
* `MCTransferOverlap`: `README.md:40` of the repository says "Support tools to
  rebalance, recovery, resync and cleanup", and the handlers refuse operations per
  circle, so two circles can be rebalanced at once (the run has `o1` rebalance `c1` and
  `o2` rebalance `c2`). Both use `tx.pool`, and where both have made one before either
  defers its release, both release the one made last. A task of the other is refused,
  `Submit`'s error is ignored (`transfer/transfer.go:338`), `Done` is never called,
  and the operation waits for ever with its circle marked as transferring, which no
  query goes to any more and no operation is accepted for. `EndsUnlessOverlapped`
  in `MCTransfer` is what is left of the promise.

## Proofs

What follows holds for any values of the constants: batches, payload sizes, points,
keys, circles, backends, pool sizes, numbers of crashes, lines of text.

**Backlog.** Two invariants, since the faults spoil one part and not the other.

* `Bookkeeping` holds under every fault of the model (`AllFaults`), torn frames, a fresh
  data directory and the crash in the truncation window included (`BookkeepingCorrect`);
  `CleanUp`'s own errors are not among them. It says which batch stands
  where: a batch has one length in the file (`WrittenOnce`), the rewriter holds the batch
  of the frame that ends at the consumer (`InHand`), a recorded frame lies behind the
  saved offset and the consumer (`ConfirmedIsPassed`), the flag is up ahead of accepted
  frames (`FlagRaised`), and the lock and the cell read for a length are as the rewriter
  left them (`LockHolder`, `LengthRead`). From it: nothing recorded is posted again
  (`NoReplayAfterConfirmCorrect`), for which a rollback must not go behind a recorded
  frame and an emptied file must not bring one back; and the flag is never down over
  accepted data (`FlagUpWhilePendingCorrect`).
* `IInv` adds that replay passes the file frame by frame. It needs `RecSound`: `.rec` was
  written before and no crash falls between the truncation and the write of `.rec`. The
  two violated runs of `Backlog` are what happens without. Torn frames are
  allowed, a length followed by any part of its payload (`TornAfter`): replay is
  `Orderly` until it meets one and `Astray` afterwards, when nothing unsettled is left
  before it. `NoLoss` is not inductive: that a batch is behind the
  consumer says nothing unless everything the consumer passed is settled
  (`PassedIsSettled`), which needs that the saved offset and the consumer are frame
  boundaries (`SavedOffset`, `Consumer`, `Framed`) and that a raised flag means a whole
  frame at the consumer (`Flag`). TLC checks `IInv` in `MCBacklogFaults`; `IInvCorrect`
  proves it, and `NoLossCorrect` and `ReplayInOrderCorrect` follow. Both properties except
  what lies behind a torn frame (`exposed`), because replay does lose it.
* Without torn frames (`Undamaged`): the reader without a lock finds a whole frame
  (`ReaderBehindWriterCorrect`), and the backlog implements `BacklogSpec`
  (`ImplementsQueueCorrect`). The queue it implements is the batches of the frames from
  the saved offset on, in their order in the file (`Held`, by `Nth` of `Ranks`): an append
  adds one at the end, recording a replay takes off those before the new offset, and all
  else, rollbacks and crashes included, leaves it alone or posts what is held.

**WriteBuffer.** `TimerInv` and types first: a buffer is a run of points of its key.
`PointsInOrderCorrect` is about one sequence per key, the submitted batches, the buffer,
the channel and the senders in turn; each step hands a stretch of it from one place to
the next, which takes lemmas about what `FlattenSeq` does to a sequence that grows at its
end. `DrainedIsEmptyCorrect` adds that a worker past its last flush has stopped, with
empty buffers and, past `wg.Wait`, without tasks (`StoppedInv`): all it had received is
submitted, and only what the channel still holds is not. Of a worker that the test of its
loop stopped it says nothing.

**Executor.** `EInv` is types and what holds on the way: the backend in hand is
one the loop has come to (`CurInv`), a steady backend the loop has left behind was asked,
and failed, in the pass its flags belong to, as long as there is a body to ask with
(`SelectInv`), and which goroutines have been started, which have replied, and that
nothing counts as cancelled before the client has left or the request has returned
(`ParallelInv`). From it `FailoverWorks`, `PrefersFit`, `UnavailableHasNoEffect` and
`DoneIsDone`.

**Merge.** For any answers in any order, a show has exactly one row or one series for each
key that some answer has (`ValuesAreWholeCorrect`, `SeriesAreWholeCorrect`), and a show of
policies is the first answer and one row for each key it lacks (`PoliciesAreWholeCorrect`),
since attaching row by row keeps the keys apart at every row. `ShowIsWholeCorrect` adds
where the answers come from: when all backends of one circle are among them, every
measurement there is is in one of them, so the reduced answer has it once.

**Proxy.** `PInv` is types, `RouteIsRing`, where a handler stands (`Place`),
that what was handed over is what a handler is past (`Ordered`), so that the next point
comes behind all that its request handed over before, and that what a handler is past was
handed over (`Kept`), of which `Replicated` is the part for finished points.

**Line protocol.** Of any characters, any length, any base up to ten and any width:

* `LineEndsCorrect`: a line is written or dropped. The argument is about the last
  character: every result of `AppendNano` ends in a digit, so that `ScanKey`, which looks
  one character ahead of a backslash, never looks beyond the end, and `RapidCheck`, which
  does not get past a blank at the end of a line, never finds one there.
* `PointIsKeptCorrect`: a well-formed point (`IsPoint`; its measurement has no backslash)
  is routed by its measurement and written as it came, and its time in nanoseconds is the
  one it had, if that fits an integer, or the clock's if it had none. A point has a shape,
  which says where its key, its blanks and its fields are (`Shaped`) and which a time
  behind it does not change; `ScanKey` undoes the escaping character by character
  (`Spelt`); the digits of a number make the number again, and a number below
  `2^(Width-1)` does not wrap.
* `BodyIsCutCorrect`: a body made of any number of blocks, each of which a scan leaves
  outside strings and escapes (`IsBlock`), is cut into the lines of the blocks. Two scans
  know the same as long as their texts are alike (`StatesAgree`), so what `ScanLine` does to
  a block by itself it does to it in front of others; the rest is induction on the number
  of blocks.

**InfluxQL.** `IsReadThereCorrect`: a select from a measurement in quotes is routed by that
measurement and the request's database, whatever the name is made of. The scanner of
quotes gives back the name and stops at its closing quote (`ReadsAll`, from the end of the
name to its start); the tokens of the statement follow (`SelectIsScanned`), and from them
what each function of `influxql.go` finds.

The four above put together are `EveryLineEndsCorrect`, `PointIsWrittenCorrect`,
`BodyIsItsLinesCorrect` and `RoutesAgreeCorrect`, which need that the run's inputs are what
the general theorems speak of: the names are a point's (`NamesFit`), the blocks are blocks
(`BlocksFit`, each followed through the scan state by state). `OperationsKeepDataCorrect`
does so for the theorems about `Moves`.

**Transfer.** Two invariants, with broadcasts lost or not. `FInv`, of the flags, knows
nothing of pools and groups: every two running operations have met (`RunsKnown`), an
operation's flag is where its broadcasts have got to (`BroadcastState`), and a flag that is
up belongs to an operation that told of it there (`NoStrayFlag`); from it follow
`FlagUpWhileMoving`, `FlagsDownAfter` and `KeepsOut`. `GInv`, of the wait groups: the
counter is the cardinality of the movers and unfinished tasks that use it (`GroupCounts`),
so zero means none (`ZeroMeansNone`), which is what `WaitedForAll` and the next circle of
a resync need, and the counter is never negative, which is the part of `TypeOK` that is
not about types.

**Copy.** `SoundInv` is the types, with the bounds on pages and tasks, and that a row in
any place is as new as the source or older (`RowsSound`, `DstSound`): `NothingInvented`.
`LossInv` says where a wanted point is that nobody deleted, as long as nothing excuses its
loss (`NotLost`): in a page to come (`Coming`: the number of rows above it, `Above`, is not
below the offset), in a page handed to `write` (`Handed`), or written, with a task, or in
the log (`Reached`). A write of a client in front of the page moves a row towards the next
page, never past it; a delete, a larger limit or a page cut short may move the offset past
it, and a refused statement ends the query before it: that is `skipped`. What a page holds is a lemma about ranks.

**Moves.** `CleanupIsSafeCorrect`, `RecoveryIsWholeCorrect` and `ResyncIsWholeCorrect`, for
any circles, rings, placements and outages, the resync by its circles' turns: nothing a
backend had goes away in a turn, and what one brings is somebody's.

Where a definition is a recursive function, its theorem first shows that the function
exists (it is built up to a bound, and the least number at which that failed would
be a contradiction), and then reasons about a least counterexample in the same way
(`Least` of `OperatorProofs`).

The assumptions are the named `ASSUME`s of the modules, which TLC evaluates in every
run, and `RecSound` and `Undamaged` where a theorem names them. Four of them are about
text: `PowersSound` says what the powers that occur are, which the provers do not know;
`ClockSound`, that the clock is a number; `KeywordsAreLower`, that "select" and "from" are
written in lower case; `InputsFit`, that the field and the database of the run's queries
are no keyword and not forbidden.

**Only model-checked:** liveness (`BacklogDrains`, `RewritingEnds`, `EveryPointSubmitted`,
`CloseEnds`, `EndsUnlessOverlapped`, `RequestsEnd`, `TransferEnds`), because TLAPS does not
handle `ENABLED` and so not fairness; and `StatementIsRouted` of `MCAnalysis`, whose
statements are many concrete ones, of every supported command: each would have to be
followed through the scanner and the functions that look at its tokens, as
`IsReadThereCorrect` does for the select from a name in quotes.

## Plan

What is left, in this order:

1. Proofs: `StatementIsRouted` for any database, policy and measurement, form by form,
   from the lemmas about tokens that `IsReadThereCorrect` rests on.
2. `Serve`: `Executor`'s flags set by `Backlog`'s ping and rewriter and by `Transfer`:
   no answer from a backend that is behind while an up-to-date one is there. An
   outage that ends before the next tick of the rewriter is the case to look at.
3. `Backend`: `WriteBuffer` and `Backlog` together, from a point to the server;
   abstract specification: a point is delivered at least once, unless refused or
   lost with memory.

## Not modelled

Text handling that keeps no state (the Flux regular expressions, `GetRetentionPolicy` of
`influxql.go`, which the proxy does not use, encryption, JSON and protobuf conversion, the
conversion of a transfer's values to lines), reading the configuration file, the ring's
hashing, statistics, and HTTP itself. `PROJECT.json` lists every component with its status.
