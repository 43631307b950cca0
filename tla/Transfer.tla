------------------------------- MODULE Transfer -------------------------------
(***************************************************************************)
(* Rebalance, recovery, resync and cleanup (transfer/transfer.go) as the    *)
(* service starts them (service/http.go): the test of the flags in the      *)
(* handler, the goroutine of the operation, its movers (runTransfer, one    *)
(* per backend), their tasks in a pool, the wait group of the circle, the   *)
(* flags that keep queries and other operations away, and their broadcast   *)
(* to the other proxies.                                                    *)
(*                                                                          *)
(* A proxy has one tx.pool, which every operation replaces and all movers   *)
(* use.  A circle as a flag stands for its Transferring and for the         *)
(* transferIn of its backends, which are always set together.  What a task  *)
(* copies or drops is not modelled here, nor are the statistics.            *)
(***************************************************************************)
EXTENDS Integers, FiniteSets

CONSTANTS
    Proxy, Circle,
    Op,         \* the operations requested, one after the other or at once
    Job,        \* what may be requested: [kind, proxy, from, to]
    Mover,      \* the movers of an operation in a circle
    Worker,     \* size of a pool
    MaxTasks,   \* bound on the tasks an operation submits
    Lossy       \* whether a broadcast may be lost

Kinds == {"rebalance", "recovery", "resync", "cleanup"}

ASSUME JobType == Job \subseteq [kind : Kinds, proxy : Proxy, from : Circle, to : Circle]
ASSUME WorkerPositive == Worker \in Nat \ {0}
ASSUME MaxTasksNat == MaxTasks \in Nat
ASSUME LossyIsBoolean == Lossy \in BOOLEAN
ASSUME OpFinite == IsFiniteSet(Op) /\ Op # {}
ASSUME MoverFinite == IsFiniteSet(Mover) /\ Mover # {}

VARIABLES
    job,          \* job[o]: what operation o is
    pc,           \* where its goroutine stands
    todo,         \* todo[o]: the circles a resync has still to go through
    untold,       \* untold[o]: the proxies its broadcast has still to reach
    movers,       \* movers[o]: its movers that have not ended
    task,         \* task[o][k]: its k-th task: its state, its mover and its pool
    pool,         \* pool[p]: tx.pool of p, by the operation that made it
    owned,        \* owned[o]: the pool that o's deferred Release is for
    released,     \* the pools released
    wg,           \* wg[p][c]: the counter of the circle's wait group
    up,           \* up[p]: the flags that are up: circles, and "resyncing"
    heard,        \* history: the proxies that o told to raise its flag and not to lower it
    met           \* history: the operations that ran at the same time as o

opVars == <<job, pc, todo, untold>>
taskVars == <<movers, task, wg>>
poolVars == <<pool, owned, released>>
flagVars == <<up, heard>>
vars == <<opVars, taskVars, poolVars, flagVars, met>>

Flags == Circle \cup {"resyncing"}
TaskIds == 1..MaxTasks
TaskStates == {"none", "submit", "run", "lost", "done"}
Live == {"accepted", "pooled", "raised", "wait", "lowered"}

\* What an operation's job says: where it runs, whose flag it raises, which
\* flags its handler tests, and the circle it is moving from now, whose wait
\* group it uses.
At(o) == job[o].proxy
Flag(o) == IF job[o].kind = "resync" THEN "resyncing" ELSE job[o].to
First(cs) == CHOOSE c \in cs : TRUE
Source(o) == IF job[o].kind = "resync" THEN First(todo[o]) ELSE job[o].from

\* A mutant: only the operation's own flag and resyncing are tested.
TestedOne(o) == {"resyncing", Flag(o)}

Tested(o) ==
    {"resyncing"} \cup (IF job[o].kind = "resync" THEN Circle ELSE {job[o].from, job[o].to})

Peers(o) == Proxy \ {At(o)}
GoesTo(o, from, to) == pc[o] = from /\ pc' = [pc EXCEPT ![o] = to]

NoTask == [st |-> "none", by |-> CHOOSE m \in Mover : TRUE, pool |-> CHOOSE o \in Op : TRUE]

\* The task a mover is in the Submit of, if any.
Submitting(o, m) == {k \in TaskIds : task[o][k].st = "submit" /\ task[o][k].by = m}

\* The tasks that run in the pool that q made.
InPool(q) == {t \in Op \X TaskIds : task[t[1]][t[2]].st = "run" /\ task[t[1]][t[2]].pool = q}

Init ==
    /\ job \in [Op -> Job]
    /\ pc = [o \in Op |-> "new"]
    /\ todo = [o \in Op |-> Circle]
    /\ untold = [o \in Op |-> {}]
    /\ movers = [o \in Op |-> {}]
    /\ task = [o \in Op |-> [k \in TaskIds |-> NoTask]]
    /\ pool = [p \in Proxy |-> CHOOSE o \in Op : TRUE]     \* nil, not read before NewPool
    /\ owned = [o \in Op |-> o]                             \* set by Raise
    /\ released = {}
    /\ wg = [p \in Proxy |-> [c \in Circle |-> 0]]
    /\ up = [p \in Proxy |-> {}]
    /\ heard = [o \in Op |-> {}]
    /\ met = [o \in Op |-> {}]

-----------------------------------------------------------------------------
(* The handler and the goroutine of an operation. *)

\* The handler finds the flags down and starts the goroutine; if it finds one
\* up it refuses and nothing changes.
Accept(o) ==
    /\ GoesTo(o, "new", "accepted")
    /\ Tested(o) \cap up[At(o)] = {}
    /\ LET others == {x \in Op : pc[x] \in Live}
       IN  met' = [x \in Op |-> IF x = o THEN others
                                ELSE IF x \in others THEN met[x] \cup {o} ELSE met[x]]
    /\ UNCHANGED <<job, todo, untold, taskVars, poolVars, flagVars>>

\* createDatabases failed on a backend, or there is no database.
NothingToDo(o) ==
    /\ job[o].kind # "cleanup"
    /\ GoesTo(o, "accepted", "ended")
    /\ UNCHANGED <<job, todo, untold, taskVars, poolVars, flagVars, met>>

\* tx.pool becomes a new pool, whoever is using the one that was there.
NewPool(o) ==
    /\ GoesTo(o, "accepted", "pooled")
    /\ pool' = [pool EXCEPT ![At(o)] = o]
    /\ UNCHANGED <<job, todo, untold, taskVars, owned, released, flagVars, met>>

\* Mutants of Raise: a Release that is not deferred, and a flag that only the
\* peers raise.
RaiseReleased(o) ==
    /\ GoesTo(o, "pooled", "raised")
    /\ owned' = [owned EXCEPT ![o] = pool[At(o)]]
    /\ released' = released \cup {pool[At(o)]}
    /\ up' = [up EXCEPT ![At(o)] = @ \cup {Flag(o)}]
    /\ heard' = [heard EXCEPT ![o] = {At(o)}]
    /\ untold' = [untold EXCEPT ![o] = Peers(o)]
    /\ UNCHANGED <<job, todo, taskVars, pool, met>>

RaiseAtPeers(o) ==
    /\ GoesTo(o, "pooled", "raised")
    /\ owned' = [owned EXCEPT ![o] = pool[At(o)]]
    /\ heard' = [heard EXCEPT ![o] = {At(o)}]
    /\ untold' = [untold EXCEPT ![o] = Peers(o)]
    /\ UNCHANGED <<job, todo, taskVars, pool, released, up, met>>

\* The deferred tx.pool.Release() is for the pool that is there now; the flag
\* goes up here, and will at the peers.
Raise(o) ==
    /\ GoesTo(o, "pooled", "raised")
    /\ owned' = [owned EXCEPT ![o] = pool[At(o)]]
    /\ up' = [up EXCEPT ![At(o)] = @ \cup {Flag(o)}]
    /\ heard' = [heard EXCEPT ![o] = {At(o)}]
    /\ untold' = [untold EXCEPT ![o] = Peers(o)]
    /\ UNCHANGED <<job, todo, taskVars, pool, released, met>>

\* The broadcast reaches a peer, whose HandlerTransferState sets the flag.
Tell(o, q) ==
    /\ q \in untold[o]
    /\ untold' = [untold EXCEPT ![o] = @ \ {q}]
    /\ \/ /\ pc[o] = "raised"
          /\ up' = [up EXCEPT ![q] = @ \cup {Flag(o)}]
          /\ heard' = [heard EXCEPT ![o] = @ \cup {q}]
       \/ /\ pc[o] = "lowered"
          /\ up' = [up EXCEPT ![q] = @ \ {Flag(o)}]
          /\ heard' = [heard EXCEPT ![o] = @ \ {q}]
    /\ UNCHANGED <<job, pc, todo, taskVars, poolVars, met>>

\* The broadcast does not reach a peer: postBroadcast ignores the error.
TellFails(o, q) ==
    /\ Lossy
    /\ q \in untold[o]
    /\ untold' = [untold EXCEPT ![o] = @ \ {q}]
    /\ UNCHANGED <<job, pc, todo, taskVars, poolVars, flagVars, met>>

\* One mover per backend of the circle; cleanup leaves those without databases out.
Spawn(o) ==
    /\ untold[o] = {}
    /\ GoesTo(o, "raised", "wait")
    /\ \E ms \in SUBSET Mover :
          /\ job[o].kind # "cleanup" => ms = Mover
          /\ movers' = [movers EXCEPT ![o] = ms]
          /\ wg' = [wg EXCEPT ![At(o)][Source(o)] = @ + Cardinality(ms)]
    /\ UNCHANGED <<job, todo, untold, task, poolVars, flagVars, met>>

\* A mutant: waits for the movers only.
WaitedForMovers(o) == pc[o] = "wait" /\ movers[o] = {}

Waited(o) == pc[o] = "wait" /\ wg[At(o)][Source(o)] = 0

\* A resync goes on with the next circle.
NextCircle(o) ==
    /\ Waited(o)
    /\ job[o].kind = "resync"
    /\ todo[o] # {Source(o)}
    /\ todo' = [todo EXCEPT ![o] = @ \ {Source(o)}]
    /\ pc' = [pc EXCEPT ![o] = "raised"]
    /\ UNCHANGED <<job, untold, taskVars, poolVars, flagVars, met>>

\* A mutant of Lower: the flag of this proxy is left up.
LowerAtPeers(o) ==
    /\ Waited(o)
    /\ job[o].kind = "resync" => todo[o] = {Source(o)}
    /\ pc' = [pc EXCEPT ![o] = "lowered"]
    /\ heard' = [heard EXCEPT ![o] = @ \ {At(o)}]
    /\ untold' = [untold EXCEPT ![o] = Peers(o)]
    /\ UNCHANGED <<job, todo, taskVars, poolVars, up, met>>

\* The deferred broadcast: the flag goes down here, and will at the peers.
Lower(o) ==
    /\ Waited(o)
    /\ job[o].kind = "resync" => todo[o] = {Source(o)}
    /\ pc' = [pc EXCEPT ![o] = "lowered"]
    /\ up' = [up EXCEPT ![At(o)] = @ \ {Flag(o)}]
    /\ heard' = [heard EXCEPT ![o] = @ \ {At(o)}]
    /\ untold' = [untold EXCEPT ![o] = Peers(o)]
    /\ UNCHANGED <<job, todo, taskVars, poolVars, met>>

\* The deferred Release.
Release(o) ==
    /\ untold[o] = {}
    /\ GoesTo(o, "lowered", "ended")
    /\ released' = released \cup {owned[o]}
    /\ UNCHANGED <<job, todo, untold, taskVars, pool, owned, flagVars, met>>

-----------------------------------------------------------------------------
(* The movers and their tasks. *)

Count(o, change) == wg' = [wg EXCEPT ![At(o)][Source(o)] = @ + change]

\* A mutant of Submit: without wg.Add.
SubmitUncounted(o, m) ==
    /\ m \in movers[o]
    /\ Submitting(o, m) = {}
    /\ \E k \in TaskIds :
          /\ task[o][k].st = "none"
          /\ \A j \in 1..(k - 1) : task[o][j].st # "none"
          /\ task' = [task EXCEPT ![o][k] = [st |-> "submit", by |-> m, pool |-> pool[At(o)]]]
    /\ UNCHANGED <<opVars, movers, wg, poolVars, flagVars, met>>

\* submitTransfer and submitCleanup: wg.Add(1), then Submit to what tx.pool is now.
Submit(o, m) ==
    /\ m \in movers[o]
    /\ Submitting(o, m) = {}
    /\ \E k \in TaskIds :
          /\ task[o][k].st = "none"
          /\ \A j \in 1..(k - 1) : task[o][j].st # "none"
          /\ task' = [task EXCEPT ![o][k] = [st |-> "submit", by |-> m, pool |-> pool[At(o)]]]
    /\ Count(o, 1)
    /\ UNCHANGED <<opVars, movers, poolVars, flagVars, met>>

\* A task changes its state.
Turns(o, k, st) ==
    task' = [task EXCEPT ![o][k] = [st |-> st, by |-> task[o][k].by, pool |-> task[o][k].pool]]

\* The pool runs the task once a worker is free.
Start(o, k) ==
    /\ task[o][k].st = "submit"
    /\ task[o][k].pool \notin released
    /\ Cardinality(InPool(task[o][k].pool)) < Worker
    /\ Turns(o, k, "run")
    /\ UNCHANGED <<opVars, movers, wg, poolVars, flagVars, met>>

\* A released pool takes no task: Submit's error is ignored, and Done not called.
SubmitFails(o, k) ==
    /\ task[o][k].st = "submit"
    /\ task[o][k].pool \in released
    /\ Turns(o, k, "lost")
    /\ UNCHANGED <<opVars, movers, wg, poolVars, flagVars, met>>

\* The task ends, done or failed alike.
TaskEnds(o, k) ==
    /\ task[o][k].st = "run"
    /\ Turns(o, k, "done")
    /\ Count(o, -1)
    /\ UNCHANGED <<opVars, movers, poolVars, flagVars, met>>

\* A mutant of MoverEnds: a return without Done.
MoverReturns(o, m) ==
    /\ m \in movers[o]
    /\ Submitting(o, m) = {}
    /\ movers' = [movers EXCEPT ![o] = @ \ {m}]
    /\ UNCHANGED <<opVars, task, wg, poolVars, flagVars, met>>

\* The backend is not active, or the mover has gone through its measurements.
MoverEnds(o, m) ==
    /\ m \in movers[o]
    /\ Submitting(o, m) = {}
    /\ movers' = [movers EXCEPT ![o] = @ \ {m}]
    /\ Count(o, -1)
    /\ UNCHANGED <<opVars, task, poolVars, flagVars, met>>

Operation(o) ==
    \/ NothingToDo(o)
    \/ NewPool(o)
    \/ Raise(o)
    \/ \E q \in Proxy : Tell(o, q)
    \/ \E q \in Proxy : TellFails(o, q)
    \/ Spawn(o)
    \/ NextCircle(o)
    \/ Lower(o)
    \/ Release(o)

Moving(o) ==
    \/ \E m \in Mover : Submit(o, m)
    \/ \E m \in Mover : MoverEnds(o, m)

Running(o, k) ==
    \/ Start(o, k)
    \/ SubmitFails(o, k)
    \/ TaskEnds(o, k)

Next ==
    \E o \in Op :
        \/ Accept(o)
        \/ Operation(o)
        \/ Moving(o)
        \/ \E k \in TaskIds : Running(o, k)

Spec == Init /\ [][Next]_vars

-----------------------------------------------------------------------------
(* Properties. *)

\* An operation that runs while another one runs on the same proxy, and one
\* that runs while another one with the same flag runs anywhere.
Overlapped(o) == \E x \in met[o] : At(x) = At(o)
Clashed(o) == \E x \in met[o] : Flag(x) = Flag(o)

\* The variables have their types: among them, no wait group goes negative,
\* on which Go panics.
TypeOK ==
    /\ job \in [Op -> Job]
    /\ pc \in [Op -> Live \cup {"new", "ended"}]
    /\ todo \in [Op -> SUBSET Circle]
    /\ untold \in [Op -> SUBSET Proxy]
    /\ movers \in [Op -> SUBSET Mover]
    /\ task \in [Op -> [TaskIds -> [st : TaskStates, by : Mover, pool : Op]]]
    /\ pool \in [Proxy -> Op]
    /\ owned \in [Op -> Op]
    /\ released \in SUBSET Op
    /\ wg \in [Proxy -> [Circle -> Nat]]
    /\ up \in [Proxy -> SUBSET Flags]
    /\ heard \in [Op -> SUBSET Proxy]
    /\ met \in [Op -> SUBSET Op]

\* The wait group of a circle counts the movers and the tasks that have not
\* ended, a task that was lost among them, of all operations that use it.
Uses(o, p, c) == At(o) = p /\ Source(o) = c
Moves(p, c) == {b \in Op \X Mover : Uses(b[1], p, c) /\ b[2] \in movers[b[1]]}
Open(p, c) ==
    {t \in Op \X TaskIds : Uses(t[1], p, c) /\ task[t[1]][t[2]].st \in {"submit", "run", "lost"}}

GroupCounts == \A p \in Proxy, c \in Circle : wg[p][c] = Cardinality(Moves(p, c)) + Cardinality(Open(p, c))

\* An operation that has gone past wg.Wait has nothing left to do: no mover
\* reads, no task copies or drops and none was lost, although the wait group
\* and the pool are shared with other operations.
WaitedForAll ==
    \A o \in Op : pc[o] # "wait" =>
        /\ movers[o] = {}
        /\ \A k \in TaskIds : task[o][k].st \in {"none", "done"}

\* While an operation moves data its flag is up on its own proxy and on every
\* proxy its broadcast has reached, unless another one with the same flag ran
\* at the same time (its end lowers the flag).
FlagUpWhileMoving ==
    \A o \in Op : pc[o] \in Live /\ ~Clashed(o) =>
        /\ pc[o] \in {"raised", "wait"} => At(o) \in heard[o]
        /\ \A q \in heard[o] : Flag(o) \in up[q]

\* Once no operation is left, every flag is down again, also after clashes;
\* only a peer that the last broadcast did not reach may keep one.
FlagsDownAfter ==
    (\A o \in Op : pc[o] \notin Live) =>
        \A q \in Proxy : \A f \in up[q] :
            Lossy /\ \E o \in Op : Flag(o) = f /\ At(o) # q /\ q \in heard[o]

\* A proxy that was told of an operation starts none that would meet it, until
\* it is told that it has ended: while one moves data into or within a circle,
\* none that has to do with that circle, and none at all during a resync.
Meets(x, f) == f = "resyncing" \/ job[x].kind = "resync" \/ f \in {job[x].from, job[x].to}

KeepsOut ==
    [][\A o, x \in Op :
          /\ pc[x] = "new" /\ pc'[x] = "accepted"
          /\ pc[o] \in Live /\ ~Clashed(o)
          /\ At(x) \in heard[o]
          => ~Meets(x, Flag(o))]_vars

\* An accepted operation comes to its end, if none other runs on its proxy at
\* the same time.
EndsUnlessOverlapped ==
    \A o \in Op : pc[o] = "accepted" ~> (pc[o] = "ended" \/ Overlapped(o))

\* An accepted operation comes to its end.
EveryOperationEnds == \A o \in Op : pc[o] = "accepted" ~> pc[o] = "ended"

\* The goroutines are scheduled, broadcasts have a timeout, and backends answer.
Fairness ==
    \A o \in Op :
        /\ WF_vars(Operation(o))
        /\ \A m \in Mover : WF_vars(MoverEnds(o, m))
        /\ \A k \in TaskIds : WF_vars(Running(o, k))

FairSpec == Spec /\ Fairness

=============================================================================
