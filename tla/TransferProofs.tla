---------------------------- MODULE TransferProofs ----------------------------
(***************************************************************************)
(* Theorems about Transfer, for any proxies, circles, operations and jobs,  *)
(* any size of the pools, and broadcasts that are lost or not.              *)
(***************************************************************************)
EXTENDS Transfer, FiniteSetTheorems, TLAPS

-----------------------------------------------------------------------------
(* The flags: an invariant of their own, without the pools and the groups.  *)

FlagTypes ==
    /\ job \in [Op -> Job]
    /\ pc \in [Op -> Live \cup {"new", "ended"}]
    /\ untold \in [Op -> SUBSET Proxy]
    /\ up \in [Proxy -> SUBSET Flags]
    /\ heard \in [Op -> SUBSET Proxy]
    /\ met \in [Op -> SUBSET Op]

\* Two operations that run now know of each other.
RunsKnown == \A o, x \in Op : pc[o] \in Live /\ pc[x] \in Live /\ o # x => x \in met[o]

\* Where an operation stands in its two broadcasts.
BroadcastState ==
    \A o \in Op :
        /\ untold[o] \subseteq Peers(o)
        /\ pc[o] \notin {"raised", "lowered"} => untold[o] = {}
        /\ pc[o] \in {"raised", "wait"} <=> At(o) \in heard[o]
        /\ pc[o] \in {"new", "accepted", "pooled"} => heard[o] = {}
        /\ pc[o] \in {"lowered", "ended"} /\ ~Lossy => heard[o] \subseteq untold[o]

\* A flag is up only where an operation told of it that did not take it back.
NoStrayFlag == \A q \in Proxy : \A f \in up[q] : \E o \in Op : Flag(o) = f /\ q \in heard[o]

FInv == FlagTypes /\ RunsKnown /\ BroadcastState /\ NoStrayFlag /\ FlagUpWhileMoving

\* The flag, the proxy and the circles of a job.
LEMMA JobTypes ==
    ASSUME job \in [Op -> Job], NEW o \in Op
    PROVE  /\ job[o] \in [kind : Kinds, proxy : Proxy, from : Circle, to : Circle]
           /\ At(o) \in Proxy
           /\ Flag(o) \in Flags
BY JobType DEF At, Flag, Flags

LEMMA InitFlags == Init => FInv
<1> SUFFICES ASSUME Init PROVE FInv
  OBVIOUS
<1>1. FlagTypes
  BY DEF Init, FlagTypes
<1>2. RunsKnown /\ BroadcastState /\ NoStrayFlag /\ FlagUpWhileMoving
  BY DEF Init, RunsKnown, BroadcastState, NoStrayFlag, FlagUpWhileMoving, Live
<1> QED
  BY <1>1, <1>2 DEF FInv

\* The steps that leave the flags, their broadcasts and met alone: at most pc
\* changes, from a state of an operation to one in which the same holds of it.
LEMMA SilentStep ==
    ASSUME FInv, UNCHANGED <<job, untold, up, heard, met>>, NEW o \in Op,
           \/ pc' = pc
           \/ GoesTo(o, "accepted", "ended")
           \/ GoesTo(o, "accepted", "pooled")
           \/ GoesTo(o, "raised", "wait") /\ untold[o] = {}
           \/ GoesTo(o, "wait", "raised")
           \/ GoesTo(o, "lowered", "ended") /\ untold[o] = {}
    PROVE  FInv'
<1> USE DEF FInv
<1>1. FlagTypes'
  BY DEF FlagTypes, GoesTo, Live
<1>2. \A x \in Op : pc'[x] \in Live => pc[x] \in Live
  BY DEF FlagTypes, GoesTo, Live
<1>3. RunsKnown'
  BY <1>2 DEF RunsKnown
<1>4. BroadcastState'
  BY DEF BroadcastState, FlagTypes, GoesTo, Peers, At
<1>5. NoStrayFlag'
  BY DEF NoStrayFlag, Flag
<1>6. FlagUpWhileMoving'
  <2> SUFFICES ASSUME NEW x \in Op, pc'[x] \in Live, ~Clashed(x)'
               PROVE  /\ pc'[x] \in {"raised", "wait"} => At(x)' \in heard'[x]
                      /\ \A q \in heard'[x] : Flag(x)' \in up'[q]
    BY DEF FlagUpWhileMoving
  <2>1. ~Clashed(x)
    BY DEF Clashed, Flag
  <2> QED
    BY <1>2, <1>4, <2>1 DEF FlagUpWhileMoving, BroadcastState, Flag, At
<1> QED
  BY <1>1, <1>3, <1>4, <1>5, <1>6

\* Accept: the others learn of the operation and it of them.
LEMMA AcceptFlags == ASSUME FInv, NEW o \in Op, Accept(o) PROVE FInv'
<1> USE DEF FInv, Accept
<1>1. FlagTypes'
  BY DEF FlagTypes, GoesTo, Live, flagVars
<1>2. /\ met'[o] = {x \in Op : pc[x] \in Live}
      /\ \A x \in Op : pc[x] \in Live => met'[x] = met[x] \cup {o}
      /\ \A x \in Op : x # o => pc'[x] = pc[x]
      /\ pc[o] = "new" /\ pc'[o] = "accepted"
  BY DEF GoesTo, FlagTypes, Live
<1>3. RunsKnown'
  BY <1>2 DEF RunsKnown, Live
<1>4. BroadcastState'
  BY <1>2 DEF BroadcastState, FlagTypes, Peers, At, flagVars
<1>5. NoStrayFlag'
  BY DEF NoStrayFlag, Flag, flagVars
<1>6. FlagUpWhileMoving'
  <2> SUFFICES ASSUME NEW x \in Op, pc'[x] \in Live, ~Clashed(x)'
               PROVE  /\ pc'[x] \in {"raised", "wait"} => At(x)' \in heard'[x]
                      /\ \A q \in heard'[x] : Flag(x)' \in up'[q]
    BY DEF FlagUpWhileMoving
  <2>1. CASE x = o
    BY <1>2, <2>1 DEF BroadcastState, flagVars
  <2>2. CASE x # o
    <3>1. pc[x] \in Live /\ ~Clashed(x)
      BY <1>2, <2>2 DEF Clashed, Flag
    <3> QED
      BY <1>2, <2>2, <3>1 DEF FlagUpWhileMoving, Flag, At, flagVars
  <2> QED
    BY <2>1, <2>2
<1> QED
  BY <1>1, <1>3, <1>4, <1>5, <1>6

\* Raise: the flag of an operation goes up on its own proxy.
LEMMA RaiseFlags == ASSUME FInv, NEW o \in Op, Raise(o) PROVE FInv'
<1> USE DEF FInv, Raise
<1>0. At(o) \in Proxy /\ Flag(o) \in Flags
  BY JobTypes DEF FlagTypes
<1>1. FlagTypes'
  BY <1>0 DEF FlagTypes, GoesTo, Live, Peers
<1>2. /\ pc[o] = "pooled" /\ pc'[o] = "raised"
      /\ \A x \in Op : x # o => pc'[x] = pc[x] /\ heard'[x] = heard[x] /\ untold'[x] = untold[x]
      /\ heard'[o] = {At(o)} /\ untold'[o] = Peers(o)
      /\ \A q \in Proxy : up[q] \subseteq up'[q]
      /\ up'[At(o)] = up[At(o)] \cup {Flag(o)}
      /\ \A q \in Proxy : q # At(o) => up'[q] = up[q]
  BY <1>0 DEF GoesTo, FlagTypes
<1>3. RunsKnown'
  BY <1>2 DEF RunsKnown, Live
<1>4. BroadcastState'
  BY <1>2 DEF BroadcastState, Peers, At
<1>5. NoStrayFlag'
  <2>1. heard[o] = {}
    BY <1>2 DEF BroadcastState
  <2> QED
    BY <1>0, <1>2, <2>1 DEF NoStrayFlag, Flag, At
<1>6. FlagUpWhileMoving'
  <2> SUFFICES ASSUME NEW x \in Op, pc'[x] \in Live, ~Clashed(x)'
               PROVE  /\ pc'[x] \in {"raised", "wait"} => At(x)' \in heard'[x]
                      /\ \A q \in heard'[x] : Flag(x)' \in up'[q]
    BY DEF FlagUpWhileMoving
  <2>1. CASE x = o
    BY <1>2, <2>1 DEF At, Flag
  <2>2. CASE x # o
    <3>1. pc[x] \in Live /\ ~Clashed(x)
      BY <1>2, <2>2 DEF Clashed, Flag
    <3>2. heard[x] \subseteq Proxy
      BY DEF FlagTypes
    <3> QED
      BY <1>2, <2>2, <3>1, <3>2 DEF FlagUpWhileMoving, Flag, At
  <2> QED
    BY <2>1, <2>2
<1> QED
  BY <1>1, <1>3, <1>4, <1>5, <1>6

\* A proxy q takes o's flag down, o having no longer told it: no other
\* operation that runs and has not clashed has the same flag.
LEMMA LoweredAt ==
    ASSUME FInv, NEW o \in Op, NEW q \in Proxy, pc[o] \in Live, job' = job, met' = met,
           \A x \in Op : pc'[x] \in Live <=> pc[x] \in Live,
           \A x \in Op : x # o => pc'[x] = pc[x],
           heard' = [heard EXCEPT ![o] = @ \ {q}],
           up' = [up EXCEPT ![q] = @ \ {Flag(o)}],
           pc'[o] \notin {"raised", "wait"}
    PROVE  NoStrayFlag' /\ FlagUpWhileMoving'
<1> USE DEF FInv
<1>1. /\ \A x \in Op : x # o => heard'[x] = heard[x]
      /\ heard'[o] = heard[o] \ {q}
      /\ up'[q] = up[q] \ {Flag(o)}
      /\ \A p \in Proxy : p # q => up'[p] = up[p]
      /\ \A x \in Op : heard[x] \subseteq Proxy
  BY DEF FlagTypes
<1>2. NoStrayFlag'
  BY <1>1 DEF NoStrayFlag, Flag
<1>3. FlagUpWhileMoving'
  <2> SUFFICES ASSUME NEW x \in Op, pc'[x] \in Live, ~Clashed(x)'
               PROVE  /\ pc'[x] \in {"raised", "wait"} => At(x)' \in heard'[x]
                      /\ \A p \in heard'[x] : Flag(x)' \in up'[p]
    BY DEF FlagUpWhileMoving
  <2>1. pc[x] \in Live /\ ~Clashed(x)
    BY DEF Clashed, Flag
  <2>2. x # o => Flag(x) # Flag(o)
    BY <2>1 DEF RunsKnown, Clashed
  <2>3. CASE x = o
    BY <1>1, <2>1, <2>3 DEF FlagUpWhileMoving, Flag
  <2>4. CASE x # o
    BY <1>1, <2>1, <2>2, <2>4 DEF FlagUpWhileMoving, Flag, At
  <2> QED
    BY <2>3, <2>4
<1> QED
  BY <1>2, <1>3

\* Lower: the flag goes down on the operation's own proxy.
LEMMA LowerFlags == ASSUME FInv, NEW o \in Op, Lower(o) PROVE FInv'
<1> USE DEF FInv, Lower, Waited
<1>0. At(o) \in Proxy
  BY JobTypes DEF FlagTypes
<1>1. FlagTypes'
  BY DEF FlagTypes, Live, Peers
<1>2. /\ pc[o] = "wait" /\ pc'[o] = "lowered"
      /\ \A x \in Op : x # o => pc'[x] = pc[x] /\ heard'[x] = heard[x] /\ untold'[x] = untold[x]
      /\ heard'[o] = heard[o] \ {At(o)} /\ untold'[o] = Peers(o)
      /\ heard[o] \subseteq Proxy
  BY DEF FlagTypes
<1>3. RunsKnown'
  BY <1>2 DEF RunsKnown, Live
<1>4. BroadcastState'
  BY <1>2 DEF BroadcastState, Peers, At
<1>5. NoStrayFlag' /\ FlagUpWhileMoving'
  BY <1>0, <1>2, LoweredAt DEF Live
<1> QED
  BY <1>1, <1>3, <1>4, <1>5

\* Tell: a peer sets the flag as the broadcast says.
LEMMA TellFlags == ASSUME FInv, NEW o \in Op, NEW q \in Proxy, Tell(o, q) PROVE FInv'
<1> USE DEF FInv, Tell
<1>0. Flag(o) \in Flags /\ q # At(o) /\ q \in untold[o]
  BY JobTypes DEF FlagTypes, BroadcastState, Peers
<1>1. FlagTypes'
  BY <1>0 DEF FlagTypes
<1>2. RunsKnown'
  BY DEF RunsKnown
<1>3. /\ \A x \in Op : x # o => heard'[x] = heard[x] /\ untold'[x] = untold[x]
      /\ untold'[o] = untold[o] \ {q}
  BY DEF FlagTypes
<1>4. CASE pc[o] = "raised"
  <2>1. /\ heard'[o] = heard[o] \cup {q}
        /\ up'[q] = up[q] \cup {Flag(o)}
        /\ \A p \in Proxy : p # q => up'[p] = up[p]
        /\ \A x \in Op : heard[x] \subseteq Proxy
    BY <1>4 DEF FlagTypes
  <2>2. BroadcastState'
    BY <1>0, <1>3, <1>4, <2>1 DEF BroadcastState, Peers, At
  <2>3. NoStrayFlag'
    BY <1>3, <2>1 DEF NoStrayFlag, Flag
  <2>4. FlagUpWhileMoving'
    <3> SUFFICES ASSUME NEW x \in Op, pc'[x] \in Live, ~Clashed(x)'
                 PROVE  /\ pc'[x] \in {"raised", "wait"} => At(x)' \in heard'[x]
                        /\ \A p \in heard'[x] : Flag(x)' \in up'[p]
      BY DEF FlagUpWhileMoving
    <3>1. pc[x] \in Live /\ ~Clashed(x)
      BY DEF Clashed, Flag
    <3> QED
      BY <1>3, <2>1, <3>1 DEF FlagUpWhileMoving, Flag, At
  <2> QED
    BY <1>1, <1>2, <2>2, <2>3, <2>4
<1>5. CASE pc[o] = "lowered"
  <2>1. /\ heard' = [heard EXCEPT ![o] = @ \ {q}]
        /\ up' = [up EXCEPT ![q] = @ \ {Flag(o)}]
    BY <1>5
  <2>2. heard'[o] = heard[o] \ {q}
    BY <2>1 DEF FlagTypes
  <2>3. BroadcastState'
    BY <1>0, <1>3, <1>5, <2>2 DEF BroadcastState, Peers, At
  <2>4. NoStrayFlag' /\ FlagUpWhileMoving'
    BY <1>5, <2>1, LoweredAt DEF Live
  <2> QED
    BY <1>1, <1>2, <2>3, <2>4
<1> QED
  BY <1>4, <1>5

\* TellFails: the peer keeps what it has; broadcasts are lossy then.
LEMMA TellFailsFlags == ASSUME FInv, NEW o \in Op, NEW q \in Proxy, TellFails(o, q) PROVE FInv'
<1> USE DEF FInv, TellFails, flagVars
<1>1. FlagTypes'
  BY DEF FlagTypes
<1>2. \A x \in Op : untold'[x] \subseteq untold[x]
  BY DEF FlagTypes
<1>3. BroadcastState'
  BY <1>2 DEF BroadcastState, Peers, At
<1>4. RunsKnown' /\ NoStrayFlag'
  BY DEF RunsKnown, NoStrayFlag, Flag
<1>5. FlagUpWhileMoving'
  BY DEF FlagUpWhileMoving, Clashed, Flag, At
<1> QED
  BY <1>1, <1>3, <1>4, <1>5

\* Every step keeps the invariant of the flags.
LEMMA NextFlags == FInv /\ [Next]_vars => FInv'
<1> SUFFICES ASSUME FInv, [Next]_vars PROVE FInv'
  OBVIOUS
<1>1. CASE UNCHANGED vars
  BY <1>1, OpFinite, SilentStep DEF vars, opVars, flagVars
<1>2. ASSUME NEW o \in Op, Accept(o) PROVE FInv'
  BY <1>2, AcceptFlags
<1>3. ASSUME NEW o \in Op, NothingToDo(o) \/ NewPool(o) \/ Spawn(o) \/ Release(o) PROVE FInv'
  BY <1>3, SilentStep DEF NothingToDo, NewPool, Spawn, Release, flagVars
<1>4. ASSUME NEW o \in Op, NextCircle(o) PROVE FInv'
  BY <1>4, SilentStep DEF NextCircle, Waited, GoesTo, flagVars
<1>5. ASSUME NEW o \in Op, Moving(o) PROVE FInv'
  BY <1>5, SilentStep DEF Moving, Submit, MoverEnds, opVars, flagVars
<1>6. ASSUME NEW o \in Op, NEW k \in TaskIds, Running(o, k) PROVE FInv'
  BY <1>6, SilentStep DEF Running, Start, SubmitFails, TaskEnds, opVars, flagVars
<1> QED
  BY <1>1, <1>2, <1>3, <1>4, <1>5, <1>6, RaiseFlags, LowerFlags, TellFlags, TellFailsFlags
     DEF Next, Operation

LEMMA FlagsInvariant == Spec => []FInv
BY InitFlags, NextFlags, PTL DEF Spec

\* The flag of an operation is up while it moves data, on its own proxy and
\* wherever its broadcast arrived, unless another one with the flag ran meanwhile.
THEOREM FlagUpCorrect == Spec => []FlagUpWhileMoving
<1>1. FInv => FlagUpWhileMoving
  BY DEF FInv
<1> QED
  BY <1>1, FlagsInvariant, PTL

\* When all operations have ended every flag is down again, but at a peer that
\* a lost broadcast should have told.
THEOREM FlagsDownCorrect == Spec => []FlagsDownAfter
<1>1. FInv => FlagsDownAfter
  <2> SUFFICES ASSUME FInv, \A o \in Op : pc[o] \notin Live,
                      NEW q \in Proxy, NEW f \in up[q]
               PROVE  Lossy /\ \E o \in Op : Flag(o) = f /\ At(o) # q /\ q \in heard[o]
    BY DEF FlagsDownAfter
  <2>1. PICK o \in Op : Flag(o) = f /\ q \in heard[o]
    BY DEF FInv, NoStrayFlag
  <2>2. pc[o] = "ended"
    BY <2>1 DEF FInv, FlagTypes, BroadcastState
  <2> QED
    BY <2>1, <2>2 DEF FInv, BroadcastState
<1> QED
  BY <1>1, FlagsInvariant, PTL

\* A proxy accepts no operation that would meet one it has been told of.
THEOREM KeepsOutCorrect == Spec => KeepsOut
<1>1. FInv /\ [Next]_vars =>
         [\A o, x \in Op :
             /\ pc[x] = "new" /\ pc'[x] = "accepted"
             /\ pc[o] \in Live /\ ~Clashed(o)
             /\ At(x) \in heard[o]
             => ~Meets(x, Flag(o))]_vars
  <2> SUFFICES ASSUME FInv, Next, NEW o \in Op, NEW x \in Op,
                      pc[x] = "new", pc'[x] = "accepted", pc[o] \in Live, ~Clashed(o),
                      At(x) \in heard[o]
               PROVE  ~Meets(x, Flag(o))
    OBVIOUS
  <2>1. Accept(x)
    BY DEF FInv, FlagTypes, Next, Operation, Moving, Running, Accept, NothingToDo, NewPool,
           Raise, Tell, TellFails, Spawn, NextCircle, Waited, Lower, Release, GoesTo, Submit,
           MoverEnds, Start, SubmitFails, TaskEnds, opVars
  <2>2. Flag(o) \in up[At(x)] /\ Flag(o) \notin Tested(x)
    BY <2>1 DEF FInv, FlagUpWhileMoving, Accept
  <2>3. Flag(o) \in Flags
    BY JobTypes DEF FInv, FlagTypes
  <2> QED
    BY <2>2, <2>3 DEF Meets, Tested, Flags
<1> QED
  BY <1>1, FlagsInvariant, PTL DEF Spec, KeepsOut

-----------------------------------------------------------------------------
(* The wait groups.                                                         *)

Unended == {"submit", "run", "lost"}
Tasks == [st : TaskStates, by : Mover, pool : Op]

GInv ==
    /\ TypeOK
    /\ \A o \in Op : todo[o] # {}
    /\ GroupCounts
    /\ WaitedForAll

\* Sets of movers and sets of tasks are finite.
LEMMA FiniteMoves == ASSUME NEW S \in SUBSET (Op \X Mover) PROVE IsFiniteSet(S)
BY OpFinite, MoverFinite, FS_Product, FS_Subset

LEMMA FiniteTasks == ASSUME NEW S \in SUBSET (Op \X TaskIds) PROVE IsFiniteSet(S)
<1>1. IsFiniteSet(TaskIds)
  BY MaxTasksNat, FS_Interval DEF TaskIds
<1> QED
  BY <1>1, OpFinite, FS_Product, FS_Subset

\* One element more, one element less, or a disjoint part more.
LEMMA OneMore ==
    ASSUME NEW S, IsFiniteSet(S), NEW x, x \notin S, NEW T, T = S \cup {x}
    PROVE  Cardinality(T) = Cardinality(S) + 1
BY FS_AddElement

LEMMA OneLess ==
    ASSUME NEW S, IsFiniteSet(S), NEW x, x \in S, NEW T, T = S \ {x}
    PROVE  Cardinality(T) = Cardinality(S) - 1
BY FS_RemoveElement

LEMMA PartMore ==
    ASSUME NEW S, IsFiniteSet(S), NEW R, IsFiniteSet(R), S \cap R = {}, NEW T, T = S \cup R
    PROVE  Cardinality(T) = Cardinality(S) + Cardinality(R)
<1>1. Cardinality(T) = Cardinality(S) + Cardinality(R) - Cardinality({})
  BY FS_Union
<1>2. Cardinality({}) = 0 /\ Cardinality(S) \in Nat /\ Cardinality(R) \in Nat
  BY FS_EmptySet, FS_CardinalityType
<1> QED
  BY <1>1, <1>2

\* An operation's circle is a circle.
LEMMA SourceType == ASSUME GInv, NEW o \in Op PROVE At(o) \in Proxy /\ Source(o) \in Circle
<1>1. job[o] \in [kind : Kinds, proxy : Proxy, from : Circle, to : Circle]
  BY JobType DEF GInv, TypeOK
<1>2. First(todo[o]) \in Circle
  BY DEF GInv, TypeOK, First
<1> QED
  BY <1>1, <1>2 DEF At, Source

\* What counts does not change with what it does not depend on.
LEMMA SameUses ==
    ASSUME UNCHANGED job, NEW o \in Op, todo'[o] = todo[o], NEW p, NEW c
    PROVE  Uses(o, p, c)' <=> Uses(o, p, c)
<1>1. At(o)' = At(o) /\ Source(o)' = Source(o)
  BY DEF At, Source
<1> QED
  BY <1>1 DEF Uses

\* A counter that agrees with two cardinalities is a natural number.
LEMMA GroupsAreNat ==
    ASSUME wg' \in [Proxy -> [Circle -> Int]], GroupCounts'
    PROVE  wg' \in [Proxy -> [Circle -> Nat]]
<1>1. ASSUME NEW p \in Proxy, NEW c \in Circle PROVE wg'[p][c] \in Nat
  <2>1. Moves(p, c)' \in SUBSET (Op \X Mover) /\ Open(p, c)' \in SUBSET (Op \X TaskIds)
    BY DEF Moves, Open
  <2>2. Cardinality(Moves(p, c)') \in Nat /\ Cardinality(Open(p, c)') \in Nat
    BY <2>1, FiniteMoves, FiniteTasks, FS_CardinalityType
  <2> QED
    BY <2>2 DEF GroupCounts
<1> QED
  BY <1>1

\* A counter that is changed by an integer is one.
LEMMA GroupsAreInt ==
    ASSUME wg \in [Proxy -> [Circle -> Nat]], NEW p \in Proxy, NEW c \in Circle, NEW d \in Int,
           wg' = [wg EXCEPT ![p][c] = @ + d]
    PROVE  wg' \in [Proxy -> [Circle -> Int]]
<1>1. wg[p][c] + d \in Int
  OBVIOUS
<1>2. [wg[p] EXCEPT ![c] = @ + d] \in [Circle -> Int]
  BY <1>1
<1>3. \A q \in Proxy : wg[q] \in [Circle -> Int]
  OBVIOUS
<1> QED
  BY <1>2, <1>3

\* A zero counter: none of the movers and tasks that use the group is left.
LEMMA ZeroMeansNone ==
    ASSUME GInv, NEW o \in Op, Waited(o)
    PROVE  movers[o] = {} /\ \A k \in TaskIds : task[o][k].st \in {"none", "done"}
<1> DEFINE M == Moves(At(o), Source(o))
           T == Open(At(o), Source(o))
<1>1. M \in SUBSET (Op \X Mover) /\ T \in SUBSET (Op \X TaskIds)
  BY DEF Moves, Open
<1>2. IsFiniteSet(M) /\ IsFiniteSet(T)
  BY <1>1, FiniteMoves, FiniteTasks
<1>3. Cardinality(M) \in Nat /\ Cardinality(T) \in Nat
  BY <1>2, FS_CardinalityType
<1>4. Cardinality(M) + Cardinality(T) = 0
  BY SourceType DEF GInv, GroupCounts, Waited
<1>5. Cardinality(M) = 0 /\ Cardinality(T) = 0
  BY <1>3, <1>4
<1>6. M = {} /\ T = {}
  BY <1>2, <1>5, FS_EmptySet
<1>7. movers[o] = {}
  <2>1. SUFFICES ASSUME NEW m \in movers[o] PROVE FALSE
    OBVIOUS
  <2>2. m \in Mover
    BY DEF GInv, TypeOK
  <2>3. <<o, m>> \in M
    BY <2>2 DEF Moves, Uses
  <2> QED
    BY <1>6, <2>3
<1>8. ASSUME NEW k \in TaskIds PROVE task[o][k].st \in {"none", "done"}
  <2>1. <<o, k>> \notin T
    BY <1>6
  <2>2. task[o][k].st \notin {"submit", "run", "lost"}
    BY <2>1 DEF Open, Uses
  <2>3. task[o][k] \in Tasks
    BY DEF GInv, TypeOK, Tasks
  <2>4. task[o][k].st \in TaskStates
    BY <2>3 DEF Tasks
  <2> QED
    BY <2>2, <2>4 DEF TaskStates
<1> QED
  BY <1>7, <1>8

\* One task becomes t, and the counter changes by d as it must.
TaskBecomes(o, k, t, d) ==
    /\ task' = [task EXCEPT ![o][k] = t]
    /\ wg' = [wg EXCEPT ![At(o)][Source(o)] = @ + d]
    /\ \/ d = 1 /\ task[o][k].st \notin Unended /\ t.st \in Unended
       \/ d = -1 /\ task[o][k].st \in Unended /\ t.st \notin Unended
       \/ d = 0 /\ task[o][k].st \in Unended /\ t.st \in Unended

\* One task changes its state: the counter goes with it.
LEMMA TaskChange ==
    ASSUME GInv, UNCHANGED <<job, todo, movers>>,
           NEW o \in Op, NEW k \in TaskIds, NEW t \in Tasks, NEW d \in Int,
           TaskBecomes(o, k, t, d)
    PROVE  GroupCounts'
<1> USE DEF GInv, TaskBecomes
<1>1. /\ task'[o][k] = t
      /\ \A x \in Op, j \in TaskIds : <<x, j>> # <<o, k>> => task'[x][j] = task[x][j]
  BY DEF TypeOK
<1>2. SUFFICES ASSUME NEW p \in Proxy, NEW c \in Circle
               PROVE  wg'[p][c] = Cardinality(Moves(p, c)') + Cardinality(Open(p, c)')
  BY DEF GroupCounts
<1>3. Moves(p, c)' = Moves(p, c)
  BY SameUses DEF Moves
<1>4. wg[p][c] = Cardinality(Moves(p, c)) + Cardinality(Open(p, c)) /\ wg[p][c] \in Int
  BY DEF GroupCounts, TypeOK
<1>5. /\ Moves(p, c) \in SUBSET (Op \X Mover) /\ Open(p, c) \in SUBSET (Op \X TaskIds)
  BY DEF Moves, Open
<1>6. /\ IsFiniteSet(Open(p, c))
      /\ Cardinality(Moves(p, c)) \in Nat /\ Cardinality(Open(p, c)) \in Nat
  BY <1>5, FiniteMoves, FiniteTasks, FS_CardinalityType
<1>7. CASE ~Uses(o, p, c)
  <2>1. Open(p, c)' = Open(p, c)
    BY <1>1, <1>7, SameUses DEF Open
  <2>2. wg'[p][c] = wg[p][c]
    BY <1>7, SourceType DEF TypeOK, Uses
  <2> QED
    BY <1>3, <1>4, <2>1, <2>2
<1>8. CASE Uses(o, p, c)
  <2>1. wg'[p][c] = wg[p][c] + d
    BY <1>8 DEF TypeOK, Uses
  <2>2. CASE d = 1 /\ task[o][k].st \notin Unended /\ t.st \in Unended
    <3>1. Open(p, c)' = Open(p, c) \cup {<<o, k>>}
      BY <1>1, <1>8, <2>2, SameUses DEF Open, Unended
    <3>2. <<o, k>> \notin Open(p, c)
      BY <2>2 DEF Open, Unended
    <3>3. Cardinality(Open(p, c)') = Cardinality(Open(p, c)) + 1
      BY <1>6, <3>1, <3>2, OneMore
    <3> QED
      BY <1>3, <1>4, <1>6, <2>1, <2>2, <3>3
  <2>3. CASE d = -1 /\ task[o][k].st \in Unended /\ t.st \notin Unended
    <3>1. Open(p, c)' = Open(p, c) \ {<<o, k>>}
      BY <1>1, <1>8, <2>3, SameUses DEF Open, Unended
    <3>2. <<o, k>> \in Open(p, c)
      BY <1>8, <2>3 DEF Open, Unended
    <3>3. Cardinality(Open(p, c)') = Cardinality(Open(p, c)) - 1
      BY <1>6, <3>1, <3>2, OneLess
    <3> QED
      BY <1>3, <1>4, <1>6, <2>1, <2>3, <3>3
  <2>4. CASE d = 0 /\ task[o][k].st \in Unended /\ t.st \in Unended
    <3>1. Open(p, c)' = Open(p, c)
      BY <1>1, <1>8, <2>4, SameUses DEF Open, Unended
    <3> QED
      BY <1>3, <1>4, <1>6, <2>1, <2>4, <3>1
  <2> QED
    BY <2>2, <2>3, <2>4
<1> QED
  BY <1>7, <1>8

\* A mover ends: the counter goes with it.
LEMMA MoverEndCounted ==
    ASSUME GInv, NEW o \in Op, NEW m \in Mover, MoverEnds(o, m) PROVE GroupCounts'
<1> USE DEF GInv, MoverEnds, Count, opVars
<1>1. movers'[o] = movers[o] \ {m} /\ \A x \in Op : x # o => movers'[x] = movers[x]
  BY DEF TypeOK
<1> SUFFICES ASSUME NEW p \in Proxy, NEW c \in Circle
             PROVE  wg'[p][c] = Cardinality(Moves(p, c)') + Cardinality(Open(p, c)')
  BY DEF GroupCounts
<1>2. Open(p, c)' = Open(p, c)
  BY SameUses DEF Open
<1>3. wg[p][c] = Cardinality(Moves(p, c)) + Cardinality(Open(p, c)) /\ wg[p][c] \in Int
  BY DEF GroupCounts, TypeOK
<1>4. Moves(p, c) \in SUBSET (Op \X Mover) /\ Open(p, c) \in SUBSET (Op \X TaskIds)
  BY DEF Moves, Open
<1>5. /\ IsFiniteSet(Moves(p, c))
      /\ Cardinality(Moves(p, c)) \in Nat /\ Cardinality(Open(p, c)) \in Nat
  BY <1>4, FiniteMoves, FiniteTasks, FS_CardinalityType
<1>6. CASE ~Uses(o, p, c)
  <2>1. Moves(p, c)' = Moves(p, c)
    BY <1>1, <1>6, SameUses DEF Moves
  <2>2. wg'[p][c] = wg[p][c]
    BY <1>6, SourceType DEF TypeOK, Uses
  <2> QED
    BY <1>2, <1>3, <2>1, <2>2
<1>7. CASE Uses(o, p, c)
  <2>1. wg'[p][c] = wg[p][c] - 1
    BY <1>7 DEF TypeOK, Uses
  <2>2. Moves(p, c)' = Moves(p, c) \ {<<o, m>>}
    BY <1>1, <1>7, SameUses DEF Moves
  <2>3. <<o, m>> \in Moves(p, c)
    BY <1>7 DEF Moves
  <2>4. Cardinality(Moves(p, c)') = Cardinality(Moves(p, c)) - 1
    BY <1>5, <2>2, <2>3, OneLess
  <2> QED
    BY <1>2, <1>3, <1>5, <2>1, <2>4
<1> QED
  BY <1>6, <1>7

\* The movers start: the counter grows by their number.
LEMMA SpawnCounted == ASSUME GInv, NEW o \in Op, Spawn(o) PROVE GroupCounts'
<1> USE DEF GInv, Spawn, GoesTo
<1>1. PICK ms \in SUBSET Mover :
        /\ movers' = [movers EXCEPT ![o] = ms]
        /\ wg' = [wg EXCEPT ![At(o)][Source(o)] = @ + Cardinality(ms)]
  OBVIOUS
<1>2. movers'[o] = ms /\ movers[o] = {} /\ \A x \in Op : x # o => movers'[x] = movers[x]
  BY <1>1 DEF TypeOK, WaitedForAll
<1> SUFFICES ASSUME NEW p \in Proxy, NEW c \in Circle
             PROVE  wg'[p][c] = Cardinality(Moves(p, c)') + Cardinality(Open(p, c)')
  BY DEF GroupCounts
<1>3. Open(p, c)' = Open(p, c)
  BY SameUses DEF Open
<1>4. wg[p][c] = Cardinality(Moves(p, c)) + Cardinality(Open(p, c)) /\ wg[p][c] \in Int
  BY DEF GroupCounts, TypeOK
<1>5. Moves(p, c) \in SUBSET (Op \X Mover) /\ Open(p, c) \in SUBSET (Op \X TaskIds)
  BY DEF Moves, Open
<1>6. /\ IsFiniteSet(Moves(p, c))
      /\ Cardinality(Moves(p, c)) \in Nat /\ Cardinality(Open(p, c)) \in Nat
  BY <1>5, FiniteMoves, FiniteTasks, FS_CardinalityType
<1>7. CASE ~Uses(o, p, c)
  <2>1. Moves(p, c)' = Moves(p, c)
    BY <1>2, <1>7, SameUses DEF Moves
  <2>2. wg'[p][c] = wg[p][c]
    BY <1>1, <1>7, SourceType DEF TypeOK, Uses
  <2> QED
    BY <1>3, <1>4, <2>1, <2>2
<1>8. CASE Uses(o, p, c)
  <2>1. wg'[p][c] = wg[p][c] + Cardinality(ms)
    BY <1>1, <1>8 DEF TypeOK, Uses
  <2>2. Moves(p, c)' = Moves(p, c) \cup ({o} \X ms)
    BY <1>2, <1>8, SameUses DEF Moves
  <2>3. Moves(p, c) \cap ({o} \X ms) = {}
    BY <1>2 DEF Moves
  <2>4. IsFiniteSet(ms) /\ IsFiniteSet({o}) /\ Cardinality({o}) = 1
    BY MoverFinite, FS_Subset, FS_Singleton
  <2>5. Cardinality(ms) \in Nat
    BY <2>4, FS_CardinalityType
  <2>6. IsFiniteSet({o} \X ms) /\ Cardinality({o} \X ms) = 1 * Cardinality(ms)
    BY <2>4, FS_Product
  <2>7. Cardinality(Moves(p, c)') = Cardinality(Moves(p, c)) + Cardinality({o} \X ms)
    BY <1>6, <2>2, <2>3, <2>6, PartMore
  <2> QED
    BY <1>3, <1>4, <1>6, <2>1, <2>5, <2>6, <2>7
<1> QED
  BY <1>7, <1>8

\* A resync goes on with its next circle: it uses neither group at that moment.
LEMMA NextCircleCounted == ASSUME GInv, NEW o \in Op, NextCircle(o) PROVE GroupCounts'
<1> USE DEF GInv, NextCircle
<1>1. movers[o] = {} /\ \A k \in TaskIds : task[o][k].st \notin {"submit", "run", "lost"}
  BY ZeroMeansNone
<1>2. \A x \in Op : x # o => todo'[x] = todo[x]
  BY DEF TypeOK
<1>3. UNCHANGED <<movers, task, wg>>
  BY DEF taskVars
<1> SUFFICES ASSUME NEW p \in Proxy, NEW c \in Circle
             PROVE  wg'[p][c] = Cardinality(Moves(p, c)') + Cardinality(Open(p, c)')
  BY DEF GroupCounts
<1>4. Moves(p, c)' = Moves(p, c)
  BY <1>1, <1>2, <1>3, SameUses DEF Moves
<1>5. Open(p, c)' = Open(p, c)
  BY <1>1, <1>2, <1>3, SameUses DEF Open
<1> QED
  BY <1>3, <1>4, <1>5 DEF GroupCounts

\* Steps that leave what is counted alone.
LEMMA NothingCounted ==
    ASSUME GInv, UNCHANGED <<job, todo, movers, task, wg>> PROVE GroupCounts'
<1> SUFFICES ASSUME NEW p \in Proxy, NEW c \in Circle
             PROVE  wg'[p][c] = Cardinality(Moves(p, c)') + Cardinality(Open(p, c)')
  BY DEF GroupCounts
<1>1. Moves(p, c)' = Moves(p, c) /\ Open(p, c)' = Open(p, c)
  BY SameUses DEF Moves, Open
<1> QED
  BY <1>1 DEF GInv, GroupCounts

LEMMA InitGroups == Init => GInv
<1> SUFFICES ASSUME Init PROVE GInv
  OBVIOUS
<1>1. NoTask \in Tasks /\ NoTask.st = "none"
  BY OpFinite, MoverFinite DEF NoTask, Tasks, TaskStates
<1>2. \A o \in Op, k \in TaskIds : task[o][k] = NoTask
  BY DEF Init
<1>3. TypeOK
  <2>1. task \in [Op -> [TaskIds -> [st : TaskStates, by : Mover, pool : Op]]]
    BY <1>1 DEF Init, Tasks
  <2>2. pool \in [Proxy -> Op]
    BY OpFinite DEF Init
  <2> QED
    BY <2>1, <2>2 DEF Init, TypeOK
<1>4. Circle # {}
  BY OpFinite, JobType DEF Init
<1>5. WaitedForAll
  BY <1>1, <1>2 DEF Init, WaitedForAll
<1>6. GroupCounts
  <2> SUFFICES ASSUME NEW p \in Proxy, NEW c \in Circle
               PROVE  wg[p][c] = Cardinality(Moves(p, c)) + Cardinality(Open(p, c))
    BY DEF GroupCounts
  <2>1. Moves(p, c) = {}
    BY DEF Init, Moves
  <2>2. Open(p, c) = {}
    BY <1>1, <1>2 DEF Open
  <2> QED
    BY <2>1, <2>2, FS_EmptySet DEF Init
<1> QED
  BY <1>3, <1>4, <1>5, <1>6 DEF GInv, Init

\* Submit, Start, SubmitFails and TaskEnds keep the invariant: a task changes
\* its state, and only an operation that waits has tasks to change.
LEMMA TaskStep ==
    ASSUME GInv, UNCHANGED <<opVars, movers, pool, owned, released, up, heard, met>>,
           NEW o \in Op, pc[o] = "wait", NEW k \in TaskIds, NEW t \in Tasks, NEW d \in Int,
           TaskBecomes(o, k, t, d)
    PROVE  GInv'
<1> USE DEF GInv, opVars
<1>1. GroupCounts'
  BY TaskChange
<1>2. wg' \in [Proxy -> [Circle -> Int]]
  BY SourceType, GroupsAreInt DEF TypeOK, TaskBecomes
<1>3. task' \in [Op -> [TaskIds -> Tasks]]
  BY DEF TypeOK, Tasks, TaskBecomes
<1>4. TypeOK'
  BY <1>1, <1>2, <1>3, GroupsAreNat DEF TypeOK, Tasks
<1>5. WaitedForAll'
  BY DEF WaitedForAll, TypeOK, TaskBecomes
<1> QED
  BY <1>1, <1>4, <1>5

\* The steps of an operation's goroutine that leave the groups alone.
LEMMA GoroutineStep ==
    ASSUME GInv, UNCHANGED <<job, todo, taskVars>>,
           pc' \in [Op -> Live \cup {"new", "ended"}],
           \A o \in Op : pc[o] = "wait" => pc'[o] = "wait" \/ Waited(o),
           untold' \in [Op -> SUBSET Proxy], pool' \in [Proxy -> Op], owned' \in [Op -> Op],
           released' \in SUBSET Op, up' \in [Proxy -> SUBSET Flags],
           heard' \in [Op -> SUBSET Proxy], met' \in [Op -> SUBSET Op]
    PROVE  GInv'
<1> USE DEF GInv, taskVars
<1>1. GroupCounts'
  BY NothingCounted
<1>2. TypeOK'
  BY DEF TypeOK
<1>3. WaitedForAll'
  BY ZeroMeansNone DEF WaitedForAll
<1> QED
  BY <1>1, <1>2, <1>3

\* A broadcast that arrives keeps the types of the flags.
LEMMA TellTypes ==
    ASSUME NEW o \in Op, NEW q \in Proxy, Tell(o, q), Flag(o) \in Flags,
           up \in [Proxy -> SUBSET Flags], heard \in [Op -> SUBSET Proxy]
    PROVE  up' \in [Proxy -> SUBSET Flags] /\ heard' \in [Op -> SUBSET Proxy]
BY DEF Tell

\* Every step keeps the invariant of the groups.
LEMMA NextGroups == GInv /\ [Next]_vars => GInv'
<1> SUFFICES ASSUME GInv, [Next]_vars PROVE GInv'
  OBVIOUS
<1> USE DEF GInv
<1>1. CASE UNCHANGED vars
  <2>1. GroupCounts'
    BY <1>1, NothingCounted DEF vars, opVars, taskVars
  <2> QED
    BY <1>1, <2>1 DEF vars, opVars, taskVars, poolVars, flagVars, TypeOK, WaitedForAll
<1>2. ASSUME NEW o \in Op, Accept(o) \/ NothingToDo(o) \/ NewPool(o) PROVE GInv'
  <2>1. CASE Accept(o)
    <3>1. met' \in [Op -> SUBSET Op]
      BY <2>1 DEF Accept, TypeOK
    <3> QED
      BY <2>1, <3>1, GoroutineStep DEF Accept, GoesTo, TypeOK, Live, poolVars, flagVars
  <2>2. CASE NothingToDo(o)
    BY <2>2, GoroutineStep DEF NothingToDo, GoesTo, TypeOK, Live, poolVars, flagVars
  <2>3. CASE NewPool(o)
    BY <2>3, GoroutineStep DEF NewPool, GoesTo, TypeOK, Live, flagVars
  <2> QED
    BY <1>2, <2>1, <2>2, <2>3
<1>3. ASSUME NEW o \in Op, Raise(o) \/ Lower(o) \/ Release(o) PROVE GInv'
  <2>0. At(o) \in Proxy /\ Flag(o) \in Flags /\ Peers(o) \subseteq Proxy
    BY JobTypes DEF TypeOK, Peers
  <2>1. CASE Raise(o)
    BY <2>0, <2>1, GoroutineStep DEF Raise, GoesTo, TypeOK, Live
  <2>2. CASE Lower(o)
    BY <2>0, <2>2, GoroutineStep DEF Lower, Waited, TypeOK, Live, poolVars
  <2>3. CASE Release(o)
    BY <2>3, GoroutineStep DEF Release, GoesTo, TypeOK, Live, flagVars
  <2> QED
    BY <1>3, <2>1, <2>2, <2>3
<1>4. ASSUME NEW o \in Op, NEW q \in Proxy, Tell(o, q) \/ TellFails(o, q) PROVE GInv'
  <2>0. Flag(o) \in Flags
    BY JobTypes DEF TypeOK
  <2>1. CASE Tell(o, q)
    <3>1. up' \in [Proxy -> SUBSET Flags] /\ heard' \in [Op -> SUBSET Proxy]
      BY <2>0, <2>1, TellTypes DEF TypeOK
    <3>2. untold' \in [Op -> SUBSET Proxy]
      BY <2>1 DEF Tell, TypeOK
    <3> QED
      BY <2>1, <3>1, <3>2, GoroutineStep DEF Tell, TypeOK, poolVars
  <2>2. CASE TellFails(o, q)
    BY <2>2, GoroutineStep DEF TellFails, TypeOK, poolVars, flagVars
  <2> QED
    BY <1>4, <2>1, <2>2
<1>5. ASSUME NEW o \in Op, Spawn(o) PROVE GInv'
  <2>1. GroupCounts'
    BY <1>5, SpawnCounted
  <2>2. PICK ms \in SUBSET Mover :
          /\ movers' = [movers EXCEPT ![o] = ms]
          /\ wg' = [wg EXCEPT ![At(o)][Source(o)] = @ + Cardinality(ms)]
    BY <1>5 DEF Spawn
  <2>3. Cardinality(ms) \in Nat
    BY MoverFinite, FS_Subset, FS_CardinalityType
  <2>4. wg' \in [Proxy -> [Circle -> Int]] /\ movers' \in [Op -> SUBSET Mover]
    BY <2>2, <2>3, SourceType, GroupsAreInt DEF TypeOK
  <2>5. TypeOK'
    BY <1>5, <2>1, <2>4, GroupsAreNat DEF Spawn, GoesTo, TypeOK, Live, poolVars, flagVars
  <2>6. WaitedForAll'
    BY <1>5, <2>2 DEF Spawn, GoesTo, TypeOK, WaitedForAll
  <2> QED
    BY <1>5, <2>1, <2>5, <2>6 DEF Spawn
<1>6. ASSUME NEW o \in Op, NextCircle(o) PROVE GInv'
  <2>1. GroupCounts'
    BY <1>6, NextCircleCounted
  <2>2. TypeOK'
    BY <1>6 DEF NextCircle, TypeOK, Live, taskVars, poolVars, flagVars
  <2>3. WaitedForAll'
    BY <1>6, ZeroMeansNone DEF NextCircle, WaitedForAll, taskVars, TypeOK
  <2>4. \A x \in Op : todo'[x] # {}
    BY <1>6 DEF NextCircle, TypeOK
  <2> QED
    BY <2>1, <2>2, <2>3, <2>4
<1>7. ASSUME NEW o \in Op, NEW m \in Mover, Submit(o, m) PROVE GInv'
  <2>1. pc[o] = "wait"
    BY <1>7 DEF Submit, WaitedForAll
  <2>2. PICK k \in TaskIds :
          /\ task[o][k].st = "none"
          /\ task' = [task EXCEPT ![o][k] = [st |-> "submit", by |-> m, pool |-> pool[At(o)]]]
    BY <1>7 DEF Submit
  <2>3. [st |-> "submit", by |-> m, pool |-> pool[At(o)]] \in Tasks
    BY SourceType DEF Tasks, TaskStates, TypeOK
  <2>4. wg' = [wg EXCEPT ![At(o)][Source(o)] = @ + 1]
    BY <1>7 DEF Submit, Count
  <2> QED
    <3>1. UNCHANGED <<opVars, movers, pool, owned, released, up, heard, met>>
      BY <1>7 DEF Submit, poolVars, flagVars
    <3> DEFINE t == [st |-> "submit", by |-> m, pool |-> pool[At(o)]]
    <3>2. task[o][k].st \notin Unended /\ t.st \in Unended
      BY <2>2 DEF Unended
    <3>3. TaskBecomes(o, k, t, 1)
      BY <2>2, <2>4, <3>2 DEF TaskBecomes
    <3>4. t \in Tasks
      BY <2>3
    <3> HIDE DEF t
    <3> QED
      BY <2>1, <3>1, <3>3, <3>4, TaskStep
<1>8. ASSUME NEW o \in Op, NEW m \in Mover, MoverEnds(o, m) PROVE GInv'
  <2>1. GroupCounts'
    BY <1>8, MoverEndCounted
  <2>2. wg' \in [Proxy -> [Circle -> Int]]
    BY <1>8, SourceType, GroupsAreInt DEF MoverEnds, Count, TypeOK
  <2>3. TypeOK'
    BY <1>8, <2>1, <2>2, GroupsAreNat DEF MoverEnds, TypeOK, opVars, poolVars, flagVars
  <2>4. WaitedForAll'
    BY <1>8 DEF MoverEnds, WaitedForAll, TypeOK, opVars
  <2> QED
    BY <1>8, <2>1, <2>3, <2>4 DEF MoverEnds, opVars
<1>9. ASSUME NEW o \in Op, NEW k \in TaskIds, Running(o, k) PROVE GInv'
  <2>1. task[o][k] \in Tasks
    BY DEF TypeOK, Tasks
  <2>2. pc[o] = "wait"
    BY <1>9 DEF Running, Start, SubmitFails, TaskEnds, WaitedForAll
  <2>3. \A st \in TaskStates : [st |-> st, by |-> task[o][k].by, pool |-> task[o][k].pool] \in Tasks
    BY <2>1 DEF Tasks
  <2>4. wg = [wg EXCEPT ![At(o)][Source(o)] = @ + 0]
    BY SourceType DEF TypeOK
  <2>5. UNCHANGED <<opVars, movers, pool, owned, released, up, heard, met>>
    BY <1>9 DEF Running, Start, SubmitFails, TaskEnds, poolVars, flagVars
  <2> DEFINE t(st) == [st |-> st, by |-> task[o][k].by, pool |-> task[o][k].pool]
  <2>6. CASE Start(o, k) \/ SubmitFails(o, k)
    <3>1. PICK st \in {"run", "lost"} : task' = [task EXCEPT ![o][k] = t(st)]
      BY <2>6 DEF Start, SubmitFails, Turns
    <3>2. wg' = [wg EXCEPT ![At(o)][Source(o)] = @ + 0]
      BY <2>4, <2>6 DEF Start, SubmitFails
    <3>3. t(st) \in Tasks /\ t(st).st \in Unended /\ task[o][k].st \in Unended
      BY <2>3, <2>6 DEF Start, SubmitFails, TaskStates, Unended
    <3> HIDE DEF t
    <3>4. TaskBecomes(o, k, t(st), 0)
      BY <3>1, <3>2, <3>3 DEF TaskBecomes
    <3> QED
      BY <2>2, <2>5, <3>3, <3>4, TaskStep
  <2>7. CASE TaskEnds(o, k)
    <3>1. task' = [task EXCEPT ![o][k] = t("done")]
      BY <2>7 DEF TaskEnds, Turns
    <3>2. wg' = [wg EXCEPT ![At(o)][Source(o)] = @ + (-1)]
      BY <2>7 DEF TaskEnds, Count
    <3>3. t("done") \in Tasks /\ t("done").st \notin Unended /\ task[o][k].st \in Unended
      BY <2>3, <2>7 DEF TaskEnds, TaskStates, Unended
    <3> HIDE DEF t
    <3>4. TaskBecomes(o, k, t("done"), -1)
      BY <3>1, <3>2, <3>3 DEF TaskBecomes
    <3> QED
      BY <2>2, <2>5, <3>3, <3>4, TaskStep
  <2> QED
    BY <1>9, <2>6, <2>7 DEF Running
<1> QED
  BY <1>1, <1>2, <1>3, <1>4, <1>5, <1>6, <1>7, <1>8, <1>9 DEF Next, Operation, Moving

LEMMA GroupsInvariant == Spec => []GInv
BY InitGroups, NextGroups, PTL DEF Spec

\* Every state is well typed; above all no wait group goes negative.
THEOREM TypeCorrect == Spec => []TypeOK
<1>1. GInv => TypeOK
  BY DEF GInv
<1> QED
  BY <1>1, GroupsInvariant, PTL

\* The wait group of a circle is the number of movers and tasks that use it.
THEOREM GroupCountsCorrect == Spec => []GroupCounts
<1>1. GInv => GroupCounts
  BY DEF GInv
<1> QED
  BY <1>1, GroupsInvariant, PTL

\* An operation that is past its Wait has no mover, no task and no lost task,
\* whatever other operations do with the same group and pool.
THEOREM WaitedForAllCorrect == Spec => []WaitedForAll
<1>1. GInv => WaitedForAll
  BY DEF GInv
<1> QED
  BY <1>1, GroupsInvariant, PTL

=============================================================================
