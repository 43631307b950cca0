------------------------------- MODULE Executor -------------------------------
(***************************************************************************)
(* One request of a client to the query executor (backend/executor.go)      *)
(* while the flags of the backends change under it.  A request is one of    *)
(*   "select"  two passes over the backends of its key, one per circle,     *)
(*             asking one after the other until one answers;                *)
(*   "stream"  the same for flux and prometheus reads, whose body is        *)
(*             forwarded from the client's request;                         *)
(*   "show"    all active backends at once, their answers merged;           *)
(*   "alter"   all backends at once, after a test that all are active.      *)
(* Every flag is read in a step of its own.  The loops go through the       *)
(* backends at random or in the order of the configuration: in any order    *)
(* here.                                                                    *)
(***************************************************************************)
EXTENDS Naturals

CONSTANTS
    Backend,    \* the backends the request is for
    WriteOnly,  \* those configured write-only
    Kinds,      \* the kinds of requests
    MaxChanges  \* bound on the changes of flags during a request

AllKinds == {"select", "stream", "show", "alter"}

ASSUME WriteOnlyBackend == WriteOnly \subseteq Backend
ASSUME KindsKnown == Kinds \subseteq AllKinds
ASSUME MaxChangesNat == MaxChanges \in Nat

VARIABLES
    active,     \* HttpBackend.active
    rewriting,  \* HttpBackend.rewriting
    transferIn, \* HttpBackend.transferIn
    kind,       \* what the request is
    pc,         \* where the request's goroutine stands
    pass,       \* 1 or 2
    left,       \* the backends the loop has still to come to
    cur,        \* the set of the backend the loop looks at, if any
    body,       \* the request's body is still there to be sent
    asked,      \* the backends the request was sent to
    replies,    \* replies[b]: "none", "ok", "refused", "cancelled" or "error"
    result,     \* "none", "ok", "error", "unavailable" or "panic"
    steady,     \* history: backends whose flags have not changed since the start
    executed,   \* history: backends whose server executed the request
    gone,       \* the client has left: the request's context is cancelled
    changes     \* number of changes of flags

flagVars == <<active, rewriting, transferIn>>
history == <<steady, changes, gone>>
vars == <<flagVars, kind, pc, pass, left, cur, body, asked, replies, result, executed, history>>

TypeOK ==
    /\ active \in [Backend -> BOOLEAN]
    /\ rewriting \in [Backend -> BOOLEAN]
    /\ transferIn \in [Backend -> BOOLEAN]
    /\ kind \in Kinds
    /\ pc \in {"next", "rewriting", "writeonly", "ask", "verify", "spawn", "collect", "done"}
    /\ pass \in 1..2
    /\ left \in SUBSET Backend
    /\ cur \in SUBSET Backend
    /\ asked \in SUBSET Backend
    /\ steady \in SUBSET Backend
    /\ executed \in SUBSET Backend
    /\ body \in BOOLEAN
    /\ gone \in BOOLEAN
    /\ replies \in [Backend -> {"none", "ok", "refused", "cancelled", "error"}]
    /\ result \in {"none", "ok", "error", "unavailable", "panic"}
    /\ changes \in 0..MaxChanges

IsWriteOnly(b) == b \in WriteOnly \/ transferIn[b]

\* What the first pass looks for.
Fit(b) == active[b] /\ ~rewriting[b] /\ ~IsWriteOnly(b)

Init ==
    /\ active \in [Backend -> BOOLEAN]
    /\ rewriting \in [Backend -> BOOLEAN]
    /\ transferIn \in [Backend -> BOOLEAN]
    /\ kind \in Kinds
    /\ pc = CASE kind = "alter" -> "verify" [] kind = "show" -> "spawn" [] OTHER -> "next"
    /\ pass = 1
    /\ left = Backend
    /\ cur = {}
    /\ body = TRUE
    /\ asked = {}
    /\ replies = [b \in Backend |-> "none"]
    /\ result = "none"
    /\ executed = {}
    /\ gone = FALSE
    /\ steady = Backend
    /\ changes = 0

-----------------------------------------------------------------------------
(* The flags change: pings, failed posts, the rewriter and transfers.          *)

FlagsChange(b) ==
    /\ pc # "done"
    /\ changes < MaxChanges
    /\ changes' = changes + 1
    /\ steady' = steady \ {b}
    /\ UNCHANGED <<kind, pc, pass, left, cur, body, asked, replies, result, executed, gone>>

SetActive(b) ==
    /\ active' = [active EXCEPT ![b] = ~@]
    /\ UNCHANGED <<rewriting, transferIn>>
    /\ FlagsChange(b)

SetRewriting(b) ==
    /\ rewriting' = [rewriting EXCEPT ![b] = ~@]
    /\ UNCHANGED <<active, transferIn>>
    /\ FlagsChange(b)

SetTransferIn(b) ==
    /\ transferIn' = [transferIn EXCEPT ![b] = ~@]
    /\ UNCHANGED <<active, rewriting>>
    /\ FlagsChange(b)

-----------------------------------------------------------------------------
(* What comes back from a backend.  Query finds an error only in the transport *)
(* and in a status from 400 on.  It takes for an answer, too, the error of the *)
(* statement that a server reports inside a 200, for a stream whatever status  *)
(* the server sends ("refused"), and of the requests sent all at once the      *)
(* empty body of one that is cancelled with its client.                        *)

Replied(b, r) == replies' = [replies EXCEPT ![b] = r]

\* The server answers.
Answered(b) ==
    \/ Replied(b, "ok") /\ executed' = executed \union {b}
    \/ Replied(b, "refused") /\ UNCHANGED executed

\* What the code takes for an answer.
Taken(b) == replies[b] \in {"ok", "refused", "cancelled"}

\* The client closes its connection.  A query sent to one after the other fails
\* from then on, as in AskFails.
ClientLeaves ==
    /\ kind \in {"show", "alter"} /\ pc # "done"
    /\ ~gone
    /\ gone' = TRUE
    /\ UNCHANGED <<flagVars, kind, pc, pass, left, cur, body, asked, replies, result, executed, steady, changes>>

-----------------------------------------------------------------------------
(* query: the two passes. *)

Failed == {b \in asked : replies[b] = "error"}

Return(r) == pc' = "done" /\ result' = r

\* The mistakes of asking for the same flags in both passes, and for none.
GoesFit(flag) == IF flag THEN "next" ELSE "ask"
GoesAnyway(flag) == "ask"

\* How a pass goes on from a backend with this rewriting or write-only flag: the
\* first passes by what the second looks for.
Goes(flag) == IF flag = (pass = 2) THEN "ask" ELSE "next"

LookActive(b) ==
    /\ pc = "next" /\ b \in left
    /\ left' = left \ {b}
    /\ IF active[b]
       THEN pc' = "rewriting" /\ cur' = {b}
       ELSE UNCHANGED <<pc, cur>>
    /\ UNCHANGED <<flagVars, kind, pass, body, asked, replies, result, executed, history>>

LookRewriting(b) ==
    /\ pc = "rewriting" /\ cur = {b}
    /\ pc' = IF rewriting[b] THEN Goes(TRUE) ELSE "writeonly"
    /\ UNCHANGED <<flagVars, kind, pass, left, cur, body, asked, replies, result, executed, history>>

LookWriteOnly(b) ==
    /\ pc = "writeonly" /\ cur = {b}
    /\ pc' = Goes(IsWriteOnly(b))
    /\ UNCHANGED <<flagVars, kind, pass, left, cur, body, asked, replies, result, executed, history>>

\* The request is sent and answered, the end of it.
AskAnswered(b) ==
    /\ pc = "ask" /\ cur = {b}
    /\ body
    /\ asked' = asked \union {b}
    /\ Answered(b)
    /\ Return("ok")
    /\ UNCHANGED <<flagVars, kind, pass, left, cur, body, history>>

\* It fails.  The body of a stream is used up by then, unless the connection
\* could not be made; without a body sending fails before the server sees it.
AskFails(b) ==
    /\ pc = "ask" /\ cur = {b}
    /\ pc' = "next"
    /\ asked' = IF body THEN asked \union {b} ELSE asked
    /\ Replied(b, "error")
    /\ executed' \in {executed} \union (IF body THEN {executed \union {b}} ELSE {})
    /\ body' \in IF kind = "stream" THEN {body, FALSE} ELSE {body}
    /\ UNCHANGED <<flagVars, kind, pass, left, cur, result, history>>

\* The mistake of losing the last error.
PassEndsForgets ==
    /\ pc = "next" /\ left = {}
    /\ IF pass = 1
       THEN pass' = 2 /\ left' = Backend /\ UNCHANGED <<pc, result>>
       ELSE Return("unavailable") /\ UNCHANGED <<pass, left>>
    /\ UNCHANGED <<flagVars, kind, cur, body, asked, replies, executed, history>>

PassEnds ==
    /\ pc = "next" /\ left = {}
    /\ IF pass = 1
       THEN pass' = 2 /\ left' = Backend /\ UNCHANGED <<pc, result>>
       ELSE /\ Return(IF \E b \in Backend : replies[b] = "error" THEN "error" ELSE "unavailable")
            /\ UNCHANGED <<pass, left>>
    /\ UNCHANGED <<flagVars, kind, cur, body, asked, replies, executed, history>>

-----------------------------------------------------------------------------
(* QueryBackends and QueryInParallel: all at once. *)

\* QueryBackends' own loop over the flags.
Verify(b) ==
    /\ pc = "verify" /\ b \in left
    /\ left' = left \ {b}
    /\ IF active[b] THEN UNCHANGED <<pc, result>> ELSE Return("unavailable")
    /\ UNCHANGED <<flagVars, kind, pass, cur, body, asked, replies, executed, history>>

Verified ==
    /\ pc = "verify" /\ left = {}
    /\ pc' = "spawn"
    /\ left' = Backend
    /\ UNCHANGED <<flagVars, kind, pass, cur, body, asked, replies, result, executed, history>>

\* QueryInParallel reads the flag again and leaves out the inactive.
Spawn(b) ==
    /\ pc = "spawn" /\ b \in left
    /\ left' = left \ {b}
    /\ asked' = IF active[b] THEN asked \union {b} ELSE asked
    /\ UNCHANGED <<flagVars, kind, pc, pass, cur, body, replies, result, executed, history>>

Spawned ==
    /\ pc = "spawn" /\ left = {}
    /\ pc' = "collect"
    /\ UNCHANGED <<flagVars, kind, pass, left, cur, body, asked, replies, result, executed, history>>

\* The goroutine of a backend: it runs on when the request has returned, which
\* cancels it like the client's leaving.
Reply(b) ==
    /\ kind \in {"show", "alter"}
    /\ b \in asked /\ replies[b] = "none"
    /\ \/ Answered(b)
       \/ /\ Replied(b, "error") \/ ((gone \/ pc = "done") /\ Replied(b, "cancelled"))
          /\ executed' \in {executed, executed \union {b}}
    /\ UNCHANGED <<flagVars, kind, pc, pass, left, cur, body, asked, result, history>>

CollectError ==
    /\ pc = "collect"
    /\ Failed # {}
    /\ Return("error")
    /\ UNCHANGED <<flagVars, kind, pass, left, cur, body, asked, replies, executed, history>>

\* The mistake of not waiting for the goroutines.
CollectedSome ==
    /\ pc = "collect"
    /\ \E b \in asked : Taken(b)
    /\ Return("ok")
    /\ UNCHANGED <<flagVars, kind, pass, left, cur, body, asked, replies, executed, history>>

\* All replies are in.  Without any, show reports that nobody is there and
\* QueryBackends indexes an empty slice; show cannot decode an empty body, and
\* QueryBackends passes it on.
Collected ==
    /\ pc = "collect"
    /\ \A b \in asked : Taken(b)
    /\ Return(CASE asked = {} -> IF kind = "show" THEN "unavailable" ELSE "panic"
                [] kind = "show" /\ (\E b \in asked : replies[b] = "cancelled") -> "error"
                [] OTHER -> "ok")
    /\ UNCHANGED <<flagVars, kind, pass, left, cur, body, asked, replies, executed, history>>

Done == pc = "done" /\ UNCHANGED vars

Next ==
    \/ \E b \in Backend :
        \/ SetActive(b)
        \/ SetRewriting(b)
        \/ SetTransferIn(b)
        \/ LookActive(b)
        \/ LookRewriting(b)
        \/ LookWriteOnly(b)
        \/ AskAnswered(b)
        \/ AskFails(b)
        \/ Verify(b)
        \/ Spawn(b)
        \/ Reply(b)
    \/ ClientLeaves
    \/ PassEnds
    \/ Verified
    \/ Spawned
    \/ CollectError
    \/ Collected
    \/ Done

Spec == Init /\ [][Next]_vars

-----------------------------------------------------------------------------
(* What a client is promised. *)

OneByOne == kind \in {"select", "stream"}

\* A query fails, or finds nobody, only if every backend that was there for it
\* (active, with no flag changing from start to end) was asked and failed.
\* What the two passes are for: a backend that is skipped by both because its
\* flags changed between them is the only one that may be missed.  A stream,
\* though, reaches nobody any more once a backend that failed has used up its body.
FailoverWorks ==
    OneByOne /\ result \in {"error", "unavailable"} =>
        \A b \in steady : active[b] => b \in Failed \/ (kind = "stream" /\ ~body)

\* A backend that is behind, or is being filled, from start to end answers only
\* if every backend that was fit from start to end was asked and failed: it is
\* the last resort.
PrefersFit ==
    OneByOne /\ result = "ok" =>
        \A b \in steady :
            Taken(b) /\ ~Fit(b) => \A c \in steady : Fit(c) => c \in Failed

\* "Unavailable" means that no server has executed the statement or ever will.
UnavailableHasNoEffect == result = "unavailable" => executed = {}

\* A statement for all backends that is reported done was executed by each that
\* did not go down or come back meanwhile, and the merged answer of a show
\* holds the answer of each that was active throughout.  What the code does not
\* tell from done is excepted: a statement that a server refused inside a 200,
\* and an answer that the client did not wait for.
DoneIsDone ==
    ~OneByOne /\ result = "ok" =>
        \A b \in steady :
            \/ b \in executed
            \/ replies[b] = "refused"
            \/ kind = "alter" /\ gone /\ replies[b] = "cancelled"
            \/ kind = "show" /\ ~active[b]

-----------------------------------------------------------------------------
(* Why: an inductive invariant.                                               *)

Looking == pc \in {"rewriting", "writeonly", "ask"}

\* The loop holds a backend, and what it has read of it holds if it is steady.
CurInv ==
    Looking =>
        \E b \in Backend :
            /\ cur = {b}
            /\ b \in steady =>
                  /\ active[b]
                  /\ pc = "writeonly" => ~rewriting[b]
                  /\ pc = "ask" => (Fit(b) <=> pass = 1)

\* The loop of a pass has still to come to b.
Ahead(b) == b \in left \/ (Looking /\ cur = {b})

\* As long as the body is there, a steady active backend that has not failed is
\* ahead in its own pass: in the first if it is fit, in the second otherwise.
SelectInv ==
    OneByOne /\ pc # "done" =>
        /\ pc = "next" \/ Looking
        /\ kind = "select" => body
        /\ \A b \in Backend : ~Taken(b) /\ (b \in executed => replies[b] = "error")
        /\ body => {b \in Backend : replies[b] # "none"} \subseteq asked
        /\ \A b \in steady :
              body /\ active[b] /\ b \notin Failed =>
                  IF pass = 1 THEN Fit(b) => Ahead(b) ELSE ~Fit(b) /\ Ahead(b)

\* What has been executed was asked for; after the test of an alter steady
\* backends are active, and after the loop those have been asked.
ParallelInv ==
    kind \in {"show", "alter"} =>
        /\ pc \in {"verify", "spawn", "collect", "done"}
        /\ executed \subseteq asked
        /\ \A b \in Backend : replies[b] = "ok" => b \in executed
        /\ \A b \in Backend : replies[b] # "none" => b \in asked
        /\ result = "ok" => \A b \in asked : Taken(b)
        /\ \A b \in Backend :
              replies[b] = "cancelled" => gone \/ (pc = "done" /\ result # "ok")
        /\ kind = "show" /\ result = "ok" => \A b \in Backend : replies[b] # "cancelled"
        /\ pc = "verify" => kind = "alter" /\ asked = {}
        /\ kind = "alter" /\ result # "unavailable" =>
              \A b \in steady : active[b] \/ (pc = "verify" /\ b \in left)
        /\ pc = "spawn" => \A b \in steady : active[b] => b \in left \union asked
        /\ pc = "collect" => \A b \in steady : active[b] => b \in asked
        /\ result = "unavailable" => asked = {}

EInv ==
    /\ TypeOK
    /\ pc # "done" <=> result = "none"
    /\ CurInv
    /\ SelectInv
    /\ ParallelInv
    /\ FailoverWorks
    /\ PrefersFit
    /\ UnavailableHasNoEffect
    /\ DoneIsDone

=============================================================================
