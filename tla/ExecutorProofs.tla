---------------------------- MODULE ExecutorProofs ----------------------------
(***************************************************************************)
(* Theorems about Executor, for any backends and any number of changes of   *)
(* their flags.                                                             *)
(***************************************************************************)
EXTENDS Executor, TLAPS

-----------------------------------------------------------------------------
(* Types. *)

\* The initial states are well typed.
LEMMA InitType == Init => TypeOK
<1> SUFFICES ASSUME Init PROVE TypeOK
  OBVIOUS
<1>1. pc \in {"next", "verify", "spawn"}
  BY DEF Init
<1>2. replies \in [Backend -> {"none", "ok", "refused", "cancelled", "error"}]
  BY DEF Init
<1>3. changes \in 0..MaxChanges
  BY MaxChangesNat DEF Init
<1>4. /\ active \in [Backend -> BOOLEAN]
      /\ rewriting \in [Backend -> BOOLEAN]
      /\ transferIn \in [Backend -> BOOLEAN]
      /\ kind \in Kinds
  BY DEF Init
<1>5. pass \in 1..2
  BY DEF Init
<1>6. body \in BOOLEAN /\ gone \in BOOLEAN
  BY DEF Init
<1>7. /\ left \in SUBSET Backend /\ steady \in SUBSET Backend
      /\ cur \in SUBSET Backend /\ asked \in SUBSET Backend /\ executed \in SUBSET Backend
      /\ result \in {"none", "ok", "error", "unavailable", "panic"}
  BY DEF Init
<1> QED
  BY <1>1, <1>2, <1>3, <1>4, <1>5, <1>6, <1>7 DEF TypeOK

\* Every step keeps the types.
LEMMA NextType == TypeOK /\ [Next]_vars => TypeOK'
<1> SUFFICES ASSUME TypeOK, [Next]_vars PROVE TypeOK'
  OBVIOUS
<1> USE DEF TypeOK, history, flagVars, Replied, Answered
<1>1. CASE UNCHANGED vars
  BY <1>1 DEF vars
<1>2. ASSUME NEW b \in Backend, SetActive(b) \/ SetRewriting(b) \/ SetTransferIn(b)
      PROVE TypeOK'
  <2>1. changes' \in 0..MaxChanges
    BY <1>2, MaxChangesNat DEF SetActive, SetRewriting, SetTransferIn, FlagsChange
  <2> QED
    BY <1>2, <2>1 DEF SetActive, SetRewriting, SetTransferIn, FlagsChange
<1>3. ASSUME NEW b \in Backend, LookActive(b) \/ LookRewriting(b) \/ LookWriteOnly(b)
      PROVE TypeOK'
  BY <1>3 DEF LookActive, LookRewriting, LookWriteOnly, Goes
<1>4. ASSUME NEW b \in Backend, AskAnswered(b) \/ AskFails(b)
      PROVE TypeOK'
  <2>1. executed' \subseteq Backend /\ body' \in BOOLEAN
    BY <1>4 DEF AskAnswered, AskFails
  <2> QED
    BY <1>4, <2>1 DEF AskAnswered, AskFails, Return
<1>5. ASSUME NEW b \in Backend, Verify(b) \/ Spawn(b) \/ Reply(b)
      PROVE TypeOK'
  BY <1>5 DEF Verify, Spawn, Reply, Return
<1>6. CASE PassEnds \/ Verified \/ Spawned \/ CollectError \/ Collected \/ ClientLeaves
  <2>1. CASE Collected
    <3>1. result' \in {"ok", "unavailable", "panic", "error"}
      BY <2>1 DEF Collected, Return
    <3> QED
      BY <2>1, <3>1 DEF Collected, Return
  <2>2. CASE PassEnds
    <3>1. result' \in {result, "error", "unavailable"} /\ pc' \in {pc, "done"} /\ pass' \in {pass, 2}
      BY <2>2 DEF PassEnds, Return
    <3> QED
      BY <2>2, <3>1 DEF PassEnds
  <2>3. CASE Verified \/ Spawned \/ CollectError \/ ClientLeaves
    BY <2>3 DEF Verified, Spawned, CollectError, ClientLeaves, Return
  <2> QED
    BY <1>6, <2>1, <2>2, <2>3
<1> QED
  BY <1>1, <1>2, <1>3, <1>4, <1>5, <1>6 DEF Next, Done

\* Every reachable state is well typed.
THEOREM TypeCorrect == Spec => []TypeOK
<1> QED
  BY InitType, NextType, PTL DEF Spec

-----------------------------------------------------------------------------
(* The inductive invariant. *)

\* It holds initially.
LEMMA InitInv == Init => EInv
<1> SUFFICES ASSUME Init PROVE EInv
  OBVIOUS
<1>1. TypeOK
  BY InitType
<1>2. /\ kind \in AllKinds
      /\ OneByOne => pc = "next"
      /\ kind = "show" => pc = "spawn"
      /\ kind = "alter" => pc = "verify"
  BY KindsKnown DEF Init, AllKinds, OneByOne
<1> QED
  BY <1>1, <1>2 DEF Init, EInv, Taken, CurInv, Looking, SelectInv, Failed, Ahead, ParallelInv, OneByOne,
     FailoverWorks, PrefersFit, UnavailableHasNoEffect, DoneIsDone

\* A flag that changes takes its backend out of the steady ones.
LEMMA FlagsInv ==
    ASSUME EInv, NEW b \in Backend, SetActive(b) \/ SetRewriting(b) \/ SetTransferIn(b)
    PROVE  EInv'
<1> USE DEF Taken
<1>1. TypeOK'
  BY NextType DEF EInv, Next
<1>2. /\ FlagsChange(b)
      /\ \A c \in Backend \ {b} :
            active'[c] = active[c] /\ rewriting'[c] = rewriting[c] /\ transferIn'[c] = transferIn[c]
  BY DEF EInv, TypeOK, SetActive, SetRewriting, SetTransferIn
<1>3. \A c \in steady' : c \in steady /\ active'[c] = active[c] /\ rewriting'[c] = rewriting[c] /\ Fit(c)' = Fit(c)
  BY <1>2 DEF EInv, TypeOK, FlagsChange, Fit, IsWriteOnly
<1>4. Looking' = Looking /\ Failed' = Failed /\ pc # "done" /\ \A c \in Backend : Ahead(c)' = Ahead(c)
  BY <1>2 DEF FlagsChange, Looking, Failed, Ahead
<1>5. CurInv'
  BY <1>2, <1>3, <1>4 DEF EInv, CurInv, FlagsChange
<1>6. SelectInv'
  BY <1>2, <1>3, <1>4 DEF EInv, TypeOK, SelectInv, FlagsChange, OneByOne
<1>7. ParallelInv'
  BY <1>2, <1>3 DEF EInv, ParallelInv, FlagsChange
<1> QED
  BY <1>1, <1>2, <1>4, <1>5, <1>6, <1>7 DEF EInv, FlagsChange, FailoverWorks, PrefersFit, UnavailableHasNoEffect, DoneIsDone

\* Looking at the flags of a backend.
LEMMA LookInv ==
    ASSUME EInv, NEW b \in Backend, LookActive(b) \/ LookRewriting(b) \/ LookWriteOnly(b)
    PROVE  EInv'
<1>1. TypeOK'
  BY NextType DEF EInv, Next
<1> USE DEF history, flagVars, Failed, Taken
<1>2. /\ UNCHANGED <<active, rewriting, transferIn, kind, pass, body, asked, replies, result, executed, steady>>
      /\ pc \in {"next", "rewriting", "writeonly"} /\ pc' \in {"next", "rewriting", "writeonly", "ask"}
      /\ result = "none"
      /\ \A c \in Backend : Fit(c)' = Fit(c)
  BY DEF EInv, LookActive, LookRewriting, LookWriteOnly, Goes, Fit, IsWriteOnly
<1>3. OneByOne
  BY <1>2, KindsKnown DEF EInv, TypeOK, ParallelInv, AllKinds, OneByOne
<1>4. CurInv'
  <2>1. CASE LookActive(b)
    BY <2>1, <1>2 DEF LookActive, EInv, CurInv, Looking
  <2>2. CASE LookRewriting(b)
    BY <2>2, <1>2 DEF LookRewriting, EInv, CurInv, Looking, Goes, Fit, TypeOK
  <2>3. CASE LookWriteOnly(b)
    BY <2>3, <1>2 DEF LookWriteOnly, EInv, CurInv, Looking, Goes, Fit, TypeOK
  <2> QED
    BY <2>1, <2>2, <2>3
<1>5. SelectInv'
  <2> SUFFICES ASSUME body, NEW c \in steady, active[c], c \notin Failed
               PROVE  IF pass = 1 THEN Fit(c) => Ahead(c)' ELSE ~Fit(c) /\ Ahead(c)'
    BY <1>2, <1>3 DEF EInv, TypeOK, SelectInv, Looking, OneByOne
  <2>1. IF pass = 1 THEN Fit(c) => Ahead(c) ELSE ~Fit(c) /\ Ahead(c)
    BY <1>2, <1>3 DEF EInv, SelectInv
  <2>2. CASE LookActive(b)
    BY <2>1, <2>2, <1>2 DEF LookActive, Ahead, Looking
  <2>3. CASE LookRewriting(b)
    BY <2>1, <2>3, <1>2 DEF LookRewriting, Ahead, Looking, Goes, Fit, EInv, TypeOK
  <2>4. CASE LookWriteOnly(b)
    BY <2>1, <2>4, <1>2 DEF LookWriteOnly, Ahead, Looking, Goes, Fit, IsWriteOnly, EInv, TypeOK, CurInv
  <2> QED
    BY <2>2, <2>3, <2>4
<1> QED
  BY <1>1, <1>2, <1>3, <1>4, <1>5 DEF EInv, ParallelInv, FailoverWorks, PrefersFit,
     UnavailableHasNoEffect, DoneIsDone

\* Asking it.
LEMMA AskInv ==
    ASSUME EInv, NEW b \in Backend, AskAnswered(b) \/ AskFails(b)
    PROVE  EInv'
<1>1. TypeOK'
  BY NextType DEF EInv, Next
<1> USE DEF history, flagVars, Taken
<1>2. /\ UNCHANGED <<active, rewriting, transferIn, kind, pass, steady, left>>
      /\ pc = "ask" /\ cur = {b} /\ result = "none"
      /\ \A c \in Backend : Fit(c)' = Fit(c)
  BY DEF EInv, AskAnswered, AskFails, Fit, IsWriteOnly
<1>3. OneByOne /\ OneByOne' /\ (kind = "select" => body)
  BY <1>2, KindsKnown DEF EInv, TypeOK, ParallelInv, AllKinds, SelectInv, OneByOne
<1>4. b \in steady => active[b] /\ (Fit(b) <=> pass = 1)
  BY <1>2 DEF EInv, CurInv, Looking
<1>5. CASE AskAnswered(b)
  <2>1. PrefersFit'
    <3> SUFFICES ASSUME NEW c \in steady, Taken(c)', ~Fit(c), NEW d \in steady, Fit(d)
                 PROVE  d \in Failed'
      BY <1>2 DEF PrefersFit, EInv, TypeOK
    <3>1. c = b
      BY <1>5, <1>2, <1>3 DEF AskAnswered, Answered, Replied, EInv, TypeOK, SelectInv
    <3>2. pass # 1 /\ d # b /\ body
      BY <3>1, <1>4, <1>5 DEF AskAnswered
    <3>3. d \in Failed
      BY <3>2, <1>2, <1>3 DEF EInv, SelectInv, Fit
    <3> QED
      BY <3>2, <3>3, <1>5 DEF AskAnswered, Answered, Replied, Failed, EInv, TypeOK
  <2> QED
    BY <2>1, <1>1, <1>2, <1>3, <1>5 DEF AskAnswered, Answered, Replied, Return, EInv, CurInv, Looking, SelectInv, ParallelInv,
       FailoverWorks, UnavailableHasNoEffect, DoneIsDone, OneByOne
<1>6. CASE AskFails(b)
  <2>1. /\ pc' = "next" /\ result' = "none" /\ replies' = [replies EXCEPT ![b] = "error"]
        /\ executed' \subseteq executed \union {b}
        /\ body' => body /\ asked' = asked \union {b} /\ Failed' = Failed \union {b}
        /\ kind = "select" => body'
    BY <1>2, <1>3, <1>6 DEF AskFails, Replied, Failed, EInv, TypeOK
  <2>2. SelectInv'
    <3> SUFFICES ASSUME body', NEW c \in steady, active[c], c \notin Failed'
                 PROVE  IF pass = 1 THEN Fit(c) => Ahead(c)' ELSE ~Fit(c) /\ Ahead(c)'
      BY <2>1, <1>2, <1>3 DEF EInv, SelectInv, TypeOK
    <3> QED
      BY <2>1, <1>2, <1>3 DEF EInv, SelectInv, Ahead, Looking
  <2> QED
    BY <1>1, <1>2, <1>3, <2>1, <2>2 DEF EInv, CurInv, Looking, ParallelInv, FailoverWorks, PrefersFit,
       UnavailableHasNoEffect, DoneIsDone
<1> QED
  BY <1>5, <1>6

\* The end of a pass.
LEMMA PassEndsInv ==
    ASSUME EInv, PassEnds
    PROVE  EInv'
<1>1. TypeOK'
  BY NextType DEF EInv, Next
<1> USE DEF history, flagVars, Taken
<1>2. /\ UNCHANGED <<active, rewriting, transferIn, kind, steady, cur, body, asked, replies, executed>>
      /\ pc = "next" /\ left = {} /\ result = "none"
      /\ Failed' = Failed
      /\ \A c \in Backend : Fit(c)' = Fit(c) /\ ~Ahead(c)
  BY DEF EInv, PassEnds, Fit, IsWriteOnly, Failed, Ahead, Looking
<1>3. OneByOne
  BY <1>2, KindsKnown DEF EInv, TypeOK, ParallelInv, AllKinds, OneByOne
<1>4. \A c \in steady : body /\ active[c] /\ c \notin Failed => pass = 1 /\ ~Fit(c)
  BY <1>2, <1>3 DEF EInv, SelectInv, TypeOK
<1>5. CASE pass = 1
  <2>1. pass' = 2 /\ left' = Backend /\ UNCHANGED <<pc, result>>
    BY <1>5 DEF PassEnds
  <2>2. SelectInv'
    BY <2>1, <1>2, <1>3, <1>4 DEF EInv, SelectInv, Ahead, Looking, TypeOK
  <2> QED
    BY <1>1, <1>2, <1>3, <2>1, <2>2 DEF EInv, CurInv, Looking, ParallelInv, FailoverWorks, PrefersFit,
       UnavailableHasNoEffect, DoneIsDone
<1>6. CASE pass # 1
  <2>1. /\ pc' = "done" /\ result' \in {"error", "unavailable"}
        /\ result' = "unavailable" => \A c \in Backend : replies[c] # "error"
    BY <1>6 DEF PassEnds, Return
  <2>2. executed \subseteq Backend /\ \A c \in executed : replies[c] = "error"
    BY <1>2, <1>3 DEF EInv, SelectInv, TypeOK
  <2>3. FailoverWorks'
    BY <1>2, <1>3, <1>4, <1>6, KindsKnown DEF FailoverWorks, EInv, TypeOK, SelectInv, OneByOne
  <2> QED
    BY <1>1, <1>2, <1>3, <2>1, <2>2, <2>3 DEF EInv, CurInv, Looking, SelectInv, ParallelInv, PrefersFit,
       UnavailableHasNoEffect, DoneIsDone, OneByOne
<1> QED
  BY <1>5, <1>6

\* The steps of a statement for all backends.
LEMMA ParallelStepsInv ==
    ASSUME EInv,
           \/ \E b \in Backend : Verify(b) \/ Spawn(b) \/ Reply(b)
           \/ Verified \/ Spawned \/ CollectError \/ Collected \/ ClientLeaves
    PROVE  EInv'
<1>1. TypeOK'
  BY NextType DEF EInv, Next
<1> USE DEF history, flagVars, Taken
<1>2. kind \in {"show", "alter"} /\ kind' = kind
  <2>1. ~OneByOne
    BY DEF EInv, SelectInv, OneByOne, Looking, Verify, Spawn, Reply, Verified, Spawned, CollectError, Collected, ClientLeaves
  <2> QED
    BY <2>1, KindsKnown DEF EInv, TypeOK, OneByOne, AllKinds, Verify, Spawn, Reply, Verified, Spawned,
       CollectError, Collected, ClientLeaves
<1>3. CurInv' /\ SelectInv' /\ FailoverWorks' /\ PrefersFit'
  <2>1. ~Looking /\ pc' \in {pc, "spawn", "collect", "done"}
    BY <1>2 DEF EInv, ParallelInv, Looking, Return, Verify, Spawn, Reply, Verified, Spawned, CollectError, Collected, ClientLeaves
  <2> QED
    BY <1>2, <2>1 DEF CurInv, SelectInv, FailoverWorks, PrefersFit, OneByOne, Looking
<1>4. ASSUME NEW b \in Backend, Verify(b) PROVE EInv'
  BY <1>1, <1>2, <1>3, <1>4 DEF EInv, Verify, Return, ParallelInv, UnavailableHasNoEffect, DoneIsDone, OneByOne, TypeOK
<1>5. ASSUME NEW b \in Backend, Spawn(b) PROVE EInv'
  BY <1>1, <1>2, <1>3, <1>5 DEF EInv, Spawn, ParallelInv, UnavailableHasNoEffect, DoneIsDone, OneByOne, TypeOK
<1>6. ASSUME NEW b \in Backend, Reply(b) PROVE EInv'
  BY <1>1, <1>2, <1>3, <1>6 DEF EInv, Reply, Answered, Replied, ParallelInv, UnavailableHasNoEffect, DoneIsDone, OneByOne, TypeOK
<1>7. CASE Verified \/ Spawned \/ CollectError
  BY <1>1, <1>2, <1>3, <1>7 DEF EInv, Verified, Spawned, CollectError, Return, ParallelInv,
     UnavailableHasNoEffect, DoneIsDone, OneByOne, TypeOK
<1>8. CASE Collected
  <2>1. /\ UNCHANGED <<active, asked, replies, executed, steady, gone>>
        /\ pc = "collect" /\ pc' = "done" /\ \A b \in asked : Taken(b)
        /\ result' \in {"ok", "error", "unavailable", "panic"}
        /\ result' = "unavailable" <=> asked = {} /\ kind = "show"
        /\ result' = "ok" => asked # {}
        /\ result' = "ok" /\ kind = "show" => \A b \in asked : replies[b] # "cancelled"
    BY <1>2, <1>8 DEF Collected, Return
  <2>2. \A b \in Backend : replies[b] = "cancelled" => gone
    BY <1>2, <2>1 DEF EInv, ParallelInv
  <2>3. executed \subseteq asked /\ \A b \in steady : active[b] => b \in asked
    BY <1>2, <2>1 DEF EInv, ParallelInv
  <2>4. \A b \in Backend : b \notin asked => replies[b] = "none"
    BY <1>2 DEF EInv, ParallelInv
  <2>5. ParallelInv'
    BY <1>2, <2>1, <2>2, <2>3, <2>4 DEF EInv, ParallelInv, TypeOK
  <2>6. DoneIsDone'
    BY <1>2, <2>1, <2>2, <2>3 DEF EInv, DoneIsDone, ParallelInv, OneByOne, TypeOK
  <2>7. UnavailableHasNoEffect'
    BY <2>1, <2>3 DEF UnavailableHasNoEffect
  <2> QED
    BY <1>1, <1>3, <2>1, <2>5, <2>6, <2>7 DEF EInv
<1>9. CASE ClientLeaves
  BY <1>1, <1>2, <1>3, <1>9 DEF EInv, ClientLeaves, ParallelInv,
     UnavailableHasNoEffect, DoneIsDone, OneByOne, TypeOK
<1> QED
  BY <1>4, <1>5, <1>6, <1>7, <1>8, <1>9

\* Every step keeps it.
LEMMA NextInv == EInv /\ [Next]_vars => EInv'
<1> SUFFICES ASSUME EInv, [Next]_vars PROVE EInv'
  OBVIOUS
<1>1. CASE UNCHANGED vars
  <2>1. TypeOK'
    BY NextType DEF EInv
  <2> QED
    BY <1>1, <2>1 DEF vars, flagVars, history, EInv, CurInv, Looking, SelectInv, Failed, Ahead, ParallelInv, Fit,
       IsWriteOnly, Taken, FailoverWorks, PrefersFit, UnavailableHasNoEffect, DoneIsDone, OneByOne
<1> QED
  BY <1>1, FlagsInv, LookInv, AskInv, PassEndsInv, ParallelStepsInv DEF Next, Done

-----------------------------------------------------------------------------
(* The theorems. *)

\* The two passes of a query miss no backend that was there for it, whatever
\* the flags of the others do meanwhile.
THEOREM FailoverWorksCorrect == Spec => []FailoverWorks
<1>1. EInv => FailoverWorks
  BY DEF EInv
<1> QED
  BY <1>1, InitInv, NextInv, PTL DEF Spec

\* A backend that is behind is the last resort.
THEOREM PrefersFitCorrect == Spec => []PrefersFit
<1>1. EInv => PrefersFit
  BY DEF EInv
<1> QED
  BY <1>1, InitInv, NextInv, PTL DEF Spec

\* "Unavailable" means that no server has executed the statement or ever will.
THEOREM UnavailableHasNoEffectCorrect == Spec => []UnavailableHasNoEffect
<1>1. EInv => UnavailableHasNoEffect
  BY DEF EInv
<1> QED
  BY <1>1, InitInv, NextInv, PTL DEF Spec

\* A statement reported done was executed by every backend that stayed, refused
\* by it inside a 200, or not waited for by its client.
THEOREM DoneIsDoneCorrect == Spec => []DoneIsDone
<1>1. EInv => DoneIsDone
  BY DEF EInv
<1> QED
  BY <1>1, InitInv, NextInv, PTL DEF Spec

=============================================================================
