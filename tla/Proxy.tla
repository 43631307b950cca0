-------------------------------- MODULE Proxy --------------------------------
(***************************************************************************)
(* How the points of a request find their backends: the configuration of    *)
(* the circles, the ring of each circle with its cache (backend/circle.go), *)
(* and the handlers that look a key up and hand each point to one backend   *)
(* of every circle (backend/proxy.go).                                      *)
(*                                                                          *)
(* The ring is a library: here it is any function from keys to the labels   *)
(* that were added to it.  A handler stands at "load" where GetBackend looks *)
(* into the cache, at "route" where it found nothing there, at "check" and  *)
(* "send" in WritePoint.  What follows behind a channel is WriteBuffer's.   *)
(***************************************************************************)
EXTENDS Integers, Sequences

CONSTANTS
    Handler,    \* the requests, each with a goroutine of its own
    Key,        \* keys of points: database and measurement
    Requests,   \* what may be asked: [kind, keys]
    Circles,    \* how many circles
    Backends,   \* how many backends each circle has
    HashKeys,   \* settings of hash_key
    Urls,       \* the urls that may be configured: [Circle -> [Backend -> url]]
    Rings,      \* what the rings may answer: [Circle -> [Key -> label]]
    ChanCap,    \* capacity of a backend's channel
    MayClose    \* whether Close may be called

Circle == 1..Circles
Backend == 1..Backends
NoBackend == 0

ASSUME SizesPositive == {Circles, Backends, ChanCap} \subseteq Nat \ {0}
ASSUME UrlsSound == \A url \in Urls : DOMAIN url = Circle /\ \A c \in Circle : DOMAIN url[c] = Backend
ASSUME RingsSound == \A ring \in Rings : DOMAIN ring = Circle /\ \A c \in Circle : DOMAIN ring[c] = Key
ASSUME RequestsSound ==
    Requests \subseteq [kind : {"write", "replica"}, keys : Seq(Key) \ {<<>>}]

VARIABLES
    config,     \* [hashKey, url, ring]
    cache,      \* cache[c][k]: circle c's routerCache
    handler,    \* handler[h]: where h stands, see Handlers
    handed,     \* history: handed[c][b], the points <<h, i>> its channel took
    length,     \* length[c][b]: how many of them are still in the channel
    running,    \* running[c][b]
    closed      \* closed[c][b]: the channel was closed

vars == <<config, cache, handler, handed, length, running, closed>>

-----------------------------------------------------------------------------
(* The configuration. *)

\* What addRouter adds to the ring for a backend.  Names are distinct over all
\* circles (checkConfig), urls need not be.
Label(cfg, c, b) ==
    CASE cfg.hashKey = "name" -> <<c, b>>
      [] cfg.hashKey = "url" -> cfg.url[c][b]
      [] OTHER -> <<0, b>>

\* The configurations that checkConfig lets pass, and a ring over their labels.
Configs ==
    {cfg \in [hashKey : HashKeys, url : Urls, ring : Rings] :
        \A c \in Circle, k \in Key : \E b \in Backend : cfg.ring[c][k] = Label(cfg, c, b)}

\* mapToBackend[router.Get(k)]: of backends with one label, the last.
Routed(cfg, c, k) ==
    CHOOSE b \in Backend :
        /\ Label(cfg, c, b) = cfg.ring[c][k]
        /\ \A d \in Backend : Label(cfg, c, d) = cfg.ring[c][k] => d <= b

-----------------------------------------------------------------------------
Handlers ==
    [pc : {"new", "load", "route", "check", "send", "done", "panic"},
     kind : {"write", "replica"},
     keys : Seq(Key),
     point : Nat,                                   \* which of them it is at
     circle : Circle,                               \* and with which circle
     found : [Circle -> Backend \cup {NoBackend}]]  \* what GetBackends collects

TypeOK ==
    /\ config \in Configs
    /\ cache \in [Circle -> [Key -> Backend \cup {NoBackend}]]
    /\ handler \in [Handler -> Handlers]
    /\ handed \in [Circle -> [Backend -> Seq(Handler \X Nat)]]
    /\ length \in [Circle -> [Backend -> 0..ChanCap]]
    /\ running \in [Circle -> [Backend -> BOOLEAN]]
    /\ closed \in [Circle -> [Backend -> BOOLEAN]]

Nothing == [c \in Circle |-> NoBackend]

Init ==
    /\ config \in Configs
    /\ cache = [c \in Circle |-> [k \in Key |-> NoBackend]]
    /\ handler = [h \in Handler |-> [pc |-> "new", kind |-> "write", keys |-> <<>>, point |-> 1,
                                     circle |-> 1, found |-> Nothing]]
    /\ handed = [c \in Circle |-> [b \in Backend |-> <<>>]]
    /\ length = [c \in Circle |-> [b \in Backend |-> 0]]
    /\ running = [c \in Circle |-> [b \in Backend |-> TRUE]]
    /\ closed = [c \in Circle |-> [b \in Backend |-> FALSE]]

-----------------------------------------------------------------------------
(* GetBackends: each circle's answer, from the cache or from the ring. *)

KeyOf(h) == handler[h].keys[handler[h].point]

Begin(h, r) ==
    /\ handler[h].pc = "new"
    /\ handler' = [handler EXCEPT ![h].pc = "load", ![h].kind = r.kind, ![h].keys = r.keys]
    /\ UNCHANGED <<config, cache, handed, length, running, closed>>

\* The circle's answer is b: on to the next circle, and from the last one to
\* the writing, if the request is a write.
Collect(h, b) ==
    LET c == handler[h].circle
        last == c = Circles
        next == IF ~last THEN "load" ELSE IF handler[h].kind = "replica" THEN "done" ELSE "check"
    IN  handler' = [handler EXCEPT ![h].found[c] = b, ![h].pc = next,
                                   ![h].circle = IF last THEN 1 ELSE c + 1]

Load(h) ==
    LET b == cache[handler[h].circle][KeyOf(h)]
    IN  /\ handler[h].pc = "load"
        /\ IF b = NoBackend THEN handler' = [handler EXCEPT ![h].pc = "route"]
           ELSE Collect(h, b)
        /\ UNCHANGED <<config, cache, handed, length, running, closed>>

\* A mistake: one circle's ring answers for all.
RouteOneRing(h) ==
    LET c == handler[h].circle
        b == Routed(config, 1, KeyOf(h))
    IN  /\ handler[h].pc = "route"
        /\ cache' = [cache EXCEPT ![c][KeyOf(h)] = b]
        /\ Collect(h, b)
        /\ UNCHANGED <<config, handed, length, running, closed>>

Route(h) ==
    LET c == handler[h].circle
        b == Routed(config, c, KeyOf(h))
    IN  /\ handler[h].pc = "route"
        /\ cache' = [cache EXCEPT ![c][KeyOf(h)] = b]
        /\ Collect(h, b)
        /\ UNCHANGED <<config, handed, length, running, closed>>

-----------------------------------------------------------------------------
(* WriteRow and WritePoints: the point goes to each backend in turn. *)

\* The point is with this circle, or the circle refused it, which is only
\* logged: on to the next circle, then to the next point.
Written(h) ==
    LET last == handler[h].circle = Circles
        end == handler[h].point = Len(handler[h].keys)
    IN  handler' = [handler EXCEPT
            ![h].circle = IF last THEN 1 ELSE @ + 1,
            ![h].point = IF last /\ ~end THEN @ + 1 ELSE @,
            ![h].found = IF last THEN Nothing ELSE @,
            ![h].pc = IF ~last THEN "check" ELSE IF end THEN "done" ELSE "load"]

\* A mistake: what the first circle refuses is not offered to the others.
CheckFirst(h) ==
    LET c == handler[h].circle
        b == handler[h].found[c]
    IN  /\ handler[h].pc = "check"
        /\ handler' = IF running[c][b] THEN [handler EXCEPT ![h].pc = "send"]
                      ELSE [handler EXCEPT ![h].pc = "done"]
        /\ UNCHANGED <<config, cache, handed, length, running, closed>>

\* A mistake: a backend that is closed is tried again and again.
CheckAgain(h) ==
    /\ handler[h].pc = "check"
    /\ running[handler[h].circle][handler[h].found[handler[h].circle]]
    /\ handler' = [handler EXCEPT ![h].pc = "send"]
    /\ UNCHANGED <<config, cache, handed, length, running, closed>>

Check(h) ==
    LET c == handler[h].circle
        b == handler[h].found[c]
    IN  /\ handler[h].pc = "check"
        /\ IF running[c][b] THEN handler' = [handler EXCEPT ![h].pc = "send"]
           ELSE Written(h)
        /\ UNCHANGED <<config, cache, handed, length, running, closed>>

\* The send waits for room in the channel.
Send(h) ==
    LET c == handler[h].circle
        b == handler[h].found[c]
    IN  /\ handler[h].pc = "send"
        /\ ~closed[c][b] /\ length[c][b] < ChanCap
        /\ length' = [length EXCEPT ![c][b] = @ + 1]
        /\ handed' = [handed EXCEPT ![c][b] = Append(@, <<h, handler[h].point>>)]
        /\ Written(h)
        /\ UNCHANGED <<config, cache, running, closed>>

\* Close came in between.  The HTTP server recovers the handler's panic.
SendOnClosed(h) ==
    /\ handler[h].pc = "send"
    /\ closed[handler[h].circle][handler[h].found[handler[h].circle]]
    /\ handler' = [handler EXCEPT ![h].pc = "panic"]
    /\ UNCHANGED <<config, cache, handed, length, running, closed>>

\* The backend's worker receives a point.  Once running is false it may leave its
\* loop with points in the channel, and receives while it has not.
Receive(c, b) ==
    /\ length[c][b] > 0
    /\ length' = [length EXCEPT ![c][b] = @ - 1]
    /\ UNCHANGED <<config, cache, handler, handed, running, closed>>

\* Proxy.Close: one backend after the other, each in two steps.
Turn(c, b) ==
    /\ MayClose
    /\ \A d \in Circle, e \in Backend : (d < c \/ (d = c /\ e < b)) => closed[d][e]

CloseStop(c, b) ==
    /\ Turn(c, b) /\ running[c][b]
    /\ running' = [running EXCEPT ![c][b] = FALSE]
    /\ UNCHANGED <<config, cache, handler, handed, length, closed>>

CloseChannel(c, b) ==
    /\ ~running[c][b] /\ ~closed[c][b]
    /\ closed' = [closed EXCEPT ![c][b] = TRUE]
    /\ UNCHANGED <<config, cache, handler, handed, length, running>>

-----------------------------------------------------------------------------
Step(h) == Load(h) \/ Route(h) \/ Check(h) \/ Send(h) \/ SendOnClosed(h)

Next ==
    \/ \E h \in Handler : Step(h) \/ \E r \in Requests : Begin(h, r)
    \/ \E c \in Circle, b \in Backend : Receive(c, b) \/ CloseStop(c, b) \/ CloseChannel(c, b)

\* Goroutines that can go on do so; the worker always comes back to its channel as
\* long as the backend is running, and a Close that has begun goes on.
Fairness ==
    /\ \A h \in Handler : SF_vars(Step(h))
    /\ \A c \in Circle, b \in Backend : /\ WF_vars(running[c][b] /\ Receive(c, b))
                                        /\ WF_vars(CloseChannel(c, b))

Spec == Init /\ [][Next]_vars
FairSpec == Spec /\ Fairness

-----------------------------------------------------------------------------
\* b is the backend whose label the ring gives for k; where backends share a
\* label, the last that was added with it.
IsHome(c, k, b) ==
    /\ b \in Backend
    /\ Label(config, c, b) = config.ring[c][k]
    /\ \A d \in Backend : Label(config, c, d) = config.ring[c][k] => d <= b

\* Whatever the handlers do at once, the cache and the backends a handler has
\* collected are the ring's answer for the key it is at (Circle.GetBackend).
RouteIsRing ==
    /\ \A c \in Circle, k \in Key : cache[c][k] # NoBackend => IsHome(c, k, cache[c][k])
    /\ \A h \in Handler, c \in Circle :
           handler[h].found[c] # NoBackend => IsHome(c, KeyOf(h), handler[h].found[c])

Has(c, b, p) == \E i \in 1..Len(handed[c][b]) : handed[c][b][i] = p

\* A point that a handler has done with is with its backend in every circle,
\* except where that backend was closed (Proxy.WriteRow).  A panic leaves the rest
\* of the request out.
Replicated ==
    \A h \in Handler :
        LET s == handler[h]
            done == IF s.pc = "done" THEN 1..Len(s.keys) ELSE 1..(s.point - 1)
        IN  s.kind = "write" =>
                \A i \in done, c \in Circle :
                    \E b \in Backend : IsHome(c, s.keys[i], b) /\ (running[c][b] => Has(c, b, <<h, i>>))

\* A backend is given only points whose home it is, each once, and the points of
\* one request in the request's order.
HandedHome ==
    \A c \in Circle, b \in Backend :
        LET points == handed[c][b]
        IN  \A i \in 1..Len(points) :
                /\ IsHome(c, handler[points[i][1]].keys[points[i][2]], b)
                /\ \A j \in 1..(i - 1) :
                       points[j][1] = points[i][1] => points[j][2] < points[i][2]

\* Every request ends, however slowly the backends' workers receive.
RequestsEnd ==
    \A h \in Handler : handler[h].pc # "new" ~> handler[h].pc \in {"done", "panic"}

-----------------------------------------------------------------------------
(* Why: an inductive invariant. *)

\* Which backends a handler has found, and which point it is at.
Place(h) ==
    LET s == handler[h]
    IN  /\ s.pc = "new" => s.keys = <<>> /\ s.point = 1 /\ s.circle = 1 /\ s.found = Nothing
        /\ s.pc # "new" => s.point \in 1..Len(s.keys)
        /\ s.pc \in {"load", "route"} => \A c \in Circle : s.found[c] # NoBackend <=> c < s.circle
        /\ s.pc \in {"check", "send"} => s.kind = "write" /\ \A c \in Circle : s.found[c] # NoBackend
        /\ s.pc = "done" /\ s.kind = "write" => s.point = Len(s.keys)

\* The handler h has done with circle c for its point n.
Past(h, n, c) ==
    LET s == handler[h]
    IN  \/ n < s.point
        \/ n = s.point /\ (s.pc = "done" \/ (s.pc \in {"check", "send", "panic"} /\ c < s.circle))

\* Points are handed over where the handlers have been.
Ordered ==
    \A c \in Circle, b \in Backend :
        LET points == handed[c][b]
        IN  \A i \in 1..Len(points) :
                /\ points[i][2] \in 1..Len(handler[points[i][1]].keys)
                /\ Past(points[i][1], points[i][2], c)

\* And where a handler has been with a write, its points are.
Kept ==
    \A h \in Handler, c \in Circle :
        LET s == handler[h]
        IN  s.kind = "write" =>
                \A n \in 1..Len(s.keys) :
                    Past(h, n, c) =>
                        \E b \in Backend :
                            IsHome(c, s.keys[n], b) /\ (running[c][b] => Has(c, b, <<h, n>>))

PInv ==
    /\ TypeOK
    /\ \A h \in Handler : Place(h)
    /\ RouteIsRing
    /\ Ordered
    /\ HandedHome
    /\ Kept

=============================================================================
