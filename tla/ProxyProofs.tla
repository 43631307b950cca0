------------------------------ MODULE ProxyProofs ------------------------------
(***************************************************************************)
(* Theorems about Proxy, for any requests, circles, rings and channels.     *)
(***************************************************************************)
EXTENDS Proxy, OperatorProofs, SequenceTheorems

-----------------------------------------------------------------------------
(* What the ring's answer is. *)

\* A set of backends that is not empty has a last one.
LEMMA LastBackend ==
    ASSUME NEW S \in SUBSET Backend, S # {}
    PROVE  \E b \in S : \A d \in S : d <= b
<1> DEFINE T == {Backends - b : b \in S}
<1>1. Backends \in Nat
  BY SizesPositive
<1>2. T \subseteq Nat /\ T # {}
  <2>1. \A b \in S : Backends - b \in Nat
    BY <1>1 DEF Backend
  <2> QED
    BY <2>1
<1>3. PICK x \in T : \A y \in T : ~(<<y, x>> \in OpToRel(<, Nat))
  BY <1>2, WFMin, NatLessThanWellFounded, Zenon
<1>4. \A y \in T : ~(y < x)
  BY <1>2, <1>3 DEF OpToRel
<1>5. PICK b \in S : x = Backends - b
  OBVIOUS
<1>6. \A d \in S : ~(Backends - d < Backends - b)
  BY <1>4, <1>5
<1> QED
  BY <1>1, <1>6 DEF Backend

\* In a configuration that checkConfig lets pass every key has a home in every
\* circle, and that is what Routed gives.
LEMMA RoutedIsHome ==
    ASSUME config \in Configs, NEW c \in Circle, NEW k \in Key
    PROVE  IsHome(c, k, Routed(config, c, k))
<1> DEFINE S == {b \in Backend : Label(config, c, b) = config.ring[c][k]}
<1>1. S # {}
  BY DEF Configs
<1>2. \E b \in S : \A d \in S : d <= b
  BY <1>1, LastBackend
<1>3. \E b \in Backend :
          /\ Label(config, c, b) = config.ring[c][k]
          /\ \A d \in Backend : Label(config, c, d) = config.ring[c][k] => d <= b
  BY <1>2
<1> QED
  BY <1>3 DEF Routed, IsHome

\* A backend is not NoBackend, and a circle is counted from one.
LEMMA SizesKnown == /\ 0 \notin Backend /\ 0 \notin Circle
                 /\ Circles \in Circle /\ 1 \in Circle
                 /\ \A c \in Circle : c \in Nat /\ (c # Circles => c + 1 \in Circle)
  BY SizesPositive DEF Backend, Circle

-----------------------------------------------------------------------------
(* What a step makes of its handler. *)

\* A new handler takes its request.
LEMMA BeginStep ==
    ASSUME TypeOK, NEW h \in Handler, NEW r \in Requests, Begin(h, r)
    PROVE  LET s == handler[h]
               t == handler'[h]
           IN  /\ handler' = [handler EXCEPT ![h] = t]
               /\ s.pc = "new" /\ t.pc = "load"
               /\ t.kind = r.kind /\ t.kind \in {"write", "replica"}
               /\ t.keys = r.keys /\ t.keys \in Seq(Key) \ {<<>>}
               /\ t.point = s.point /\ t.circle = s.circle /\ t.found = s.found
               /\ t \in Handlers
<1>1. handler[h] \in Handlers /\ r \in [kind : {"write", "replica"}, keys : Seq(Key) \ {<<>>}]
  BY RequestsSound DEF TypeOK
<1> DEFINE u == [handler[h] EXCEPT !.pc = "load", !.kind = r.kind, !.keys = r.keys]
<1>2. handler' = [handler EXCEPT ![h] = u]
  BY <1>1 DEF Begin, TypeOK, Handlers
<1>3. u \in Handlers
  BY <1>1 DEF Handlers
<1>4. handler[h].pc = "new"
  BY DEF Begin
<1> QED
  BY <1>1, <1>2, <1>3, <1>4 DEF TypeOK, Handlers

\* Load and Route find the circle's backend for the key.
LEMMA CollectStep ==
    ASSUME TypeOK, NEW h \in Handler, NEW b \in Backend, Collect(h, b)
    PROVE  LET s == handler[h]
               t == handler'[h]
           IN  /\ handler' = [handler EXCEPT ![h] = t]
               /\ t.kind = s.kind /\ t.keys = s.keys /\ t.point = s.point
               /\ t.found = [s.found EXCEPT ![s.circle] = b]
               /\ IF s.circle = Circles
                  THEN t.circle = 1 /\ t.pc = IF s.kind = "replica" THEN "done" ELSE "check"
                  ELSE t.circle = s.circle + 1 /\ t.pc = "load"
               /\ t \in Handlers
<1>1. handler[h] \in Handlers
  BY DEF TypeOK
<1> DEFINE c == handler[h].circle
           last == c = Circles
           next == IF ~last THEN "load" ELSE IF handler[h].kind = "replica" THEN "done" ELSE "check"
           u == [handler[h] EXCEPT !.found = [handler[h].found EXCEPT ![c] = b], !.pc = next,
                                   !.circle = IF last THEN 1 ELSE c + 1]
<1>2. handler' = [handler EXCEPT ![h] = u]
  BY <1>1 DEF Collect, TypeOK, Handlers
<1>3. u \in Handlers
  BY <1>1, SizesKnown DEF Handlers
<1> QED
  BY <1>1, <1>2, <1>3 DEF TypeOK, Handlers

\* Check and Send have done with the circle.
LEMMA WrittenStep ==
    ASSUME TypeOK, NEW h \in Handler, Written(h)
    PROVE  LET s == handler[h]
               t == handler'[h]
           IN  /\ handler' = [handler EXCEPT ![h] = t]
               /\ t.kind = s.kind /\ t.keys = s.keys
               /\ IF s.circle # Circles
                  THEN t.pc = "check" /\ t.circle = s.circle + 1 /\ t.point = s.point /\ t.found = s.found
                  ELSE /\ t.circle = 1 /\ t.found = Nothing
                       /\ IF s.point = Len(s.keys) THEN t.pc = "done" /\ t.point = s.point
                          ELSE t.pc = "load" /\ t.point = s.point + 1
               /\ t \in Handlers
<1>1. handler[h] \in Handlers
  BY DEF TypeOK
<1> DEFINE s == handler[h]
           last == s.circle = Circles
           end == s.point = Len(s.keys)
           u == [s EXCEPT !.circle = IF last THEN 1 ELSE s.circle + 1,
                          !.point = IF last /\ ~end THEN s.point + 1 ELSE s.point,
                          !.found = IF last THEN Nothing ELSE s.found,
                          !.pc = IF ~last THEN "check" ELSE IF end THEN "done" ELSE "load"]
<1>2. handler' = [handler EXCEPT ![h] = u]
  BY <1>1 DEF Written, TypeOK, Handlers
<1>3. u \in Handlers
  <2>1. (IF last THEN 1 ELSE s.circle + 1) \in Circle
    BY <1>1, SizesKnown DEF Handlers
  <2>2. (IF last /\ ~end THEN s.point + 1 ELSE s.point) \in Nat
    BY <1>1 DEF Handlers
  <2>3. (IF last THEN Nothing ELSE s.found) \in [Circle -> Backend \cup {NoBackend}]
    BY <1>1 DEF Handlers, Nothing
  <2> QED
    BY <1>1, <2>1, <2>2, <2>3 DEF Handlers
<1>4. /\ u.kind = s.kind /\ u.keys = s.keys
      /\ u.circle = IF last THEN 1 ELSE s.circle + 1
      /\ u.point = IF last /\ ~end THEN s.point + 1 ELSE s.point
      /\ u.found = IF last THEN Nothing ELSE s.found
      /\ u.pc = IF ~last THEN "check" ELSE IF end THEN "done" ELSE "load"
  BY <1>1 DEF Handlers
<1>5. handler'[h] = u
  BY <1>2 DEF TypeOK
<1> HIDE DEF u
<1> QED
  BY <1>2, <1>3, <1>4, <1>5

-----------------------------------------------------------------------------
(* The inductive invariant. *)

\* It holds initially.
LEMMA InitInv == Init => PInv
<1> SUFFICES ASSUME Init PROVE PInv
  OBVIOUS
<1>1. TypeOK
  BY SizesKnown, SizesPositive DEF Init, TypeOK, Handlers, Nothing
<1> QED
  BY <1>1, SizesKnown DEF Init, PInv, Place, RouteIsRing, Ordered, HandedHome, Kept, Past, Has, Nothing

\* A step that leaves the handlers and what was handed over alone.
LEMMA OtherInv ==
    ASSUME PInv, TypeOK', UNCHANGED <<config, cache, handler, handed>>,
           \A c \in Circle, b \in Backend : running'[c][b] => running[c][b]
    PROVE  PInv'
<1>1. \A c, k, b : IsHome(c, k, b)' = IsHome(c, k, b)
  BY DEF IsHome
<1>2. \A h, n, c : Past(h, n, c)' = Past(h, n, c)
  BY DEF Past
<1>3. \A h : Place(h)' = Place(h)
  BY DEF Place
<1>4. RouteIsRing'
  BY <1>1 DEF PInv, RouteIsRing, KeyOf
<1>5. Ordered' /\ HandedHome'
  BY <1>1, <1>2 DEF PInv, Ordered, HandedHome
<1>6. Kept'
  <2> SUFFICES ASSUME NEW h \in Handler, NEW c \in Circle, handler[h].kind = "write",
                      NEW n \in 1..Len(handler[h].keys), Past(h, n, c)
               PROVE  \E b \in Backend :
                          IsHome(c, handler[h].keys[n], b)' /\ (running'[c][b] => Has(c, b, <<h, n>>)')
    BY <1>2 DEF Kept
  <2>1. PICK b \in Backend : IsHome(c, handler[h].keys[n], b) /\ (running[c][b] => Has(c, b, <<h, n>>))
    BY DEF PInv, Kept
  <2>2. IsHome(c, handler[h].keys[n], b)' /\ Has(c, b, <<h, n>>)' = Has(c, b, <<h, n>>)
    BY <2>1 DEF IsHome, Has
  <2> QED
    BY <2>1, <2>2
<1> QED
  BY <1>3, <1>4, <1>5, <1>6 DEF PInv

\* The workers and Close.
LEMMA BackendInv ==
    ASSUME PInv, NEW c \in Circle, NEW b \in Backend,
           Receive(c, b) \/ CloseStop(c, b) \/ CloseChannel(c, b)
    PROVE  PInv'
<1>1. CASE Receive(c, b)
  <2>1. length[c][b] - 1 \in 0..ChanCap
    BY <1>1, SizesPositive DEF Receive, PInv, TypeOK
  <2>2. TypeOK'
    BY <1>1, <2>1 DEF Receive, PInv, TypeOK
  <2> QED
    BY <1>1, <2>2, OtherInv DEF Receive
<1>2. CASE CloseStop(c, b)
  <2>1. TypeOK'
    BY <1>2 DEF CloseStop, PInv, TypeOK
  <2>2. \A d \in Circle, e \in Backend : running'[d][e] => running[d][e]
    BY <1>2 DEF CloseStop, PInv, TypeOK
  <2> QED
    BY <1>2, <2>1, <2>2, OtherInv DEF CloseStop
<1>3. CASE CloseChannel(c, b)
  <2>1. TypeOK'
    BY <1>3 DEF CloseChannel, PInv, TypeOK
  <2> QED
    BY <1>3, <2>1, OtherInv DEF CloseChannel
<1> QED
  BY <1>1, <1>2, <1>3

\* A step that leaves the cache, the keys and what was found alone, or forgets it.
LEMMA SameRouteInv ==
    ASSUME TypeOK, RouteIsRing, NEW h \in Handler, UNCHANGED <<config, cache>>,
           handler' = [handler EXCEPT ![h] = handler'[h]], handler'[h].keys = handler[h].keys,
           \/ handler'[h].found = Nothing
           \/ handler'[h].found = handler[h].found /\ handler'[h].point = handler[h].point
    PROVE  RouteIsRing'
<1>1. \A c \in Circle, k \in Key : cache'[c][k] # NoBackend => IsHome(c, k, cache[c][k])'
  BY DEF RouteIsRing, IsHome
<1>2. ASSUME NEW g \in Handler, NEW c \in Circle, handler'[g].found[c] # NoBackend
      PROVE  IsHome(c, KeyOf(g), handler[g].found[c])'
  <2>1. g = h => handler'[h].found = handler[h].found /\ handler'[h].point = handler[h].point
    BY <1>2 DEF Nothing
  <2>2. handler'[g].found = handler[g].found /\ KeyOf(g)' = KeyOf(g)
    BY <2>1 DEF TypeOK, KeyOf
  <2>3. IsHome(c, KeyOf(g), handler[g].found[c])
    BY <1>2, <2>2 DEF RouteIsRing
  <2> QED
    BY <2>2, <2>3 DEF IsHome
<1> QED
  BY <1>1, <1>2 DEF RouteIsRing

\* What a handler's step has to show about the points that it is past.
LEMMA KeptStep ==
    ASSUME PInv, NEW h \in Handler, UNCHANGED <<config, running>>,
           handler' = [handler EXCEPT ![h] = handler'[h]],
           handler'[h].keys = handler[h].keys, handler'[h].kind = handler[h].kind,
           \A c \in Circle, b \in Backend : \A p : Has(c, b, p) => Has(c, b, p)',
           \A n \in 1..Len(handler[h].keys), c \in Circle :
               Past(h, n, c)' /\ handler[h].kind = "write" =>
                   \/ Past(h, n, c)
                   \/ \E b \in Backend :
                          IsHome(c, handler[h].keys[n], b) /\ (running[c][b] => Has(c, b, <<h, n>>)')
    PROVE  Kept'
<1> SUFFICES ASSUME NEW g \in Handler, NEW c \in Circle, (handler[g].kind = "write")',
                    NEW n \in (1..Len(handler[g].keys))', Past(g, n, c)'
             PROVE  (\E b \in Backend :
                         IsHome(c, handler[g].keys[n], b) /\ (running[c][b] => Has(c, b, <<g, n>>)))'
  BY DEF Kept
<1>1. \A e \in Handler \ {h} : handler'[e] = handler[e]
  BY DEF PInv, TypeOK
<1>2. handler'[g].keys = handler[g].keys /\ handler'[g].kind = handler[g].kind
  BY <1>1
<1>3. n \in 1..Len(handler[g].keys) /\ handler[g].kind = "write"
  BY <1>2
<1>4. \/ Past(g, n, c)
      \/ \E b \in Backend :
             IsHome(c, handler[g].keys[n], b) /\ (running[c][b] => Has(c, b, <<g, n>>)')
  <2>1. CASE g = h
    BY <2>1, <1>3
  <2>2. CASE g # h
    BY <2>2, <1>1 DEF Past
  <2> QED
    BY <2>1, <2>2
<1>5. PICK b \in Backend :
          IsHome(c, handler[g].keys[n], b) /\ (running[c][b] => Has(c, b, <<g, n>>)')
  <2>1. CASE Past(g, n, c)
    BY <1>3, <2>1 DEF PInv, Kept
  <2> QED
    BY <1>4, <2>1
<1>6. IsHome(c, handler[g].keys[n], b)'
  BY <1>2, <1>5 DEF IsHome
<1> QED
  BY <1>5, <1>6

\* What a handler's step has to show, when nothing is handed over: what the handler
\* is past, it was past before, or the backend there is closed.
LEMMA StandsInv ==
    ASSUME PInv, TypeOK', NEW h \in Handler, UNCHANGED <<config, handed, running>>,
           handler' = [handler EXCEPT ![h] = handler'[h]],
           handler'[h].keys = handler[h].keys, handler'[h].kind = handler[h].kind,
           Place(h)', RouteIsRing',
           \A n \in Nat, c \in Circle : Past(h, n, c) => Past(h, n, c)',
           \A n \in 1..Len(handler[h].keys), c \in Circle :
               Past(h, n, c)' /\ handler[h].kind = "write" =>
                   \/ Past(h, n, c)
                   \/ \E b \in Backend : IsHome(c, handler[h].keys[n], b) /\ ~running[c][b]
    PROVE  PInv'
<1>1. \A c, k, b : IsHome(c, k, b)' = IsHome(c, k, b)
  BY DEF IsHome
<1>2. \A g \in Handler \ {h} : handler'[g] = handler[g]
  BY DEF PInv, TypeOK
<1>3. \A g \in Handler \ {h} : \A n, c : Past(g, n, c)' = Past(g, n, c)
  BY <1>2 DEF Past
<1>4. \A g \in Handler : Place(g)'
  BY <1>2 DEF PInv, Place
<1>5. \A g \in Handler : handler'[g].keys = handler[g].keys /\ handler'[g].kind = handler[g].kind
  BY <1>2
<1>6. \A c \in Circle, b \in Backend : handed[c][b] \in Seq(Handler \X Nat)
  BY DEF PInv, TypeOK
<1>7. Ordered'
  <2> SUFFICES ASSUME NEW c \in Circle, NEW b \in Backend, NEW i \in 1..Len(handed[c][b])
               PROVE  LET p == handed[c][b][i]
                      IN  p[2] \in 1..Len(handler'[p[1]].keys) /\ Past(p[1], p[2], c)'
    BY DEF Ordered
  <2> DEFINE p == handed[c][b][i]
  <2>1. p[1] \in Handler /\ p[2] \in Nat
    BY <1>6
  <2>2. p[2] \in 1..Len(handler[p[1]].keys) /\ Past(p[1], p[2], c)
    BY DEF PInv, Ordered
  <2> QED
    BY <1>3, <1>5, <2>1, <2>2
<1>8. HandedHome'
  <2> SUFFICES ASSUME NEW c \in Circle, NEW b \in Backend, NEW i \in 1..Len(handed[c][b])
               PROVE  LET points == handed[c][b]
                      IN  /\ IsHome(c, handler[points[i][1]].keys[points[i][2]], b)'
                          /\ \A j \in 1..(i - 1) :
                                 points[j][1] = points[i][1] => points[j][2] < points[i][2]
    BY DEF HandedHome
  <2>1. handed[c][b][i][1] \in Handler
    BY <1>6
  <2>2. IsHome(c, handler[handed[c][b][i][1]].keys[handed[c][b][i][2]], b)
    BY DEF PInv, HandedHome
  <2>3. IsHome(c, handler[handed[c][b][i][1]].keys[handed[c][b][i][2]], b)'
    BY <1>5, <2>1, <2>2 DEF IsHome
  <2> QED
    BY <2>3 DEF PInv, HandedHome
<1>9. Kept'
  <2>1. \A c \in Circle, b \in Backend : \A p : Has(c, b, p) => Has(c, b, p)'
    BY DEF Has
  <2> QED
    BY <2>1, KeptStep
<1> QED
  BY <1>4, <1>7, <1>8, <1>9 DEF PInv

\* A handler that takes a request has not been anywhere yet.
LEMMA BeginInv ==
    ASSUME PInv, NEW h \in Handler, NEW r \in Requests, Begin(h, r)
    PROVE  PInv'
<1> DEFINE t == handler'[h]
<1>1. UNCHANGED <<config, cache, handed, length, running, closed>>
  BY DEF Begin
<1>2. /\ handler' = [handler EXCEPT ![h] = t]
      /\ handler[h].pc = "new" /\ t.pc = "load" /\ t.kind \in {"write", "replica"}
      /\ t.keys \in Seq(Key) \ {<<>>} /\ t.point = handler[h].point
      /\ t.circle = handler[h].circle /\ t.found = handler[h].found /\ t \in Handlers
  BY BeginStep DEF PInv
<1>3. TypeOK'
  BY <1>1, <1>2 DEF PInv, TypeOK
<1>4. \A g \in Handler \ {h} : handler'[g] = handler[g]
  BY <1>2 DEF PInv, TypeOK
<1>5. handler[h].keys = <<>> /\ t.point = 1 /\ t.circle = 1 /\ t.found = Nothing
  BY <1>2 DEF PInv, Place
<1>6. \A g \in Handler : Place(g)'
  <2>1. t.point \in 1..Len(t.keys)
    BY <1>2, <1>5
  <2>2. Place(h)'
    BY <1>2, <1>5, <2>1, SizesKnown DEF Place, Nothing, Circle
  <2> QED
    BY <1>4, <2>2 DEF PInv, Place
<1>7. RouteIsRing'
  <2>1. \A c \in Circle, k \in Key : cache'[c][k] # NoBackend => IsHome(c, k, cache[c][k])'
    BY <1>1 DEF PInv, RouteIsRing, IsHome
  <2>2. \A c \in Circle : t.found[c] = NoBackend
    BY <1>5 DEF Nothing
  <2>3. ASSUME NEW g \in Handler \ {h}, NEW c \in Circle, handler[g].found[c] # NoBackend
        PROVE  IsHome(c, KeyOf(g), handler[g].found[c])'
    <3>1. IsHome(c, KeyOf(g), handler[g].found[c])
      BY <2>3 DEF PInv, RouteIsRing
    <3> QED
      BY <1>1, <1>4, <3>1 DEF IsHome, KeyOf
  <2>4. ASSUME NEW g \in Handler, NEW c \in Circle, handler'[g].found[c] # NoBackend
        PROVE  IsHome(c, KeyOf(g), handler[g].found[c])'
    BY <1>4, <2>2, <2>3, <2>4
  <2> QED
    BY <2>1, <2>4 DEF RouteIsRing
<1>8. \A c \in Circle, b \in Backend : \A i \in 1..Len(handed[c][b]) :
          /\ handed[c][b][i][1] \in Handler \ {h}
          /\ handed[c][b][i][2] \in 1..Len(handler[handed[c][b][i][1]].keys)
          /\ Past(handed[c][b][i][1], handed[c][b][i][2], c)
  <2> SUFFICES ASSUME NEW c \in Circle, NEW b \in Backend, NEW i \in 1..Len(handed[c][b])
               PROVE  LET p == handed[c][b][i]
                      IN  p[1] \in Handler \ {h} /\ p[2] \in 1..Len(handler[p[1]].keys) /\ Past(p[1], p[2], c)
    OBVIOUS
  <2> DEFINE p == handed[c][b][i]
  <2>1. p[1] \in Handler
    BY DEF PInv, TypeOK
  <2>2. p[2] \in 1..Len(handler[p[1]].keys) /\ Past(p[1], p[2], c)
    BY DEF PInv, Ordered
  <2>3. 1..Len(handler[h].keys) = {}
    BY <1>5
  <2> QED
    BY <2>1, <2>2, <2>3
<1>9. Ordered'
  <2> SUFFICES ASSUME NEW c \in Circle, NEW b \in Backend, NEW i \in 1..Len(handed[c][b])
               PROVE  LET p == handed[c][b][i]
                      IN  p[2] \in 1..Len(handler'[p[1]].keys) /\ Past(p[1], p[2], c)'
    BY <1>1 DEF Ordered
  <2> DEFINE p == handed[c][b][i]
  <2>1. p[1] \in Handler \ {h} /\ p[2] \in 1..Len(handler[p[1]].keys) /\ Past(p[1], p[2], c)
    BY <1>8
  <2>2. handler'[p[1]] = handler[p[1]] /\ handed'[c][b][i] = handed[c][b][i]
    BY <1>1, <1>4, <2>1
  <2> QED
    BY <2>1, <2>2 DEF Past
<1>10. HandedHome'
  <2> SUFFICES ASSUME NEW c \in Circle, NEW b \in Backend, NEW i \in 1..Len(handed[c][b])
               PROVE  LET points == handed[c][b]
                      IN  /\ IsHome(c, handler[points[i][1]].keys[points[i][2]], b)'
                          /\ \A j \in 1..(i - 1) :
                                 points[j][1] = points[i][1] => points[j][2] < points[i][2]
    BY <1>1 DEF HandedHome
  <2>1. IsHome(c, handler[handed[c][b][i][1]].keys[handed[c][b][i][2]], b)
    BY DEF PInv, HandedHome
  <2>2. IsHome(c, handler[handed[c][b][i][1]].keys[handed[c][b][i][2]], b)'
    BY <1>1, <1>4, <1>8, <2>1 DEF IsHome
  <2> QED
    BY <2>2 DEF PInv, HandedHome
<1>11. Kept'
  <2> SUFFICES ASSUME NEW g \in Handler, NEW c \in Circle, (handler[g].kind = "write")',
                      NEW n \in (1..Len(handler[g].keys))', Past(g, n, c)'
               PROVE  (\E b \in Backend :
                           IsHome(c, handler[g].keys[n], b) /\ (running[c][b] => Has(c, b, <<g, n>>)))'
    BY DEF Kept
  <2>1. g # h
    BY <1>2, <1>5 DEF Past
  <2>2. PICK b \in Backend :
            IsHome(c, handler[g].keys[n], b) /\ (running[c][b] => Has(c, b, <<g, n>>))
    BY <1>4, <2>1 DEF PInv, Kept, Past
  <2>3. IsHome(c, handler[g].keys[n], b)' /\ (running[c][b] => Has(c, b, <<g, n>>))'
    BY <1>1, <1>4, <2>1, <2>2 DEF IsHome, Has
  <2> QED
    BY <2>3
<1> QED
  BY <1>3, <1>6, <1>7, <1>9, <1>10, <1>11 DEF PInv

\* A handler that has found the circle's backend for its key.
LEMMA CollectInv ==
    ASSUME PInv, NEW h \in Handler, handler[h].pc \in {"load", "route"}, NEW b \in Backend,
           IsHome(handler[h].circle, KeyOf(h), b), Collect(h, b),
           cache' = cache \/ cache' = [cache EXCEPT ![handler[h].circle][KeyOf(h)] = b],
           UNCHANGED <<config, handed, length, running, closed>>
    PROVE  PInv'
<1> DEFINE s == handler[h]
           t == handler'[h]
<1>1. /\ handler' = [handler EXCEPT ![h] = t]
      /\ t.kind = s.kind /\ t.keys = s.keys /\ t.point = s.point
      /\ t.found = [s.found EXCEPT ![s.circle] = b]
      /\ IF s.circle = Circles
         THEN t.circle = 1 /\ t.pc = IF s.kind = "replica" THEN "done" ELSE "check"
         ELSE t.circle = s.circle + 1 /\ t.pc = "load"
      /\ t \in Handlers
  BY CollectStep DEF PInv
<1>2. s \in Handlers /\ s.circle \in Circle /\ s.point \in 1..Len(s.keys) /\ KeyOf(h) \in Key
  <2>1. s \in Handlers /\ s.circle \in Circle /\ s.keys \in Seq(Key)
    BY DEF PInv, TypeOK, Handlers
  <2>2. s.point \in 1..Len(s.keys)
    BY DEF PInv, Place
  <2> QED
    BY <2>1, <2>2 DEF KeyOf
<1>3. TypeOK'
  <2>1. cache \in [Circle -> [Key -> Backend \cup {NoBackend}]]
    BY DEF PInv, TypeOK
  <2>2. [cache EXCEPT ![s.circle][KeyOf(h)] = b] \in [Circle -> [Key -> Backend \cup {NoBackend}]]
    BY <1>2, <2>1
  <2>3. cache' \in [Circle -> [Key -> Backend \cup {NoBackend}]]
    BY <2>1, <2>2
  <2>4. handler' \in [Handler -> Handlers]
    BY <1>1 DEF PInv, TypeOK
  <2> QED
    BY <2>3, <2>4 DEF PInv, TypeOK
<1>4. Place(h)'
  <2>1. \A c \in Circle : s.found[c] # NoBackend <=> c < s.circle
    BY DEF PInv, Place
  <2>2. ASSUME NEW c \in Circle
        PROVE  t.found[c] # NoBackend <=> c <= s.circle
    <3>1. t.found[c] = IF c = s.circle THEN b ELSE s.found[c]
      BY <1>1, <1>2 DEF Handlers
    <3>2. b # NoBackend
      BY SizesKnown DEF NoBackend
    <3> QED
      BY <1>2, <2>1, <3>1, <3>2 DEF Circle
  <2>3. CASE s.circle = Circles
    <3>1. t.pc = IF s.kind = "replica" THEN "done" ELSE "check"
      BY <1>1, <2>3
    <3>2. s.kind \in {"write", "replica"}
      BY <1>2 DEF Handlers
    <3>3. \A c \in Circle : t.found[c] # NoBackend
      BY <2>2, <2>3 DEF Circle
    <3> QED
      BY <1>1, <1>2, <3>1, <3>2, <3>3 DEF Place
  <2>4. CASE s.circle # Circles
    <3>1. t.pc = "load" /\ t.circle = s.circle + 1
      BY <1>1, <2>4
    <3>2. \A c \in Circle : t.found[c] # NoBackend <=> c < t.circle
      BY <1>2, <2>2, <3>1 DEF Circle
    <3> QED
      BY <1>1, <1>2, <3>1, <3>2 DEF Place
  <2> QED
    BY <2>3, <2>4
<1>5. \A g \in Handler \ {h} : handler'[g] = handler[g]
  BY <1>1 DEF PInv, TypeOK
<1>6. RouteIsRing'
  <2>1. ASSUME NEW c \in Circle, NEW k \in Key, cache'[c][k] # NoBackend
        PROVE  IsHome(c, k, cache[c][k])'
    <3>1. cache'[c][k] = cache[c][k] \/ (c = s.circle /\ k = KeyOf(h) /\ cache'[c][k] = b)
      BY <1>2 DEF PInv, TypeOK
    <3>2. cache[c][k] # NoBackend => IsHome(c, k, cache[c][k])
      BY DEF PInv, RouteIsRing
    <3>3. IsHome(c, k, cache'[c][k])
      BY <2>1, <3>1, <3>2
    <3> QED
      BY <3>3 DEF IsHome
  <2>2. ASSUME NEW g \in Handler, NEW c \in Circle, handler'[g].found[c] # NoBackend
        PROVE  IsHome(c, KeyOf(g), handler[g].found[c])'
    <3>1. KeyOf(g)' = KeyOf(g)
      BY <1>1, <1>5 DEF KeyOf
    <3>2. handler'[g].found[c] = handler[g].found[c] \/ (g = h /\ c = s.circle /\ handler'[g].found[c] = b)
      BY <1>1, <1>2, <1>5 DEF Handlers
    <3>3. IsHome(c, KeyOf(g), handler'[g].found[c])
      BY <2>2, <3>2 DEF PInv, RouteIsRing
    <3> QED
      BY <3>1, <3>3 DEF IsHome
  <2> QED
    BY <2>1, <2>2 DEF RouteIsRing
<1>7. \A n \in Nat, c \in Circle : Past(h, n, c) => Past(h, n, c)'
  BY <1>1 DEF Past
<1>8. \A n \in 1..Len(s.keys), c \in Circle :
          Past(h, n, c)' /\ s.kind = "write" => Past(h, n, c)
  <2>1. s.kind = "write" => t.pc \in {"load", "check"} /\ (t.pc = "check" => t.circle = 1)
    BY <1>1
  <2> QED
    BY <1>1, <2>1 DEF Past, Circle
<1> QED
  BY <1>1, <1>3, <1>4, <1>6, <1>7, <1>8, StandsInv

\* The cache answers, or has nothing.
LEMMA LoadInv ==
    ASSUME PInv, NEW h \in Handler, Load(h)
    PROVE  PInv'
<1> DEFINE s == handler[h]
           c == s.circle
           b == cache[c][KeyOf(h)]
<1>1. s \in Handlers /\ c \in Circle /\ s.point \in 1..Len(s.keys) /\ KeyOf(h) \in Key /\ s.pc = "load"
  <2>1. s \in Handlers /\ c \in Circle /\ s.keys \in Seq(Key) /\ s.pc = "load"
    BY DEF PInv, TypeOK, Handlers, Load
  <2>2. s.point \in 1..Len(s.keys)
    BY <2>1 DEF PInv, Place
  <2> QED
    BY <2>1, <2>2 DEF KeyOf
<1>2. CASE b # NoBackend
  <2>1. IsHome(c, KeyOf(h), b)
    BY <1>1, <1>2 DEF PInv, RouteIsRing
  <2>2. b \in Backend
    BY <2>1 DEF IsHome
  <2>3. Collect(h, b) /\ UNCHANGED <<config, cache, handed, length, running, closed>>
    BY <1>2 DEF Load
  <2> QED
    BY <1>1, <2>1, <2>2, <2>3, CollectInv
<1>3. CASE b = NoBackend
  <2> DEFINE t == [s EXCEPT !.pc = "route"]
  <2>1. handler' = [handler EXCEPT ![h] = t] /\ UNCHANGED <<config, cache, handed, length, running, closed>>
    BY <1>1, <1>3 DEF Load, PInv, TypeOK, Handlers
  <2>2. t \in Handlers /\ handler'[h] = t
    BY <1>1, <2>1 DEF PInv, TypeOK, Handlers
  <2>3. /\ t.pc = "route" /\ t.keys = s.keys /\ t.kind = s.kind /\ t.point = s.point
        /\ t.circle = s.circle /\ t.found = s.found
    BY <1>1 DEF Handlers
  <2>4. TypeOK'
    BY <2>1, <2>2 DEF PInv, TypeOK
  <2>5. Place(h)'
    BY <1>1, <2>2, <2>3 DEF PInv, Place
  <2>6. RouteIsRing'
    BY <2>1, <2>2, <2>3, SameRouteInv DEF PInv
  <2>7. \A n, d : Past(h, n, d)' <=> Past(h, n, d)
    BY <1>1, <2>2, <2>3 DEF Past
  <2> QED
    BY <2>1, <2>2, <2>3, <2>4, <2>5, <2>6, <2>7, StandsInv
<1> QED
  BY <1>2, <1>3

\* The ring answers.
LEMMA RouteInv ==
    ASSUME PInv, NEW h \in Handler, Route(h)
    PROVE  PInv'
<1> DEFINE s == handler[h]
           b == Routed(config, s.circle, KeyOf(h))
<1>1. s \in Handlers /\ s.circle \in Circle /\ KeyOf(h) \in Key /\ s.pc = "route"
  <2>1. s \in Handlers /\ s.circle \in Circle /\ s.keys \in Seq(Key) /\ s.pc = "route"
    BY DEF PInv, TypeOK, Handlers, Route
  <2>2. s.point \in 1..Len(s.keys)
    BY <2>1 DEF PInv, Place
  <2> QED
    BY <2>1, <2>2 DEF KeyOf
<1>2. IsHome(s.circle, KeyOf(h), b)
  BY <1>1, RoutedIsHome DEF PInv, TypeOK
<1>3. b \in Backend
  BY <1>2 DEF IsHome
<1>4. /\ cache' = [cache EXCEPT ![s.circle][KeyOf(h)] = b] /\ Collect(h, b)
      /\ UNCHANGED <<config, handed, length, running, closed>>
  BY DEF Route
<1> QED
  BY <1>1, <1>2, <1>3, <1>4, CollectInv

\* After Written the handler is past one more circle.
LEMMA WrittenPast ==
    ASSUME PInv, NEW h \in Handler, handler[h].pc \in {"check", "send"}, Written(h),
           UNCHANGED <<config, cache>>
    PROVE  /\ \A n \in Nat, c \in Circle :
                  Past(h, n, c)' <=> Past(h, n, c) \/ (n = handler[h].point /\ c = handler[h].circle)
           /\ Place(h)'
           /\ RouteIsRing'
<1> DEFINE s == handler[h]
           t == handler'[h]
<1>1. /\ handler' = [handler EXCEPT ![h] = t]
      /\ t.kind = s.kind /\ t.keys = s.keys
      /\ IF s.circle # Circles
         THEN t.pc = "check" /\ t.circle = s.circle + 1 /\ t.point = s.point /\ t.found = s.found
         ELSE /\ t.circle = 1 /\ t.found = Nothing
              /\ IF s.point = Len(s.keys) THEN t.pc = "done" /\ t.point = s.point
                 ELSE t.pc = "load" /\ t.point = s.point + 1
  BY WrittenStep DEF PInv
<1>2. s.circle \in Circle /\ s.point \in Nat /\ Len(s.keys) \in Nat
  BY DEF PInv, TypeOK, Handlers
<1>3. s.point \in 1..Len(s.keys) /\ s.kind = "write" /\ \A c \in Circle : s.found[c] # NoBackend
  BY DEF PInv, Place
<1>4. RouteIsRing'
  <2>1. t.found = Nothing \/ (t.found = s.found /\ t.point = s.point)
    BY <1>1
  <2> QED
    BY <1>1, <2>1, SameRouteInv DEF PInv
<1>5. CASE s.circle # Circles
  <2>1. t.pc = "check" /\ t.circle = s.circle + 1 /\ t.point = s.point /\ t.found = s.found
    BY <1>1, <1>5
  <2>2. Place(h)'
    BY <1>1, <1>3, <2>1 DEF Place
  <2>3. \A n \in Nat, c \in Circle :
            Past(h, n, c)' <=> Past(h, n, c) \/ (n = s.point /\ c = s.circle)
    BY <1>2, <2>1 DEF Past, Circle
  <2> QED
    BY <1>4, <2>2, <2>3
<1>6. CASE s.circle = Circles
  <2>1. t.circle = 1 /\ t.found = Nothing
    BY <1>1, <1>6
  <2>2. IF s.point = Len(s.keys) THEN t.pc = "done" /\ t.point = s.point
        ELSE t.pc = "load" /\ t.point = s.point + 1
    BY <1>1, <1>6
  <2>3. Place(h)'
    BY <1>1, <1>2, <1>3, <2>1, <2>2 DEF Place, Nothing, Circle
  <2>4. \A c \in Circle : c <= s.circle
    BY <1>6 DEF Circle
  <2>5. \A n \in Nat, c \in Circle :
            Past(h, n, c)' <=> Past(h, n, c) \/ (n = s.point /\ c = s.circle)
    BY <1>2, <2>1, <2>2, <2>4 DEF Past, Circle
  <2> QED
    BY <1>4, <2>3, <2>5
<1> QED
  BY <1>5, <1>6

\* What a handler knows before it offers its point to a backend.
LEMMA Offered ==
    ASSUME PInv, NEW h \in Handler, handler[h].pc \in {"check", "send"}
    PROVE  LET s == handler[h]
           IN  /\ s \in Handlers /\ s.kind = "write" /\ s.circle \in Circle /\ s.point \in 1..Len(s.keys)
               /\ s.found[s.circle] \in Backend
               /\ IsHome(s.circle, s.keys[s.point], s.found[s.circle])
<1> DEFINE s == handler[h]
<1>1. s \in Handlers /\ s.circle \in Circle
  BY DEF PInv, TypeOK, Handlers
<1>2. s.point \in 1..Len(s.keys) /\ s.kind = "write" /\ s.found[s.circle] # NoBackend
  BY <1>1 DEF PInv, Place
<1>3. IsHome(s.circle, KeyOf(h), s.found[s.circle])
  BY <1>1, <1>2 DEF PInv, RouteIsRing
<1> QED
  BY <1>1, <1>2, <1>3 DEF KeyOf, IsHome

\* A step that changes nothing but where the handler stands.
LEMMA PcInv ==
    ASSUME PInv, NEW h \in Handler, handler[h].pc \in {"check", "send"}, NEW pc \in {"send", "panic"},
           handler' = [handler EXCEPT ![h].pc = pc],
           UNCHANGED <<config, cache, handed, length, running, closed>>
    PROVE  PInv'
<1> DEFINE s == handler[h]
           t == [s EXCEPT !.pc = pc]
<1>1. s \in Handlers
  BY DEF PInv, TypeOK
<1>2. handler' = [handler EXCEPT ![h] = t] /\ handler'[h] = t /\ t \in Handlers
  BY <1>1 DEF PInv, TypeOK, Handlers
<1>3. /\ t.pc = pc /\ t.keys = s.keys /\ t.kind = s.kind /\ t.point = s.point
      /\ t.circle = s.circle /\ t.found = s.found
  BY <1>1 DEF Handlers
<1>4. TypeOK'
  BY <1>2 DEF PInv, TypeOK
<1>5. Place(h)'
  BY <1>2, <1>3 DEF PInv, Place
<1>6. RouteIsRing'
  BY <1>2, <1>3, SameRouteInv DEF PInv
<1>7. \A n, d : Past(h, n, d)' <=> Past(h, n, d)
  BY <1>2, <1>3 DEF Past
<1> QED
  BY <1>2, <1>3, <1>4, <1>5, <1>6, <1>7, StandsInv

\* The backend is running, or is passed over.
LEMMA CheckInv ==
    ASSUME PInv, NEW h \in Handler, Check(h)
    PROVE  PInv'
<1> DEFINE s == handler[h]
           b == s.found[s.circle]
<1>1. s.pc = "check" /\ UNCHANGED <<config, cache, handed, length, running, closed>>
  BY DEF Check
<1>2. CASE running[s.circle][b]
  BY <1>1, <1>2, PcInv DEF Check
<1>3. CASE ~running[s.circle][b]
  <2>1. Written(h)
    BY <1>3 DEF Check
  <2>2. /\ handler' = [handler EXCEPT ![h] = handler'[h]]
        /\ handler'[h].kind = s.kind /\ handler'[h].keys = s.keys /\ handler'[h] \in Handlers
    BY <2>1, WrittenStep DEF PInv
  <2>3. TypeOK'
    BY <1>1, <2>2 DEF PInv, TypeOK
  <2>4. s.circle \in Circle /\ b \in Backend /\ IsHome(s.circle, s.keys[s.point], b)
    BY <1>1, Offered
  <2>5. /\ \A n \in Nat, c \in Circle :
               Past(h, n, c)' <=> Past(h, n, c) \/ (n = s.point /\ c = s.circle)
        /\ Place(h)' /\ RouteIsRing'
    BY <1>1, <2>1, WrittenPast
  <2>6. \A n \in 1..Len(s.keys), c \in Circle :
            Past(h, n, c)' => \/ Past(h, n, c)
                              \/ \E e \in Backend : IsHome(c, s.keys[n], e) /\ ~running[c][e]
    BY <1>3, <2>4, <2>5
  <2> QED
    BY <1>1, <2>2, <2>3, <2>5, <2>6, StandsInv
<1> QED
  BY <1>2, <1>3

\* The channel was closed meanwhile.
LEMMA SendOnClosedInv ==
    ASSUME PInv, NEW h \in Handler, SendOnClosed(h)
    PROVE  PInv'
BY PcInv DEF SendOnClosed

\* Appending to a sequence.
LEMMA Appended ==
    ASSUME NEW S, NEW q \in Seq(S), NEW e
    PROVE  /\ Len(q) \in Nat /\ Len(Append(q, e)) = Len(q) + 1
           /\ \A i \in 1..Len(q) : i \in 1..Len(Append(q, e)) /\ Append(q, e)[i] = q[i]
           /\ \A i \in 1..Len(Append(q, e)) : i \in 1..Len(q) \/ (i = Len(q) + 1 /\ Append(q, e)[i] = e)
           /\ Len(q) + 1 \in 1..Len(Append(q, e)) /\ Append(q, e)[Len(q) + 1] = e
<1>1. Len(q) \in Nat /\ Len(Append(q, e)) = Len(q) + 1 /\ Append(q, e)[Len(q) + 1] = e
  OBVIOUS
<1>2. \A i \in 1..Len(q) : Append(q, e)[i] = q[i]
  OBVIOUS
<1> QED
  BY <1>1, <1>2

\* A channel takes the point.
LEMMA SendInv ==
    ASSUME PInv, NEW h \in Handler, Send(h)
    PROVE  PInv'
<1> DEFINE s == handler[h]
<1>0. PICK c0, b0, n0, new :
          c0 = s.circle /\ b0 = s.found[s.circle] /\ n0 = s.point /\ new = <<h, n0>>
  OBVIOUS
<1>1. /\ s.pc = "send" /\ length[c0][b0] < ChanCap /\ Written(h)
      /\ length' = [length EXCEPT ![c0][b0] = @ + 1]
      /\ handed' = [handed EXCEPT ![c0][b0] = Append(@, new)]
      /\ UNCHANGED <<config, cache, running, closed>>
  BY <1>0 DEF Send
<1>2. /\ s.kind = "write" /\ c0 \in Circle /\ n0 \in 1..Len(s.keys) /\ b0 \in Backend
      /\ IsHome(c0, s.keys[n0], b0) /\ n0 \in Nat
  <2>1. s.point \in Nat
    BY <1>1, Offered DEF Handlers
  <2> QED
    BY <1>0, <1>1, <2>1, Offered
<1>3. /\ handler' = [handler EXCEPT ![h] = handler'[h]]
      /\ handler'[h].kind = s.kind /\ handler'[h].keys = s.keys /\ handler'[h] \in Handlers
  BY <1>1, WrittenStep DEF PInv
<1>4. /\ \A n \in Nat, c \in Circle : Past(h, n, c)' <=> Past(h, n, c) \/ (n = n0 /\ c = c0)
      /\ Place(h)' /\ RouteIsRing'
  BY <1>0, <1>1, WrittenPast
<1>5. \A c \in Circle, b \in Backend : handed[c][b] \in Seq(Handler \X Nat)
  BY DEF PInv, TypeOK
<1>6. \A c \in Circle, b \in Backend :
          handed'[c][b] = IF c = c0 /\ b = b0 THEN Append(handed[c][b], new) ELSE handed[c][b]
  BY <1>1, <1>2 DEF PInv, TypeOK
<1>7. TypeOK'
  <2>0. length \in [Circle -> [Backend -> 0..ChanCap]] /\ ChanCap \in Nat
    BY SizesPositive DEF PInv, TypeOK
  <2>1. length[c0][b0] + 1 \in 0..ChanCap
    BY <1>1, <1>2, <2>0
  <2>2. length' \in [Circle -> [Backend -> 0..ChanCap]]
    BY <1>1, <1>2, <2>1 DEF PInv, TypeOK
  <2>3. handler' \in [Handler -> Handlers]
    BY <1>3 DEF PInv, TypeOK
  <2>4. Append(handed[c0][b0], new) \in Seq(Handler \X Nat)
    BY <1>0, <1>2, <1>5
  <2>5. handed' \in [Circle -> [Backend -> Seq(Handler \X Nat)]]
    BY <1>1, <1>2, <2>4 DEF PInv, TypeOK
  <2> QED
    BY <1>1, <2>2, <2>3, <2>5 DEF PInv, TypeOK
<1>8. \A g \in Handler \ {h} : handler'[g] = handler[g]
  BY <1>3 DEF PInv, TypeOK
<1>9. \A g \in Handler : Place(g)' /\ handler'[g].keys = handler[g].keys
  BY <1>3, <1>4, <1>8 DEF PInv, Place
<1>10. \A g \in Handler, n \in Nat, c \in Circle : Past(g, n, c) => Past(g, n, c)'
  <2>1. ASSUME NEW g \in Handler \ {h}, NEW n \in Nat, NEW c \in Circle
        PROVE  Past(g, n, c) => Past(g, n, c)'
    BY <1>8 DEF Past
  <2> QED
    BY <1>4, <2>1
<1>11. \A c \in Circle, b \in Backend : \A i \in 1..Len(handed[c][b]) :
           i \in 1..Len(handed'[c][b]) /\ handed'[c][b][i] = handed[c][b][i]
  <2> SUFFICES ASSUME NEW c \in Circle, NEW b \in Backend, NEW i \in 1..Len(handed[c][b])
               PROVE  i \in 1..Len(handed'[c][b]) /\ handed'[c][b][i] = handed[c][b][i]
    OBVIOUS
  <2>1. handed'[c][b] = handed[c][b] \/ handed'[c][b] = Append(handed[c][b], new)
    BY <1>6
  <2>2. CASE handed'[c][b] = Append(handed[c][b], new)
    BY <1>5, <2>2, Appended
  <2> QED
    BY <2>1, <2>2
<1>12. \A c \in Circle, b \in Backend : \A i \in 1..Len(handed'[c][b]) :
           \/ i \in 1..Len(handed[c][b])
           \/ c = c0 /\ b = b0 /\ i = Len(handed[c][b]) + 1 /\ handed'[c][b][i] = new
  <2> SUFFICES ASSUME NEW c \in Circle, NEW b \in Backend, NEW i \in 1..Len(handed'[c][b]),
                      i \notin 1..Len(handed[c][b])
               PROVE  c = c0 /\ b = b0 /\ i = Len(handed[c][b]) + 1 /\ handed'[c][b][i] = new
    OBVIOUS
  <2>1. c = c0 /\ b = b0 /\ handed'[c][b] = Append(handed[c][b], new)
    BY <1>6
  <2> QED
    BY <1>5, <2>1, Appended
<1>13. \E i \in 1..Len(handed'[c0][b0]) : handed'[c0][b0][i] = new
  <2>1. handed'[c0][b0] = Append(handed[c0][b0], new)
    BY <1>2, <1>6
  <2> DEFINE q == handed[c0][b0]
  <2>2. q \in Seq(Handler \X Nat)
    BY <1>2, <1>5
  <2>3. Len(q) + 1 \in 1..Len(Append(q, new)) /\ Append(q, new)[Len(q) + 1] = new
    BY <2>2, Appended
  <2> QED
    BY <2>1, <2>3
<1>14. \A c \in Circle, b \in Backend : \A i \in 1..Len(handed[c][b]) :
           /\ handed[c][b][i][1] \in Handler /\ handed[c][b][i][2] \in Nat
           /\ handed[c][b][i][2] \in 1..Len(handler[handed[c][b][i][1]].keys)
           /\ Past(handed[c][b][i][1], handed[c][b][i][2], c)
  <2> SUFFICES ASSUME NEW c \in Circle, NEW b \in Backend, NEW i \in 1..Len(handed[c][b])
               PROVE  LET p == handed[c][b][i]
                      IN  /\ p[1] \in Handler /\ p[2] \in Nat
                          /\ p[2] \in 1..Len(handler[p[1]].keys) /\ Past(p[1], p[2], c)
    OBVIOUS
  <2>1. handed[c][b][i] \in Handler \X Nat
    BY <1>5
  <2>2. LET p == handed[c][b][i] IN p[2] \in 1..Len(handler[p[1]].keys) /\ Past(p[1], p[2], c)
    BY DEF PInv, Ordered
  <2> QED
    BY <2>1, <2>2
<1>15. new[1] = h /\ new[2] = n0
  BY <1>0
<1>16. Ordered'
  <2> SUFFICES ASSUME NEW c \in Circle, NEW b \in Backend, NEW i \in (1..Len(handed[c][b]))'
               PROVE  (LET p == handed[c][b][i]
                       IN  p[2] \in 1..Len(handler[p[1]].keys) /\ Past(p[1], p[2], c))'
    BY DEF Ordered
  <2>1. CASE i \in 1..Len(handed[c][b])
    <3>1. handed'[c][b][i] = handed[c][b][i]
      BY <1>11, <2>1
    <3> DEFINE p == handed[c][b][i]
    <3>2. p[1] \in Handler /\ p[2] \in Nat /\ p[2] \in 1..Len(handler[p[1]].keys) /\ Past(p[1], p[2], c)
      BY <1>14, <2>1
    <3>3. p[2] \in 1..Len(handler'[p[1]].keys)
      BY <1>9, <3>2
    <3>4. Past(handed[c][b][i][1], handed[c][b][i][2], c)'
      <4> DEFINE PastNext(g, n) ==
              LET t == handler'[g]
              IN  \/ n < t.point
                  \/ n = t.point /\ (t.pc = "done" \/ (t.pc \in {"check", "send", "panic"} /\ c < t.circle))
      <4>1. \A g \in Handler, n \in Nat : Past(g, n, c) => PastNext(g, n)
        BY <1>10 DEF Past
      <4>2. PastNext(p[1], p[2])
        BY <3>2, <4>1
      <4>3. PastNext(handed'[c][b][i][1], handed'[c][b][i][2])
        BY <3>1, <4>2
      <4> QED
        BY <4>3 DEF Past
    <3> QED
      BY <3>1, <3>3, <3>4
  <2>2. CASE c = c0 /\ handed'[c][b][i] = new
    <3>1. n0 \in 1..Len(handler'[h].keys) /\ Past(h, n0, c)'
      BY <1>2, <1>3, <1>4, <2>2
    <3>2. Past(handed[c][b][i][1], handed[c][b][i][2], c)'
      BY <1>15, <2>2, <3>1 DEF Past
    <3> QED
      BY <1>15, <2>2, <3>1, <3>2
  <2> QED
    BY <1>12, <2>1, <2>2
<1>17. HandedHome'
  <2> SUFFICES ASSUME NEW c \in Circle, NEW b \in Backend, NEW i \in 1..Len(handed'[c][b])
               PROVE  LET points == handed'[c][b]
                      IN  /\ IsHome(c, handler[handed[c][b][i][1]].keys[handed[c][b][i][2]], b)'
                          /\ \A j \in 1..(i - 1) :
                                 points[j][1] = points[i][1] => points[j][2] < points[i][2]
    BY DEF HandedHome
  <2>1. CASE i \in 1..Len(handed[c][b])
    <3>0. Len(handed[c][b]) \in Nat
      BY <1>5
    <3>1. handed'[c][b][i] = handed[c][b][i] /\ \A j \in 1..(i - 1) : handed'[c][b][j] = handed[c][b][j]
      <4>1. \A j \in 1..(i - 1) : j \in 1..Len(handed[c][b])
        BY <3>0, <2>1
      <4> QED
        BY <1>11, <2>1, <4>1
    <3>2. /\ IsHome(c, handler[handed[c][b][i][1]].keys[handed[c][b][i][2]], b)
          /\ \A j \in 1..(i - 1) :
                 handed[c][b][j][1] = handed[c][b][i][1] => handed[c][b][j][2] < handed[c][b][i][2]
      BY <2>1 DEF PInv, HandedHome
    <3>3. IsHome(c, handler[handed[c][b][i][1]].keys[handed[c][b][i][2]], b)'
      <4> DEFINE p == handed[c][b][i]
      <4>1. p[1] \in Handler
        BY <1>14, <2>1
      <4>2. handler'[p[1]].keys = handler[p[1]].keys
        BY <1>9, <4>1
      <4>3. IsHome(c, handler'[handed'[c][b][i][1]].keys[handed'[c][b][i][2]], b)
        BY <3>1, <3>2, <4>2
      <4> QED
        BY <1>1, <4>3 DEF IsHome
    <3> QED
      BY <3>1, <3>2, <3>3
  <2>2. CASE c = c0 /\ b = b0 /\ i = Len(handed[c][b]) + 1 /\ handed'[c][b][i] = new
    <3>1. IsHome(c, handler[handed[c][b][i][1]].keys[handed[c][b][i][2]], b)'
      <4>1. IsHome(c, handler'[handed'[c][b][i][1]].keys[handed'[c][b][i][2]], b)
        BY <1>2, <1>3, <1>15, <2>2
      <4> QED
        BY <1>1, <4>1 DEF IsHome
    <3>2. ASSUME NEW j \in 1..(i - 1), handed'[c][b][j][1] = h
          PROVE  handed'[c][b][j][2] < n0
      <4>0. Len(handed[c][b]) \in Nat
        BY <1>5
      <4>1. j \in 1..Len(handed[c][b])
        BY <2>2, <4>0
      <4>2. handed'[c][b][j] = handed[c][b][j]
        BY <1>11, <4>1
      <4>3. Past(h, handed[c][b][j][2], c0) /\ handed[c][b][j][2] \in Nat
        BY <1>14, <2>2, <3>2, <4>1, <4>2
      <4>4. ~(c0 < s.circle) /\ n0 = s.point
        BY <1>0, <1>2 DEF Circle
      <4> QED
        BY <1>1, <4>2, <4>3, <4>4 DEF Past
    <3> QED
      BY <1>15, <2>2, <3>1, <3>2
  <2> QED
    BY <1>12, <2>1, <2>2
<1>18. Kept'
  <2>1. \A c \in Circle, b \in Backend : \A p : Has(c, b, p) => Has(c, b, p)'
    BY <1>11 DEF Has
  <2>2. \E i \in 1..Len(handed'[c0][b0]) : handed'[c0][b0][i] = <<h, n0>>
    BY <1>0, <1>13
  <2>3. \A n \in 1..Len(s.keys), c \in Circle :
            Past(h, n, c)' =>
                \/ Past(h, n, c)
                \/ \E b \in Backend : IsHome(c, s.keys[n], b) /\ (running[c][b] => Has(c, b, <<h, n>>)')
    BY <1>2, <1>4, <2>2 DEF Has
  <2> QED
    BY <1>1, <1>3, <2>1, <2>3, KeptStep
<1> QED
  BY <1>4, <1>7, <1>9, <1>16, <1>17, <1>18 DEF PInv

\* Every step keeps the invariant.
LEMMA NextInv == PInv /\ [Next]_vars => PInv'
<1> SUFFICES ASSUME PInv, [Next]_vars PROVE PInv'
  OBVIOUS
<1>1. CASE UNCHANGED vars
  <2>1. TypeOK'
    BY <1>1 DEF vars, PInv, TypeOK
  <2> QED
    BY <1>1, <2>1, OtherInv DEF vars
<1>2. ASSUME NEW h \in Handler, Step(h) PROVE PInv'
  BY <1>2, LoadInv, RouteInv, CheckInv, SendInv, SendOnClosedInv DEF Step
<1>3. ASSUME NEW h \in Handler, NEW r \in Requests, Begin(h, r) PROVE PInv'
  BY <1>3, BeginInv
<1>4. ASSUME NEW c \in Circle, NEW b \in Backend,
             Receive(c, b) \/ CloseStop(c, b) \/ CloseChannel(c, b)
      PROVE  PInv'
  BY <1>4, BackendInv
<1> QED
  BY <1>1, <1>2, <1>3, <1>4 DEF Next

LEMMA Invariant == Spec => []PInv
BY InitInv, NextInv, PTL DEF Spec

-----------------------------------------------------------------------------
(* What follows. *)

\* Every state of the handlers, the caches and the channels is well typed, for any
\* requests and rings (Proxy.Write, Proxy.WriteRow).
THEOREM TypeCorrect == Spec => []TypeOK
<1>1. PInv => TypeOK
  BY DEF PInv
<1> QED
  BY <1>1, Invariant, PTL

\* However many handlers fill a circle's cache at once, what the cache and the
\* handlers hold is the ring's answer (Circle.GetBackend).
THEOREM RouteIsRingCorrect == Spec => []RouteIsRing
<1>1. PInv => RouteIsRing
  BY DEF PInv
<1> QED
  BY <1>1, Invariant, PTL

\* A backend is given only points whose home it is, each once and in the order of
\* their request (Proxy.WriteRow, Backend.WritePoint).
THEOREM HandedHomeCorrect == Spec => []HandedHome
<1>1. PInv => HandedHome
  BY DEF PInv
<1> QED
  BY <1>1, Invariant, PTL

\* What a handler has done with is in every circle, except where the backend was
\* closed (Proxy.WritePoints).
THEOREM ReplicatedCorrect == Spec => []Replicated
<1>1. PInv => Replicated
  <2> SUFFICES ASSUME PInv, NEW h \in Handler, handler[h].kind = "write",
                      NEW i \in IF handler[h].pc = "done" THEN 1..Len(handler[h].keys)
                                ELSE 1..(handler[h].point - 1),
                      NEW c \in Circle
               PROVE  \E b \in Backend :
                          IsHome(c, handler[h].keys[i], b) /\ (running[c][b] => Has(c, b, <<h, i>>))
    BY DEF Replicated
  <2> DEFINE s == handler[h]
  <2>1. s \in Handlers /\ Len(s.keys) \in Nat /\ s.point \in Nat
    BY DEF PInv, TypeOK, Handlers
  <2>2. i \in 1..Len(s.keys) /\ Past(h, i, c)
    <3>1. CASE s.pc = "done"
      <4>1. s.point = Len(s.keys)
        BY <3>1 DEF PInv, Place
      <4> QED
        BY <2>1, <3>1, <4>1 DEF Past
    <3>2. CASE s.pc = "new"
      <4>1. s.point = 1
        BY <3>2 DEF PInv, Place
      <4> QED
        BY <3>2, <4>1
    <3>3. CASE s.pc \notin {"new", "done"}
      <4>1. s.point \in 1..Len(s.keys)
        BY <3>3 DEF PInv, Place
      <4> QED
        BY <2>1, <3>3, <4>1 DEF Past
    <3> QED
      BY <3>1, <3>2, <3>3
  <2> QED
    BY <2>2 DEF PInv, Kept
<1> QED
  BY <1>1, Invariant, PTL

=============================================================================
