------------------------------ MODULE MCAnalysis ------------------------------
(***************************************************************************)
(* The pure parts of the proxy over bounded inputs: every state is one      *)
(* input, and an invariant says what the code makes of it.                  *)
(***************************************************************************)
EXTENDS LineProto, InfluxQL, Merge, Moves

VARIABLE input

SeqsUpTo(S, n) == UNION {[1..k -> S] : k \in 0..n}

\* The factors of the precisions, as zeros to append or as multipliers.
MCZeros == [ns |-> 0, us |-> 1, ms |-> 2, s |-> 3]
MCMultiplier == [m |-> 6000, h |-> 360000]
MCNow == <<"8", "8">>
MCLowerCase == [SELECT |-> "select", FROM |-> "from"]
MCDBList == {<<"d">>, <<"e">>}

-----------------------------------------------------------------------------
(* Lines of a write request. *)

Precisions == DOMAIN Zeros \cup DOMAIN Multiplier

\* Any line that Write hands to WriteRow, and lines of the line protocol.
AnyLine ==
    {l \in SeqsUpTo({"a", Blank, Comma, "=", "\\", "1", "NUL"}, 5) : l # <<>> /\ l[1] # Blank}
Names == SeqsUpTo({"a", Blank, Comma, Quote, "."}, 3) \ {<<>>}
TagSets == {<<>>, <<Comma, "t", "=", "1">>, <<Comma, "t", "=", "\\", Blank>>}
FieldSets == {<<"f", "=", "1">>, <<"f", "=", Quote, Blank, Comma, Quote>>,
              <<"f", "=", Quote, "\\", Quote, "\n", Quote, Comma, "g", "=", "2">>}
Times == {<<>>} \cup {Int64ToBytes(n) : n \in {0, 1, 87, 1000}}

Points ==
    [kind : {"point"}, name : Names, tags : TagSets, gap : {<<Blank>>, <<Blank, Blank>>},
     fields : FieldSets, time : Times, precision : Precisions]

\* Names that the line protocol and InfluxQL write differently.
Measurements ==
    [kind : {"name"}, tags : TagSets,
     name : SeqsUpTo({"a", "from", Blank, Comma, "=", Quote, "'", ".", "(", ")", "/"}, 3) \ {<<>>}]

\* What the queries for them need: the field and the database are ordinary ones.
ASSUME InputsFit == IsField("f") /\ ~IsForbiddenDB(<<"d">>)

\* Bodies: blocks in any order, of which some carry no line.
Blocks == {<<>>, <<Blank>>, <<"#", "a">>, <<Blank, "a", Blank, "f", "=", "1">>,
           <<"a", "\\", Blank, Comma, "t", "=", Quote, Blank, "f", "=", "1">>}
          \cup {<<"a", Blank>> \o f : f \in FieldSets}
Bodies == [kind : {"body"}, blocks : SeqsUpTo(Blocks, 3), ended : BOOLEAN]

-----------------------------------------------------------------------------
(* Statements. *)

\* A measurement, with its retention policy and database where they are given.
Source(in) ==
    LET id(name) == IF in.quoted THEN Quoted(name) ELSE name
    IN  (IF in.db = NoName THEN <<>>
         ELSE id(in.db) \o <<".">> \o (IF in.rp = NoName THEN <<".">> ELSE <<>>))
        \o (IF in.rp = NoName THEN <<>> ELSE id(in.rp) \o <<".">>)
        \o id(in.name)

On(in) == IF in.db = NoName THEN <<>> ELSE <<" ", "on", " ">> \o Quoted(in.db)

Where == <<" ", "where", " ", "\"", "from", "\"", " ", "=", " ", "'", "x", "\\", "'", "'">>

\* The statements about a measurement, and the others.
WithSource(in) ==
    [select |-> <<"select", " ", "f", " ", "from", " ">> \o Source(in) \o Where,
     SELECT |-> <<" ", "SELECT", " ", "\"", "f", "\"", ",", " ", "g", " ", " ", "FROM", " ">>
                \o Source(in) \o <<";", " ">>,
     nested |-> <<"select", " ", "f", " ", "from", " ", "(", "select", " ", "f", " ", "from", " ">>
                \o Source(in) \o <<")", " ", "group", " ", "by", " ", "t">>,
     nested2 |-> <<"select", " ", "f", " ", "from", " ", "(", "select", " ", "f", " ", "from", " ",
                   "(", "select", " ", "f", " ", "from", " ">> \o Source(in) \o <<")", ")">>,
     into |-> <<"select", " ", "f", " ", "into", " ", "x", " ", "from", " ">> \o Source(in),
     delete |-> <<"delete", " ", "from", " ">> \o Source(in) \o Where,
     dropSeries |-> <<"drop", " ", "series", " ", "from", " ">> \o Source(in),
     showFields |-> <<"show", " ", "field", " ", "keys", " ", "from", " ">> \o Source(in),
     showSeries |-> <<"show", " ", "series", " ", "from", " ">> \o Source(in) \o Where]

WithOn(in) ==
    [showValuesOf |-> <<"show", " ", "tag", " ", "values">> \o On(in)
                      \o <<" ", "from", " ">> \o Source([in EXCEPT !.db = NoName]),
     showMeasurements |-> <<"show", " ", "measurements">> \o On(in),
     showKeys |-> <<"show", " ", "tag", " ", "keys">> \o On(in),
     showPolicies |-> <<"show", " ", "retention", " ", "policies">> \o On(in),
     dropMeasurement |-> <<"drop", " ", "measurement", " ">> \o Source([in EXCEPT !.db = NoName]),
     createPolicy |-> <<"create", " ", "retention", " ", "policy", " ", "p">> \o On(in),
     showStats |-> <<"show", " ", "stats">>,
     showDatabases |-> <<"show", " ", "databases">>,
     createDatabase |-> <<"create", " ", "database", " ">> \o in.db,
     dropDatabase |-> <<"drop", " ", "database", " ">> \o Quoted(in.db),
     showUsers |-> <<"show", " ", "users">>,
     grant |-> <<"grant", " ", "all", " ", "to", " ", "u">>]

Forms(in) == WithSource(in) @@ WithOn(in)
Bare == [name : {<<"m">>}, quoted : {FALSE}]
InQuotes == [name : SeqsUpTo({"m", " ", ".", "\"", "\\", "/"}, 2) \ {<<>>}, quoted : {TRUE}]
SomeForm == [name |-> <<"m">>, quoted |-> FALSE, db |-> NoName, rp |-> NoName]
Statements ==
    {[kind |-> "statement", verb |-> verb, name |-> n.name, quoted |-> n.quoted,
      db |-> db, rp |-> rp, form |-> form] :
        n \in Bare \cup InQuotes, verb \in DOMAIN Forms(SomeForm), db \in {NoName, <<"d">>, <<"x">>},
        rp \in {NoName, <<"p">>}, form \in {NoName, <<"e">>, <<"x">>}}

\* dropMeasurement and showValuesOf take no database or policy with the name.
Sensible(in) ==
    in.verb \in {"dropMeasurement", "showValuesOf"} =>
        in.rp = NoName /\ (in.verb = "dropMeasurement" => in.db = NoName)

\* What such a statement is to do.
Expected(in) ==
    LET db == IF in.db = NoName /\ in.verb \notin {"createDatabase", "dropDatabase"}
              THEN in.form ELSE in.db
        refused == [op |-> "refused"]
        on(op) == [op |-> op, key |-> GetKey(db, in.name)]
        show(by) == [op |-> "show", by |-> by]
    IN  IF in.verb \in {"into", "showUsers", "grant"} THEN refused
        ELSE IF in.verb = "showDatabases" THEN show("reduceByValues")
        ELSE IF in.verb = "showStats" /\ in.form \in MCDBList THEN show("concatByResults")
        ELSE IF in.verb = "showStats" \/ db \notin MCDBList THEN refused
        ELSE CASE in.verb \in {"select", "SELECT", "nested", "nested2", "showFields",
                               "showSeries", "showValuesOf"} -> on("one")
               [] in.verb \in {"delete", "dropSeries", "dropMeasurement"} -> on("each")
               [] in.verb = "showMeasurements" -> show("reduceByValues")
               [] in.verb = "showKeys" -> show("reduceBySeries")
               [] in.verb = "showPolicies" -> show("attachByValues")
               [] OTHER -> [op |-> "all", db |-> db]

-----------------------------------------------------------------------------
(* Answers to shows: two circles of two backends, each measurement at one    *)
(* backend of each circle, and the backends in the order of their answers,   *)
(* with one whole circle among them.                                         *)

Backends == {1, 2} \X {1, 2}
Circle(c) == {c} \X {1, 2}
Orders == {o \in SeqsUpTo(Backends, 4) : /\ IsInjective(o)
                                        /\ \E c \in {1, 2} : Circle(c) \subseteq Range(o)}
Shows == [kind : {"show"}, order : Orders, ring : [{1, 2} \X {"m1", "m2", "m3"} -> {1, 2}],
          policies : [Backends -> {<<"autogen">>, <<"autogen", "p">>}]]

\* The ring matters to the first two answers, the policies to the third.
SensibleShow(in) ==
    \/ in.ring = [x \in DOMAIN in.ring |-> 1]
    \/ in.policies = [b \in Backends |-> <<"autogen">>]

At(in, b) == {m \in {"m1", "m2", "m3"} : in.ring[<<b[1], m>>] = b[2]}
RowsOf(seq) == [i \in 1..Len(seq) |-> <<seq[i]>>]

\* What a backend answers: the series of one result, none if there is no row.
Body(in, b, by) ==
    CASE by = "reduceByValues" ->
             <<IF At(in, b) = {} THEN <<>>
               ELSE <<[name |-> "measurements", values |-> RowsOf(SetToSeq(At(in, b)))]>> >>
      [] by = "reduceBySeries" ->
             <<SetToSeq({[name |-> m, values |-> <<<<"key of", m>>>>] : m \in At(in, b)})>>
      [] by = "attachByValues" -> <<<<[name |-> "", values |-> RowsOf(in.policies[b])]>>>>
      [] OTHER -> <<<<[name |-> "stats", values |-> <<b>>]>>>>

-----------------------------------------------------------------------------
(* Placements: what each backend has, and the ring after it was changed. *)

Keys == {"k1", "k2"}
Placements == [kind : {"placement"}, has : [Backends -> SUBSET Keys],
               up : {Backends} \cup {Backends \ {b} : b \in Backends},
               ring : {<<r1, r2>> : r1 \in [Keys -> Circle(1)], r2 \in [Keys -> Circle(2)]}]

-----------------------------------------------------------------------------
Init ==
    \/ input \in Placements
    \/ input \in {in \in Shows : SensibleShow(in)}
    \/ input \in [kind : {"any"}, line : AnyLine, precision : Precisions \cap {"ns", "h"}]
    \/ input \in Points
    \/ input \in Measurements
    \/ input \in Bodies
    \/ input \in {in \in Statements : Sensible(in)}

Next == UNCHANGED input

Spec == Init /\ [][Next]_input

-----------------------------------------------------------------------------
\* Whatever a line is, it is written or dropped: ScanKey never looks beyond it and
\* RapidCheck never loops for ever on a blank at its end, because AppendNano has
\* given every line a timestamp (Proxy.WriteRow).
EveryLineEnds ==
    input.kind = "any" => LineEnds(input.line, input.precision)

\* A well-formed point is written as it came, and its time in nanoseconds: the
\* given one, or the clock's where there was none, as long as it fits an int64
\* (Proxy.WriteRow, AppendNano).
PointIsWritten ==
    input.kind = "point" =>
        /\ IsPoint(input.name, input.tags, input.gap, input.fields)
        /\ PointIsKept(input.name, input.tags, input.gap, input.fields, input.time,
                       input.precision)

\* A body falls into the lines it was made of, without the blank ones, the comments and
\* the blanks in front; a line feed inside a string does not end a line (Proxy.Write,
\* ScanLine).
BodyIsItsLines ==
    input.kind = "body" =>
        /\ \A i \in 1..Len(input.blocks) : IsBlock(input.blocks[i])
        /\ BodyIsCut(input.blocks, input.ended)

\* A statement goes to the backends of the database and measurement it names, in
\* quotes or not and however deep in a subquery, or to all of them, or it is refused
\* because it is not supported or its database is not allowed (Proxy.Query).
StatementIsRouted ==
    input.kind = "statement" => Query(Forms(input)[input.verb], input.form) = Expected(input)

\* A show is answered with every measurement once, whichever backends answer, in
\* whichever order, as long as one whole circle is among them; retention policies
\* and stats come from all that answered (the reductions of QueryShowQL).
ShowIsWhole ==
    input.kind = "show" =>
        LET bodies(by) == [i \in 1..Len(input.order) |-> Body(input, input.order[i], by)]
            answer(by) == Reduced(by, bodies(by))
            policies == answer("attachByValues")
        IN  /\ ValuesAreWhole(bodies("reduceByValues"))
            /\ SeriesAreWhole(bodies("reduceBySeries"))
            /\ PoliciesAreWhole(bodies("attachByValues"))
            /\ answer("reduceByValues") = {<<m>> : m \in {"m1", "m2", "m3"}}
            /\ answer("reduceBySeries") =
                   {[name |-> m, values |-> <<<<"key of", m>>>>] : m \in {"m1", "m2", "m3"}}
            /\ IsInjective(policies)
            /\ {row[1] : row \in Range(policies)} =
                   UNION {Range(input.policies[b]) : b \in Range(input.order)}
            /\ policies[1] = <<"autogen">>
            /\ {s[1].values[1] : s \in Range(answer("concatByResults"))} = Range(input.order)
            /\ Len(answer("concatByResults")) = Len(input.order)

\* What an operation moves is enough for what comes after it, unless the home of a
\* key or all backends that have it were down: a cleanup behind a rebalance drops
\* only what is at its home, and a recovered or resynced circle answers for all that
\* the source has (runRebalance, runRecovery, runResync, runCleanup).
OperationsKeepData ==
    input.kind = "placement" =>
        /\ IsPlacement(input.has, input.up, input.ring)
        /\ CleanupIsSafe(input.has, input.up, input.ring)
        /\ RecoveryIsWhole(input.has, input.up, input.ring)
        /\ ResyncIsWhole(input.has, input.up, input.ring)

\* A query for a measurement goes to the backends that its points were written to,
\* whatever its name is made of but backslashes: the two scanners undo two escapings
\* of their own (ScanKey, and FindEndWithQuote with getMeasurement).
RoutesAgree ==
    input.kind = "name" =>
        LET line == PointText(input.name, input.tags, <<Blank>>, <<"f", "=", "1">>)
            db == <<"d">>
        IN  /\ \A p \in Precisions : GetKey(db, WriteRow(line, p).meas) = GetKey(db, input.name)
            /\ IsReadThere("f", input.name, db)

=============================================================================
