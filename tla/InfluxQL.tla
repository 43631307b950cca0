------------------------------- MODULE InfluxQL -------------------------------
(***************************************************************************)
(* What the proxy reads out of an InfluxQL statement: whether it is one it  *)
(* supports, which database and which measurement it is about, and which    *)
(* backends it goes to (backend/influxql.go, Proxy.Query and the operations *)
(* of backend/executor.go).  InfluxDB itself parses the statement once more. *)
(*                                                                          *)
(* A statement is a sequence of symbols.  The characters that the scanner   *)
(* tells apart (blank, quotes, backslash, brackets, comma, dot, slash) are  *)
(* symbols of their own, any other run of characters is one symbol.         *)
(***************************************************************************)
EXTENDS Text

CONSTANTS
    LowerCase,           \* LowerCase[s]: what strings.ToLower makes of the symbol s
    DBList,              \* the databases of the configuration; none: any database
    HashKeyMeasureOnly   \* whether the key is the measurement alone

\* Keywords in lower case stay as they are.
ASSUME KeywordsAreLower == "select" \notin DOMAIN LowerCase /\ "from" \notin DOMAIN LowerCase

Lower(token) ==
    [i \in 1..Len(token) |-> IF token[i] \in DOMAIN LowerCase THEN LowerCase[token[i]]
                             ELSE token[i]]

-----------------------------------------------------------------------------
(* The scanner. *)

\* The string in quotes that begins at start, without its backslashes, and where
\* the text goes on.  A backslash at the very end looks beyond the text.
FindEndWithQuote(data, start, endchar) ==
    LET scan[i \in Nat] ==
            LET and(k) == [scan[k + 1] EXCEPT !.text = <<data[k]>> \o @]
                stop(st) == [next |-> i, text |-> <<>>, st |-> st]
            IN  IF i > Len(data) THEN stop("error")
                ELSE IF data[i] = endchar
                THEN [next |-> i + 1, text |-> <<endchar>>, st |-> "ok"]
                ELSE IF data[i] # "\\" THEN and(i)
                ELSE IF i = Len(data) THEN stop("panic")
                ELSE IF data[i + 1] \in {endchar, "\\"} THEN and(i + 1)
                ELSE stop("error")
        found == scan[start + 1]
    IN  [found EXCEPT !.text = <<data[start]>> \o @]

\* The token at start, which is not a blank.
ScanToken(data, start) ==
    LET rest == start..Len(data)
        upTo(ends) ==
            LET end == FirstOf(ends, 0)
            IN  [next |-> end + 1, text |-> SubSeq(data, start, end),
                 st |-> IF end = 0 THEN "error" ELSE "ok"]
        count(c, i) == Cardinality({j \in start..i : data[j] = c})
    IN  CASE data[start] \in {Quote, "'"} -> FindEndWithQuote(data, start, data[start])
          [] data[start] = "(" -> upTo({i \in rest : count("(", i) = count(")", i)})
          [] data[start] = "[" -> upTo({i \in rest : data[i] = "]"})
          [] data[start] = "{" -> upTo({i \in rest : data[i] = "}"})
          [] data[start] \in {Comma, "."} -> upTo({start})
          [] OTHER -> upTo({FirstOf({i \in rest : data[i] \in {Blank, ".", Quote}},
                                    Len(data) + 1) - 1})

\* The tokens up to the first that is wrong, which is not reported.
ScanTokens(q) ==
    LET data == TrimmedRight(Trimmed(q, Space), {";", Blank})
        from[i \in Nat] ==
            LET start == FirstOf({k \in i..Len(data) : data[k] # Blank}, 0)
                token == ScanToken(data, start)
                rest == from[token.next]
            IN  IF start = 0 \/ (start # 0 /\ token.st = "error")
                THEN [tokens |-> <<>>, st |-> "ok"]
                ELSE IF token.st = "panic" THEN [tokens |-> <<>>, st |-> "panic"]
                ELSE [rest EXCEPT !.tokens = <<token.text>> \o @]
    IN  from[1]

-----------------------------------------------------------------------------
(* Database and measurement. *)

NoName == <<>>
IsDot(tokens, i) == i <= Len(tokens) /\ tokens[i] = <<".">>
Unquoted(token) == IF token[1] \in {Quote, "'"} THEN SubSeq(token, 2, Len(token) - 1) ELSE token

getDatabase(tokens, keyword) ==
    LET qualified == /\ IsDot(tokens, 2)
                     /\ IsDot(tokens, 3) \/ IsDot(tokens, 4)
    IN  IF tokens[1][1] = "(" THEN tokens[1]
        ELSE IF keyword = "from" /\ ~qualified THEN NoName
        ELSE Unquoted(tokens[1])

\* A mistake: db..m is taken for rp.m.
getMeasurementOfPolicy(tokens, keyword) ==
    LET at == IF IsDot(tokens, 2) /\ IsDot(tokens, 4) /\ Len(tokens) >= 5 THEN 5
              ELSE IF IsDot(tokens, 2) /\ Len(tokens) >= 3 THEN 3
              ELSE 1
    IN  IF tokens[1][1] = "(" THEN tokens[1]
        ELSE Unquoted(tokens[at])

getMeasurement(tokens, keyword) ==
    LET text == FlattenSeq(tokens)
        at == IF IsDot(tokens, 2) /\ IsDot(tokens, 4) /\ Len(tokens) >= 5 THEN 5
              ELSE IF IsDot(tokens, 2) /\ IsDot(tokens, 3) /\ Len(tokens) >= 4 THEN 4
              ELSE IF IsDot(tokens, 2) /\ Len(tokens) >= 3 THEN 3
              ELSE 1
    IN  IF tokens[1][1] = "(" THEN tokens[1]
        ELSE IF tokens[1][1] = "/"
        THEN SubSeq(text, 1, FindEndWithQuote(text, 1, "/").next - 1)
        ELSE Unquoted(tokens[at])

\* The tokens behind the first of the keywords, which the code hands to the
\* function that finds the name in them; there may be none.
GetIdentifierFromTokens(tokens, keywords) ==
    LET i == FirstOf({k \in 1..(Len(tokens) - 1) : \E w \in keywords : Lower(tokens[k]) = <<w>>}, 0)
    IN  IF i = 0 THEN [found |-> FALSE]
        ELSE [found |-> TRUE, keyword |-> Lower(tokens[i])[1],
              tokens |-> SubSeq(tokens, i + 1, Len(tokens))]

\* A select in parentheses.  (The code also asks for more than 16 characters,
\* which a select with a field and a measurement always has.)
IsSubquery(name) ==
    /\ name # <<>> /\ name[1] = "(" /\ Last(name) = ")"
    /\ LET start == FirstOf({i \in 1..Len(name) : name[i] \notin {"(", Blank}}, Len(name))
       IN  Lower(<<name[start]>>) = <<"select">> /\ name[start + 1] = Blank

\* How deep subqueries may be: each has a parenthesis of its own.
Depth(tokens) ==
    LET text == FlattenSeq(tokens)
    IN  Cardinality({i \in 1..Len(text) : text[i] = "("})

\* Level by level, from the statement to its innermost subquery.
GetDatabaseFromTokens(tokens) ==
    LET named(t) == LET id == GetIdentifierFromTokens(t, {"on", "database", "from"})
                    IN  IF id.found THEN getDatabase(id.tokens, id.keyword) ELSE NoName
        level[n \in 0..Depth(tokens)] ==
            IF n = 0 THEN tokens
            ELSE LET db == named(level[n - 1])
                 IN  IF IsSubquery(db) THEN ScanTokens(SubSeq(db, 2, Len(db))).tokens
                     ELSE level[n - 1]
    IN  named(level[Depth(tokens)])

GetMeasurementFromTokens(tokens) ==
    LET id(t) == GetIdentifierFromTokens(t, {"from", "measurement"})
        named(t) == IF id(t).found THEN getMeasurement(id(t).tokens, id(t).keyword) ELSE NoName
        level[n \in 0..Depth(tokens)] ==
            IF n = 0 THEN tokens
            ELSE LET mm == named(level[n - 1])
                 IN  IF IsSubquery(mm) /\ mm \in Range(level[n - 1])
                     THEN ScanTokens(SubSeq(mm, 2, Len(mm) - 1)).tokens
                     ELSE level[n - 1]
        inner == level[Depth(tokens)]
    IN  [found |-> id(inner).found, name |-> named(inner)]

-----------------------------------------------------------------------------
(* Which statements are supported, and where they go. *)

\* The first n tokens in lower case; all of them when there are not so many.
GetHeadStmt(tokens, n) ==
    [i \in 1..(IF n <= 0 \/ n > Len(tokens) THEN Len(tokens) ELSE n) |-> Lower(tokens[i])]

Stmt(words) == [i \in 1..Len(words) |-> <<words[i]>>]

SupportCmds ==
    {Stmt(words) : words \in
        {<<"show", "measurements">>, <<"show", "series">>, <<"show", "field", "keys">>,
         <<"show", "tag", "keys">>, <<"show", "tag", "values">>, <<"show", "stats">>,
         <<"show", "databases">>, <<"create", "database">>, <<"drop", "database">>,
         <<"show", "retention", "policies">>, <<"create", "retention", "policy">>,
         <<"alter", "retention", "policy">>, <<"drop", "retention", "policy">>,
         <<"delete", "from">>, <<"drop", "series", "from">>, <<"drop", "measurement">>}}

\* Whether the statement is supported, and whether it is about a measurement.
CheckQuery(tokens) ==
    LET word(i) == Lower(tokens[i])
        supported(n) == GetHeadStmt(tokens, n) \in SupportCmds
        from == FirstOf({i \in 3..Len(tokens) : word(i) = <<"from">>}, 0)
        into == FirstOf({i \in 3..Len(tokens) : word(i) = <<"into">>}, 0)
    IN  IF word(1) = <<"select">>
        THEN LET check == from # 0 /\ (into = 0 \/ from < into)
             IN  [check |-> check, from |-> check]
        ELSE IF word(1) = <<"show">> /\ from # 0
        THEN [check |-> supported(from - 1) \/ supported(from - 3), from |-> TRUE]
        ELSE IF supported(2)
        THEN [check |-> TRUE,
              from |-> GetHeadStmt(tokens, 2) \in
                  {Stmt(<<"delete", "from">>), Stmt(<<"drop", "measurement">>)}]
        ELSE [check |-> supported(3),
              from |-> GetHeadStmt(tokens, 3) = Stmt(<<"drop", "series", "from">>)]

\* Whether databases are shown or changed, and which one is changed.
CheckDatabaseFromTokens(tokens) ==
    LET head == GetHeadStmt(tokens, 2)
        alter == head \in {Stmt(<<"create", "database">>), Stmt(<<"drop", "database">>)}
    IN  [show |-> head = Stmt(<<"show", "databases">>),
         alter |-> alter,
         db |-> IF alter /\ Len(tokens) >= 3
                THEN getDatabase(SubSeq(tokens, 3, Len(tokens)), "database") ELSE NoName]

CheckRetentionPolicyFromTokens(tokens) ==
    \E verb \in {"create", "alter", "drop"} :
        GetHeadStmt(tokens, 3) = Stmt(<<verb, "retention", "policy">>)

CheckDeleteOrDropMeasurementFromTokens(tokens) ==
    /\ Len(tokens) >= 3
    /\ GetHeadStmt(tokens, 2) \in {Stmt(<<"delete", "from">>), Stmt(<<"drop", "measurement">>),
                                   Stmt(<<"drop", "series">>)}

IsForbiddenDB(db) == DBList # {} /\ db \notin DBList

GetKey(db, meas) == IF HashKeyMeasureOnly THEN meas ELSE db \o <<Comma>> \o meas

\* How the answers of all backends to a show become one.
Reduction(tokens) ==
    LET head(n) == GetHeadStmt(tokens, n)
    IN  IF head(2) \in {Stmt(<<"show", "measurements">>), Stmt(<<"show", "series">>),
                        Stmt(<<"show", "databases">>)} THEN "reduceByValues"
        ELSE IF head(3) \in {Stmt(<<"show", "field", "keys">>), Stmt(<<"show", "tag", "keys">>),
                             Stmt(<<"show", "tag", "values">>)} THEN "reduceBySeries"
        ELSE IF head(3) = Stmt(<<"show", "retention", "policies">>) THEN "attachByValues"
        ELSE IF head(2) = Stmt(<<"show", "stats">>) THEN "concatByResults"
        ELSE "nothing"

\* The database of a statement: the changed one, the one it names, or the form's.
DatabaseOf(tokens, formDB) ==
    LET database == CheckDatabaseFromTokens(tokens)
        named == GetDatabaseFromTokens(tokens)
    IN  IF database.show \/ database.alter THEN database.db
        ELSE IF named = NoName THEN formDB ELSE named

\* To the backends of the key, if the measurement was found.
OnKey(op, db, meas) ==
    IF meas.found THEN [op |-> op, key |-> GetKey(db, meas.name)] ELSE [op |-> "refused"]

\* Where the tokens of a statement send it.  "one": the backends of a key one after the
\* other until one answers; "each": all backends of a key; "show" and "all": all backends.
Destination(tokens, db) ==
    LET query == CheckQuery(tokens)
        database == CheckDatabaseFromTokens(tokens)
        reads == Lower(tokens[1]) \in {<<"select">>, <<"show">>}
    IN  IF ~query.check THEN [op |-> "refused"]
        ELSE IF ~database.show /\ (db = NoName \/ IsForbiddenDB(db)) THEN [op |-> "refused"]
        ELSE IF reads /\ query.from THEN OnKey("one", db, GetMeasurementFromTokens(tokens))
        ELSE IF reads THEN [op |-> "show", by |-> Reduction(tokens)]
        ELSE IF CheckDeleteOrDropMeasurementFromTokens(tokens)
        THEN OnKey("each", db, GetMeasurementFromTokens(tokens))
        ELSE IF database.alter \/ CheckRetentionPolicyFromTokens(tokens) THEN [op |-> "all", db |-> db]
        ELSE [op |-> "refused"]

\* Proxy.Query.
Query(q, formDB) ==
    LET scan == ScanTokens(q)
    IN  IF Trimmed(q, Space) = <<>> THEN [op |-> "refused"]
        ELSE IF scan.st = "panic" \/ scan.tokens = <<>> THEN [op |-> "panic"]
        ELSE Destination(scan.tokens, DatabaseOf(scan.tokens, formDB))

-----------------------------------------------------------------------------
(* What is promised of a query for a measurement, as clients write it. *)

\* An identifier in quotes.
Quoted(name) ==
    <<Quote>> \o FlattenSeq([i \in 1..Len(name) |->
        IF name[i] \in {Quote, "\\"} THEN <<"\\", name[i]>> ELSE <<name[i]>>]) \o <<Quote>>

Select(field, name) == <<"select", Blank, field, Blank, "from", Blank>> \o Quoted(name)

\* One symbol that is no keyword.
IsField(field) ==
    /\ field \notin {Blank, Quote, "'", "(", "[", "{", Comma, "."}
    /\ Lower(<<field>>) \notin {<<w>> : w \in {"from", "into", "on", "database", "measurement"}}

\* The query is answered by the backends of the measurement's key.
IsReadThere(field, name, db) ==
    Query(Select(field, name), db) = [op |-> "one", key |-> GetKey(db, name)]

=============================================================================
