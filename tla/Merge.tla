--------------------------------- MODULE Merge ---------------------------------
(***************************************************************************)
(* How the answers of all backends to a show become one answer: the          *)
(* reductions of backend/executor.go.  A body is what a backend answered: a  *)
(* sequence of results, each a sequence of series, each with a name and a    *)
(* sequence of values, each a row with its key first.  Bodies come in the    *)
(* order in which the backends answered.  Where the code walks over a Go     *)
(* map, the result is a set.                                                *)
(***************************************************************************)
EXTENDS Text

\* SeriesFromResponseBytes: the series of a body's first result.
SeriesOf(body) == IF body = <<>> THEN <<>> ELSE body[1]

\* The values of the bodies that have exactly one series.
Values(bodies) ==
    FlattenSeq([i \in 1..Len(bodies) |->
        IF Len(SeriesOf(bodies[i])) = 1 THEN <<SeriesOf(bodies[i])[1].values>> ELSE <<>>])

\* A mistake: the answer is the last body's.
reduceByValuesLast(bodies) ==
    IF Values(bodies) = <<>> THEN {} ELSE Range(Last(Values(bodies)))

\* One row for every key, from the body that came last.
reduceByValues(bodies) ==
    LET rows == FlattenSeq(Values(bodies))
        last(k) == LastOf({i \in DOMAIN rows : rows[i][1] = k}, 0)
    IN  {rows[last(r[1])] : r \in Range(rows)}

\* One series for every name, from the body that came last.
reduceBySeries(bodies) ==
    LET all == FlattenSeq([i \in 1..Len(bodies) |-> SeriesOf(bodies[i])])
        last(n) == LastOf({i \in DOMAIN all : all[i].name = n}, 0)
    IN  {all[last(s.name)] : s \in Range(all)}

\* The rows of the first body, then the others' rows with keys not yet there.
attachByValues(bodies) ==
    IF Values(bodies) = <<>> THEN <<>>
    ELSE LET others == FlattenSeq(Tail(Values(bodies)))
             rows[n \in 0..Len(others)] ==
                 IF n = 0 THEN Head(Values(bodies))
                 ELSE IF \E row \in Range(rows[n - 1]) : row[1] = others[n][1] THEN rows[n - 1]
                 ELSE Append(rows[n - 1], others[n])
         IN  rows[Len(others)]

\* ResultsFromResponseBytes: all results of the bodies that have exactly one.
concatByResults(bodies) ==
    FlattenSeq([i \in 1..Len(bodies) |-> IF Len(bodies[i]) = 1 THEN bodies[i] ELSE <<>>])

\* QueryShowQL: the answer of the reduction that goes with the statement.
Reduced(by, bodies) ==
    CASE by = "reduceByValues" -> reduceByValues(bodies)
      [] by = "reduceBySeries" -> reduceBySeries(bodies)
      [] by = "attachByValues" -> attachByValues(bodies)
      [] by = "concatByResults" -> concatByResults(bodies)
      [] OTHER -> <<>>

-----------------------------------------------------------------------------
(* What the reductions promise, whatever the answers are. *)

\* All the series the backends answered, and the rows of those that answered one.
AnswerSeries(bodies) == UNION {Range(SeriesOf(b)) : b \in Range(bodies)}
AnswerRows(bodies) ==
    UNION {Range(SeriesOf(b)[1].values) : b \in {x \in Range(bodies) : Len(SeriesOf(x)) = 1}}

\* Of the rows with one key that backends answered, one is in the answer, and nothing
\* else is (reduceByValues).
ValuesAreWhole(bodies) ==
    LET merged == reduceByValues(bodies)
    IN  /\ merged \subseteq AnswerRows(bodies)
        /\ \A r \in AnswerRows(bodies) : \E x \in merged : x[1] = r[1]
        /\ \A x, y \in merged : x[1] = y[1] => x = y

\* The same of series and their names (reduceBySeries).
SeriesAreWhole(bodies) ==
    LET merged == reduceBySeries(bodies)
    IN  /\ merged \subseteq AnswerSeries(bodies)
        /\ \A s \in AnswerSeries(bodies) : \E x \in merged : x.name = s.name
        /\ \A x, y \in merged : x.name = y.name => x = y

\* The first answer as it is, and behind it the other answers' rows, one for each key
\* that is not there yet (attachByValues).
PoliciesAreWhole(bodies) ==
    LET rows == attachByValues(bodies)
        first == IF Values(bodies) = <<>> THEN <<>> ELSE Head(Values(bodies))
    IN  /\ Range(rows) \subseteq AnswerRows(bodies)
        /\ \A r \in AnswerRows(bodies) : \E x \in Range(rows) : x[1] = r[1]
        /\ Len(first) <= Len(rows) /\ \A i \in 1..Len(first) : rows[i] = first[i]
        /\ \A i, j \in 1..Len(rows) : i < j /\ Len(first) < j => rows[i][1] # rows[j][1]

=============================================================================
