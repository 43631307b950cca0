------------------------------ MODULE LineProto ------------------------------
(***************************************************************************)
(* What a write request's body goes through before its points reach the     *)
(* buffers: it is cut into lines (Proxy.Write), a line gets a timestamp in   *)
(* nanoseconds, its measurement is read for routing, and it is roughly      *)
(* checked (Proxy.WriteRow, backend/lineproto.go).                          *)
(*                                                                          *)
(* Text is a sequence of characters, counted from 1.  Base, Width, Zeros    *)
(* and Multiplier stand for ten, 64 and the factors of the precisions, so   *)
(* that a small instance comes to the limits of an int64.                   *)
(***************************************************************************)
EXTENDS Text, Ranks

CONSTANTS
    Base,        \* of the numbers
    Width,       \* bits of an integer
    Zeros,       \* Zeros[p]: how many zeros make nanoseconds of precision p
    Multiplier,  \* Multiplier[p]: the nanoseconds of p, for the other precisions
    Now          \* the clock, in digits

ASSUME NumbersSound ==
    /\ Base \in 2..10 /\ Width \in Nat \ {0}
    /\ \A p \in DOMAIN Zeros : Zeros[p] \in Nat
    /\ \A p \in DOMAIN Multiplier : Multiplier[p] \in Nat \ {0}

\* What powers are; provers do not know them.
ASSUME PowersSound ==
    /\ 2^(Width - 1) \in Nat \ {0} /\ 2^Width = 2 * 2^(Width - 1)
    /\ Base^0 = 1
    /\ \A p \in DOMAIN Zeros : \A n \in 1..Zeros[p] : Base^n = Base * Base^(n - 1)

Digits == SubSeq(<<"0", "1", "2", "3", "4", "5", "6", "7", "8", "9">>, 1, Base)
IsDigit(c) == \E d \in 1..Base : Digits[d] = c
Value(c) == (CHOOSE d \in 1..Base : Digits[d] = c) - 1

ASSUME ClockSound == Now # <<>> /\ Now \in Seq({Digits[d] : d \in 1..Base})

\* Which characters stand behind a backslash that is not escaped itself.
Escaped(buf) == LET e[i \in 1..Len(buf)] == i > 1 /\ buf[i - 1] = "\\" /\ ~e[i - 1] IN e

Blanks(buf) == {i \in 1..Len(buf) : buf[i] = Blank}

-----------------------------------------------------------------------------
(* A body is cut into lines. *)

\* What a scan knows at a character: whether it is escaped, whether it is inside a
\* string, whether a blank has come before, and how many more = than commas since then.
Fresh == [escaped |-> FALSE, quoted |-> FALSE, fields |-> FALSE, open |-> 0]

\* A mistake: an escaped character is read like any other.
PassUnescaped(s, c, room) ==
    LET fields == s.fields \/ c = Blank
        counts == fields /\ ~s.quoted
    IN  [escaped |-> FALSE, fields |-> fields,
         quoted |-> IF fields /\ c = Quote /\ s.open > 0 THEN ~s.quoted ELSE s.quoted,
         open |-> IF counts /\ c = "=" THEN s.open + 1
                  ELSE IF counts /\ c = Comma THEN s.open - 1 ELSE s.open]

\* What it knows at the next character.  A backslash needs room for two more.
Pass(s, c, room) ==
    LET fields == s.fields \/ c = Blank
        counts == fields /\ ~s.quoted
    IN  IF s.escaped THEN [s EXCEPT !.escaped = FALSE]
        ELSE IF c = "\\" /\ room THEN [s EXCEPT !.escaped = TRUE]
        ELSE [escaped |-> FALSE, fields |-> fields,
              quoted |-> IF fields /\ c = Quote /\ s.open > 0 THEN ~s.quoted ELSE s.quoted,
              open |-> IF counts /\ c = "=" THEN s.open + 1
                       ELSE IF counts /\ c = Comma THEN s.open - 1 ELSE s.open]

\* Where the line that begins at start ends: at the first line feed that is neither
\* escaped nor in a string.
ScanLine(buf, start) ==
    LET at[i \in start..Len(buf)] ==
            IF i = start THEN Fresh ELSE Pass(at[i - 1], buf[i - 1], i < Len(buf))
    IN  FirstOf({i \in start..Len(buf) : buf[i] = "\n" /\ ~at[i].escaped /\ ~at[i].quoted},
                Len(buf) + 1)

SkipWhitespace(buf, start) ==
    FirstOf({i \in start..Len(buf) : buf[i] \notin {Blank, "\t", "NUL"}}, Len(buf) + 1)

\* The lines of a body; blank ones and comments are left out.
Lines(body) ==
    LET from[pos \in Nat] ==
            IF pos > Len(body) THEN <<>>
            ELSE LET end == ScanLine(body, pos)
                     block == SubSeq(body, pos, end - 1)
                     start == SkipWhitespace(block, 1)
                     \* a string that never ends may end the block in a line feed
                     stop == IF block # <<>> /\ Last(block) = "\n" THEN Len(block) - 1
                             ELSE Len(block)
                     line == SubSeq(block, start, stop)
                 IN  (IF line = <<>> \/ line[1] = "#" THEN <<>> ELSE <<line>>) \o from[end + 1]
    IN  from[1]

-----------------------------------------------------------------------------
(* The timestamp. *)

\* An integer of the given width: what goes beyond wraps around.
Wrap(n) == ((n + 2^(Width - 1)) % 2^Width) - 2^(Width - 1)

BytesToInt64(buf) ==
    LET res[k \in 0..Len(buf)] ==
            IF k = 0 THEN 0 ELSE Wrap(res[k - 1] * Base + Value(buf[k]))
    IN  res[Len(buf)]

Int64ToBytes(n) ==
    LET f[k \in Nat] == (IF k < Base THEN <<>> ELSE f[k \div Base]) \o <<Digits[(k % Base) + 1]>>
    IN  IF n < 0 THEN <<"-">> \o f[-n] ELSE f[n]

\* Where the digits at the end begin, and whether they are a timestamp; "NUL" is the
\* zero byte.
ScanTime(buf) ==
    LET i == LastOf({k \in 1..Len(buf) : ~IsDigit(buf[k])}, 0)
    IN  [pos |-> i, found |-> i > 1 /\ i < Len(buf) /\ buf[i] \in {Blank, "NUL"}]

\* A mistake: a precision without zeros of its own is taken for nanoseconds.
AppendNanoPlain(text, precision) ==
    LET line == Trimmed(text, Space)
    IN  IF ~ScanTime(line).found THEN line \o <<Blank>> \o Now
        ELSE IF precision \in DOMAIN Zeros
        THEN line \o [k \in 1..Zeros[precision] |-> "0"]
        ELSE line

\* A mistake: a line without a timestamp is left alone.
AppendNanoBare(text, precision) ==
    LET line == Trimmed(text, Space)
        time == ScanTime(line)
        nano == Wrap(BytesToInt64(SubSeq(line, time.pos + 1, Len(line))) * Multiplier[precision])
    IN  IF ~time.found THEN line
        ELSE IF precision \in DOMAIN Zeros
        THEN line \o [k \in 1..Zeros[precision] |-> "0"]
        ELSE SubSeq(line, 1, time.pos) \o Int64ToBytes(nano)

\* The line without the blanks around it and with a timestamp in nanoseconds; it
\* gets the clock's where it has none.
AppendNano(text, precision) ==
    LET line == Trimmed(text, Space)
        time == ScanTime(line)
        nano == Wrap(BytesToInt64(SubSeq(line, time.pos + 1, Len(line))) * Multiplier[precision])
    IN  IF ~time.found THEN line \o <<Blank>> \o Now
        ELSE IF precision \in DOMAIN Zeros
        THEN line \o [k \in 1..Zeros[precision] |-> "0"]
        ELSE SubSeq(line, 1, time.pos) \o Int64ToBytes(nano)

-----------------------------------------------------------------------------
(* The measurement, and the check of the rest. *)

\* A mistake: the backslashes stay in the measurement.
ScanKeyRaw(buf) ==
    LET end == FirstOf({i \in 1..Len(buf) : buf[i] \in {Blank, Comma} /\ ~Escaped(buf)[i]}, 0)
    IN  IF end = 0 THEN [st |-> "eof", key |-> <<>>]
        ELSE [st |-> "ok", key |-> SubSeq(buf, 1, end - 1)]

\* The key up to the first blank or comma that is not escaped, without the
\* backslashes that escape.  One at the very end looks beyond the buffer.
ScanKey(buf) ==
    LET esc == Escaped(buf)
        end == FirstOf({i \in 1..Len(buf) : buf[i] \in {Blank, Comma} /\ ~esc[i]}, Len(buf) + 1)
        kept == {i \in 1..(end - 1) : buf[i] # "\\" \/ esc[i]}
    IN  IF end <= Len(buf)
        THEN [st |-> "ok", key |-> [k \in 1..Cardinality(kept) |-> buf[Nth(kept, k)]]]
        ELSE IF buf # <<>> /\ Len(buf) \notin kept THEN [st |-> "panic", key |-> <<>>]
        ELSE [st |-> "eof", key |-> <<>>]

\* From the end of the first blanks to the start of the last ones there must be
\* room for a field.  The loop never leaves blanks at the end of the buffer.
RapidCheck(buf) ==
    LET esc == Escaped(buf)
        run(i) == LastOf({j \in i..Len(buf) : \A k \in i..j : buf[k] = Blank}, i)
        first == FirstOf({i \in Blanks(buf) : ~esc[i]}, 0)
        i == IF first = 0 THEN Len(buf) + 1 ELSE run(first)
        last == LastOf(Blanks(buf), 0)
        j == FirstOf({k \in 1..last : \A l \in k..last : buf[l] = Blank}, 0)
    IN  IF first # 0 /\ i = Len(buf) THEN "hangs"
        ELSE IF j - i > 3 THEN "ok" ELSE "illegal"

\* What becomes of a line: it is written under its measurement, it is dropped,
\* or the handler does not come back from it.
WriteRow(line, precision) ==
    LET nano == AppendNano(line, precision)
        key == ScanKey(nano)
        check == RapidCheck(SubSeq(nano, Len(key.key) + 1, Len(nano)))
    IN  IF key.st # "ok" THEN [st |-> IF key.st = "eof" THEN "dropped" ELSE key.st]
        ELSE IF check # "ok" THEN [st |-> IF check = "illegal" THEN "dropped" ELSE check]
        ELSE [st |-> "written", meas |-> key.key, line |-> nano]

\* EscapeMeasurement, as clients and the transfer write a measurement's name.
EscapeMeasurement(name) ==
    FlattenSeq([i \in 1..Len(name) |->
        IF name[i] \in {Comma, Blank} THEN <<"\\", name[i]>> ELSE <<name[i]>>])

-----------------------------------------------------------------------------
(* What is promised of a body, of a line, and of a point as clients write it. *)

\* A block ends where it ends, whether nothing, a line feed or more comes behind it.
IsBlock(block) ==
    \A rest \in {<<>>, <<"\n">>, <<"\n", "\n">>} : ScanLine(block \o rest, 1) = Len(block) + 1

\* The lines a block is to become: itself without the blanks in front, or none when it
\* is blank or a comment.
LineOf(block) ==
    LET shown == {i \in 1..Len(block) : block[i] \notin {Blank, "\t", "NUL"}}
        from == FirstOf(shown, 0)
    IN  IF shown = {} \/ block[from] = "#" THEN <<>> ELSE <<SubSeq(block, from, Len(block))>>

\* Blocks with line feeds between them, and one at the end or not.
BodyText(blocks, ended) ==
    FlattenSeq([i \in 1..Len(blocks) |->
        blocks[i] \o (IF i < Len(blocks) \/ ended THEN <<"\n">> ELSE <<>>)])

\* A body falls into the lines of its blocks.
BodyIsCut(blocks, ended) ==
    Lines(BodyText(blocks, ended)) = FlattenSeq([i \in 1..Len(blocks) |-> LineOf(blocks[i])])

\* The handler comes back from the line.
LineEnds(line, precision) == WriteRow(line, precision).st \in {"written", "dropped"}

\* The number that digits make, however large, and the nanoseconds of a precision.
Number(digits) ==
    LET num[k \in 0..Len(digits)] ==
            IF k = 0 THEN 0 ELSE num[k - 1] * Base + Value(digits[k])
    IN  num[Len(digits)]

Factor(precision) ==
    IF precision \in DOMAIN Zeros THEN Base^Zeros[precision] ELSE Multiplier[precision]

\* A point without its time.
PointText(name, tags, gap, fields) == EscapeMeasurement(name) \o tags \o gap \o fields

\* A name without backslashes, any tags, blanks, and fields that do not end in what
\* could be taken for a time.
IsPoint(name, tags, gap, fields) ==
    /\ name # <<>> /\ name[1] \notin Space \ {Blank} /\ \A i \in 1..Len(name) : name[i] # "\\"
    /\ tags # <<>> => tags[1] = Comma /\ tags[Len(tags)] # "\\"
    /\ gap # <<>> /\ \A i \in 1..Len(gap) : gap[i] = Blank
    /\ Len(fields) >= 3 /\ fields[1] # Blank /\ fields[Len(fields)] \notin Space
    /\ \E i \in 1..Len(fields) :
          /\ ~IsDigit(fields[i]) /\ fields[i] \notin {Blank, "NUL"}
          /\ \A j \in (i + 1)..Len(fields) : IsDigit(fields[j])

\* The point is written as it came and under its name, and its time in nanoseconds, as
\* long as it fits; without a time it gets the clock's.
PointIsKept(name, tags, gap, fields, time, precision) ==
    LET point == PointText(name, tags, gap, fields)
        row == WriteRow(IF time = <<>> THEN point ELSE point \o <<Blank>> \o time, precision)
        nano == Number(time) * Factor(precision)
        text == SubSeq(row.line, Len(point) + 2, Len(row.line))
    IN  /\ row.st = "written"
        /\ row.meas = name
        /\ SubSeq(row.line, 1, Len(point) + 1) = Append(point, Blank)
        /\ IF time = <<>> THEN text = Now
           ELSE nano < 2^(Width - 1) =>
                    (\A i \in 1..Len(text) : IsDigit(text[i])) /\ Number(text) = nano

=============================================================================
