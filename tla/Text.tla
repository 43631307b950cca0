--------------------------------- MODULE Text ---------------------------------
(***************************************************************************)
(* What the analysers of line protocol and InfluxQL need to speak of text,  *)
(* a sequence of symbols counted from 1.                                    *)
(***************************************************************************)
EXTENDS Integers, SequencesExt

\* The characters that end or enclose names, in both.
Blank == " "
Comma == ","
Quote == "\""

\* The smallest and the largest of a set of positions, or what stands for none.
FirstOf(S, none) == IF S = {} THEN none ELSE CHOOSE i \in S : \A j \in S : i <= j
LastOf(S, none) == IF S = {} THEN none ELSE CHOOSE i \in S : \A j \in S : j <= i

\* What strings.TrimSpace and bytes.TrimSpace trim.
Space == {Blank, "\t", "\n", "\r"}

\* The text without the symbols of junk at its end, or at both its ends.
TrimmedRight(text, junk) ==
    SubSeq(text, 1, LastOf({i \in 1..Len(text) : text[i] \notin junk}, 0))
Trimmed(text, junk) ==
    LET from == FirstOf({i \in 1..Len(text) : text[i] \notin junk}, 1)
    IN  TrimmedRight(SubSeq(text, from, Len(text)), junk)

=============================================================================
