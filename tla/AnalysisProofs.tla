---------------------------- MODULE AnalysisProofs ----------------------------
(***************************************************************************)
(* Theorems about the analysis of line protocol and of InfluxQL, for any    *)
(* text, and about the reductions of the answers to shows, in whichever     *)
(* order they come; and what they say of the inputs of MCAnalysis.          *)
(***************************************************************************)
EXTENDS MCAnalysis, OperatorProofs

-----------------------------------------------------------------------------
(* What becomes of a line.                                                  *)

\* The digits, and what they are not.
Digit == {Digits[d] : d \in 1..Base}

Decimal == {"0", "1", "2", "3", "4", "5", "6", "7", "8", "9"}

Ten == <<"0", "1", "2", "3", "4", "5", "6", "7", "8", "9">>

LEMMA DigitsOfTen == Base \in 2..10 /\ \A d \in 1..Base : Digits[d] = Ten[d] /\ d \in 1..10
<1>1. Base \in 2..10
  BY NumbersSound
<1>2. Len(Ten) = 10 /\ Ten \in Seq(Decimal)
  BY DEF Decimal, Ten
<1>3. PICK s : s = Ten
  OBVIOUS
<1>4. PICK m, n \in Nat : m = 1 /\ n = Base
  BY <1>1
<1>5. PICK t : t = SubSeq(s, m, n)
  OBVIOUS
<1>6. \A d \in 1..n : t[d] = s[d]
  <2>1. s \in Seq(Decimal) /\ Len(s) = 10
    BY <1>2, <1>3
  <2>2. m \in Nat \ {0} /\ n <= Len(s) /\ m <= n
    BY <1>1, <1>4, <2>1
  <2>3. /\ Len(t) = IF m <= n THEN n - m + 1 ELSE 0
        /\ \A i \in 1..Len(t) : t[i] = s[m + i - 1]
    BY <1>5, <2>1, <2>2, PartType
  <2> QED
    BY <1>4, <2>2, <2>3
<1>7. Digits = t
  BY <1>3, <1>4, <1>5 DEF Digits, Ten
<1> QED
  BY <1>1, <1>3, <1>4, <1>6, <1>7

LEMMA DigitsAreDecimal == "0" \in Digit /\ "1" \in Digit /\ Digit \subseteq Decimal
<1>1. Ten[1] = "0" /\ Ten[2] = "1" /\ \A d \in 1..10 : Ten[d] \in Decimal
  BY DEF Decimal, Ten
<1> QED
  BY <1>1, DigitsOfTen DEF Digit

\* No digit is a character the scanners look for.
LEMMA DigitsAre ==
    /\ \A c : IsDigit(c) <=> c \in Digit
    /\ Blank \notin Digit /\ Comma \notin Digit /\ "\\" \notin Digit /\ "NUL" \notin Digit
    /\ \A c \in Space : c \notin Digit
    /\ "0" \in Digit
    /\ \A k \in 0..(Base - 1) : Digits[k + 1] \in Digit
<1> DEFINE others == {Blank, Comma, "\\", "NUL"} \cup Space
<1>1. \A c \in others : c \notin Decimal
  BY Zenon DEF Blank, Comma, Space, Decimal
<1> HIDE DEF others
<1>2. \A c \in others : c \notin Digit
  BY <1>1, DigitsAreDecimal
<1>3. \A k \in 0..(Base - 1) : k + 1 \in 1..Base
  BY NumbersSound
<1>4. \A c : IsDigit(c) <=> c \in Digit
  BY DEF Digit, IsDigit
<1>5. \A k \in 0..(Base - 1) : Digits[k + 1] \in Digit
  BY <1>3 DEF Digit
<1> QED
  BY <1>2, <1>4, <1>5, DigitsAreDecimal DEF others

-----------------------------------------------------------------------------
(* Numbers and their digits.  A definition by recursion is met by some      *)
(* function, which is built here from functions on the numbers up to a      *)
(* bound; there is a least bound without one, if any.                       *)

LEMMA WrapType == ASSUME NEW n \in Int PROVE Wrap(n) \in Int
<1>1. PICK a, b : a = 2^(Width - 1) /\ b = 2^Width
  OBVIOUS
<1>2. a \in Int /\ b \in Nat \ {0}
  <2>1. a \in Nat \ {0} /\ b = 2 * a
    BY <1>1, PowersSound
  <2> QED
    BY <2>1
<1>3. ((n + a) % b) - a \in Int
  BY <1>2
<1> QED
  BY <1>1, <1>3 DEF Wrap

LEMMA ValueType == ASSUME NEW c \in Digit PROVE Value(c) \in Int
<1>1. \E d \in 1..Base : Digits[d] = c
  BY DEF Digit
<1>2. PICK d \in 1..Base : d = CHOOSE e \in 1..Base : Digits[e] = c
  BY <1>1
<1> QED
  BY <1>2, NumbersSound DEF Value

\* The number that the first k digits make.
ValueUpTo(res, buf, k) == IF k = 0 THEN 0 ELSE Wrap(res[k - 1] * Base + Value(buf[k]))
ValuesUpTo(res, buf, n) == res = [k \in 0..n |-> ValueUpTo(res, buf, k)]

\* The numbers BytesToInt64 reads exist up to any length.
LEMMA ValuesExist ==
    ASSUME NEW buf, NEW n \in Nat
    PROVE  \E res : ValuesUpTo(res, buf, n)
<1> DEFINE P(m) == \E res : ValuesUpTo(res, buf, m)
           S == {m \in Nat : ~P(m)}
<1> SUFFICES ASSUME S # {} PROVE FALSE
  OBVIOUS
<1>1. PICK m \in S : \A k \in S : m <= k
  BY Least
<1>2. m # 0
  <2>1. ValuesUpTo([k \in 0..0 |-> 0], buf, 0)
    BY DEF ValuesUpTo, ValueUpTo
  <2> QED
    BY <2>1, Zenon
<1>3. m \in Nat \ {0} /\ m - 1 \in Nat /\ m - 1 \notin S
  <2> HIDE DEF P
  <2> QED
    BY <1>1, <1>2
<1>4. PICK f : ValuesUpTo(f, buf, m - 1)
  <2>1. P(m - 1)
    BY <1>3
  <2> QED
    BY <2>1
<1> DEFINE g == [k \in 0..m |-> IF k < m THEN f[k] ELSE Wrap(f[m - 1] * Base + Value(buf[m]))]
<1>5. \A k \in 0..(m - 1) : f[k] = ValueUpTo(f, buf, k)
  BY <1>4 DEF ValuesUpTo
<1>6. \A k \in 0..m : g[k] = IF k = 0 THEN 0 ELSE Wrap(g[k - 1] * Base + Value(buf[k]))
  <2> TAKE k \in 0..m
  <2>1. CASE k < m
    <3>1. k \in 0..(m - 1)
      BY <1>3, <2>1
    <3>2. f[k] = IF k = 0 THEN 0 ELSE Wrap(f[k - 1] * Base + Value(buf[k]))
      BY <1>5, <3>1 DEF ValueUpTo
    <3> QED
      BY <1>3, <2>1, <3>2
  <2>2. CASE k = m
    BY <1>3, <2>2
  <2> QED
    BY <1>3, <2>1, <2>2
<1>7. ValuesUpTo(g, buf, m)
  BY <1>6 DEF ValuesUpTo, ValueUpTo
<1> QED
  BY <1>1, <1>7

\* What digits make is a number.
LEMMA NumberType == ASSUME NEW buf \in Seq(Digit) PROVE BytesToInt64(buf) \in Int
<1>1. \E res : ValuesUpTo(res, buf, Len(buf))
  BY ValuesExist
<1>2. PICK res : ValuesUpTo(res, buf, Len(buf)) /\ BytesToInt64(buf) = res[Len(buf)]
  BY <1>1 DEF BytesToInt64, ValuesUpTo, ValueUpTo
<1> DEFINE S == {k \in 0..Len(buf) : res[k] \notin Int}
<1> SUFFICES ASSUME S # {} PROVE FALSE
  BY <1>2
<1>3. PICK k \in S : \A j \in S : k <= j
  <2>1. S \in SUBSET Nat
    OBVIOUS
  <2> QED
    BY <2>1, Least
<1>4. res[k] = IF k = 0 THEN 0 ELSE Wrap(res[k - 1] * Base + Value(buf[k]))
  BY <1>2 DEF ValuesUpTo, ValueUpTo
<1>5. k \in 1..Len(buf) /\ k - 1 \in 0..Len(buf) /\ k - 1 \notin S
  BY <1>3, <1>4
<1>6. PICK a \in Int : a = res[k - 1]
  BY <1>5
<1>7. buf[k] \in Digit
  BY <1>5
<1>8. PICK v \in Int : v = Value(buf[k])
  BY <1>7, ValueType
<1>9. Wrap(a * Base + v) \in Int
  BY WrapType, NumbersSound
<1> QED
  BY <1>4, <1>5, <1>6, <1>8, <1>9

\* The digits of k, when those of smaller numbers are known.
Numeral(f, k) == (IF k < Base THEN <<>> ELSE f[k \div Base]) \o <<Digits[(k % Base) + 1]>>
Numerals(f, D) == f = [k \in D |-> Numeral(f, k)]

\* A number of at least two digits has a smaller one in front of its last.
LEMMA Quotient ==
    ASSUME NEW k \in Nat
    PROVE  /\ k % Base \in 0..(Base - 1) /\ k \div Base \in Nat
           /\ k >= Base => k \div Base < k /\ k # 0
<1>1. Base \in 2..10
  BY NumbersSound
<1> QED
  BY <1>1

\* Two tables of numerals agree where both are defined.
LEMMA NumeralsAgree ==
    ASSUME NEW f, NEW g, NEW m \in Nat, NEW n \in Nat,
           Numerals(f, 0..m), Numerals(g, 0..n), NEW i \in 0..m, i <= n
    PROVE  f[i] = g[i]
<1> DEFINE S == {k \in Nat : k <= m /\ k <= n /\ f[k] # g[k]}
<1> SUFFICES ASSUME S # {} PROVE FALSE
  OBVIOUS
<1>1. PICK k \in S : \A j \in S : k <= j
  <2>1. S \in SUBSET Nat
    OBVIOUS
  <2> QED
    BY <2>1, Least
<1>2. k \in 0..m /\ k \in 0..n
  BY <1>1
<1>3. f[k] = Numeral(f, k) /\ g[k] = Numeral(g, k)
  BY <1>2 DEF Numerals
<1>4. CASE k < Base
  BY <1>1, <1>3, <1>4 DEF Numeral
<1>5. CASE k >= Base
  <2>1. PICK j \in Nat : j = k \div Base
    BY Quotient
  <2>2. j < k
    BY <1>5, <2>1, Quotient
  <2>3. f[j] = g[j]
    BY <1>1, <2>2
  <2> QED
    BY <1>1, <1>3, <2>1, <2>3 DEF Numeral
<1> QED
  BY <1>4, <1>5, NumbersSound

\* There is a table of numerals up to any number.
LEMMA NumeralsExist ==
    ASSUME NEW n \in Nat
    PROVE  \E f : Numerals(f, 0..n)
<1> DEFINE P(m) == \E f : Numerals(f, 0..m)
           S == {m \in Nat : ~P(m)}
<1> SUFFICES ASSUME S # {} PROVE FALSE
  OBVIOUS
<1>1. PICK m \in S : \A k \in S : m <= k
  BY Least
<1>2. \A f : \E g : /\ DOMAIN g = 0..m
                    /\ g = [k \in 0..m |-> IF k < m THEN f[k] ELSE Numeral(f, m)]
  OBVIOUS
<1>3. ASSUME NEW f, m > 0 => Numerals(f, 0..(m - 1)) PROVE \E g : Numerals(g, 0..m)
  <2>1. PICK g : g = [k \in 0..m |-> IF k < m THEN f[k] ELSE Numeral(f, m)]
    OBVIOUS
  <2>2. ASSUME NEW k \in 0..m PROVE g[k] = Numeral(g, k)
    <3>1. PICK j \in Nat : j = k \div Base
      BY Quotient
    <3>2. k >= Base => j < k
      BY <3>1, Quotient
    <3>3. k >= Base => g[j] = f[j]
      BY <2>1, <3>2
    <3>4. g[k] = Numeral(f, k)
      <4>1. CASE k < m
        <5>1. k \in 0..(m - 1) /\ m > 0
          BY <4>1
        <5>2. f[k] = Numeral(f, k)
          BY <1>3, <5>1 DEF Numerals
        <5> QED
          BY <2>1, <4>1, <5>2
      <4>2. CASE k = m
        BY <2>1, <4>2
      <4> QED
        BY <4>1, <4>2
    <3>5. k < Base \/ k >= Base
      BY NumbersSound
    <3> QED
      BY <3>1, <3>3, <3>4, <3>5 DEF Numeral
  <2> QED
    BY <2>1, <2>2 DEF Numerals
<1>4. CASE m = 0
  BY <1>1, <1>3, <1>4
<1>5. CASE m # 0
  <2>1. m - 1 \in Nat /\ m - 1 \notin S
    <3> HIDE DEF P
    <3> QED
      BY <1>1, <1>5
  <2>2. P(m - 1)
    BY <2>1
  <2>3. PICK f : Numerals(f, 0..(m - 1))
    BY <2>2
  <2> QED
    BY <1>1, <1>3, <2>3
<1> QED
  BY <1>4, <1>5

LEMMA AllNumerals == \E f : Numerals(f, Nat)
<1> DEFINE part(k) == CHOOSE g : Numerals(g, 0..k)
           f == [k \in Nat |-> part(k)[k]]
<1>1. ASSUME NEW k \in Nat PROVE f[k] = Numeral(f, k)
  <2>1. ASSUME NEW n \in Nat PROVE Numerals(part(n), 0..n)
    BY NumeralsExist
  <2>2. PICK g : g = part(k)
    OBVIOUS
  <2>3. Numerals(g, 0..k) /\ k \in 0..k
    BY <2>1, <2>2
  <2>4. f[k] = Numeral(g, k)
    BY <2>2, <2>3 DEF Numerals
  <2>5. PICK j \in Nat : j = k \div Base
    BY Quotient
  <2>6. PICK h : h = part(j)
    OBVIOUS
  <2>7. CASE k >= Base
    <3>1. j < k
      BY <2>5, <2>7, Quotient
    <3>2. Numerals(h, 0..j) /\ j \in 0..j /\ j <= k
      BY <2>1, <2>6, <3>1
    <3>3. h[j] = g[j]
      BY <2>3, <3>2, NumeralsAgree
    <3>4. f[j] = g[j]
      BY <2>6, <3>3
    <3> QED
      BY <2>4, <2>5, <3>4 DEF Numeral
  <2>8. CASE k < Base
    BY <2>4, <2>8 DEF Numeral
  <2> QED
    BY <2>7, <2>8, NumbersSound
<1> HIDE DEF part
<1>2. f = [k \in Nat |-> Numeral(f, k)]
  BY <1>1
<1>3. Numerals(f, Nat)
  BY <1>2 DEF Numerals
<1> QED
  BY <1>3, Zenon

\* A text that ends in a digit.
EndsInDigit(buf) == buf # <<>> /\ Len(buf) \in Nat /\ (\E X : buf \in Seq(X)) /\ buf[Len(buf)] \in Digit

\* What is put in front of it does not matter.
LEMMA BehindAnything ==
    ASSUME NEW X, NEW s \in Seq(X), NEW t, EndsInDigit(t)
    PROVE  EndsInDigit(s \o t)
<1>1. PICK Y : t \in Seq(Y)
  BY DEF EndsInDigit
<1>2. PICK Z : Z = X \cup Y
  OBVIOUS
<1>3. s \in Seq(Z) /\ t \in Seq(Z)
  BY <1>1, <1>2
<1>4. PICK m, n \in Nat : m = Len(s) /\ n = Len(t) /\ n > 0
  BY <1>3 DEF EndsInDigit
<1>5. /\ s \o t \in Seq(Z)
      /\ Len(s \o t) = m + n
      /\ (s \o t)[m + n] = t[n]
  <2>1. m + n \in 1..(m + n) /\ ~(m + n <= m) /\ (m + n) - m = n
    BY <1>3, <1>4
  <2> QED
    BY <1>3, <1>4, <2>1, ConcatProperties
<1> QED
  BY <1>4, <1>5 DEF EndsInDigit

LEMMA OneCharacter == ASSUME NEW X, NEW c \in X PROVE <<c>> \in Seq(X)
  OBVIOUS

LEMMA OneDigit == ASSUME NEW c \in Digit PROVE EndsInDigit(<<c>>)
<1>1. <<c>> \in Seq({c}) /\ Len(<<c>>) = 1 /\ <<c>>[1] = c /\ <<c>> # <<>>
  OBVIOUS
<1> QED
  BY <1>1 DEF EndsInDigit

\* A number's text ends in a digit.
LEMMA NumeralEnds ==
    ASSUME NEW f, Numerals(f, Nat), NEW k \in Nat
    PROVE  EndsInDigit(f[k])
<1> DEFINE S == {m \in Nat : ~EndsInDigit(f[m])}
<1> SUFFICES ASSUME S # {} PROVE FALSE
  OBVIOUS
<1>1. PICK m \in S : \A j \in S : m <= j
  BY Least
<1>2. f[m] = Numeral(f, m)
  BY DEF Numerals
<1>3. Digits[(m % Base) + 1] \in Digit
  BY Quotient, DigitsAre
<1>4. EndsInDigit(<<Digits[(m % Base) + 1]>>)
  BY <1>3, OneDigit
<1>5. PICK j \in Nat : j = m \div Base
  BY Quotient
<1>6. CASE m >= Base
  <2>1. EndsInDigit(f[j])
    BY <1>1, <1>5, <1>6, Quotient
  <2>2. PICK X : f[j] \in Seq(X)
    BY <2>1 DEF EndsInDigit
  <2>3. EndsInDigit(f[j] \o <<Digits[(m % Base) + 1]>>)
    BY <1>4, <2>2, BehindAnything
  <2>4. ~(m < Base)
    BY <1>6, NumbersSound
  <2>5. f[m] = f[j] \o <<Digits[(m % Base) + 1]>>
    BY <1>2, <1>5, <2>4 DEF Numeral
  <2> QED
    BY <1>1, <2>3, <2>5
<1>7. CASE m < Base
  <2>1. <<>> \in Seq(Nat)
    OBVIOUS
  <2>2. EndsInDigit(<<>> \o <<Digits[(m % Base) + 1]>>)
    BY <1>4, <2>1, BehindAnything
  <2> QED
    BY <1>1, <1>2, <1>7, <2>2 DEF Numeral
<1> QED
  BY <1>6, <1>7, NumbersSound

\* Int64ToBytes ends in a digit.
LEMMA NumberEnds == ASSUME NEW n \in Int PROVE EndsInDigit(Int64ToBytes(n))
<1> DEFINE F == CHOOSE f : Numerals(f, Nat)
<1>1. Int64ToBytes(n) = IF n < 0 THEN <<"-">> \o F[-n] ELSE F[n]
  BY DEF Int64ToBytes, Numerals, Numeral
<1>2. Numerals(F, Nat)
  BY AllNumerals
<1> HIDE DEF F
<1>3. CASE n < 0
  <2>1. PICK m \in Nat : m = -n
    BY <1>3
  <2>2. EndsInDigit(F[m])
    BY <1>2, NumeralEnds
  <2>3. <<"-">> \in Seq({"-"})
    OBVIOUS
  <2>4. EndsInDigit(<<"-">> \o F[m])
    BY <2>2, <2>3, BehindAnything
  <2> QED
    BY <1>1, <1>3, <2>1, <2>4
<1>4. CASE n >= 0
  <2>1. EndsInDigit(F[n])
    BY <1>2, <1>4, NumeralEnds
  <2> QED
    BY <1>1, <1>4, <2>1
<1> QED
  BY <1>3, <1>4

\* What ScanTime leaves behind its position are digits.
LEMMA TimeIsDigits ==
    ASSUME NEW X, NEW buf \in Seq(X), NEW time, time = ScanTime(buf), time.found
    PROVE  /\ time.pos \in 1..(Len(buf) - 1)
           /\ SubSeq(buf, time.pos + 1, Len(buf)) \in Seq(Digit)
           /\ buf[Len(buf)] \in Digit
<1> DEFINE S == {k \in 1..Len(buf) : ~IsDigit(buf[k])}
<1>1. PICK i : i = LastOf(S, 0)
  OBVIOUS
<1>2. time.pos = i /\ i > 1 /\ i < Len(buf)
  BY <1>1 DEF ScanTime
<1>3. Len(buf) \in Nat /\ S \in SUBSET (0..Len(buf))
  OBVIOUS
<1>4. S # {}
  BY <1>1, <1>2 DEF LastOf
<1>5. i \in S /\ \A j \in S : j <= i
  BY <1>1, <1>3, <1>4, LastOfIs
<1>6. \A k \in (i + 1)..Len(buf) : buf[k] \in Digit
  <2> TAKE k \in (i + 1)..Len(buf)
  <2>1. k \in 1..Len(buf) /\ ~(k <= i)
    BY <1>3, <1>5
  <2>2. k \notin S
    BY <1>5, <2>1
  <2> QED
    BY <2>1, <2>2, DigitsAre
<1>7. PICK m \in Int : m = i + 1 /\ m <= Len(buf)
  BY <1>2, <1>5
<1>8. SubSeq(buf, m, Len(buf)) \in Seq(Digit)
  BY <1>3, <1>6, <1>7, SubSeqProperties
<1> QED
  BY <1>2, <1>3, <1>5, <1>6, <1>7, <1>8

\* AppendNano gives every line a timestamp: it ends in a digit.
LEMMA NanoEnds ==
    ASSUME NEW X, NEW text \in Seq(X), NEW precision \in DOMAIN Zeros \cup DOMAIN Multiplier
    PROVE  EndsInDigit(AppendNano(text, precision))
<1>1. PICK line \in Seq(X) : line = Trimmed(text, Space)
  BY TrimmedType
<1>2. PICK time : time = ScanTime(line)
  OBVIOUS
<1>3. PICK number : number = BytesToInt64(SubSeq(line, time.pos + 1, Len(line)))
  OBVIOUS
<1>4. AppendNano(text, precision) =
          IF ~time.found THEN line \o <<Blank>> \o Now
          ELSE IF precision \in DOMAIN Zeros
          THEN line \o [k \in 1..Zeros[precision] |-> "0"]
          ELSE SubSeq(line, 1, time.pos) \o Int64ToBytes(Wrap(number * Multiplier[precision]))
  BY <1>1, <1>2, <1>3 DEF AppendNano
<1>5. CASE ~time.found
  <2>1. EndsInDigit(Now)
    <3>1. Now \in Seq(Digit) /\ Now # <<>>
      BY ClockSound DEF Digit
    <3>2. Len(Now) \in Nat \ {0} /\ Now[Len(Now)] \in Digit
      BY <3>1
    <3> QED
      BY <3>1, <3>2 DEF EndsInDigit
  <2>2. line \o <<Blank>> \in Seq(X \cup {Blank})
    <3>1. PICK Y : Y = X \cup {Blank}
      OBVIOUS
    <3>2. <<Blank>> \in Seq(Y)
      <4>1. Blank \in Y
        BY <3>1
      <4> QED
        BY <4>1, OneCharacter
    <3>4. line \in Seq(Y)
      <4>1. X \subseteq Y
        BY <3>1
      <4> QED
        BY <4>1
    <3> QED
      BY <3>1, <3>2, <3>4, ConcatProperties
  <2>3. EndsInDigit((line \o <<Blank>>) \o Now)
    BY <2>1, <2>2, BehindAnything
  <2> QED
    BY <1>4, <1>5, <2>3
<1>6. CASE time.found /\ precision \in DOMAIN Zeros
  <2>1. PICK n \in Nat : n = Zeros[precision]
    BY <1>6, NumbersSound
  <2>2. PICK zeros : zeros = [k \in 1..n |-> "0"]
    OBVIOUS
  <2>3. zeros \in Seq(Digit) /\ Len(zeros) = n /\ \A k \in 1..n : zeros[k] \in Digit
    <3>1. "0" \in Digit
      BY DigitsAre
    <3>2. zeros \in [1..n -> Digit]
      BY <2>2, <3>1
    <3> QED
      BY <3>2
  <2>4. CASE n = 0
    <3>1. zeros = <<>>
      BY <2>3, <2>4
    <3>2. line \o zeros = line
      BY <3>1, ConcatEmptySeq
    <3>3. line[Len(line)] \in Digit /\ Len(line) # 0 /\ Len(line) \in Nat
      <4>1. time.pos \in 1..(Len(line) - 1) /\ line[Len(line)] \in Digit
        BY <1>2, <1>6, TimeIsDigits
      <4> QED
        BY <4>1
    <3>4. EndsInDigit(line)
      BY <3>3 DEF EndsInDigit
    <3> QED
      BY <1>4, <1>6, <2>1, <2>2, <3>2, <3>4
  <2>5. CASE n # 0
    <3>1. zeros # <<>> /\ n \in 1..n
      BY <2>3, <2>5
    <3>2. EndsInDigit(zeros)
      BY <2>3, <3>1 DEF EndsInDigit
    <3>3. EndsInDigit(line \o zeros)
      BY <3>2, BehindAnything
    <3> QED
      BY <1>4, <1>6, <2>1, <2>2, <3>3
  <2> QED
    BY <2>4, <2>5
<1>7. CASE time.found /\ precision \notin DOMAIN Zeros
  <2>1. /\ time.pos \in 1..(Len(line) - 1)
        /\ SubSeq(line, time.pos + 1, Len(line)) \in Seq(Digit)
    BY <1>2, <1>7, TimeIsDigits
  <2>2. number \in Int
    BY <1>3, <2>1, NumberType
  <2>3. Multiplier[precision] \in Nat
    BY <1>7, NumbersSound
  <2>4. PICK nano \in Int : nano = Wrap(number * Multiplier[precision])
    <3>1. PICK product \in Int : product = number * Multiplier[precision]
      BY <2>2, <2>3
    <3> QED
      BY <3>1, WrapType
  <2>5. EndsInDigit(Int64ToBytes(nano))
    BY NumberEnds
  <2>6. SubSeq(line, 1, time.pos) \in Seq(X)
    <3>1. PICK p \in Nat : p = time.pos /\ p <= Len(line)
      BY <2>1
    <3>2. SubSeq(line, 1, p) \in Seq(X)
      BY <3>1, PartType
    <3> QED
      BY <3>1, <3>2
  <2>7. EndsInDigit(SubSeq(line, 1, time.pos) \o Int64ToBytes(nano))
    BY <2>5, <2>6, BehindAnything
  <2> QED
    BY <1>4, <1>7, <2>4, <2>7
<1> QED
  BY <1>5, <1>6, <1>7

\* A key that ends in a digit has no open backslash at its end.
LEMMA KeyIsRead ==
    ASSUME NEW buf, EndsInDigit(buf)
    PROVE  /\ ScanKey(buf).st \in {"ok", "eof"}
           /\ Len(ScanKey(buf).key) \in Nat
<1> DEFINE esc == Escaped(buf)
           ends == {i \in 1..Len(buf) : buf[i] \in {Blank, Comma} /\ ~esc[i]}
           end == FirstOf(ends, Len(buf) + 1)
           kept == {i \in 1..(end - 1) : buf[i] # "\\" \/ esc[i]}
           key == [k \in 1..Cardinality(kept) |-> buf[Nth(kept, k)]]
<1>8. ScanKey(buf) =
          IF end <= Len(buf) THEN [st |-> "ok", key |-> key]
          ELSE IF buf # <<>> /\ Len(buf) \notin kept THEN [st |-> "panic", key |-> <<>>]
          ELSE [st |-> "eof", key |-> <<>>]
  BY DEF ScanKey
<1>3. PICK n \in Nat \ {0} : n = Len(buf) /\ buf[n] \in Digit
  BY DEF EndsInDigit
<1>2. ends \in SUBSET (1..n)
  BY <1>3
<1> HIDE DEF ends
<1>4. end \in 1..(n + 1)
  <2>1. CASE ends = {}
    BY <1>3, <2>1 DEF FirstOf
  <2>2. CASE ends # {}
    <3>1. ends \in SUBSET Nat
      <4>1. \A e \in 1..n : e \in Nat
        OBVIOUS
      <4> QED
        BY <1>2, <4>1
    <3>2. end \in ends
      BY <2>2, <3>1, FirstOfIs
    <3>3. end \in 1..n
      BY <1>2, <3>2
    <3> QED
      BY <3>3
  <2> QED
    BY <2>1, <2>2
<1> HIDE DEF end
<1>5. /\ kept \subseteq 1..(end - 1)
      /\ \A i \in 1..(end - 1) : buf[i] # "\\" => i \in kept
  OBVIOUS
<1> HIDE DEF kept
<1>6. Cardinality(kept) \in Nat
  <2>1. IsFiniteSet(1..(end - 1))
    BY <1>4, FS_Interval
  <2> QED
    BY <1>5, <2>1, FS_Subset, FS_CardinalityType
<1>9. Len(key) \in Nat /\ Len(<<>>) \in Nat
  <2>1. PICK c \in Nat : c = Cardinality(kept)
    BY <1>6
  <2>2. Len(key) = c
    BY <2>1
  <2> QED
    BY <2>1, <2>2
<1> HIDE DEF key
<1>10. CASE end <= Len(buf)
  BY <1>8, <1>9, <1>10
<1>11. CASE ~(end <= Len(buf))
  <2>1. n \in 1..(end - 1)
    BY <1>3, <1>4, <1>11
  <2>2. Len(buf) \in kept
    BY <1>3, <1>5, <2>1, DigitsAre
  <2> QED
    BY <1>8, <1>9, <1>11, <2>2
<1> QED
  BY <1>10, <1>11

\* A run of one character ends in it.
RunEnd(buf, k, m, c) == LastOf({n \in k..m : \A l \in k..n : buf[l] = c}, k)

\* A run of one character ends in it.
LEMMA RunEnds ==
    ASSUME NEW m \in Nat, NEW k \in 1..m, NEW buf, NEW c, buf[k] = c
    PROVE  buf[RunEnd(buf, k, m, c)] = c
<1> DEFINE S == {n \in k..m : \A l \in k..n : buf[l] = c}
<1>1. S \in SUBSET (0..m) /\ k \in S
  OBVIOUS
<1>2. \A n \in S : buf[n] = c
  OBVIOUS
<1> HIDE DEF S
<1>3. LastOf(S, k) \in S
  BY <1>1, LastOfIs
<1>4. RunEnd(buf, k, m, c) = LastOf(S, k)
  BY DEF RunEnd, S
<1> QED
  BY <1>2, <1>3, <1>4

\* A blank is never the last character, where the loop would stay.
LEMMA CheckReturns ==
    ASSUME NEW buf, NEW X, buf \in Seq(X), buf = <<>> \/ EndsInDigit(buf)
    PROVE  RapidCheck(buf) \in {"ok", "illegal"}
<1> DEFINE esc == Escaped(buf)
           run(k) == LastOf({j \in k..Len(buf) : \A l \in k..j : buf[l] = Blank}, k)
           firsts == {k \in Blanks(buf) : ~esc[k]}
           first == FirstOf(firsts, 0)
           i == IF first = 0 THEN Len(buf) + 1 ELSE run(first)
           last == LastOf(Blanks(buf), 0)
           j == FirstOf({k \in 1..last : \A l \in k..last : buf[l] = Blank}, 0)
<1>1. RapidCheck(buf) = IF first # 0 /\ i = Len(buf) THEN "hangs"
                        ELSE IF j - i > 3 THEN "ok" ELSE "illegal"
  BY DEF RapidCheck
<1> HIDE DEF j, last
<1>2. PICK m \in Nat : m = Len(buf)
  OBVIOUS
<1>3. PICK blank : blank = Blank
  OBVIOUS
<1>5. firsts \in SUBSET (1..m) /\ \A k \in firsts : buf[k] = blank
  BY <1>2, <1>3 DEF Blanks
<1> HIDE DEF firsts
<1> HIDE DEF i, first, run
<1>4. ~(first # 0 /\ i = Len(buf))
  <2> SUFFICES ASSUME first # 0, i = Len(buf) PROVE FALSE
    OBVIOUS
  <2>1. first \in firsts
    <3>1. firsts # {}
      BY DEF FirstOf, first
    <3>2. firsts \in SUBSET Nat
      <4>1. \A e \in 1..m : e \in Nat
        OBVIOUS
      <4> QED
        BY <1>5, <4>1
    <3> QED
      BY <3>1, <3>2, FirstOfIs DEF first
  <2>2. PICK k : k = first
    OBVIOUS
  <2>3. k \in 1..m /\ buf[k] = blank
    BY <1>5, <2>1, <2>2
  <2>4. i = RunEnd(buf, k, m, blank)
    BY <1>2, <1>3, <2>2 DEF i, run, RunEnd
  <2>5. buf[m] = blank
    <3>1. buf[RunEnd(buf, k, m, blank)] = blank
      BY <1>2, <2>3, RunEnds
    <3>2. i = m
      BY <1>2
    <3> QED
      BY <2>4, <3>1, <3>2, Zenon
  <2>6. EndsInDigit(buf)
    BY <1>2, <2>3
  <2>7. blank \in Digit
    BY <1>2, <2>5, <2>6 DEF EndsInDigit
  <2> QED
    BY <1>3, <2>7, DigitsAre
<1> QED
  BY <1>1, <1>4

\* For any line of any characters, of any precision the code knows: the handler comes
\* back from it, written or dropped. ScanKey never looks beyond its end, and RapidCheck
\* never stays on a blank at its end (Proxy.WriteRow).
THEOREM LineEndsCorrect ==
    ASSUME NEW X, NEW line \in Seq(X), NEW precision \in DOMAIN Zeros \cup DOMAIN Multiplier
    PROVE  LineEnds(line, precision)
<1>1. PICK nano : nano = AppendNano(line, precision)
  OBVIOUS
<1>2. EndsInDigit(nano)
  BY <1>1, NanoEnds
<1>3. PICK key : key = ScanKey(nano)
  OBVIOUS
<1>4. key.st \in {"ok", "eof"} /\ Len(key.key) \in Nat
  BY <1>2, <1>3, KeyIsRead
<1>5. PICK m, n \in Nat : m = Len(key.key) /\ n = Len(nano)
  BY <1>2, <1>4 DEF EndsInDigit
<1>6. PICK rest : rest = SubSeq(nano, m + 1, n)
  OBVIOUS
<1>7. PICK Y : nano \in Seq(Y)
  BY <1>2 DEF EndsInDigit
<1>8. PICK first \in Nat \ {0} : first = m + 1
  OBVIOUS
<1>9. /\ rest \in Seq(Y)
      /\ Len(rest) = IF first <= n THEN n - first + 1 ELSE 0
      /\ \A i \in 1..Len(rest) : rest[i] = nano[first + i - 1]
  <2>1. CASE n <= Len(nano)
    BY <1>6, <1>7, <1>8, <2>1, PartType
  <2> QED
    BY <1>5, <2>1
<1>10. rest = <<>> \/ EndsInDigit(rest)
  <2>1. CASE first <= n
    <3>1. PICK l \in Nat \ {0} : l = n - first + 1 /\ first + l - 1 = n
      <4>1. n - first + 1 \in Nat \ {0} /\ first + (n - first + 1) - 1 = n
        BY <2>1
      <4> QED
        BY <4>1
    <3>3. l = Len(rest) /\ l \in 1..l
      BY <1>9, <2>1, <3>1
    <3>2. rest[l] = nano[first + l - 1] /\ rest # <<>>
      BY <1>9, <3>3
    <3> QED
      BY <1>2, <1>5, <1>9, <3>1, <3>2, <3>3 DEF EndsInDigit
  <2>2. CASE ~(first <= n)
    BY <1>9, <2>2
  <2> QED
    BY <2>1, <2>2
<1>11. RapidCheck(rest) \in {"ok", "illegal"}
  BY <1>9, <1>10, CheckReturns
<1>12. PICK check : check = RapidCheck(rest)
  OBVIOUS
<1>13. WriteRow(line, precision) =
           IF key.st # "ok" THEN [st |-> IF key.st = "eof" THEN "dropped" ELSE key.st]
           ELSE IF check # "ok" THEN [st |-> IF check = "illegal" THEN "dropped" ELSE check]
           ELSE [st |-> "written", meas |-> key.key, line |-> nano]
  BY <1>1, <1>3, <1>5, <1>6, <1>12 DEF WriteRow
<1>14. WriteRow(line, precision).st \in {"written", "dropped"}
  BY <1>4, <1>11, <1>12, <1>13
<1> QED
  BY <1>14 DEF LineEnds

\* A value that is made step by step.
Steps(f, z, n, step) == f[0] = z /\ \A k \in 1..n : f[k] = step[<<k, f[k - 1]>>]

\* A step repeated n times has its sequence of results.
LEMMA Iterated ==
    ASSUME NEW S, NEW z \in S, NEW n \in Nat, NEW step \in [(1..n) \X S -> S]
    PROVE  \E f \in [0..n -> S] : Steps(f, z, n, step)
<1> DEFINE P(m) == \E f \in [0..m -> S] : Steps(f, z, m, step)
           T == {m \in 0..n : ~P(m)}
<1> SUFFICES ASSUME T # {} PROVE FALSE
  OBVIOUS
<1>1. PICK m \in T : \A k \in T : m <= k
  <2>1. T \in SUBSET Nat
    OBVIOUS
  <2> QED
    BY <2>1, Least
<1>2. m # 0
  <2>1. P(0)
    <3>1. PICK f : f = [k \in 0..0 |-> z]
      OBVIOUS
    <3>2. f \in [0..0 -> S] /\ f[0] = z /\ \A k \in 1..0 : f[k] = step[<<k, f[k - 1]>>]
      BY <3>1
    <3> QED
      BY <3>2 DEF Steps
  <2> QED
    BY <1>1, <2>1
<1>3. m \in 1..n /\ m - 1 \in 0..n /\ m - 1 \notin T
  <2> HIDE DEF P
  <2> QED
    BY <1>1, <1>2
<1>4. PICK f \in [0..(m - 1) -> S] : Steps(f, z, m - 1, step)
  <2>1. P(m - 1)
    BY <1>3
  <2> QED
    BY <2>1
<1>11. f[0] = z /\ \A k \in 1..(m - 1) : f[k] = step[<<k, f[k - 1]>>]
  BY <1>4 DEF Steps
<1>5. PICK x : x = step[<<m, f[m - 1]>>]
  OBVIOUS
<1>6. x \in S
  <2>1. <<m, f[m - 1]>> \in (1..n) \X S
    BY <1>3
  <2> QED
    BY <1>5, <2>1
<1>7. PICK g : g = [k \in 0..m |-> IF k < m THEN f[k] ELSE x]
  OBVIOUS
<1>8. g \in [0..m -> S] /\ g[0] = z
  BY <1>3, <1>4, <1>6, <1>7, <1>11
<1>9. ASSUME NEW k \in 1..m PROVE g[k] = step[<<k, g[k - 1]>>]
  <2>1. CASE k < m
    <3>1. k \in 1..(m - 1) /\ g[k] = f[k] /\ g[k - 1] = f[k - 1]
      BY <1>3, <1>7, <2>1
    <3> QED
      BY <1>11, <3>1
  <2>2. CASE k = m
    <3>1. g[k] = x /\ g[k - 1] = f[m - 1]
      BY <1>3, <1>7, <2>2
    <3> QED
      BY <1>5, <2>2, <3>1
  <2> QED
    BY <1>3, <2>1, <2>2
<1>10. P(m)
  BY <1>8, <1>9 DEF Steps
<1> QED
  BY <1>1, <1>10

-----------------------------------------------------------------------------
(* The number that digits make. *)

\* Every digit has a value of its own.
LEMMA ValueIs ==
    /\ \A k \in 0..(Base - 1) : Value(Digits[k + 1]) = k
    /\ \A c \in Digit : Value(c) \in 0..(Base - 1)
    /\ Value("0") = 0
<1>1. Ten[1] = "0" /\ \A i, j \in 1..10 : Ten[i] = Ten[j] => i = j
  BY DEF Ten
<1>2. ASSUME NEW d \in 1..Base PROVE Value(Digits[d]) = d - 1
  <2>1. PICK e : e = CHOOSE x \in 1..Base : Digits[x] = Digits[d]
    OBVIOUS
  <2>2. e \in 1..Base /\ Digits[e] = Digits[d]
    BY <2>1
  <2>3. d \in 1..10 /\ e \in 1..10
    BY <2>2, DigitsOfTen
  <2>4. e = d
    BY <1>1, DigitsOfTen, <2>2, <2>3
  <2> QED
    BY <2>1, <2>4 DEF Value
<1>3. \A k \in 0..(Base - 1) : k + 1 \in 1..Base /\ (k + 1) - 1 = k
  BY DigitsOfTen
<1>4. \A c \in Digit : \E d \in 1..Base : c = Digits[d] /\ d - 1 \in 0..(Base - 1)
  BY DigitsOfTen DEF Digit
<1>5. Digits[1] = "0" /\ 1 \in 1..Base
  BY <1>1, DigitsOfTen
<1> QED
  BY <1>2, <1>3, <1>4, <1>5

\* num[k] is what the first k digits make.
Makes(num, buf) == num[0] = 0 /\ \A k \in 1..Len(buf) : num[k] = num[k - 1] * Base + Value(buf[k])

\* Two such functions agree on what their texts share.
LEMMA MakesAgree ==
    ASSUME NEW f, NEW s, Makes(f, s), NEW g, NEW t, Makes(g, t),
           NEW n \in Nat, Len(s) \in Nat, Len(t) \in Nat, n <= Len(s), n <= Len(t),
           \A k \in 1..n : s[k] = t[k]
    PROVE  f[n] = g[n]
<1> DEFINE S == {k \in 0..n : f[k] # g[k]}
<1> SUFFICES ASSUME S # {} PROVE FALSE
  OBVIOUS
<1>1. PICK k \in S : \A j \in S : k <= j
  <2>1. S \in SUBSET Nat
    OBVIOUS
  <2> QED
    BY <2>1, Least
<1>2. k # 0
  BY <1>1 DEF Makes
<1>3. k \in 1..n /\ k \in 1..Len(s) /\ k \in 1..Len(t) /\ k - 1 \in 0..n /\ k - 1 \notin S
  BY <1>1, <1>2
<1>4. f[k - 1] = g[k - 1] /\ s[k] = t[k]
  BY <1>3
<1> QED
  BY <1>1, <1>3, <1>4 DEF Makes

\* BytesToInt64 reads a number digit by digit.
LEMMA NumberIs ==
    ASSUME NEW buf \in Seq(Digit)
    PROVE  \E num \in [0..Len(buf) -> Nat] : Makes(num, buf) /\ Number(buf) = num[Len(buf)]
<1> DEFINE n == Len(buf)
           step == [x \in (1..n) \X Nat |-> x[2] * Base + Value(buf[x[1]])]
           Sums(num) == num = [k \in 0..n |-> IF k = 0 THEN 0 ELSE num[k - 1] * Base + Value(buf[k])]
<1>1. n \in Nat
  OBVIOUS
<1>2. step \in [(1..n) \X Nat -> Nat]
  <2>1. ASSUME NEW k \in 1..n, NEW a \in Nat PROVE a * Base + Value(buf[k]) \in Nat
    <3>1. PICK v \in Nat : v = Value(buf[k])
      <4>1. buf[k] \in Digit
        OBVIOUS
      <4> QED
        BY <4>1, ValueIs, NumbersSound
    <3> QED
      BY <3>1, NumbersSound
  <2> QED
    BY <2>1
<1>3. PICK f \in [0..n -> Nat] : Steps(f, 0, n, step)
  <2>1. 0 \in Nat /\ n \in Nat /\ step \in [(1..n) \X Nat -> Nat]
    BY <1>1, <1>2
  <2> HIDE DEF step, n
  <2> QED
    BY <2>1, Iterated
<1>4. ASSUME NEW k \in 1..n PROVE f[k] = f[k - 1] * Base + Value(buf[k])
  <2>1. <<k, f[k - 1]>> \in (1..n) \X Nat
    BY <1>1
  <2> QED
    BY <1>3, <2>1 DEF Steps
<1>5. Makes(f, buf)
  BY <1>3, <1>4 DEF Makes, Steps
<1>6. Sums(f)
  <2>1. ASSUME NEW k \in 0..n
        PROVE  f[k] = IF k = 0 THEN 0 ELSE f[k - 1] * Base + Value(buf[k])
    BY <1>1, <1>3, <1>4 DEF Steps
  <2> QED
    BY <2>1
<1>7. PICK g : Sums(g) /\ Number(buf) = g[n]
  BY <1>6 DEF Number
<1>8. Makes(g, buf)
  BY <1>1, <1>7 DEF Makes
<1>9. f[n] = g[n]
  BY <1>1, <1>5, <1>8, MakesAgree
<1> QED
  BY <1>5, <1>7, <1>9

\* Digits make a natural number.
LEMMA DigitsMake ==
    ASSUME NEW buf \in Seq(Digit)
    PROVE  Number(buf) \in Nat /\ (buf = <<>> => Number(buf) = 0)
<1>1. PICK num \in [0..Len(buf) -> Nat] : Makes(num, buf) /\ Number(buf) = num[Len(buf)]
  BY NumberIs
<1>2. Len(buf) \in Nat
  OBVIOUS
<1> QED
  BY <1>1, <1>2 DEF Makes

\* One more digit.
LEMMA NumberAppend ==
    ASSUME NEW s \in Seq(Digit), NEW d \in Digit
    PROVE  /\ Append(s, d) \in Seq(Digit)
           /\ Number(Append(s, d)) = Number(s) * Base + Value(d)
<1>1. PICK t \in Seq(Digit) : /\ t = Append(s, d)
                              /\ Len(t) = Len(s) + 1
                              /\ t[Len(s) + 1] = d
                              /\ \A k \in 1..Len(s) : t[k] = s[k]
  <2>1. /\ Append(s, d) \in Seq(Digit) /\ Len(Append(s, d)) = Len(s) + 1
        /\ Append(s, d)[Len(s) + 1] = d
        /\ \A k \in 1..Len(s) : Append(s, d)[k] = s[k]
    BY AppendProperties
  <2> QED
    BY <2>1
<1>2. PICK n \in Nat : n = Len(s)
  OBVIOUS
<1>3. PICK f : Makes(f, s) /\ Number(s) = f[n]
  BY <1>2, NumberIs
<1>4. PICK g : Makes(g, t) /\ Number(t) = g[n + 1]
  BY <1>1, <1>2, NumberIs
<1>5. f[n] = g[n]
  <2>1. n <= Len(s) /\ n <= Len(t) /\ Len(s) \in Nat /\ Len(t) \in Nat
    BY <1>1, <1>2
  <2>2. \A k \in 1..n : s[k] = t[k]
    BY <1>1, <1>2
  <2> QED
    BY <1>2, <1>3, <1>4, <2>1, <2>2, MakesAgree
<1>6. g[n + 1] = g[n] * Base + Value(d)
  <2>1. n + 1 \in 1..Len(t) /\ (n + 1) - 1 = n
    BY <1>1, <1>2
  <2> QED
    BY <1>1, <1>2, <1>4, <2>1 DEF Makes
<1> QED
  BY <1>1, <1>3, <1>4, <1>5, <1>6

\* What the width holds, and the powers, as numbers the provers take.
Half == 2^(Width - 1)
Zero(n) == [k \in 1..n |-> "0"]

\* A number below half the range does not wrap.
LEMMA WrapSmall ==
    /\ Half \in Nat \ {0}
    /\ \A n \in Nat : n < Half => Wrap(n) = n
<1>1. PICK b : b = 2^Width
  OBVIOUS
<1>2. Half \in Nat \ {0} /\ b = 2 * Half
  BY <1>1, PowersSound DEF Half
<1>3. ASSUME NEW n \in Nat, n < Half PROVE Wrap(n) = n
  <2>1. Wrap(n) = ((n + Half) % b) - Half
    BY <1>1 DEF Wrap, Half
  <2>2. n + Half \in Nat /\ n + Half < b /\ b \in Nat \ {0}
    BY <1>2, <1>3
  <2>3. (n + Half) % b = n + Half
    BY <2>2
  <2> QED
    BY <1>2, <2>1, <2>3
<1> QED
  BY <1>2, <1>3

\* A product is not below its factor.
LEMMA ProductGrows ==
    ASSUME NEW a \in Nat, NEW b \in Nat \ {0}
    PROVE  a * b \in Nat /\ a <= a * b
<1>1. PICK c \in Nat : b = c + 1
  <2>1. b - 1 \in Nat /\ b = (b - 1) + 1
    OBVIOUS
  <2> QED
    BY <2>1
<1>2. a * b = a * c + a /\ a * c \in Nat
  BY <1>1
<1> QED
  BY <1>2

\* As long as the number fits, the code's loop makes it.
LEMMA BytesFit ==
    ASSUME NEW buf \in Seq(Digit), Number(buf) < Half
    PROVE  BytesToInt64(buf) = Number(buf)
<1>1. PICK n \in Nat : n = Len(buf)
  OBVIOUS
<1>2. PICK num \in [0..n -> Nat] : Makes(num, buf) /\ Number(buf) = num[n]
  BY <1>1, NumberIs
<1>3. \E res : ValuesUpTo(res, buf, n)
  BY ValuesExist
<1>4. PICK res : ValuesUpTo(res, buf, n) /\ BytesToInt64(buf) = res[n]
  BY <1>1, <1>3 DEF BytesToInt64, ValuesUpTo, ValueUpTo
<1>5. ASSUME NEW k \in 1..n
      PROVE  /\ num[k - 1] \in Nat /\ num[k] \in Nat /\ num[k - 1] <= num[k]
             /\ num[k] = num[k - 1] * Base + Value(buf[k])
             /\ res[k] = Wrap(res[k - 1] * Base + Value(buf[k]))
  <2>1. PICK v \in Nat : v = Value(buf[k])
    <3>1. buf[k] \in Digit
      BY <1>1
    <3> QED
      BY <3>1, ValueIs, NumbersSound
  <2>2. num[k - 1] \in Nat /\ num[k] \in Nat
    BY <1>2
  <2>3. num[k] = num[k - 1] * Base + v
    BY <1>1, <1>2, <2>1 DEF Makes
  <2>4. num[k - 1] * Base \in Nat /\ num[k - 1] <= num[k - 1] * Base
    BY <2>2, ProductGrows, NumbersSound
  <2>5. res[k] = Wrap(res[k - 1] * Base + v)
    BY <1>4, <2>1 DEF ValuesUpTo, ValueUpTo
  <2> QED
    BY <2>1, <2>2, <2>3, <2>4, <2>5
\* Smaller numbers are made on the way.
<1>6. \A k \in 0..n : num[k] < Half
  <2> DEFINE S == {m \in 0..n : ~(num[n - m] < Half)}
  <2> SUFFICES ASSUME S # {} PROVE FALSE
    <3> SUFFICES ASSUME NEW k \in 0..n PROVE num[k] < Half
      OBVIOUS
    <3>1. PICK j \in 0..n : n - j = k
      <4>1. n - k \in 0..n /\ n - (n - k) = k
        BY <1>1
      <4> QED
        BY <4>1
    <3>2. j \notin S
      OBVIOUS
    <3> QED
      BY <3>1, <3>2
  <2>1. PICK m \in S : \A j \in S : m <= j
    <3>1. S \in SUBSET Nat
      OBVIOUS
    <3> QED
      BY <3>1, Least
  <2>2. m # 0
    BY <1>2, <2>1 DEF Half
  <2>6. m \in 1..n /\ m - 1 \in 0..n /\ n - (m - 1) = (n - m) + 1
    BY <2>1, <2>2
  <2>7. m - 1 \notin S
    <3> HIDE DEF S
    <3>1. ~(m <= m - 1)
      BY <2>6
    <3> QED
      BY <2>1, <3>1
  <2>3. num[n - (m - 1)] < Half
    BY <2>6, <2>7
  <2>4. PICK k \in 1..n : k = (n - m) + 1 /\ k - 1 = n - m
    BY <2>6
  <2>5. num[k] < Half /\ num[k - 1] \in Nat /\ num[k] \in Nat /\ num[k - 1] <= num[k]
    BY <1>5, <2>3, <2>4, <2>6
  <2> QED
    BY <2>1, <2>4, <2>5, WrapSmall
<1>7. \A k \in 0..n : res[k] = num[k]
  <2> DEFINE S == {k \in 0..n : res[k] # num[k]}
  <2> SUFFICES ASSUME S # {} PROVE FALSE
    OBVIOUS
  <2>1. PICK k \in S : \A j \in S : k <= j
    <3>1. S \in SUBSET Nat
      OBVIOUS
    <3> QED
      BY <3>1, Least
  <2>2. k # 0
    <3>1. res[0] = 0 /\ num[0] = 0
      BY <1>2, <1>4 DEF Makes, ValuesUpTo, ValueUpTo
    <3> QED
      BY <2>1, <3>1
  <2>3. k \in 1..n /\ k - 1 \in 0..n /\ k - 1 \notin S
    BY <2>1, <2>2
  <2>4. res[k - 1] = num[k - 1]
    BY <2>3
  <2>5. res[k] = Wrap(num[k])
    BY <1>5, <2>3, <2>4
  <2>6. Wrap(num[k]) = num[k]
    BY <1>5, <1>6, <2>3, WrapSmall
  <2> QED
    BY <2>1, <2>5, <2>6
<1> QED
  BY <1>1, <1>2, <1>4, <1>7

\* The zeros of a precision.
LEMMA NumberZeros ==
    ASSUME NEW s \in Seq(Digit), NEW p \in DOMAIN Zeros
    PROVE  /\ s \o Zero(Zeros[p]) \in Seq(Digit)
           /\ Number(s \o Zero(Zeros[p])) = Number(s) * Base^Zeros[p]
<1>1. PICK z \in Nat : z = Zeros[p]
  BY NumbersSound
<1>2. PICK pow : pow = [n \in 0..z |-> Base^n]
  OBVIOUS
<1>3. pow[0] = 1 /\ \A n \in 1..z : pow[n] = Base * pow[n - 1]
  <2>1. \A n \in 1..z : n \in 0..z /\ n - 1 \in 0..z
    OBVIOUS
  <2> QED
    BY <1>1, <1>2, <2>1, PowersSound
<1> DEFINE Holds(n) == /\ pow[n] \in Nat
                       /\ s \o Zero(n) \in Seq(Digit)
                       /\ Number(s \o Zero(n)) = Number(s) * pow[n]
           S == {n \in 0..z : ~Holds(n)}
<1>4. S = {}
  <2> SUFFICES ASSUME S # {} PROVE FALSE
    OBVIOUS
  <2>1. PICK n \in S : \A j \in S : n <= j
    <3>1. S \in SUBSET Nat
      OBVIOUS
    <3> QED
      BY <3>1, Least
  <2>2. CASE n = 0
    <3>1. Zero(n) = <<>>
      BY <2>2 DEF Zero
    <3>2. s \o Zero(n) = s
      BY <3>1, ConcatEmptySeq
    <3>3. Number(s) \in Nat
      BY DigitsMake
    <3>5. pow[n] = 1
      BY <1>3, <2>2
    <3>6. Number(s) * 1 = Number(s)
      BY <3>3
    <3>4. Holds(n)
      BY <3>2, <3>5, <3>6
    <3> QED
      BY <2>1, <3>4
  <2>3. CASE n # 0
    <3>1. n \in 1..z /\ n - 1 \in 0..z /\ n - 1 \notin S
      <4> HIDE DEF Holds
      <4> QED
        BY <2>1, <2>3
    <3>2. Holds(n - 1)
      <4> HIDE DEF Holds
      <4> QED
        BY <3>1
    <3>3. PICK m \in Nat : m = n - 1 /\ n = m + 1
      BY <3>1
    <3>4. "0" \in Digit /\ Value("0") = 0
      BY DigitsAre, ValueIs
    <3>5. Zero(m) \in Seq(Digit) /\ Zero(n) = Append(Zero(m), "0")
      <4>1. Zero(m) \in [1..m -> Digit]
        BY <3>4 DEF Zero
      <4>2. Zero(m) \in Seq(Digit) /\ Len(Zero(m)) = m
        BY <4>1
      <4>3. /\ Append(Zero(m), "0") \in Seq(Digit) /\ Len(Append(Zero(m), "0")) = n
            /\ \A i \in 1..m : Append(Zero(m), "0")[i] = Zero(m)[i]
            /\ Append(Zero(m), "0")[n] = "0"
        BY <3>3, <3>4, <4>2, AppendProperties
      <4>4. Zero(n) \in Seq(Digit) /\ Len(Zero(n)) = n /\ \A i \in 1..n : Zero(n)[i] = "0"
        <5>1. Zero(n) \in [1..n -> Digit] /\ n \in Nat
          BY <3>1, <3>4 DEF Zero
        <5> QED
          BY <5>1 DEF Zero
      <4>5. \A i \in 1..n : Zero(n)[i] = Append(Zero(m), "0")[i]
        <5> TAKE i \in 1..n
        <5>1. i \in 1..m \/ i = n
          BY <3>3
        <5>2. i \in 1..m => Zero(m)[i] = "0"
          BY DEF Zero
        <5> QED
          BY <4>3, <4>4, <5>1, <5>2
      <4> QED
        BY <4>2, <4>3, <4>4, <4>5, SeqEqual
    <3>6. s \o Zero(n) = Append(s \o Zero(m), "0")
      <4>1. Append(Zero(m), "0") = Zero(m) \o <<"0">>
        BY <3>4, <3>5, AppendIsConcat
      <4>2. <<"0">> \in Seq(Digit)
        BY <3>4
      <4>3. s \o (Zero(m) \o <<"0">>) = (s \o Zero(m)) \o <<"0">>
        BY <3>5, <4>2, ConcatAssociative
      <4>4. s \o Zero(m) \in Seq(Digit)
        BY <3>5, ConcatProperties
      <4> QED
        BY <3>4, <3>5, <4>1, <4>3, <4>4, AppendIsConcat
    <3>7. PICK a \in Nat : a = Number(s)
      BY DigitsMake
    <3>8. pow[m] \in Nat /\ s \o Zero(m) \in Seq(Digit) /\ Number(s \o Zero(m)) = a * pow[m]
      BY <3>2, <3>3, <3>7
    <3>9. s \o Zero(n) \in Seq(Digit) /\ Number(s \o Zero(n)) = (a * pow[m]) * Base + 0
      BY <3>4, <3>6, <3>8, NumberAppend
    <3>10. pow[n] = Base * pow[m] /\ pow[n] \in Nat
      <4>1. pow[n] = Base * pow[m]
        BY <1>3, <3>1, <3>3
      <4>2. Base * pow[m] \in Nat
        BY <3>8, NumbersSound
      <4> QED
        BY <4>1, <4>2
    <3>11. (a * pow[m]) * Base + 0 = a * (Base * pow[m])
      BY <3>7, <3>8, NumbersSound
    <3>12. Holds(n)
      BY <3>7, <3>9, <3>10, <3>11
    <3> QED
      BY <2>1, <3>12
  <2> QED
    BY <2>2, <2>3
<1>5. Holds(z)
  <2> HIDE DEF Holds
  <2> QED
    BY <1>4
<1> QED
  BY <1>1, <1>2, <1>5

\* A number's digits make the number.
LEMMA NumeralIs ==
    ASSUME NEW f, Numerals(f, Nat), NEW k \in Nat
    PROVE  f[k] \in Seq(Digit) /\ f[k] # <<>> /\ Number(f[k]) = k
<1> DEFINE Holds(m) == f[m] \in Seq(Digit) /\ f[m] # <<>> /\ Number(f[m]) = m
           S == {m \in Nat : ~Holds(m)}
<1> SUFFICES ASSUME S # {} PROVE FALSE
  OBVIOUS
<1>1. PICK m \in S : \A j \in S : m <= j
  BY Least
<1>2. f[m] = Numeral(f, m)
  BY DEF Numerals
<1>3. PICK d, r, q : d = Digits[(m % Base) + 1] /\ r = m % Base /\ q = m \div Base
  OBVIOUS
<1>4. r \in 0..(Base - 1) /\ q \in Nat /\ (m >= Base => q < m)
  BY <1>3, Quotient
<1>5. d \in Digit /\ Value(d) = r
  BY <1>3, <1>4, DigitsAre, ValueIs
<1>6. m = q * Base + r
  <2>1. ASSUME NEW b \in 2..10 PROVE m = (m \div b) * b + (m % b)
    <3>1. m \in Nat
      BY <1>1
    <3>2. b = 2 \/ b = 3 \/ b = 4 \/ b = 5 \/ b = 6 \/ b = 7 \/ b = 8 \/ b = 9 \/ b = 10
      OBVIOUS
    <3> QED
      BY <3>1, <3>2
  <2> QED
    BY <1>3, <2>1, NumbersSound
<1>7. PICK s : s = (IF m < Base THEN <<>> ELSE f[q]) /\ f[m] = s \o <<d>>
  BY <1>2, <1>3 DEF Numeral
<1>8. s \in Seq(Digit) /\ Number(s) = q
  <2>1. CASE m < Base
    <3>1. s = <<>> /\ <<>> \in Seq(Digit)
      BY <1>7, <2>1
    <3>2. q = 0
      BY <1>3, <2>1, NumbersSound
    <3> QED
      BY <3>1, <3>2, DigitsMake
  <2>2. CASE ~(m < Base)
    <3>1. q \notin S
      BY <1>1, <1>4, <2>2, NumbersSound
    <3>2. Holds(q)
      BY <1>4, <3>1
    <3> QED
      BY <1>7, <2>2, <3>2
  <2> QED
    BY <2>1, <2>2
<1>9. f[m] = Append(s, d)
  BY <1>5, <1>7, <1>8, AppendIsConcat
<1>10. f[m] \in Seq(Digit) /\ Number(f[m]) = q * Base + r /\ f[m] # <<>>
  BY <1>5, <1>8, <1>9, NumberAppend, AppendProperties
<1>11. Holds(m)
  BY <1>6, <1>10
<1> QED
  BY <1>1, <1>11

\* The digits Int64ToBytes writes make the number again.
LEMMA NumberText ==
    ASSUME NEW n \in Nat
    PROVE  /\ Int64ToBytes(n) \in Seq(Digit) /\ Int64ToBytes(n) # <<>>
           /\ Number(Int64ToBytes(n)) = n
<1> DEFINE F == CHOOSE f : Numerals(f, Nat)
<1>1. Int64ToBytes(n) = IF n < 0 THEN <<"-">> \o F[-n] ELSE F[n]
  BY DEF Int64ToBytes, Numerals, Numeral
<1>2. Numerals(F, Nat)
  BY AllNumerals
<1> HIDE DEF F
<1>3. Int64ToBytes(n) = F[n]
  BY <1>1
<1> QED
  BY <1>2, <1>3, NumeralIs

\* FirstOf is the least number of a set.
LEMMA FirstIs ==
    ASSUME NEW S \in SUBSET Nat, NEW i \in S, \A j \in S : i <= j, NEW none
    PROVE  FirstOf(S, none) = i
<1>1. PICK f : f = FirstOf(S, none)
  OBVIOUS
<1>2. f \in S /\ f <= i
  BY <1>1, FirstOfIs
<1> QED
  BY <1>1, <1>2

\* LastOf is the greatest.
LEMMA LastIs ==
    ASSUME NEW S \in SUBSET Nat, NEW i \in S, \A j \in S : j <= i, NEW none
    PROVE  LastOf(S, none) = i
<1>1. PICK f : f = LastOf(S, none)
  OBVIOUS
<1>2. S \in SUBSET (0..i)
  OBVIOUS
<1>3. f \in S /\ i <= f
  BY <1>1, <1>2, LastOfIs
<1> QED
  BY <1>1, <1>3

\* Two texts behind each other.
Both(u, s, t) ==
    /\ Len(s) \in Nat /\ Len(t) \in Nat /\ Len(u) = Len(s) + Len(t)
    /\ \A i \in 1..Len(s) : u[i] = s[i]
    /\ \A i \in 1..Len(t) : u[Len(s) + i] = t[i]

LEMMA Joined ==
    ASSUME NEW X, NEW s \in Seq(X), NEW t \in Seq(X)
    PROVE  s \o t \in Seq(X) /\ Both(s \o t, s, t)
<1>1. PICK m, n \in Nat : m = Len(s) /\ n = Len(t)
  OBVIOUS
<1>2. PICK u : u = s \o t
  OBVIOUS
<1>3. /\ u \in Seq(X) /\ Len(u) = m + n
      /\ \A i \in 1..(m + n) : u[i] = IF i <= m THEN s[i] ELSE t[i - m]
  BY <1>1, <1>2, ConcatProperties
<1>4. \A i \in 1..m : u[i] = s[i]
  BY <1>3
<1>5. \A i \in 1..n : u[m + i] = t[i]
  <2> TAKE i \in 1..n
  <2>1. m + i \in 1..(m + n) /\ ~(m + i <= m) /\ (m + i) - m = i
    OBVIOUS
  <2> QED
    BY <1>3, <2>1
<1> QED
  BY <1>1, <1>2, <1>3, <1>4, <1>5 DEF Both

\* A text that neither begins nor ends in junk is left alone.
LEMMA TrimmedKeeps ==
    ASSUME NEW X, NEW text \in Seq(X), text # <<>>, NEW junk,
           text[1] \notin junk, text[Len(text)] \notin junk
    PROVE  Trimmed(text, junk) = text
<1> DEFINE S == {i \in 1..Len(text) : text[i] \notin junk}
<1>1. PICK n \in Nat \ {0} : n = Len(text)
  BY EmptySeq
<1>2. S \in SUBSET Nat /\ 1 \in S /\ n \in S /\ (\A i \in S : 1 <= i /\ i <= n)
  BY <1>1
<1>3. FirstOf(S, 1) = 1 /\ LastOf(S, 0) = n
  <2> HIDE DEF S
  <2> QED
    BY <1>2, FirstIs, LastIs
<1>4. SubSeq(text, 1, n) = text
  BY <1>1, SubSeqFull
<1>5. Trimmed(text, junk) = TrimmedRight(SubSeq(text, FirstOf(S, 1), Len(text)), junk)
  BY DEF Trimmed
<1>6. TrimmedRight(text, junk) = SubSeq(text, 1, LastOf(S, 0))
  BY DEF TrimmedRight
<1> QED
  BY <1>1, <1>3, <1>4, <1>5, <1>6

\* Where a time is found: behind a blank that is followed by digits only.
LEMMA TimeIsFound ==
    ASSUME NEW X, NEW buf \in Seq(X), NEW p \in 2..(Len(buf) - 1), buf[p] = Blank,
           \A k \in (p + 1)..Len(buf) : buf[k] \in Digit
    PROVE  ScanTime(buf) = [pos |-> p, found |-> TRUE]
<1> DEFINE S == {k \in 1..Len(buf) : ~IsDigit(buf[k])}
<1>1. PICK n \in Nat : n = Len(buf)
  OBVIOUS
<1>2. S \in SUBSET Nat
  OBVIOUS
<1>3. p \in S
  BY <1>1, DigitsAre
<1>4. \A k \in S : k <= p
  <2> SUFFICES ASSUME NEW k \in 1..n, ~(k <= p) PROVE IsDigit(buf[k])
    BY <1>1
  <2>1. k \in (p + 1)..n
    BY <1>1
  <2> QED
    BY <1>1, <2>1, DigitsAre
<1>5. LastOf(S, 0) = p
  <2> HIDE DEF S
  <2> QED
    BY <1>2, <1>3, <1>4, LastIs
<1>6. p > 1 /\ p < Len(buf) /\ buf[p] \in {Blank, "NUL"}
  BY <1>1
<1> QED
  BY <1>5, <1>6 DEF ScanTime

\* And where none is.
LEMMA TimeIsMissing ==
    ASSUME NEW X, NEW buf \in Seq(X), NEW p \in 1..Len(buf), buf[p] \notin {Blank, "NUL"},
           buf[p] \notin Digit, \A k \in (p + 1)..Len(buf) : buf[k] \in Digit
    PROVE  ~ScanTime(buf).found
<1> DEFINE S == {k \in 1..Len(buf) : ~IsDigit(buf[k])}
<1>1. PICK n \in Nat : n = Len(buf)
  OBVIOUS
<1>2. S \in SUBSET Nat
  OBVIOUS
<1>3. p \in S
  BY <1>1, DigitsAre
<1>4. \A k \in S : k <= p
  <2> SUFFICES ASSUME NEW k \in 1..n, ~(k <= p) PROVE IsDigit(buf[k])
    BY <1>1
  <2>1. k \in (p + 1)..n
    BY <1>1
  <2> QED
    BY <1>1, <2>1, DigitsAre
<1>5. LastOf(S, 0) = p
  <2> HIDE DEF S
  <2> QED
    BY <1>2, <1>3, <1>4, LastIs
<1> QED
  BY <1>5 DEF ScanTime

\* The characters of a time.
InTime == Digit \cup {"-"}

LEMMA InTimeAre == Blank \notin InTime /\ Comma \notin InTime
<1>1. Blank # "-" /\ Comma # "-"
  BY Zenon DEF Blank, Comma
<1> QED
  BY <1>1, DigitsAre DEF InTime

\* Every number is written in them.
LEMMA NumberInTime ==
    ASSUME NEW n \in Int
    PROVE  Int64ToBytes(n) \in Seq(InTime) /\ Int64ToBytes(n) # <<>>
<1> DEFINE F == CHOOSE f : Numerals(f, Nat)
<1>1. Int64ToBytes(n) = IF n < 0 THEN <<"-">> \o F[-n] ELSE F[n]
  BY DEF Int64ToBytes, Numerals, Numeral
<1>2. Numerals(F, Nat)
  BY AllNumerals
<1> HIDE DEF F
<1>3. Digit \subseteq InTime /\ "-" \in InTime
  BY DEF InTime
<1>4. CASE n < 0
  <2>1. PICK m \in Nat : m = -n
    BY <1>4
  <2>2. PICK s \in Seq(InTime) : s = F[m] /\ s # <<>>
    <3>1. F[m] \in Seq(Digit) /\ F[m] # <<>>
      BY <1>2, NumeralIs
    <3> QED
      BY <1>3, <3>1
  <2>3. <<"-">> \in Seq(InTime)
    BY <1>3, OneCharacter
  <2>4. <<"-">> \o s \in Seq(InTime) /\ <<"-">> \o s # <<>>
    BY <2>2, <2>3, Joined, ConcatEqualIffEmpty
  <2> QED
    BY <1>1, <1>4, <2>1, <2>2, <2>4
<1>5. CASE ~(n < 0)
  <2>1. n \in Nat
    BY <1>5
  <2>2. F[n] \in Seq(Digit) /\ F[n] # <<>>
    BY <1>2, <2>1, NumeralIs
  <2> QED
    BY <1>1, <1>3, <1>5, <2>2
<1> QED
  BY <1>4, <1>5

\* A line with a time keeps it, in nanoseconds.
KeepsTime(text, time, precision) ==
    Number(time) * Factor(precision) < Half =>
        text \in Seq(Digit) /\ Number(text) = Number(time) * Factor(precision)

\* AppendNano puts the time in nanoseconds behind a point with a time.
LEMMA NanoOfTime ==
    ASSUME NEW X, Digit \subseteq X, Blank \in X, NEW head \in Seq(X), head # <<>>,
           head[1] \notin Space, NEW time \in Seq(Digit), time # <<>>,
           NEW precision \in DOMAIN Zeros \cup DOMAIN Multiplier
    PROVE  \E text \in Seq(InTime) :
              /\ text # <<>>
              /\ AppendNano(head \o <<Blank>> \o time, precision) = head \o <<Blank>> \o text
              /\ KeepsTime(text, time, precision)
<1>1. PICK h, n \in Nat \ {0} : h = Len(head) /\ n = Len(time)
  BY EmptySeq
<1>15. PICK front : front = head \o <<Blank>>
  OBVIOUS
<1>2. /\ front \in Seq(X) /\ Len(front) = h + 1
      /\ front[1] = head[1] /\ front[h + 1] = Blank
  <2>1. PICK b \in Seq(X) : b = <<Blank>> /\ Len(b) = 1 /\ b[1] = Blank
    <3>1. <<Blank>> \in Seq(X)
      BY OneCharacter
    <3>2. Len(<<Blank>>) = 1 /\ <<Blank>>[1] = Blank
      OBVIOUS
    <3> QED
      BY <3>1, <3>2
  <2>2. 1 \in 1..Len(head) /\ 1 \in 1..Len(b)
    BY <1>1, <2>1
  <2>3. front = head \o b
    BY <1>15, <2>1
  <2>4. /\ front \in Seq(X) /\ Len(front) = Len(head) + Len(b)
        /\ front[1] = head[1] /\ front[Len(head) + 1] = b[1]
    <3>1. head \o b \in Seq(X) /\ Both(head \o b, head, b)
      BY <2>1, Joined
    <3> QED
      BY <2>2, <2>3, <3>1 DEF Both
  <2> QED
    BY <1>1, <2>1, <2>4
<1>3. time \in Seq(X)
  OBVIOUS
<1>16. PICK line : line = front \o time
  OBVIOUS
<1>4. /\ line \in Seq(X) /\ Len(line) = (h + 1) + n
      /\ \A i \in 1..(h + 1) : line[i] = front[i]
      /\ \A i \in 1..n : line[(h + 1) + i] = time[i]
  <2>1. /\ line \in Seq(X) /\ Len(line) = Len(front) + Len(time)
        /\ \A i \in 1..Len(front) : line[i] = front[i]
        /\ \A i \in 1..Len(time) : line[Len(front) + i] = time[i]
    <3>1. front \o time \in Seq(X) /\ Both(front \o time, front, time)
      BY <1>2, <1>3, Joined
    <3> QED
      BY <1>16, <3>1 DEF Both
  <2> QED
    BY <1>1, <1>2, <2>1
<1>5. PICK p \in Nat \ {0} : p = h + 1
  BY <1>1
<1>6. line[p] = Blank /\ \A k \in (p + 1)..Len(line) : line[k] \in Digit
  <2>1. line[p] = Blank
    BY <1>2, <1>4, <1>5
  <2>2. ASSUME NEW k \in (p + 1)..(p + n) PROVE line[k] \in Digit
    <3>1. PICK i \in 1..n : p + i = k
      <4>1. k - p \in 1..n /\ p + (k - p) = k
        OBVIOUS
      <4> QED
        BY <4>1
    <3>2. line[k] = time[i] /\ i \in 1..Len(time)
      BY <1>1, <1>4, <1>5, <3>1
    <3> QED
      BY <3>2
  <2> QED
    BY <1>4, <1>5, <2>1, <2>2
<1>7. Trimmed(line, Space) = line
  <2>1. line # <<>> /\ line[1] \notin Space
    BY <1>1, <1>2, <1>4
  <2>2. line[Len(line)] \in Digit
    <3>1. Len(line) \in (p + 1)..Len(line)
      BY <1>1, <1>4, <1>5
    <3> QED
      BY <1>6, <3>1
  <2> QED
    BY <1>4, <2>1, <2>2, TrimmedKeeps, DigitsAre
<1>8. ScanTime(line) = [pos |-> p, found |-> TRUE]
  <2>1. p \in 2..(Len(line) - 1)
    BY <1>1, <1>4, <1>5
  <2> QED
    BY <1>4, <1>6, <2>1, TimeIsFound
<1>9. PICK number : number = BytesToInt64(SubSeq(line, p + 1, Len(line)))
  OBVIOUS
<1>10. AppendNano(line, precision) =
           IF precision \in DOMAIN Zeros
           THEN line \o [k \in 1..Zeros[precision] |-> "0"]
           ELSE SubSeq(line, 1, p) \o Int64ToBytes(Wrap(number * Multiplier[precision]))
  BY <1>7, <1>8, <1>9 DEF AppendNano
<1>11. SubSeq(line, 1, p) = front /\ SubSeq(line, p + 1, Len(line)) = time
  <2>4. 1 \in 1..Len(front) /\ Len(front) \in 1..Len(front)
    BY <1>1, <1>2
  <2>5. SubSeq(front \o time, 1, Len(front)) = SubSeq(front, 1, Len(front))
    BY <1>2, <1>3, <2>4, SubSeqOfConcat1
  <2>6. SubSeq(front, 1, Len(front)) = front
    BY <1>2, SubSeqFull
  <2>1. SubSeq(line, 1, p) = front
    BY <1>2, <1>5, <1>16, <2>5, <2>6
  <2>2. /\ p + 1 \in Len(front) + 1 .. Len(front) + Len(time)
        /\ Len(line) \in Len(front) + 1 .. Len(front) + Len(time)
        /\ (p + 1) - Len(front) = 1 /\ Len(line) - Len(front) = Len(time)
    BY <1>1, <1>2, <1>4, <1>5
  <2>7. SubSeq(front \o time, p + 1, Len(line))
            = SubSeq(time, (p + 1) - Len(front), Len(line) - Len(front))
    BY <1>2, <1>3, <2>2, SubSeqOfConcat2
  <2>3. SubSeq(line, p + 1, Len(line)) = SubSeq(time, 1, Len(time))
    BY <1>16, <2>2, <2>7
  <2> QED
    BY <1>2, <2>1, <2>3, SubSeqFull
<1>12. Digit \subseteq InTime
  BY DEF InTime
<1>13. CASE precision \in DOMAIN Zeros
  <2>1. PICK zeros : zeros = Zero(Zeros[precision])
    OBVIOUS
  <2>2. PICK text : text = time \o zeros
    OBVIOUS
  <2>3. text \in Seq(Digit) /\ Number(text) = Number(time) * Factor(precision)
    BY <1>13, <2>1, <2>2, NumberZeros DEF Factor
  <2>4. zeros \in Seq(Digit)
    <3>1. Zeros[precision] \in Nat /\ "0" \in Digit
      BY <1>13, NumbersSound, DigitsAre
    <3>2. PICK z \in Nat : z = Zeros[precision]
      BY <3>1
    <3>3. zeros \in [1..z -> Digit]
      BY <2>1, <3>1, <3>2 DEF Zero
    <3> QED
      BY <3>3
  <2>5. text # <<>>
    BY <2>2, <2>4, ConcatEqualIffEmpty
  <2>6. line \o zeros = front \o text
    <3>1. zeros \in Seq(X)
      BY <2>4
    <3>2. PICK u \in Seq(X) : u = zeros
      BY <3>1
    <3>3. front \in Seq(X) /\ time \in Seq(X)
      BY <1>2, <1>3
    <3>4. (front \o time) \o u = front \o (time \o u)
      BY <3>3, ConcatAssociative
    <3> QED
      BY <1>16, <2>2, <3>2, <3>4
  <2>7. AppendNano(line, precision) = front \o text
    BY <1>10, <1>13, <2>1, <2>6 DEF Zero
  <2>8. text \in Seq(InTime)
    BY <1>12, <2>3
  <2> QED
    BY <1>15, <1>16, <2>3, <2>5, <2>7, <2>8 DEF KeepsTime
<1>14. CASE precision \notin DOMAIN Zeros
  <2>1. PICK factor \in Nat \ {0} : factor = Multiplier[precision] /\ factor = Factor(precision)
    BY <1>14, NumbersSound DEF Factor
  <2>2. number \in Int
    BY <1>9, <1>11, NumberType
  <2>3. PICK nano \in Int : nano = Wrap(number * factor)
    <3>1. PICK product \in Int : product = number * factor
      BY <2>2
    <3> QED
      BY <3>1, WrapType
  <2>4. PICK text \in Seq(InTime) : text = Int64ToBytes(nano) /\ text # <<>>
    BY NumberInTime
  <2>5. AppendNano(line, precision) = front \o text
    BY <1>10, <1>11, <1>14, <2>1, <2>3, <2>4
  <2>6. ASSUME Number(time) * Factor(precision) < Half
        PROVE  text \in Seq(Digit) /\ Number(text) = Number(time) * Factor(precision)
    <3>1. PICK t \in Nat : t = Number(time)
      BY DigitsMake
    <3>5. PICK product \in Nat : product = t * factor /\ t <= product
      BY <2>1, <3>1, ProductGrows
    <3>2. product < Half /\ Half \in Nat
      BY <2>1, <2>6, <3>1, <3>5, WrapSmall
    <3>3. t < Half
      BY <3>1, <3>2, <3>5
    <3>4. number = t
      BY <1>9, <1>11, <3>1, <3>3, BytesFit
    <3>6. nano = product
      BY <2>3, <3>2, <3>4, <3>5, WrapSmall
    <3>7. text \in Seq(Digit) /\ Number(text) = product
      BY <2>4, <3>6, NumberText
    <3> QED
      BY <2>1, <3>1, <3>5, <3>7
  <2> QED
    BY <1>15, <1>16, <2>4, <2>5, <2>6 DEF KeepsTime
<1> QED
  BY <1>13, <1>14

\* A line without one gets the clock's.
LEMMA NanoOfNone ==
    ASSUME NEW X, NEW line \in Seq(X), line # <<>>, line[1] \notin Space,
           line[Len(line)] \notin Space, NEW p \in 1..Len(line), line[p] \notin {Blank, "NUL"},
           line[p] \notin Digit, \A k \in (p + 1)..Len(line) : line[k] \in Digit,
           NEW precision
    PROVE  AppendNano(line, precision) = line \o <<Blank>> \o Now
<1>1. Trimmed(line, Space) = line
  BY TrimmedKeeps
<1>2. ~ScanTime(line).found
  BY TimeIsMissing
<1> QED
  BY <1>1, <1>2 DEF AppendNano

\* A character is escaped when the one before it is a backslash that is not.
LEMMA EscapedIs ==
    ASSUME NEW buf, Len(buf) \in Nat
    PROVE  \A i \in 1..Len(buf) :
              Escaped(buf)[i] = (i > 1 /\ buf[i - 1] = "\\" /\ ~Escaped(buf)[i - 1])
<1> DEFINE n == Len(buf)
           step == [x \in (1..n) \X BOOLEAN |-> x[1] > 1 /\ buf[x[1] - 1] = "\\" /\ ~x[2]]
           Escapes(e) == e = [i \in 1..n |-> i > 1 /\ buf[i - 1] = "\\" /\ ~e[i - 1]]
<1>1. step \in [(1..n) \X BOOLEAN -> BOOLEAN]
  OBVIOUS
<1>2. PICK f \in [0..n -> BOOLEAN] : Steps(f, FALSE, n, step)
  <2>1. FALSE \in BOOLEAN /\ n \in Nat
    OBVIOUS
  <2> HIDE DEF step, n
  <2> QED
    BY <1>1, <2>1, Iterated
<1>3. ASSUME NEW k \in 1..n PROVE f[k] = (k > 1 /\ buf[k - 1] = "\\" /\ ~f[k - 1])
  <2>1. <<k, f[k - 1]>> \in (1..n) \X BOOLEAN
    <3>1. k - 1 \in 0..n
      OBVIOUS
    <3> QED
      BY <1>2, <3>1
  <2>2. f[k] = step[<<k, f[k - 1]>>]
    BY <1>2 DEF Steps
  <2>3. step[<<k, f[k - 1]>>] = (k > 1 /\ buf[k - 1] = "\\" /\ ~f[k - 1])
    BY <2>1
  <2> QED
    BY <2>2, <2>3
<1>4. PICK e : e = [i \in 1..n |-> f[i]]
  OBVIOUS
<1>5. ASSUME NEW k \in 1..n PROVE e[k] = (k > 1 /\ buf[k - 1] = "\\" /\ ~e[k - 1])
  <2>1. CASE k = 1
    <3>1. e[k] = f[k] /\ ~(k > 1)
      BY <1>4, <2>1
    <3> QED
      BY <1>3, <3>1
  <2>2. CASE k # 1
    <3>1. k - 1 \in 1..n
      BY <2>2
    <3>2. e[k] = f[k] /\ e[k - 1] = f[k - 1]
      BY <1>4, <3>1
    <3> QED
      BY <1>3, <3>2
  <2> QED
    BY <2>1, <2>2
<1>6. Escapes(e)
  BY <1>4, <1>5
<1>7. Escaped(buf) = CHOOSE x : Escapes(x)
  BY DEF Escaped
<1>8. Escapes(Escaped(buf))
  <2> HIDE DEF Escapes
  <2> QED
    BY <1>6, <1>7
<1>9. PICK g : g = Escaped(buf)
  OBVIOUS
<1>10. ASSUME NEW k \in 1..n PROVE g[k] = (k > 1 /\ buf[k - 1] = "\\" /\ ~g[k - 1])
  BY <1>8, <1>9
<1> QED
  BY <1>9, <1>10

\* A text and one more character.
Longer(t, s, c) ==
    /\ Len(s) \in Nat /\ Len(t) = Len(s) + 1 /\ t # <<>> /\ t[Len(s) + 1] = c
    /\ \A k \in 1..Len(s) : t[k] = s[k]

LEMMA Lengthened ==
    ASSUME NEW X, NEW s \in Seq(X), NEW c \in X
    PROVE  Append(s, c) \in Seq(X) /\ Longer(Append(s, c), s, c)
<1>1. PICK t : t = Append(s, c)
  OBVIOUS
<1>2. /\ t \in Seq(X) /\ t # <<>> /\ Len(t) = Len(s) + 1 /\ t[Len(s) + 1] = c
      /\ \A k \in 1..Len(s) : t[k] = s[k]
  BY <1>1, AppendProperties
<1> QED
  BY <1>1, <1>2 DEF Longer

\* A name is spelt in buf up to p: its ends are escaped, and what is kept is the name.
Kept(buf, p) == {i \in 1..p : buf[i] # "\\" \/ Escaped(buf)[i]}

Keeps(buf, p, name) ==
    /\ Cardinality(Kept(buf, p)) = Len(name)
    /\ \A k \in 1..Len(name) : buf[Nth(Kept(buf, p), k)] = name[k]

Spelt(buf, p, name) ==
    /\ p \in Nat /\ p <= Len(buf) /\ Len(name) <= p
    /\ \A i \in 1..p : buf[i] \in {Blank, Comma} => Escaped(buf)[i]
    /\ Keeps(buf, p, name)
    /\ p # 0 => buf[p] # "\\"
    /\ name # <<>> => buf[1] = IF name[1] \in {Blank, Comma} THEN "\\" ELSE name[1]

LEMMA KeptNumbers ==
    ASSUME NEW buf, NEW p \in Nat
    PROVE  Numbers(Kept(buf, p)) /\ \A i \in Kept(buf, p) : i \in 1..p
<1>1. Kept(buf, p) \subseteq 1..p
  BY DEF Kept
<1>2. IsFiniteSet(1..p)
  BY FS_Interval
<1> QED
  BY <1>1, <1>2, FS_Subset DEF Numbers

\* One more kept character, behind what is spelt and maybe a backslash.
LEMMA KeptAdded ==
    ASSUME NEW X, NEW buf \in Seq(X), NEW s \in Seq(X), NEW c \in X, NEW p, Spelt(buf, p, s),
           NEW q \in (p + 1)..Len(buf), buf[q] = c, c # "\\", Kept(buf, q) = Kept(buf, p) \cup {q}
    PROVE  Keeps(buf, q, Append(s, c))
<1>1. PICK K : K = Kept(buf, p) /\ K \cup {q} = Kept(buf, q)
  OBVIOUS
<1>2. p \in Nat
  BY DEF Spelt
<1>3. Numbers(K) /\ (\A i \in K : i < q) /\ q \in Nat
  BY <1>1, <1>2, KeptNumbers
<1>4. PICK n \in Nat : n = Len(s) /\ n = Cardinality(K)
  BY <1>1 DEF Spelt, Keeps
<1>5. /\ Cardinality(K \cup {q}) = n + 1
      /\ \A k \in 1..n : Nth(K \cup {q}, k) = Nth(K, k)
      /\ Nth(K \cup {q}, n + 1) = q
  <2>1. /\ Cardinality(K \cup {q}) = Cardinality(K) + 1
        /\ \A k \in 1..Cardinality(K) : Nth(K \cup {q}, k) = Nth(K, k)
        /\ Nth(K \cup {q}, Cardinality(K) + 1) = q
    BY <1>3, NthAdded
  <2> QED
    BY <1>4, <2>1
<1>9. PICK t : t = Append(s, c)
  OBVIOUS
<1>6. Len(t) = n + 1 /\ t[n + 1] = c /\ \A k \in 1..n : t[k] = s[k]
  <2>1. Longer(t, s, c)
    BY <1>9, Lengthened
  <2> QED
    BY <1>4, <2>1 DEF Longer
<1>7. \A k \in 1..n : buf[Nth(K, k)] = s[k]
  BY <1>1, <1>4 DEF Spelt, Keeps
<1>8. ASSUME NEW k \in 1..(n + 1) PROVE buf[Nth(K \cup {q}, k)] = t[k]
  <2>1. CASE k = n + 1
    BY <1>5, <1>6, <2>1
  <2>2. CASE k \in 1..n
    <3>1. Nth(K \cup {q}, k) = Nth(K, k) /\ t[k] = s[k]
      BY <1>5, <1>6, <2>2
    <3> QED
      BY <1>7, <2>2, <3>1
  <2> QED
    BY <1>4, <2>1, <2>2
<1> QED
  BY <1>1, <1>5, <1>6, <1>8, <1>9 DEF Keeps

\* A character that needs no escape is spelt by itself.
LEMMA SpeltOne ==
    ASSUME NEW X, NEW buf \in Seq(X), NEW s \in Seq(X), NEW c \in X, NEW p, Spelt(buf, p, s),
           p + 1 <= Len(buf), buf[p + 1] = c, c # "\\", c \notin {Blank, Comma}
    PROVE  Spelt(buf, p + 1, Append(s, c))
<1>1. PICK esc : esc = Escaped(buf)
  OBVIOUS
<1>2. p \in Nat /\ Len(buf) \in Nat /\ Len(s) \in Nat
  BY DEF Spelt
<1>3. PICK q \in 1..Len(buf) : q = p + 1
  BY <1>2
<1>4. Kept(buf, q) = Kept(buf, p) \cup {q}
  <2>1. \A i : i \in 1..q <=> i \in 1..p \/ i = q
    BY <1>2, <1>3
  <2> QED
    BY <1>3, <2>1 DEF Kept
<1>20. PICK t : t = Append(s, c)
  OBVIOUS
<1>5. /\ Len(t) = Len(s) + 1 /\ t # <<>>
      /\ t[Len(s) + 1] = c /\ \A k \in 1..Len(s) : t[k] = s[k]
  BY <1>20, Lengthened DEF Longer
<1>6. Keeps(buf, q, t)
  <2>1. q \in (p + 1)..Len(buf) /\ buf[q] = c
    BY <1>2, <1>3
  <2> QED
    BY <1>4, <1>20, <2>1, KeptAdded
<1>7. \A i \in 1..q : buf[i] \in {Blank, Comma} => esc[i]
  <2>1. \A i \in 1..p : buf[i] \in {Blank, Comma} => esc[i]
    BY <1>1 DEF Spelt
  <2> QED
    BY <1>2, <1>3, <2>1
<1>8. buf[1] = IF t[1] \in {Blank, Comma} THEN "\\" ELSE t[1]
  <2>1. CASE s = <<>>
    <3>1. p = 0
      <4>1. Cardinality(Kept(buf, p)) = 0
        BY <2>1 DEF Spelt, Keeps
      <4>2. Kept(buf, p) = {}
        BY <1>2, <4>1, KeptNumbers, FS_EmptySet DEF Numbers
      <4>3. p # 0 => p \in Kept(buf, p)
        BY <1>2 DEF Kept, Spelt
      <4> QED
        BY <4>2, <4>3
    <3>2. t[1] = c
      BY <1>5, <2>1
    <3> QED
      BY <3>1, <3>2
  <2>2. CASE s # <<>>
    <3>1. t[1] = s[1]
      <4>1. 1 \in 1..Len(s)
        BY <2>2
      <4> QED
        BY <1>5, <4>1
    <3> QED
      BY <2>2, <3>1 DEF Spelt
  <2> QED
    BY <2>1, <2>2
<1>9. q \in Nat /\ q <= Len(buf) /\ Len(t) <= q
  BY <1>2, <1>3, <1>5 DEF Spelt
<1>10. q # 0 => buf[q] # "\\"
  BY <1>3
<1>11. Spelt(buf, q, t)
  BY <1>1, <1>6, <1>7, <1>8, <1>9, <1>10 DEF Spelt
<1> QED
  BY <1>3, <1>20, <1>11

\* A blank or a comma is spelt with a backslash.
LEMMA SpeltTwo ==
    ASSUME NEW X, NEW buf \in Seq(X), NEW s \in Seq(X), NEW c \in X, NEW p, Spelt(buf, p, s),
           p + 2 <= Len(buf), buf[p + 1] = "\\", buf[p + 2] = c, c # "\\", c \in {Blank, Comma}
    PROVE  Spelt(buf, p + 2, Append(s, c))
<1>1. PICK esc : esc = Escaped(buf)
  OBVIOUS
<1>2. p \in Nat /\ Len(buf) \in Nat /\ Len(s) \in Nat
  BY DEF Spelt
<1>3. PICK q \in 1..Len(buf) : q = p + 2 /\ q - 1 = p + 1 /\ q - 1 \in 1..Len(buf)
  BY <1>2
<1>11. ~esc[q - 1] /\ esc[q]
  <2>1. \A i \in 1..Len(buf) : esc[i] = (i > 1 /\ buf[i - 1] = "\\" /\ ~esc[i - 1])
    BY <1>1, <1>2, EscapedIs
  <2>2. esc[q - 1] = (q - 1 > 1 /\ buf[(q - 1) - 1] = "\\" /\ ~esc[(q - 1) - 1])
    BY <1>3, <2>1
  <2>3. ~(q - 1 > 1 /\ buf[(q - 1) - 1] = "\\")
    <3>1. CASE p = 0
      BY <1>3, <3>1
    <3>2. CASE p # 0
      <4>1. buf[p] # "\\" /\ (q - 1) - 1 = p
        BY <1>2, <1>3, <3>2 DEF Spelt
      <4> QED
        BY <4>1
    <3> QED
      BY <3>1, <3>2
  <2>4. esc[q] = (q > 1 /\ buf[q - 1] = "\\" /\ ~esc[q - 1])
    BY <1>3, <2>1
  <2>5. q > 1 /\ buf[q - 1] = "\\"
    BY <1>2, <1>3
  <2>6. ~esc[q - 1]
    BY <2>2, <2>3, Zenon
  <2> QED
    BY <2>4, <2>5, <2>6, Zenon
<1>4. Kept(buf, q) = Kept(buf, p) \cup {q}
  <2>1. \A i : i \in 1..q <=> i \in 1..p \/ i = q - 1 \/ i = q
    BY <1>2, <1>3
  <2>2. ~(buf[q - 1] # "\\" \/ Escaped(buf)[q - 1])
    BY <1>1, <1>3, <1>11
  <2>3. buf[q] # "\\"
    BY <1>3
  <2> QED
    BY <2>1, <2>2, <2>3 DEF Kept
<1>20. PICK t : t = Append(s, c)
  OBVIOUS
<1>5. /\ Len(t) = Len(s) + 1 /\ t # <<>>
      /\ t[Len(s) + 1] = c /\ \A k \in 1..Len(s) : t[k] = s[k]
  BY <1>20, Lengthened DEF Longer
<1>6. Keeps(buf, q, t)
  <2>1. q \in (p + 1)..Len(buf) /\ buf[q] = c
    BY <1>2, <1>3
  <2> QED
    BY <1>4, <1>20, <2>1, KeptAdded
<1>7. \A i \in 1..q : buf[i] \in {Blank, Comma} => esc[i]
  <2>1. \A i \in 1..p : buf[i] \in {Blank, Comma} => esc[i]
    BY <1>1 DEF Spelt
  <2>2. "\\" \notin {Blank, Comma}
    BY Zenon DEF Blank, Comma
  <2>3. buf[q - 1] \notin {Blank, Comma}
    BY <1>3, <2>2
  <2>4. \A i \in 1..q : i \in 1..p \/ i = q - 1 \/ i = q
    BY <1>2, <1>3
  <2> QED
    BY <1>11, <2>1, <2>3, <2>4
<1>8. buf[1] = IF t[1] \in {Blank, Comma} THEN "\\" ELSE t[1]
  <2>1. CASE s = <<>>
    <3>1. p = 0
      <4>1. Cardinality(Kept(buf, p)) = 0
        BY <2>1 DEF Spelt, Keeps
      <4>2. Kept(buf, p) = {}
        BY <1>2, <4>1, KeptNumbers, FS_EmptySet DEF Numbers
      <4>3. p # 0 => p \in Kept(buf, p)
        BY <1>2 DEF Kept, Spelt
      <4> QED
        BY <4>2, <4>3
    <3>2. t[1] = c
      BY <1>5, <2>1
    <3> QED
      BY <3>1, <3>2
  <2>2. CASE s # <<>>
    <3>1. t[1] = s[1]
      <4>1. 1 \in 1..Len(s)
        BY <2>2
      <4> QED
        BY <1>5, <4>1
    <3> QED
      BY <2>2, <3>1 DEF Spelt
  <2> QED
    BY <2>1, <2>2
<1>9. q \in Nat /\ q <= Len(buf) /\ Len(t) <= q
  BY <1>2, <1>3, <1>5 DEF Spelt
<1>10. q # 0 => buf[q] # "\\"
  BY <1>3
<1>12. Spelt(buf, q, t)
  BY <1>1, <1>6, <1>7, <1>8, <1>9, <1>10 DEF Spelt
<1> QED
  BY <1>3, <1>20, <1>12

\* How a character of a name is written.
Spelling(c) == IF c \in {Comma, Blank} THEN <<"\\", c>> ELSE <<c>>
Spellings(name) == [i \in 1..Len(name) |-> Spelling(name[i])]

LEMMA EscapeIs ==
    ASSUME NEW X, "\\" \in X, NEW s \in Seq(X)
    PROVE  /\ Spellings(s) \in Seq(Seq(X)) /\ Len(Spellings(s)) = Len(s)
           /\ EscapeMeasurement(s) = FlattenSeq(Spellings(s))
           /\ EscapeMeasurement(s) \in Seq(X)
           /\ s = <<>> => EscapeMeasurement(s) = <<>>
<1>1. PICK n \in Nat : n = Len(s)
  OBVIOUS
<1>2. PICK u : u = Spellings(s)
  OBVIOUS
<1>3. ASSUME NEW i \in 1..n PROVE Spelling(s[i]) \in Seq(X)
  <2>1. s[i] \in X
    BY <1>1
  <2>2. <<"\\", s[i]>> \in Seq(X) /\ <<s[i]>> \in Seq(X)
    BY <2>1
  <2> QED
    BY <2>2 DEF Spelling
<1>4. u \in [1..n -> Seq(X)]
  BY <1>1, <1>2, <1>3 DEF Spellings
<1>5. u \in Seq(Seq(X)) /\ Len(u) = n
  BY <1>4
<1>6. EscapeMeasurement(s) = FlattenSeq(u)
  BY <1>2 DEF EscapeMeasurement, Spellings, Spelling
<1>7. FlattenSeq(u) \in Seq(X)
  BY <1>5, FlattenType
<1>8. ASSUME s = <<>> PROVE FlattenSeq(u) = <<>>
  <2>1. u = <<>>
    BY <1>1, <1>5, <1>8
  <2> QED
    BY <2>1 DEF FlattenSeq
<1> QED
  BY <1>1, <1>2, <1>5, <1>6, <1>7, <1>8

\* EscapeMeasurement goes character by character.
LEMMA EscapeAppend ==
    ASSUME NEW X, "\\" \in X, NEW s \in Seq(X), NEW c \in X
    PROVE  /\ Spelling(c) \in Seq(X)
           /\ EscapeMeasurement(Append(s, c)) = EscapeMeasurement(s) \o Spelling(c)
<1>1. PICK t : t = Append(s, c)
  OBVIOUS
<1>2. t \in Seq(X) /\ Longer(t, s, c)
  BY <1>1, Lengthened
<1>3. Spelling(c) \in Seq(X)
  BY DEF Spelling
<1>4. PICK u, v, w : u = Spellings(s) /\ v = Spellings(t) /\ w = Append(u, Spelling(c))
  OBVIOUS
<1>5. PICK n \in Nat : n = Len(s)
  OBVIOUS
<1>6. u \in Seq(Seq(X)) /\ Len(u) = n /\ v \in Seq(Seq(X)) /\ Len(v) = n + 1
  <2>1. v \in Seq(Seq(X)) /\ Len(v) = Len(t)
    BY <1>2, <1>4, EscapeIs
  <2>2. Len(t) = n + 1
    BY <1>2, <1>5 DEF Longer
  <2>3. u \in Seq(Seq(X)) /\ Len(u) = Len(s)
    BY <1>4, EscapeIs
  <2> QED
    BY <1>5, <2>1, <2>2, <2>3
<1>7. w \in Seq(Seq(X)) /\ Longer(w, u, Spelling(c))
  BY <1>3, <1>4, <1>6, Lengthened
<1>8. \A i \in 1..(n + 1) : v[i] = w[i]
  <2> TAKE i \in 1..(n + 1)
  <2>1. v[i] = Spelling(t[i])
    BY <1>2, <1>4, <1>5 DEF Spellings, Longer
  <2>2. CASE i = n + 1
    BY <1>2, <1>5, <1>6, <1>7, <2>1, <2>2 DEF Longer
  <2>3. CASE i \in 1..n
    <3>1. t[i] = s[i] /\ w[i] = u[i]
      BY <1>2, <1>5, <1>6, <1>7, <2>3 DEF Longer
    <3>2. u[i] = Spelling(s[i])
      BY <1>4, <1>5, <2>3 DEF Spellings
    <3> QED
      BY <2>1, <3>1, <3>2
  <2> QED
    BY <2>2, <2>3
<1>9. v = w
  <2>1. Len(w) = n + 1
    BY <1>6, <1>7 DEF Longer
  <2> QED
    BY <1>6, <1>7, <1>8, <2>1, SeqEqual
<1>10. FlattenSeq(w) = FlattenSeq(u) \o Spelling(c)
  BY <1>3, <1>4, <1>6, FlattenAppend
<1>11. EscapeMeasurement(t) = FlattenSeq(v) /\ EscapeMeasurement(s) = FlattenSeq(u)
  BY <1>2, <1>4, EscapeIs
<1> QED
  BY <1>1, <1>3, <1>9, <1>10, <1>11

\* A name without backslashes is spelt by its escaped form, whatever follows.
SpeltBefore(name, rest) ==
    Spelt(EscapeMeasurement(name) \o rest, Len(EscapeMeasurement(name)), name)

LEMMA ThreeJoined ==
    ASSUME NEW X, NEW a \in Seq(X), NEW b \in Seq(X), NEW c \in Seq(X)
    PROVE  a \o (b \o c) = (a \o b) \o c
  BY ConcatAssociative

\* If every text behind a name leaves its spelling alone, so with one character more.
LEMMA SpeltNext ==
    ASSUME NEW X, "\\" \in X, NEW s \in Seq(X), NEW c \in X, c # "\\",
           \A rest \in Seq(X) : SpeltBefore(s, rest), NEW rest \in Seq(X)
    PROVE  SpeltBefore(Append(s, c), rest)
<1>1. PICK E \in Seq(X) : E = EscapeMeasurement(s)
  BY EscapeIs
<1>2. PICK piece \in Seq(X) : piece = Spelling(c)
  BY EscapeAppend
<1>3. EscapeMeasurement(Append(s, c)) = E \o piece
  BY <1>1, <1>2, EscapeAppend
<1>4. PICK more : more = piece \o rest
  OBVIOUS
<1>5. more \in Seq(X) /\ Both(more, piece, rest)
  BY <1>4, Joined
<1>6. PICK buf : buf = E \o more
  OBVIOUS
<1>7. buf \in Seq(X) /\ Both(buf, E, more)
  BY <1>5, <1>6, Joined
<1>8. PICK longer : longer = E \o piece
  OBVIOUS
<1>9. Both(longer, E, piece)
  BY <1>8, Joined
<1>10. buf = longer \o rest
  <2>1. E \o (piece \o rest) = (E \o piece) \o rest
    BY ThreeJoined
  <2> QED
    BY <1>4, <1>6, <1>8, <2>1, Zenon
<1>11. PICK p \in Nat : p = Len(E)
  BY <1>7 DEF Both
<1>12. Spelt(buf, p, s)
  BY <1>1, <1>5, <1>6, <1>11 DEF SpeltBefore
<1>13. CASE c \in {Blank, Comma}
  <2>1. piece = <<"\\", c>>
    BY <1>2, <1>13 DEF Spelling
  <2>2. Len(piece) = 2 /\ piece[1] = "\\" /\ piece[2] = c
    BY <2>1
  <2>3. Len(more) >= 2 /\ Len(more) \in Nat /\ more[1] = "\\" /\ more[2] = c
    BY <1>5, <2>2 DEF Both
  <2>4. p + 2 <= Len(buf) /\ buf[p + 1] = "\\" /\ buf[p + 2] = c
    BY <1>7, <1>11, <2>3 DEF Both
  <2>5. Spelt(buf, p + 2, Append(s, c))
    BY <1>7, <1>12, <1>13, <2>4, SpeltTwo
  <2>6. Len(longer) = p + 2
    BY <1>9, <1>11, <2>2 DEF Both
  <2> QED
    BY <1>3, <1>8, <1>10, <2>5, <2>6 DEF SpeltBefore
<1>14. CASE c \notin {Blank, Comma}
  <2>1. piece = <<c>>
    BY <1>2, <1>14 DEF Spelling
  <2>2. Len(piece) = 1 /\ piece[1] = c
    BY <2>1
  <2>3. Len(more) >= 1 /\ Len(more) \in Nat /\ more[1] = c
    BY <1>5, <2>2 DEF Both
  <2>4. p + 1 <= Len(buf) /\ buf[p + 1] = c
    BY <1>7, <1>11, <2>3 DEF Both
  <2>5. Spelt(buf, p + 1, Append(s, c))
    BY <1>7, <1>12, <1>14, <2>4, SpeltOne
  <2>6. Len(longer) = p + 1
    BY <1>9, <1>11, <2>2 DEF Both
  <2> QED
    BY <1>3, <1>8, <1>10, <2>5, <2>6 DEF SpeltBefore
<1> QED
  BY <1>13, <1>14

LEMMA SpeltNone ==
    ASSUME NEW X, "\\" \in X, NEW rest \in Seq(X)
    PROVE  SpeltBefore(<<>>, rest)
<1>1. <<>> \in Seq(X) /\ Len(<<>>) = 0
  OBVIOUS
<1>2. EscapeMeasurement(<<>>) = <<>>
  BY <1>1, EscapeIs
<1>3. <<>> \o rest = rest
  BY ConcatEmptySeq
<1>4. Spelt(rest, 0, <<>>)
  <2>1. Kept(rest, 0) = {}
    BY DEF Kept
  <2>2. Cardinality(Kept(rest, 0)) = 0
    BY <2>1, FS_EmptySet
  <2>3. Keeps(rest, 0, <<>>)
    BY <1>1, <2>2 DEF Keeps
  <2>4. Len(rest) \in Nat
    OBVIOUS
  <2> QED
    BY <1>1, <2>3, <2>4 DEF Spelt
<1> QED
  BY <1>1, <1>2, <1>3, <1>4 DEF SpeltBefore

\* ScanKey undoes EscapeMeasurement, whatever follows.
LEMMA SpeltAll ==
    ASSUME NEW X, "\\" \in X, NEW name \in Seq(X), \A i \in 1..Len(name) : name[i] # "\\",
           NEW rest \in Seq(X)
    PROVE  SpeltBefore(name, rest)
<1> DEFINE N == Len(name)
           Holds(n) == \A r \in Seq(X) : SpeltBefore(SubSeq(name, 1, n), r)
           S == {n \in 0..N : ~Holds(n)}
<1>1. N \in Nat
  OBVIOUS
<1>2. S = {}
  <2> SUFFICES ASSUME S # {} PROVE FALSE
    OBVIOUS
  <2>1. PICK n \in S : \A j \in S : n <= j
    <3>1. S \in SUBSET Nat
      OBVIOUS
    <3> QED
      BY <3>1, Least
  <2>2. CASE n = 0
    <3>1. SubSeq(name, 1, n) = <<>>
      BY <2>2, SubSeqEmpty
    <3>2. Holds(n)
      BY <3>1, SpeltNone
    <3> QED
      BY <2>1, <3>2
  <2>3. CASE n # 0
    <3>1. n \in 1..N /\ n - 1 \in 0..N /\ n - 1 \notin S /\ N \in Nat
      <4> HIDE DEF Holds, N
      <4>1. n \in 0..N
        BY <2>1
      <4>2. n - 1 \notin S
        <5>1. ~(n <= n - 1)
          BY <1>1, <4>1
        <5> HIDE DEF S
        <5> QED
          BY <2>1, <5>1
      <4> QED
        BY <1>1, <2>3, <4>1, <4>2
    <3>2. Holds(n - 1)
      <4> HIDE DEF Holds, N
      <4> QED
        BY <3>1
    <3>3. PICK s : s = SubSeq(name, 1, n - 1)
      OBVIOUS
    <3>4. s \in Seq(X)
      <4>1. n - 1 \in Nat /\ n - 1 <= Len(name)
        BY <3>1
      <4> QED
        BY <3>3, <4>1, PartType
    <3>5. name[n] \in X /\ name[n] # "\\"
      BY <3>1
    <3>6. SubSeq(name, 1, n) = Append(s, name[n])
      <4>1. 1 \in 1..Len(name) /\ n \in 1..Len(name)
        BY <3>1
      <4>2. SubSeq(name, 1, n) = s \o <<name[n]>>
        BY <3>3, <4>1, SubSeqRecursiveSecond
      <4> QED
        BY <3>4, <3>5, <4>2, AppendIsConcat
    <3>7. \A r \in Seq(X) : SpeltBefore(s, r)
      BY <3>2, <3>3
    <3>8. \A r \in Seq(X) : SpeltBefore(Append(s, name[n]), r)
      BY <3>4, <3>5, <3>7, SpeltNext
    <3>9. Holds(n)
      BY <3>6, <3>8
    <3> QED
      BY <2>1, <3>9
  <2> QED
    BY <2>2, <2>3
<1>3. Holds(N)
  <2> HIDE DEF Holds
  <2> QED
    BY <1>1, <1>2
<1>4. SubSeq(name, 1, N) = name
  BY SubSeqFull
<1> QED
  BY <1>3, <1>4

\* ScanKey reads the name back.
LEMMA KeyIsName ==
    ASSUME NEW buf, Len(buf) \in Nat, NEW X, NEW name \in Seq(X), NEW p, Spelt(buf, p, name),
           p + 1 <= Len(buf), buf[p + 1] \in {Blank, Comma}
    PROVE  ScanKey(buf) = [st |-> "ok", key |-> name]
<1> DEFINE esc == Escaped(buf)
           ends == {i \in 1..Len(buf) : buf[i] \in {Blank, Comma} /\ ~esc[i]}
           end == FirstOf(ends, Len(buf) + 1)
           kept == {i \in 1..(end - 1) : buf[i] # "\\" \/ esc[i]}
           key == [k \in 1..Cardinality(kept) |-> buf[Nth(kept, k)]]
<1>1. ScanKey(buf) =
          IF end <= Len(buf) THEN [st |-> "ok", key |-> key]
          ELSE IF buf # <<>> /\ Len(buf) \notin kept THEN [st |-> "panic", key |-> <<>>]
          ELSE [st |-> "eof", key |-> <<>>]
  BY DEF ScanKey
<1>2. PICK q \in 1..Len(buf) : q = p + 1 /\ p \in Nat /\ q - 1 = p
  BY DEF Spelt
<1>3. ends \in SUBSET Nat
  OBVIOUS
<1>4. q \in ends
  <2>1. esc[q] = (q > 1 /\ buf[q - 1] = "\\" /\ ~esc[q - 1])
    BY EscapedIs
  <2>2. ~(q > 1 /\ buf[q - 1] = "\\")
    BY <1>2 DEF Spelt
  <2>3. ~esc[q]
    BY <2>1, <2>2, Zenon
  <2> QED
    BY <1>2, <2>3
<1>5. \A i \in ends : q <= i
  <2> SUFFICES ASSUME NEW i \in ends, ~(q <= i) PROVE FALSE
    OBVIOUS
  <2>1. i \in 1..p
    BY <1>2
  <2> QED
    BY <2>1 DEF Spelt
<1>6. end = q
  <2> HIDE DEF ends
  <2> QED
    BY <1>3, <1>4, <1>5, FirstIs
<1> HIDE DEF end
<1>7. kept = Kept(buf, p)
  BY <1>2, <1>6 DEF Kept
<1> HIDE DEF kept
<1>8. PICK n \in Nat : n = Len(name) /\ Cardinality(kept) = n
  BY <1>7 DEF Spelt, Keeps
<1>9. key = name
  <2>1. \A k \in 1..n : buf[Nth(kept, k)] = name[k]
    BY <1>7, <1>8 DEF Spelt, Keeps
  <2>2. key = [k \in 1..n |-> buf[Nth(kept, k)]]
    BY <1>8
  <2>3. name = [k \in 1..n |-> name[k]]
    BY <1>8
  <2> QED
    BY <2>1, <2>2, <2>3
<1> QED
  BY <1>1, <1>2, <1>6, <1>9

\* A text has room for a field when an open blank at g is followed by something other
\* at h, and three more before the last blank, at p, that stands alone.
LEMMA CheckIsOk ==
    ASSUME NEW X, NEW buf \in Seq(X), NEW g \in 1..Len(buf), NEW h \in 1..Len(buf),
           NEW p \in 1..Len(buf), g < h, h + 3 <= p,
           buf[g] = Blank, g > 1 => buf[g - 1] # "\\",
           buf[h] # Blank, buf[p - 1] # Blank, buf[p] = Blank,
           \A k \in (p + 1)..Len(buf) : buf[k] # Blank
    PROVE  RapidCheck(buf) = "ok"
<1> DEFINE esc == Escaped(buf)
           run(k) == LastOf({j \in k..Len(buf) : \A l \in k..j : buf[l] = Blank}, k)
           firsts == {k \in Blanks(buf) : ~esc[k]}
           first == FirstOf(firsts, 0)
           i == IF first = 0 THEN Len(buf) + 1 ELSE run(first)
           last == LastOf(Blanks(buf), 0)
           ends == {k \in 1..last : \A l \in k..last : buf[l] = Blank}
           j == FirstOf(ends, 0)
<1>1. RapidCheck(buf) = IF first # 0 /\ i = Len(buf) THEN "hangs"
                        ELSE IF j - i > 3 THEN "ok" ELSE "illegal"
  BY DEF RapidCheck
<1>2. PICK m \in Nat : m = Len(buf)
  OBVIOUS
<1>3. PICK blank : blank = Blank
  OBVIOUS
<1>4. last = p
  <2>1. Blanks(buf) \in SUBSET Nat /\ p \in Blanks(buf)
    BY DEF Blanks
  <2>2. \A k \in Blanks(buf) : k <= p
    <3> SUFFICES ASSUME NEW k \in Blanks(buf), ~(k <= p) PROVE FALSE
      OBVIOUS
    <3>1. k \in (p + 1)..Len(buf) /\ buf[k] = Blank
      BY DEF Blanks
    <3> QED
      BY <3>1
  <2> QED
    BY <2>1, <2>2, LastIs
<1>5. j = p
  <2>1. ends = {k \in 1..p : \A l \in k..p : buf[l] = blank}
    BY <1>3, <1>4
  <2>2. ends \in SUBSET Nat
    BY <2>1
  <2>3. p \in ends
    BY <1>3, <2>1
  <2>4. \A k \in ends : p <= k
    <3> SUFFICES ASSUME NEW k \in ends, ~(p <= k) PROVE FALSE
      OBVIOUS
    <3>1. k \in 1..p /\ \A l \in k..p : buf[l] = blank
      BY <2>1
    <3>2. p - 1 \in k..p
      BY <3>1
    <3> QED
      BY <1>3, <3>1, <3>2
  <2> HIDE DEF ends
  <2> QED
    BY <2>2, <2>3, <2>4, FirstIs
<1> HIDE DEF j, ends, last
<1>6. firsts \in SUBSET Nat
  BY DEF Blanks
<1>7. g \in firsts
  <2>1. esc[g] = (g > 1 /\ buf[g - 1] = "\\" /\ ~esc[g - 1])
    BY EscapedIs
  <2>2. ~(g > 1 /\ buf[g - 1] = "\\")
    OBVIOUS
  <2>3. ~esc[g]
    BY <2>1, <2>2, Zenon
  <2> QED
    BY <2>3 DEF Blanks
<1>8. \A k \in firsts : k \in 1..m /\ buf[k] = blank
  BY <1>2, <1>3 DEF Blanks
<1> HIDE DEF firsts
<1>9. PICK f : f = first /\ f \in firsts /\ f <= g
  <2>1. first \in firsts /\ first <= g
    BY <1>6, <1>7, FirstOfIs
  <2> QED
    BY <2>1
<1>10. f \in 1..m /\ buf[f] = blank
  BY <1>8, <1>9
<1> HIDE DEF first
<1> DEFINE R == {k \in f..m : \A l \in f..k : buf[l] = blank}
<1>11. i = LastOf(R, f)
  BY <1>2, <1>3, <1>9, <1>10
<1> HIDE DEF i, run
<1>12. i \in R
  <2>1. R \in SUBSET (0..m) /\ f \in R
    BY <1>10
  <2> HIDE DEF R
  <2> QED
    BY <1>11, <2>1, LastOfIs
<1>13. i \in Nat /\ i < h
  <2>1. i \in f..m /\ \A l \in f..i : buf[l] = blank
    BY <1>12
  <2>2. ~(h <= i)
    <3> SUFFICES ASSUME h <= i PROVE FALSE
      OBVIOUS
    <3>1. h \in f..i
      BY <1>9, <1>10, <2>1
    <3> QED
      BY <1>3, <2>1, <3>1
  <2> QED
    BY <1>10, <2>1, <2>2
<1>14. i # Len(buf) /\ j - i > 3
  BY <1>5, <1>13
<1> QED
  BY <1>1, <1>14

\* The first n characters are a point's: its name ends at e, blanks begin at g, and the
\* fields at h; behind q there are only digits.
Shaped(buf, e, g, h, q, n) ==
    /\ e \in Nat \ {0} /\ g \in Nat /\ h \in Nat /\ n \in Nat
    /\ e < g /\ g < h /\ h + 2 <= n /\ q \in 1..n
    /\ buf[1] \notin Space /\ buf[n] \notin Space
    /\ buf[e] # "\\" /\ buf[e + 1] \in {Blank, Comma}
    /\ buf[g] = Blank /\ buf[g - 1] # "\\" /\ buf[h] # Blank
    /\ buf[q] \notin Digit /\ buf[q] \notin {Blank, "NUL"}
    /\ \A k \in (q + 1)..n : buf[k] \in Digit

\* An escaped name starts and ends like the name of a point.
LEMMA NameIsShaped ==
    ASSUME NEW X, "\\" \in X, NEW name \in Seq(X), \A i \in 1..Len(name) : name[i] # "\\",
           name # <<>>, name[1] \notin Space \ {Blank}, NEW E, E = EscapeMeasurement(name)
    PROVE  /\ E \in Seq(X) /\ Len(E) \in Nat \ {0} /\ Len(name) <= Len(E)
           /\ E[1] \notin Space /\ E[Len(E)] # "\\"
<1>1. E \in Seq(X) /\ <<>> \in Seq(X)
  BY EscapeIs
<1>2. E \o <<>> = E
  BY <1>1, ConcatEmptySeq
<1>3. Spelt(E, Len(E), name)
  BY <1>1, <1>2, SpeltAll DEF SpeltBefore
<1>4. Len(name) \in Nat \ {0}
  BY EmptySeq
<1>5. "\\" \notin Space
  BY Zenon DEF Space, Blank
<1>6. E[1] \notin Space
  <2>1. CASE name[1] \in {Blank, Comma}
    <3>1. E[1] = "\\"
      BY <1>3, <2>1 DEF Spelt
    <3> QED
      BY <1>5, <3>1
  <2>2. CASE name[1] \notin {Blank, Comma}
    <3>1. E[1] = name[1]
      BY <1>3, <2>2 DEF Spelt
    <3> QED
      BY <2>2, <3>1
  <2> QED
    BY <2>1, <2>2
<1>7. Len(E) \in Nat \ {0} /\ Len(name) <= Len(E) /\ E[Len(E)] # "\\"
  BY <1>3, <1>4 DEF Spelt
<1> QED
  BY <1>1, <1>6, <1>7

\* The text of a point has its key, its gap and its fields in their places.
LEMMA PointIsShaped ==
    ASSUME NEW X, "\\" \in X, NEW name \in Seq(X), NEW tags \in Seq(X), NEW gap \in Seq(X),
           NEW fields \in Seq(X), IsPoint(name, tags, gap, fields),
           NEW point, point = PointText(name, tags, gap, fields)
    PROVE  /\ point \in Seq(X)
           /\ \E g, h, q : Shaped(point, Len(EscapeMeasurement(name)), g, h, q, Len(point))
<1>1. PICK E : E = EscapeMeasurement(name)
  OBVIOUS
<1>2. /\ E \in Seq(X) /\ Len(E) \in Nat \ {0} /\ E[1] \notin Space /\ E[Len(E)] # "\\"
  <2>1. /\ \A i \in 1..Len(name) : name[i] # "\\"
        /\ name # <<>> /\ name[1] \notin Space \ {Blank}
    BY DEF IsPoint
  <2> QED
    BY <1>1, <2>1, NameIsShaped
<1>3. PICK s1, s2 : s1 = E \o tags /\ s2 = s1 \o gap
  OBVIOUS
<1>4. s1 \in Seq(X) /\ Both(s1, E, tags)
  BY <1>2, <1>3, Joined
<1>5. s2 \in Seq(X) /\ Both(s2, s1, gap)
  BY <1>3, <1>4, Joined
<1>6. point \in Seq(X) /\ Both(point, s2, fields)
  <2>1. point = s2 \o fields
    BY <1>1, <1>3 DEF PointText
  <2> QED
    BY <1>5, <2>1, Joined
<1>7. PICK e, t, b, f \in Nat : e = Len(E) /\ t = Len(tags) /\ b = Len(gap) /\ f = Len(fields)
  BY <1>2
<1>8. e > 0 /\ b > 0 /\ f >= 3
  <2>1. gap # <<>> /\ Len(fields) >= 3
    BY DEF IsPoint
  <2> QED
    BY <1>2, <1>7, <2>1
<1>9. Len(s1) = e + t /\ Len(s2) = e + t + b /\ Len(point) = e + t + b + f
  BY <1>4, <1>5, <1>6, <1>7 DEF Both
\* Each part is found at its place.
<1>10. /\ \A k \in 1..(e + t) : point[k] = s1[k]
       /\ \A k \in 1..b : point[e + t + k] = gap[k]
       /\ \A k \in 1..f : point[e + t + b + k] = fields[k]
  <2>1. \A k \in 1..(e + t + b) : point[k] = s2[k]
    BY <1>6, <1>7, <1>9 DEF Both
  <2>2. \A k \in 1..(e + t) : s2[k] = s1[k] /\ k \in 1..(e + t + b)
    BY <1>5, <1>7, <1>9 DEF Both
  <2>3. \A k \in 1..b : s2[e + t + k] = gap[k] /\ e + t + k \in 1..(e + t + b)
    BY <1>5, <1>7, <1>9 DEF Both
  <2>4. \A k \in 1..f : point[e + t + b + k] = fields[k]
    BY <1>6, <1>7, <1>9 DEF Both
  <2> QED
    BY <2>1, <2>2, <2>3, <2>4
<1>11. /\ \A k \in 1..e : point[k] = E[k]
       /\ \A k \in 1..t : point[e + k] = tags[k]
  <2>1. \A k \in 1..e : s1[k] = E[k] /\ k \in 1..(e + t)
    BY <1>4, <1>7 DEF Both
  <2>2. \A k \in 1..t : s1[e + k] = tags[k] /\ e + k \in 1..(e + t)
    BY <1>4, <1>7 DEF Both
  <2> QED
    BY <1>10, <2>1, <2>2
<1>12. point[1] \notin Space /\ point[e] # "\\"
  BY <1>2, <1>7, <1>8, <1>11
<1>13. PICK g, h, n \in Nat : g = e + t + 1 /\ h = e + t + b + 1 /\ n = e + t + b + f
  OBVIOUS
<1>14. point[g] = Blank
  <2>1. gap[1] = Blank
    BY <1>7, <1>8 DEF IsPoint
  <2> QED
    BY <1>8, <1>10, <1>13, <2>1
<1>15. point[e + 1] \in {Blank, Comma}
  <2>1. CASE t = 0
    BY <1>13, <1>14, <2>1
  <2>2. CASE t > 0
    <3>1. tags[1] = Comma
      BY <1>7, <2>2 DEF IsPoint
    <3> QED
      BY <1>11, <2>2, <3>1
  <2> QED
    BY <2>1, <2>2
<1>16. point[g - 1] # "\\"
  <2>1. CASE t = 0
    BY <1>12, <1>13, <2>1
  <2>2. CASE t > 0
    <3>1. tags[t] # "\\"
      BY <1>7, <2>2 DEF IsPoint
    <3>2. point[e + t] = tags[t] /\ g - 1 = e + t
      BY <1>11, <1>13, <2>2
    <3> QED
      BY <3>1, <3>2
  <2> QED
    BY <2>1, <2>2
<1>17. point[h] # Blank /\ point[n] \notin Space
  <2>1. fields[1] # Blank /\ fields[f] \notin Space
    BY <1>7 DEF IsPoint
  <2>2. point[h] = fields[1] /\ point[n] = fields[f]
    <3>1. \A k \in 1..f : point[e + t + b + k] = fields[k]
      BY <1>10
    <3>2. point[e + t + b + 1] = fields[1] /\ point[e + t + b + f] = fields[f]
      BY <1>8, <3>1
    <3> QED
      BY <1>13, <3>2
  <2> QED
    BY <2>1, <2>2
<1>18. PICK i \in 1..f : /\ fields[i] \notin Digit /\ fields[i] \notin {Blank, "NUL"}
                         /\ \A j \in (i + 1)..f : fields[j] \in Digit
  BY <1>7, DigitsAre DEF IsPoint
<1>19. PICK q \in 1..n : q = e + t + b + i
  BY <1>13
<1>20. point[q] = fields[i] /\ \A k \in (q + 1)..n : point[k] \in Digit
  <2>1. point[q] = fields[i]
    BY <1>10, <1>19
  <2>2. ASSUME NEW k \in (q + 1)..n PROVE point[k] \in Digit
    <3>1. PICK j \in (i + 1)..f : k = e + t + b + j
      <4>1. k - (e + t + b) \in (i + 1)..f /\ k = e + t + b + (k - (e + t + b))
        BY <1>13, <1>19
      <4> QED
        BY <4>1
    <3> QED
      <4>1. j \in 1..f /\ fields[j] \in Digit
        BY <1>18, <3>1
      <4>2. point[e + t + b + j] = fields[j]
        BY <1>10, <4>1
      <4> QED
        BY <3>1, <4>1, <4>2
  <2> QED
    BY <2>1, <2>2
<1>21. e < g /\ g < h /\ h + 2 <= n /\ n = Len(point) /\ e \in Nat \ {0}
  BY <1>8, <1>9, <1>13
<1>22. Shaped(point, e, g, h, q, n)
  BY <1>12, <1>13, <1>14, <1>15, <1>16, <1>17, <1>18, <1>19, <1>20, <1>21 DEF Shaped
<1> QED
  BY <1>1, <1>6, <1>7, <1>21, <1>22

\* The timestamp a point gets: its own in nanoseconds, or the clock's.
LEMMA PointIsTimed ==
    ASSUME NEW X, InTime \subseteq X, Blank \in X, NEW point \in Seq(X),
           NEW e, NEW g, NEW h, NEW q, Shaped(point, e, g, h, q, Len(point)),
           NEW time \in Seq(Digit), NEW precision \in DOMAIN Zeros \cup DOMAIN Multiplier,
           NEW line, line = IF time = <<>> THEN point ELSE point \o <<Blank>> \o time
    PROVE  /\ \E Y : line \in Seq(Y)
           /\ \E text \in Seq(InTime) :
                 /\ text # <<>>
                 /\ AppendNano(line, precision) = point \o <<Blank>> \o text
                 /\ IF time = <<>> THEN text = Now
                    ELSE KeepsTime(text, time, precision)
<1>1. Digit \subseteq InTime /\ Digit \subseteq X
  BY DEF InTime
<1>2. point # <<>> /\ point[1] \notin Space /\ point[Len(point)] \notin Space
  BY DEF Shaped
<1>3. CASE time = <<>>
  <2>1. q \in 1..Len(point) /\ point[q] \notin {Blank, "NUL"} /\ point[q] \notin Digit
        /\ \A k \in (q + 1)..Len(point) : point[k] \in Digit
    BY DEF Shaped
  <2>2. line = point
    BY <1>3
  <2>3. AppendNano(line, precision) = point \o <<Blank>> \o Now
    BY <1>2, <2>1, <2>2, NanoOfNone
  <2>4. Now \in Seq(InTime) /\ Now # <<>>
    <3>1. Now \in Seq(Digit) /\ Now # <<>>
      BY ClockSound DEF Digit
    <3> QED
      BY <1>1, <3>1
  <2> QED
    BY <1>3, <2>2, <2>3, <2>4
<1>4. CASE time # <<>>
  <2>1. line = point \o <<Blank>> \o time
    BY <1>4
  <2>2. line \in Seq(X)
    <3>1. <<Blank>> \in Seq(X) /\ time \in Seq(X)
      BY <1>1, OneCharacter
    <3>2. point \o <<Blank>> \in Seq(X)
      BY <3>1, ConcatProperties
    <3> QED
      BY <2>1, <3>1, <3>2, ConcatProperties
  <2>3. \E text \in Seq(InTime) :
           /\ text # <<>>
           /\ AppendNano(line, precision) = point \o <<Blank>> \o text
           /\ KeepsTime(text, time, precision)
    BY <1>1, <1>2, <1>4, <2>1, NanoOfTime
  <2> QED
    BY <1>4, <2>2, <2>3
<1> QED
  BY <1>3, <1>4

\* A point with a time passes the check and is written under its name.
LEMMA TimedIsWritten ==
    ASSUME NEW X, NEW nano \in Seq(X), NEW name \in Seq(X), NEW e, NEW g, NEW h, NEW q,
           NEW n \in Nat, n + 1 <= Len(nano), Shaped(nano, e, g, h, q, n), Spelt(nano, e, name),
           nano[n + 1] = Blank, \A k \in (n + 2)..Len(nano) : nano[k] # Blank
    PROVE  /\ ScanKey(nano) = [st |-> "ok", key |-> name]
           /\ RapidCheck(SubSeq(nano, Len(name) + 1, Len(nano))) = "ok"
<1>1. /\ e \in Nat \ {0} /\ g \in Nat /\ h \in Nat /\ e < g /\ g < h /\ h + 2 <= n
      /\ nano[e + 1] \in {Blank, Comma} /\ nano[g] = Blank /\ nano[g - 1] # "\\"
      /\ nano[h] # Blank /\ nano[n] # Blank
  BY DEF Shaped, Space
<1>2. PICK m, l \in Nat : m = Len(name) /\ l = Len(nano)
  OBVIOUS
<1>3. m <= e
  BY <1>2 DEF Spelt
<1>4. ScanKey(nano) = [st |-> "ok", key |-> name]
  <2>1. e + 1 <= Len(nano) /\ Len(nano) \in Nat
    BY <1>1, <1>2
  <2> QED
    BY <1>1, <2>1, KeyIsName
<1>5. PICK rest : rest = SubSeq(nano, m + 1, l)
  OBVIOUS
<1>6. /\ rest \in Seq(X) /\ Len(rest) = l - m
      /\ \A k \in 1..(l - m) : rest[k] = nano[m + k]
  <2>1. PICK from \in Nat \ {0} : from = m + 1
    OBVIOUS
  <2>2. /\ SubSeq(nano, from, l) \in Seq(X)
        /\ Len(SubSeq(nano, from, l)) = IF from <= l THEN l - from + 1 ELSE 0
        /\ \A k \in 1..Len(SubSeq(nano, from, l)) : SubSeq(nano, from, l)[k] = nano[from + k - 1]
    BY <1>2, PartType
  <2>3. from <= l /\ l - from + 1 = l - m
    BY <1>1, <1>2, <1>3, <2>1
  <2>4. \A k \in 1..(l - m) : from + k - 1 = m + k
    BY <2>1
  <2> QED
    BY <1>5, <2>1, <2>2, <2>3, <2>4
<1>7. PICK g2, h2, p2 \in 1..(l - m) : g2 = g - m /\ h2 = h - m /\ p2 = n + 1 - m
  <2>1. g - m \in 1..(l - m) /\ h - m \in 1..(l - m) /\ n + 1 - m \in 1..(l - m)
    BY <1>1, <1>2, <1>3
  <2> QED
    BY <2>1
<1>8. /\ rest[g2] = Blank /\ rest[h2] # Blank /\ rest[p2] = Blank /\ rest[p2 - 1] # Blank
  <2>1. m + g2 = g /\ m + h2 = h /\ m + p2 = n + 1 /\ m + (p2 - 1) = n /\ p2 - 1 \in 1..(l - m)
    BY <1>1, <1>3, <1>7
  <2> QED
    BY <1>1, <1>6, <2>1
<1>9. g2 > 1 => rest[g2 - 1] # "\\"
  <2> SUFFICES ASSUME g2 > 1 PROVE rest[g2 - 1] # "\\"
    OBVIOUS
  <2>1. g2 - 1 \in 1..(l - m) /\ m + (g2 - 1) = g - 1
    BY <1>1, <1>7
  <2> QED
    BY <1>1, <1>6, <2>1
<1>10. ASSUME NEW k \in (p2 + 1)..Len(rest) PROVE rest[k] # Blank
  <2>1. k \in 1..(l - m) /\ m + k \in (n + 2)..l
    BY <1>2, <1>3, <1>6, <1>7, <1>1
  <2> QED
    BY <1>2, <1>6, <2>1
<1>11. g2 < h2 /\ h2 + 3 <= p2
  BY <1>1, <1>7
<1>12. RapidCheck(rest) = "ok"
  <2>1. g2 \in 1..Len(rest) /\ h2 \in 1..Len(rest) /\ p2 \in 1..Len(rest)
    BY <1>6, <1>7
  <2>2. rest \in Seq(X)
    BY <1>6
  <2> QED
    BY <1>8, <1>9, <1>10, <1>11, <2>1, <2>2, CheckIsOk
<1> QED
  BY <1>2, <1>4, <1>5, <1>12

\* What follows a point leaves its shape alone.
LEMMA ShapedBefore ==
    ASSUME NEW s, NEW t, NEW e, NEW g, NEW h, NEW q, NEW n, Shaped(s, e, g, h, q, n),
           \A k \in 1..n : t[k] = s[k]
    PROVE  Shaped(t, e, g, h, q, n)
<1>1. 1 \in 1..n /\ n \in 1..n /\ e \in 1..n /\ e + 1 \in 1..n /\ g \in 1..n /\ g - 1 \in 1..n /\ h \in 1..n
  BY DEF Shaped
<1>2. q \in 1..n /\ \A k \in (q + 1)..n : k \in 1..n
  BY DEF Shaped
<1> QED
  BY <1>1, <1>2 DEF Shaped

\* Six texts behind each other.
Texts(X, r, s, t, u, v, w) ==
    r \in Seq(X) /\ s \in Seq(X) /\ t \in Seq(X) /\ u \in Seq(X) /\ v \in Seq(X) /\ w \in Seq(X)

Chain(r, s, t, u, v, w) == r \o s \o t \o u \o v \o w
Nested(s, t, u, v, w) == s \o (t \o (u \o (v \o w)))

LEMMA Regrouped ==
    ASSUME NEW X, NEW r, NEW s, NEW t, NEW u, NEW v, NEW w, Texts(X, r, s, t, u, v, w)
    PROVE  /\ Nested(s, t, u, v, w) \in Seq(X)
           /\ Chain(r, s, t, u, v, w) = r \o Nested(s, t, u, v, w)
<1>1. r \in Seq(X)
  BY DEF Texts
<1>2. s \in Seq(X)
  BY DEF Texts
<1>3. t \in Seq(X)
  BY DEF Texts
<1>4. u \in Seq(X)
  BY DEF Texts
<1>5. v \in Seq(X)
  BY DEF Texts
<1>6. w \in Seq(X)
  BY DEF Texts
<1>7. PICK b5 : b5 = v \o w
  OBVIOUS
<1>8. PICK b4 : b4 = u \o b5
  OBVIOUS
<1>9. PICK b3 : b3 = t \o b4
  OBVIOUS
<1>10. PICK b2 : b2 = s \o b3
  OBVIOUS
<1>11. b5 \in Seq(X)
  BY <1>5, <1>6, <1>7, ConcatProperties
<1>12. b4 \in Seq(X)
  BY <1>4, <1>8, <1>11, ConcatProperties
<1>13. b3 \in Seq(X)
  BY <1>3, <1>9, <1>12, ConcatProperties
<1>14. b2 \in Seq(X)
  BY <1>2, <1>10, <1>13, ConcatProperties
<1>15. PICK a2 : a2 = r \o s
  OBVIOUS
<1>16. PICK a3 : a3 = a2 \o t
  OBVIOUS
<1>17. PICK a4 : a4 = a3 \o u
  OBVIOUS
<1>18. a2 \in Seq(X)
  BY <1>1, <1>2, <1>15, ConcatProperties
<1>19. a3 \in Seq(X)
  BY <1>3, <1>16, <1>18, ConcatProperties
<1>20. a4 \in Seq(X)
  BY <1>4, <1>17, <1>19, ConcatProperties
<1>21. (a4 \o v) \o w = a4 \o b5
  BY <1>5, <1>6, <1>7, <1>20, ConcatAssociative
<1>22. a4 \o b5 = a3 \o b4
  BY <1>4, <1>8, <1>11, <1>17, <1>19, ConcatAssociative
<1>23. a3 \o b4 = a2 \o b3
  BY <1>3, <1>9, <1>12, <1>16, <1>18, ConcatAssociative
<1>24. a2 \o b3 = r \o b2
  BY <1>1, <1>2, <1>10, <1>13, <1>15, ConcatAssociative
<1> QED
  BY <1>7, <1>8, <1>9, <1>10, <1>14, <1>15, <1>16, <1>17, <1>21, <1>22, <1>23, <1>24
     DEF Chain, Nested

\* What follows a point and the blank behind it.
Carries(nano, point, name, text) ==
    /\ ScanKey(nano) = [st |-> "ok", key |-> name]
    /\ RapidCheck(SubSeq(nano, Len(name) + 1, Len(nano))) = "ok"
    /\ SubSeq(nano, 1, Len(point) + 1) = Append(point, Blank)
    /\ SubSeq(nano, Len(point) + 2, Len(nano)) = text

PointIn(X, name, tags, gap, fields, point) ==
    /\ name \in Seq(X) /\ tags \in Seq(X) /\ gap \in Seq(X) /\ fields \in Seq(X)
    /\ IsPoint(name, tags, gap, fields)
    /\ point \in Seq(X) /\ point = PointText(name, tags, gap, fields)

\* A point with a time behind it is routed by its name and keeps both.
LEMMA PointThenTime ==
    ASSUME NEW X, InTime \subseteq X, Blank \in X, "\\" \in X,
           NEW name, NEW tags, NEW gap, NEW fields, NEW point,
           PointIn(X, name, tags, gap, fields, point),
           NEW text \in Seq(InTime), text # <<>>, NEW nano, nano = point \o <<Blank>> \o text
    PROVE  Carries(nano, point, name, text)
<1>18. /\ name \in Seq(X) /\ tags \in Seq(X) /\ gap \in Seq(X) /\ fields \in Seq(X)
       /\ IsPoint(name, tags, gap, fields)
       /\ point \in Seq(X) /\ point = PointText(name, tags, gap, fields)
  BY DEF PointIn
<1> USE <1>18
<1>1. PICK E \in Seq(X) : E = EscapeMeasurement(name)
  BY EscapeIs
<1>2. PICK g, h, q : Shaped(point, Len(E), g, h, q, Len(point))
  BY <1>1, PointIsShaped
<1>3. PICK b \in Seq(X) : b = <<Blank>> /\ Len(b) = 1 /\ b[1] = Blank
  <2>1. <<Blank>> \in Seq(X) /\ Len(<<Blank>>) = 1 /\ <<Blank>>[1] = Blank
    <3>1. <<Blank>> \in Seq(X)
      BY OneCharacter
    <3>2. Len(<<Blank>>) = 1 /\ <<Blank>>[1] = Blank
      OBVIOUS
    <3> QED
      BY <3>1, <3>2
  <2> QED
    BY <2>1
<1>4. PICK front : front = point \o b
  OBVIOUS
<1>5. front \in Seq(X) /\ Both(front, point, b)
  BY <1>4, Joined
<1>6. text \in Seq(X)
  OBVIOUS
<1>7. nano = front \o text
  BY <1>3, <1>4
<1>8. nano \in Seq(X) /\ Both(nano, front, text)
  BY <1>5, <1>6, <1>7, Joined
<1>9. PICK n, l \in Nat : n = Len(point) /\ l = Len(text) /\ l > 0
  <2>1. Len(text) \in Nat \ {0}
    BY EmptySeq
  <2>2. Len(point) \in Nat
    BY <1>5 DEF Both
  <2> QED
    BY <2>1, <2>2
<1>10. Len(front) = n + 1 /\ Len(nano) = n + 1 + l
  BY <1>3, <1>5, <1>8, <1>9 DEF Both
<1>11. nano[n + 1] = Blank /\ \A k \in 1..n : nano[k] = point[k]
  <2>1. front[n + 1] = b[1]
    <3>1. 1 \in 1..Len(b)
      BY <1>3
    <3> QED
      BY <1>5, <1>9, <3>1 DEF Both
  <2>2. \A k \in 1..(n + 1) : nano[k] = front[k]
    BY <1>8, <1>10 DEF Both
  <2>3. \A k \in 1..n : front[k] = point[k] /\ k \in 1..(n + 1)
    BY <1>5, <1>9 DEF Both
  <2>4. n + 1 \in 1..(n + 1)
    OBVIOUS
  <2> QED
    BY <1>3, <2>1, <2>2, <2>3, <2>4
<1>12. ASSUME NEW k \in (n + 2)..Len(nano) PROVE nano[k] # Blank
  <2>1. PICK i \in 1..l : k = (n + 1) + i
    <3>1. k - (n + 1) \in 1..l /\ k = (n + 1) + (k - (n + 1))
      BY <1>10
    <3> QED
      BY <3>1
  <2>2. nano[k] = text[i]
    BY <1>8, <1>9, <1>10, <2>1 DEF Both
  <2>3. text[i] \in InTime
    BY <1>9, <2>1
  <2> QED
    BY <2>2, <2>3, InTimeAre
<1>13. Shaped(nano, Len(E), g, h, q, n)
  BY <1>2, <1>9, <1>11, ShapedBefore
<1>14. Spelt(nano, Len(E), name)
  <2>1. PICK more : more = Nested(tags, gap, fields, b, text)
    OBVIOUS
  <2>2. nano = Chain(E, tags, gap, fields, b, text)
    BY <1>1, <1>4, <1>7 DEF PointText, Chain
  <2>3. Texts(X, E, tags, gap, fields, b, text)
    BY <1>6 DEF Texts
  <2>5. more \in Seq(X)
    BY <2>1, <2>3, Regrouped
  <2>6. nano = E \o more
    <3>1. Chain(E, tags, gap, fields, b, text) = E \o Nested(tags, gap, fields, b, text)
      BY <2>3, Regrouped
    <3>2. Chain(E, tags, gap, fields, b, text) = E \o more
      BY <2>1, <3>1
    <3> HIDE <1>18
    <3> QED
      BY <2>2, <3>2
  <2>7. \A i \in 1..Len(name) : name[i] # "\\"
    BY DEF IsPoint
  <2>8. SpeltBefore(name, more)
    BY <2>5, <2>7, SpeltAll
  <2> QED
    BY <1>1, <2>6, <2>8 DEF SpeltBefore
<1>15. /\ ScanKey(nano) = [st |-> "ok", key |-> name]
       /\ RapidCheck(SubSeq(nano, Len(name) + 1, Len(nano))) = "ok"
  <2>1. n + 1 <= Len(nano)
    BY <1>10
  <2> QED
    BY <1>8, <1>11, <1>12, <1>13, <1>14, <2>1, TimedIsWritten
<1>16. SubSeq(nano, 1, Len(point) + 1) = Append(point, Blank)
  <2>1. 1 \in 1..Len(front) /\ n + 1 \in 1..Len(front)
    BY <1>10
  <2>2. SubSeq(front \o text, 1, n + 1) = SubSeq(front, 1, n + 1)
    BY <1>5, <1>6, <2>1, SubSeqOfConcat1
  <2>3. SubSeq(front, 1, Len(front)) = front
    BY <1>5, SubSeqFull
  <2>4. Append(point, Blank) = point \o <<Blank>>
    BY AppendIsConcat
  <2> QED
    BY <1>3, <1>4, <1>7, <1>9, <1>10, <2>2, <2>3, <2>4
<1>17. SubSeq(nano, Len(point) + 2, Len(nano)) = text
  <2>1. /\ n + 2 \in Len(front) + 1 .. Len(front) + Len(text)
        /\ Len(nano) \in Len(front) + 1 .. Len(front) + Len(text)
        /\ (n + 2) - Len(front) = 1 /\ Len(nano) - Len(front) = Len(text)
    BY <1>9, <1>10
  <2>2. SubSeq(front \o text, n + 2, Len(nano))
            = SubSeq(text, (n + 2) - Len(front), Len(nano) - Len(front))
    <3>1. PICK lo, hi : lo = n + 2 /\ hi = Len(nano)
      OBVIOUS
    <3>2. lo \in Len(front) + 1 .. Len(front) + Len(text) /\ hi \in Len(front) + 1 .. Len(front) + Len(text)
      BY <2>1, <3>1
    <3>3. SubSeq(front \o text, lo, hi) = SubSeq(text, lo - Len(front), hi - Len(front))
      BY <1>5, <1>6, <3>2, SubSeqOfConcat2
    <3> QED
      BY <3>1, <3>3
  <2>3. SubSeq(text, 1, Len(text)) = text
    BY SubSeqFull
  <2> QED
    BY <1>7, <1>9, <2>1, <2>2, <2>3
<1> QED
  BY <1>15, <1>16, <1>17 DEF Carries

\* PointIsKeptCorrect for characters that contain those of a time.
LEMMA PointIsKeptIn ==
    ASSUME NEW X, InTime \subseteq X, Blank \in X, "\\" \in X,
           NEW name \in Seq(X), NEW tags \in Seq(X), NEW gap \in Seq(X), NEW fields \in Seq(X),
           IsPoint(name, tags, gap, fields), NEW time \in Seq(Digit),
           NEW precision \in DOMAIN Zeros \cup DOMAIN Multiplier
    PROVE  PointIsKept(name, tags, gap, fields, time, precision)
<1>4. PICK point : point = PointText(name, tags, gap, fields)
  OBVIOUS
<1>5. point \in Seq(X) /\
      \E g, h, q : Shaped(point, Len(EscapeMeasurement(name)), g, h, q, Len(point))
  BY <1>4, PointIsShaped
<1>6. PICK line : line = IF time = <<>> THEN point ELSE point \o <<Blank>> \o time
  OBVIOUS
<1>7. PICK text \in Seq(InTime) :
         /\ text # <<>>
         /\ AppendNano(line, precision) = point \o <<Blank>> \o text
         /\ IF time = <<>> THEN text = Now ELSE KeepsTime(text, time, precision)
  BY <1>5, <1>6, PointIsTimed
<1>8. PICK nano : nano = AppendNano(line, precision)
  OBVIOUS
<1>9. nano = point \o <<Blank>> \o text
  BY <1>7, <1>8
<1>10. /\ ScanKey(nano) = [st |-> "ok", key |-> name]
       /\ RapidCheck(SubSeq(nano, Len(name) + 1, Len(nano))) = "ok"
       /\ SubSeq(nano, 1, Len(point) + 1) = Append(point, Blank)
       /\ SubSeq(nano, Len(point) + 2, Len(nano)) = text
  <2>1. point \in Seq(X) /\ text # <<>>
    BY <1>5, <1>7
  <2> QED
    <3>1. PointIn(X, name, tags, gap, fields, point)
      BY <1>4, <2>1 DEF PointIn
    <3>2. Carries(nano, point, name, text)
      BY <1>9, <2>1, <3>1, PointThenTime
    <3> QED
      BY <3>2 DEF Carries
<1>11. PICK row : row = WriteRow(line, precision)
  OBVIOUS
<1>12. row = [st |-> "written", meas |-> name, line |-> nano]
  BY <1>8, <1>10, <1>11 DEF WriteRow
<1>13. row.st = "written" /\ row.meas = name /\ row.line = nano
  BY <1>12
<1>14. ASSUME time # <<>>, Number(time) * Factor(precision) < 2^(Width - 1)
       PROVE  /\ \A i \in 1..Len(text) : IsDigit(text[i])
              /\ Number(text) = Number(time) * Factor(precision)
  <2>1. text \in Seq(Digit) /\ Number(text) = Number(time) * Factor(precision)
    BY <1>7, <1>14 DEF KeepsTime, Half
  <2>2. \A i \in 1..Len(text) : text[i] \in Digit
    BY <2>1
  <2> QED
    BY <2>1, <2>2, DigitsAre
<1>15. PICK nanos : nanos = Number(time) * Factor(precision)
  OBVIOUS
<1>16. PointIsKept(name, tags, gap, fields, time, precision) =
         (/\ row.st = "written"
          /\ row.meas = name
          /\ SubSeq(row.line, 1, Len(point) + 1) = Append(point, Blank)
          /\ IF time = <<>> THEN SubSeq(row.line, Len(point) + 2, Len(row.line)) = Now
             ELSE nanos < 2^(Width - 1) =>
                      /\ \A i \in 1..Len(SubSeq(row.line, Len(point) + 2, Len(row.line))) :
                            IsDigit(SubSeq(row.line, Len(point) + 2, Len(row.line))[i])
                      /\ Number(SubSeq(row.line, Len(point) + 2, Len(row.line))) = nanos)
  BY <1>4, <1>6, <1>11, <1>15 DEF PointIsKept
<1>17. SubSeq(row.line, Len(point) + 2, Len(row.line)) = text
  BY <1>10, <1>13
<1> QED
  BY <1>7, <1>10, <1>13, <1>14, <1>15, <1>16, <1>17, Zenon

\* For any point of any characters, any precision and any time: it is written as it came
\* and under its name, and its time in nanoseconds when that fits an int64; without a
\* time it gets the clock's (Proxy.WriteRow, AppendNano, ScanKey, RapidCheck).
THEOREM PointIsKeptCorrect ==
    ASSUME NEW X, NEW name \in Seq(X), NEW tags \in Seq(X), NEW gap \in Seq(X),
           NEW fields \in Seq(X), IsPoint(name, tags, gap, fields), NEW time \in Seq(Digit),
           NEW precision \in DOMAIN Zeros \cup DOMAIN Multiplier
    PROVE  PointIsKept(name, tags, gap, fields, time, precision)
<1>1. PICK Y : Y = X \cup InTime \cup {Blank, "\\"}
  OBVIOUS
<1>2. InTime \subseteq Y /\ Blank \in Y /\ "\\" \in Y /\ X \subseteq Y
  BY <1>1
<1>3. name \in Seq(Y) /\ tags \in Seq(Y) /\ gap \in Seq(Y) /\ fields \in Seq(Y)
  BY <1>2
<1> QED
  BY <1>2, <1>3, PointIsKeptIn

-----------------------------------------------------------------------------
(* A string in quotes. *)

\* What FindEndWithQuote finds from position i on.
Stop(i, st) == [next |-> i, text |-> <<>>, st |-> st]
Prefixed(found, c) == [found EXCEPT !.text = <<c>> \o @]
QuoteStep(scan, data, endchar, i) ==
    IF i > Len(data) THEN Stop(i, "error")
    ELSE IF data[i] = endchar THEN [next |-> i + 1, text |-> <<endchar>>, st |-> "ok"]
    ELSE IF data[i] # "\\" THEN Prefixed(scan[i + 1], data[i])
    ELSE IF i = Len(data) THEN Stop(i, "panic")
    ELSE IF data[i + 1] \in {endchar, "\\"} THEN Prefixed(scan[(i + 1) + 1], data[i + 1])
    ELSE Stop(i, "error")
QuoteScans(scan, data, endchar, D) == scan = [i \in D |-> QuoteStep(scan, data, endchar, i)]

\* It looks ahead only.
LEMMA QuoteStepAhead ==
    ASSUME NEW f, NEW g, NEW data, NEW endchar, NEW i \in Nat, Len(data) \in Nat,
           \A j \in Nat : i < j /\ j <= Len(data) + 1 => f[j] = g[j]
    PROVE  QuoteStep(f, data, endchar, i) = QuoteStep(g, data, endchar, i)
<1>1. CASE i > Len(data)
  BY <1>1 DEF QuoteStep
<1>2. CASE ~(i > Len(data)) /\ i # Len(data)
  <2>1. f[i + 1] = g[i + 1] /\ f[(i + 1) + 1] = g[(i + 1) + 1]
    BY <1>2
  <2> QED
    BY <1>2, <2>1 DEF QuoteStep
<1>3. CASE i = Len(data)
  <2>1. f[i + 1] = g[i + 1]
    BY <1>3
  <2> QED
    BY <1>3, <2>1 DEF QuoteStep
<1> QED
  BY <1>1, <1>2, <1>3

Beyond(m) == {j \in Nat : j >= m}

\* The scan of a quoted text exists for data of any length.
LEMMA QuoteScansExist ==
    ASSUME NEW data, NEW endchar, Len(data) \in Nat
    PROVE  \E scan : QuoteScans(scan, data, endchar, Nat)
<1> DEFINE n == Len(data) + 1
           P(m) == \E scan : QuoteScans(scan, data, endchar, Beyond(n - m))
           S == {m \in 0..n : ~P(m)}
<1>1. S = {}
  <2> SUFFICES ASSUME S # {} PROVE FALSE
    OBVIOUS
  <2>1. PICK m \in S : \A k \in S : m <= k
    <3>1. S \in SUBSET Nat
      OBVIOUS
    <3> QED
      BY <3>1, Least
  <2>2. m \in 0..n /\ ~P(m)
    BY <2>1
  <2>3. m # 0
    <3> SUFFICES P(0)
      BY <2>2
    <3>1. PICK scan : scan = [i \in Beyond(n - 0) |-> Stop(i, "error")]
      OBVIOUS
    <3>2. ASSUME NEW i \in Beyond(n - 0) PROVE QuoteStep(scan, data, endchar, i) = Stop(i, "error")
      <4>1. i > Len(data)
        BY DEF Beyond
      <4> QED
        BY <4>1 DEF QuoteStep
    <3>3. scan = [i \in Beyond(n - 0) |-> QuoteStep(scan, data, endchar, i)]
      BY <3>1, <3>2
    <3> QED
      BY <3>3 DEF QuoteScans
  <2>4. PICK i0 \in Nat : i0 = n - m /\ n - (m - 1) = i0 + 1 /\ i0 < n
    <3>1. n - m \in Nat /\ n - (m - 1) = (n - m) + 1 /\ n - m < n
      BY <2>2, <2>3
    <3> QED
      BY <3>1
  <2>5. P(m - 1)
    <3>1. m - 1 \in 0..n /\ ~(m <= m - 1)
      BY <2>2, <2>3
    <3>2. m - 1 \notin S
      <4> HIDE DEF S
      <4> QED
        BY <2>1, <3>1
    <3> HIDE DEF P
    <3> QED
      BY <3>1, <3>2
  <2>6. PICK f : QuoteScans(f, data, endchar, Beyond(i0 + 1))
    BY <2>4, <2>5
  <2>7. PICK x : x = QuoteStep(f, data, endchar, i0)
    OBVIOUS
  <2>8. PICK g : g = [i \in Beyond(i0) |-> IF i = i0 THEN x ELSE f[i]]
    OBVIOUS
  <2>9. \A j \in Nat : i0 < j => g[j] = f[j]
    BY <2>8 DEF Beyond
  <2>10. ASSUME NEW i \in Beyond(i0) PROVE g[i] = QuoteStep(g, data, endchar, i)
    <3>1. i \in Nat /\ i >= i0
      BY DEF Beyond
    <3>2. QuoteStep(g, data, endchar, i) = QuoteStep(f, data, endchar, i)
      <4>1. \A j \in Nat : i < j /\ j <= Len(data) + 1 => g[j] = f[j]
        BY <2>9, <3>1
      <4> QED
        BY <3>1, <4>1, QuoteStepAhead
    <3>3. CASE i = i0
      BY <2>7, <2>8, <3>2, <3>3
    <3>4. CASE i # i0
      <4>1. i \in Beyond(i0 + 1) /\ i0 < i
        BY <3>1, <3>4 DEF Beyond
      <4>2. f[i] = QuoteStep(f, data, endchar, i)
        BY <2>6, <4>1 DEF QuoteScans
      <4> QED
        BY <2>9, <3>1, <3>2, <4>1, <4>2
    <3> QED
      BY <3>3, <3>4
  <2>11. QuoteScans(g, data, endchar, Beyond(i0))
    <3>1. \E y : g = [i \in Beyond(i0) |-> y[i]]
      <4>1. PICK y : y = [i \in Beyond(i0) |-> IF i = i0 THEN x ELSE f[i]]
        OBVIOUS
      <4>2. g = [i \in Beyond(i0) |-> y[i]]
        BY <2>8, <4>1
      <4> QED
        BY <4>2
    <3>2. g = [i \in Beyond(i0) |-> g[i]]
      BY <3>1
    <3> QED
      BY <2>10, <3>2 DEF QuoteScans
  <2>12. P(m)
    BY <2>4, <2>11
  <2> QED
    BY <2>2, <2>12
<1>2. P(n)
  <2>1. n \in 0..n
    OBVIOUS
  <2> HIDE DEF P, n
  <2> QED
    BY <1>1, <2>1
<1>3. Beyond(n - n) = Nat
  BY DEF Beyond
<1> QED
  BY <1>2, <1>3

\* FindEndWithQuote is the scan behind the opening quote.
LEMMA FindEndIs ==
    ASSUME NEW data, NEW endchar, Len(data) \in Nat, NEW start
    PROVE  \E scan : /\ \A i \in Nat : scan[i] = QuoteStep(scan, data, endchar, i)
                     /\ FindEndWithQuote(data, start, endchar) = Prefixed(scan[start + 1], data[start])
<1> DEFINE F == CHOOSE scan : QuoteScans(scan, data, endchar, Nat)
<1>1. FindEndWithQuote(data, start, endchar) = Prefixed(F[start + 1], data[start])
  BY DEF FindEndWithQuote, QuoteScans, QuoteStep, Stop, Prefixed
<1>2. QuoteScans(F, data, endchar, Nat)
  BY QuoteScansExist
<1> HIDE DEF F
<1>3. \A i \in Nat : F[i] = QuoteStep(F, data, endchar, i)
  BY <1>2 DEF QuoteScans
<1> QED
  BY <1>1, <1>3

\* What is found is a record, and a string that ends ends behind its start.
Found(n, t, s) == [next |-> n, text |-> t, st |-> s]
IsFound(found, i) ==
    \E n, t, s : /\ found = Found(n, t, s) /\ s \in {"ok", "error", "panic"}
                 /\ s = "ok" => n \in Nat /\ i < n

LEMMA PrefixedIs ==
    ASSUME NEW n, NEW t, NEW s, NEW c
    PROVE  Prefixed(Found(n, t, s), c) = Found(n, <<c>> \o t, s)
<1>1. PICK u : u = <<c>> \o t
  OBVIOUS
<1>2. PICK r : r = Found(n, t, s)
  OBVIOUS
<1>3. r = [next |-> n, text |-> t, st |-> s]
  BY <1>2 DEF Found
<1>4. r.text = t
  BY <1>3
<1>5. Prefixed(r, c) = [r EXCEPT !.text = u]
  BY <1>1, <1>4 DEF Prefixed
<1>6. [r EXCEPT !.text = u] = [next |-> n, text |-> u, st |-> s]
  BY <1>3
<1> QED
  BY <1>1, <1>2, <1>5, <1>6 DEF Found

\* A character in front leaves what is found as good.
LEMMA PrefixedFound ==
    ASSUME NEW found, NEW i \in Int, NEW j \in Int, j <= i, IsFound(found, i), NEW c
    PROVE  IsFound(Prefixed(found, c), j)
<1>1. PICK n, t, s : /\ found = Found(n, t, s) /\ s \in {"ok", "error", "panic"}
                     /\ s = "ok" => n \in Nat /\ i < n
  BY DEF IsFound
<1>2. Prefixed(found, c) = Found(n, <<c>> \o t, s)
  BY <1>1, PrefixedIs
<1>3. s = "ok" => n \in Nat /\ j < n
  BY <1>1
<1> QED
  BY <1>1, <1>2, <1>3 DEF IsFound

LEMMA WrongIsFound ==
    ASSUME NEW i, NEW n, NEW t, NEW s, s \in {"error", "panic"}
    PROVE  IsFound(Found(n, t, s), i)
<1>1. s \in {"ok", "error", "panic"} /\ s # "ok"
  OBVIOUS
<1>2. Found(n, t, s) = Found(n, t, s)
  OBVIOUS
<1> QED
  BY <1>1, <1>2, Zenon DEF IsFound

\* The scan of a quoted text goes forward, or ends in an error.
LEMMA ScanFinds ==
    ASSUME NEW data, NEW endchar, Len(data) \in Nat, NEW scan,
           \A i \in Nat : scan[i] = QuoteStep(scan, data, endchar, i), NEW i \in Nat
    PROVE  IsFound(scan[i], i)
<1> DEFINE n == Len(data) + 1
           S == {m \in 0..n : ~IsFound(scan[n - m], n - m)}
<1>1. ASSUME NEW k \in Nat, k > Len(data) PROVE IsFound(scan[k], k)
  <2>1. scan[k] = Found(k, <<>>, "error")
    BY <1>1 DEF QuoteStep, Stop, Found
  <2> QED
    BY <2>1 DEF IsFound
<1>2. S = {}
  <2> SUFFICES ASSUME S # {} PROVE FALSE
    OBVIOUS
  <2>1. PICK m \in S : \A k \in S : m <= k
    <3>1. S \in SUBSET Nat
      OBVIOUS
    <3> QED
      BY <3>1, Least
  <2>2. m \in 0..n /\ ~IsFound(scan[n - m], n - m)
    BY <2>1
  <2>3. PICK k \in Nat : k = n - m
    BY <2>2
  <2>4. k <= Len(data)
    BY <1>1, <2>2, <2>3
  <2>5. ASSUME NEW j \in Nat, k < j, j <= n PROVE IsFound(scan[j], j)
    <3>1. n - j \in 0..n /\ ~(m <= n - j) /\ n - (n - j) = j
      BY <2>2, <2>3, <2>5
    <3>2. n - j \notin S
      <4> HIDE DEF S
      <4> QED
        BY <2>1, <3>1
    <3> QED
      BY <3>1, <3>2
  <2>6. scan[k] = QuoteStep(scan, data, endchar, k)
    OBVIOUS
  <2>7. CASE data[k] = endchar
    <3>1. scan[k] = Found(k + 1, <<endchar>>, "ok")
      BY <2>4, <2>6, <2>7 DEF QuoteStep, Found
    <3>2. k + 1 \in Nat /\ k < k + 1
      OBVIOUS
    <3>3. IsFound(scan[k], k)
      BY <3>1, <3>2 DEF IsFound
    <3> QED
      BY <2>2, <2>3, <3>3
  <2>8. CASE data[k] # endchar /\ data[k] # "\\"
    <3>1. scan[k] = Prefixed(scan[k + 1], data[k])
      BY <2>4, <2>6, <2>8 DEF QuoteStep
    <3>2. IsFound(scan[k + 1], k + 1)
      BY <2>4, <2>5
    <3>3. IsFound(scan[k], k)
      BY <3>1, <3>2, PrefixedFound
    <3> QED
      BY <2>2, <2>3, <3>3
  <2>9. CASE data[k] # endchar /\ data[k] = "\\" /\ k # Len(data)
    <3>1. scan[k] = Prefixed(scan[(k + 1) + 1], data[k + 1]) \/ scan[k] = Found(k, <<>>, "error")
      BY <2>4, <2>6, <2>9 DEF QuoteStep, Stop, Found
    <3>2. IsFound(scan[(k + 1) + 1], (k + 1) + 1)
      BY <2>4, <2>5, <2>9
    <3>3. IsFound(Prefixed(scan[(k + 1) + 1], data[k + 1]), k)
      BY <3>2, PrefixedFound
    <3>4. IsFound(Found(k, <<>>, "error"), k)
      BY WrongIsFound
    <3> QED
      BY <2>2, <2>3, <3>1, <3>3, <3>4
  <2>10. CASE data[k] # endchar /\ data[k] = "\\" /\ k = Len(data)
    <3>1. scan[k] = Found(k, <<>>, "panic")
      BY <2>4, <2>6, <2>10 DEF QuoteStep, Stop, Found
    <3>2. IsFound(scan[k], k)
      BY <3>1 DEF IsFound
    <3> QED
      BY <2>2, <2>3, <3>2
  <2> QED
    BY <2>7, <2>8, <2>9, <2>10
<1>3. CASE i > Len(data)
  BY <1>1, <1>3
<1>4. CASE ~(i > Len(data))
  <2>1. n - i \in 0..n /\ n - (n - i) = i
    BY <1>4
  <2>2. n - i \notin S
    BY <1>2
  <2> QED
    BY <2>1, <2>2
<1> QED
  BY <1>3, <1>4

\* FindEndWithQuote goes forward, or ends in an error.
LEMMA FindEndFinds ==
    ASSUME NEW data, NEW endchar, Len(data) \in Nat, NEW start \in Nat
    PROVE  IsFound(FindEndWithQuote(data, start, endchar), start)
<1>1. PICK scan : /\ \A i \in Nat : scan[i] = QuoteStep(scan, data, endchar, i)
                  /\ FindEndWithQuote(data, start, endchar) = Prefixed(scan[start + 1], data[start])
  BY FindEndIs
<1>2. IsFound(scan[start + 1], start + 1)
  <2>1. start + 1 \in Nat
    OBVIOUS
  <2> QED
    BY <1>1, <2>1, ScanFinds
<1>3. PICK f, c : f = scan[start + 1] /\ c = data[start]
  OBVIOUS
<1>4. IsFound(Prefixed(f, c), start)
  <2>1. start \in Int /\ start + 1 \in Int /\ start <= start + 1
    OBVIOUS
  <2> QED
    BY <1>2, <1>3, <2>1, PrefixedFound
<1> QED
  BY <1>1, <1>3, <1>4

\* What is in quotes is read back.
InQuote(c) == IF c \in {Quote, "\\"} THEN <<"\\", c>> ELSE <<c>>
AllQuoted(name) == [i \in 1..Len(name) |-> InQuote(name[i])]
Inside(name) == FlattenSeq(AllQuoted(name))

\* A quoted name is its characters in quotes, each escaped or not.
LEMMA InsideIs ==
    ASSUME NEW X, "\\" \in X, NEW s \in Seq(X)
    PROVE  /\ AllQuoted(s) \in Seq(Seq(X)) /\ Len(AllQuoted(s)) = Len(s)
           /\ Inside(s) \in Seq(X)
           /\ s = <<>> => Inside(s) = <<>>
           /\ Quoted(s) = <<Quote>> \o Inside(s) \o <<Quote>>
<1>1. PICK n \in Nat : n = Len(s)
  OBVIOUS
<1>2. PICK u : u = AllQuoted(s)
  OBVIOUS
<1>3. ASSUME NEW i \in 1..n PROVE InQuote(s[i]) \in Seq(X)
  <2>1. s[i] \in X
    BY <1>1
  <2>2. <<"\\", s[i]>> \in Seq(X) /\ <<s[i]>> \in Seq(X)
    BY <2>1
  <2> QED
    BY <2>2 DEF InQuote
<1>4. u \in [1..n -> Seq(X)]
  BY <1>1, <1>2, <1>3 DEF AllQuoted
<1>5. u \in Seq(Seq(X)) /\ Len(u) = n
  BY <1>4
<1>6. Inside(s) = FlattenSeq(u)
  BY <1>2 DEF Inside
<1>7. FlattenSeq(u) \in Seq(X)
  BY <1>5, FlattenType
<1>8. ASSUME s = <<>> PROVE FlattenSeq(u) = <<>>
  <2>1. u = <<>>
    BY <1>1, <1>5, <1>8
  <2> QED
    BY <2>1 DEF FlattenSeq
<1>9. Quoted(s) = <<Quote>> \o Inside(s) \o <<Quote>>
  BY DEF Quoted, Inside, AllQuoted, InQuote
<1> QED
  BY <1>1, <1>2, <1>5, <1>6, <1>7, <1>8, <1>9

IsOne(s, c) == s = <<c>>

\* Texts behind each other.
Behind(u, s, t) == u = s \o t

\* A name in quotes is escaped character by character.
LEMMA InsideCons ==
    ASSUME NEW X, "\\" \in X, NEW c \in X, NEW s \in Seq(X),
           NEW one, IsOne(one, c), NEW t, Behind(t, one, s)
    PROVE  InQuote(c) \in Seq(X) /\ Behind(Inside(t), InQuote(c), Inside(s))
<1>1. InQuote(c) \in Seq(X)
  BY DEF InQuote
<1>3. one \in Seq(X) /\ Len(one) = 1 /\ one[1] = c
  BY DEF IsOne
<1>4. t \in Seq(X) /\ Both(t, one, s)
  <2>1. t = one \o s
    BY DEF Behind
  <2> QED
    BY <1>3, <2>1, Joined
<1>5. PICK u, v, q : u = AllQuoted(s) /\ v = AllQuoted(t) /\ q = <<InQuote(c)>>
  OBVIOUS
<1>6. q \in Seq(Seq(X)) /\ Len(q) = 1 /\ q[1] = InQuote(c)
  BY <1>1, <1>5
<1>7. PICK n \in Nat : n = Len(s)
  OBVIOUS
<1>8. u \in Seq(Seq(X)) /\ Len(u) = n
  BY <1>5, <1>7, InsideIs
<1>9. v \in Seq(Seq(X)) /\ Len(v) = n + 1
  <2>1. Len(t) = n + 1
    BY <1>3, <1>4, <1>7 DEF Both
  <2> QED
    BY <1>4, <1>5, <2>1, InsideIs
<1>10. PICK w : w = q \o u
  OBVIOUS
<1>11. w \in Seq(Seq(X)) /\ Both(w, q, u)
  BY <1>6, <1>8, <1>10, Joined
<1>12. \A i \in 1..(n + 1) : v[i] = w[i]
  <2> TAKE i \in 1..(n + 1)
  <2>1. v[i] = InQuote(t[i])
    BY <1>3, <1>4, <1>5, <1>7 DEF AllQuoted, Both
  <2>2. CASE i = 1
    <3>1. t[1] = c /\ w[1] = InQuote(c)
      BY <1>3, <1>4, <1>6, <1>11 DEF Both
    <3> QED
      BY <2>1, <2>2, <3>1
  <2>3. CASE i # 1
    <3>1. PICK k \in 1..n : i = 1 + k
      <4>1. i - 1 \in 1..n /\ i = 1 + (i - 1)
        BY <2>3
      <4> QED
        BY <4>1
    <3>2. t[i] = s[k] /\ w[i] = u[k]
      BY <1>3, <1>4, <1>6, <1>7, <1>8, <1>11, <3>1 DEF Both
    <3>3. u[k] = InQuote(s[k])
      BY <1>5, <1>7 DEF AllQuoted
    <3> QED
      BY <2>1, <3>2, <3>3
  <2> QED
    BY <2>2, <2>3
<1>13. v = w
  <2>1. Len(w) = n + 1
    BY <1>6, <1>8, <1>11 DEF Both
  <2> QED
    BY <1>9, <1>11, <1>12, <2>1, SeqEqual
<1>14. FlattenSeq(w) = FlattenSeq(q) \o FlattenSeq(u)
  BY <1>6, <1>8, <1>10, FlattenConcat
<1>15. FlattenSeq(q) = InQuote(c)
  BY <1>1, <1>5, FlattenOne
<1> QED
  BY <1>1, <1>5, <1>13, <1>14, <1>15 DEF Inside, Behind

-----------------------------------------------------------------------------
LEMMA QuoteIsNone == Quote # "\\" /\ Blank # "\\" /\ Quote # Blank
  BY Zenon DEF Quote, Blank

\* Putting texts together is associative.
LEMMA Grouped ==
    ASSUME NEW X, NEW r \in Seq(X), NEW s \in Seq(X), NEW t \in Seq(X),
           NEW u, Behind(u, s, t), NEW v, Behind(v, r, s), NEW w
    PROVE  Behind(w, v, t) <=> Behind(w, r, u)
<1>1. (r \o s) \o t = r \o (s \o t)
  BY ConcatAssociative
<1> QED
  BY <1>1 DEF Behind

LEMMA JoinedIs ==
    ASSUME NEW X, NEW s \in Seq(X), NEW t \in Seq(X), NEW u, Behind(u, s, t)
    PROVE  u \in Seq(X) /\ Both(u, s, t)
  BY Joined DEF Behind

LEMMA Regrouping ==
    ASSUME NEW X, NEW pre \in Seq(X), NEW q \in Seq(X), NEW a \in Seq(X), NEW e \in Seq(X),
           NEW f, Behind(f, q, a), NEW g, Behind(g, f, e), NEW b, Behind(b, a, e),
           NEW w, Behind(w, pre, q), NEW data, Behind(data, pre, g)
    PROVE  Behind(data, w, b)
<1>1. b \in Seq(X)
  BY JoinedIs
<1>2. Behind(g, q, b)
  BY Grouped
<1> QED
  BY <1>1, <1>2, Grouped

LEMMA PrefixedOne ==
    ASSUME NEW n, NEW x, NEW s, NEW c, NEW one, IsOne(one, c), NEW y, Behind(y, one, x)
    PROVE  Prefixed(Found(n, x, s), c) = Found(n, y, s)
<1>1. y = <<c>> \o x
  BY DEF Behind, IsOne
<1> QED
  BY <1>1, PrefixedIs

\* From behind any beginning, what is written in quotes is found as it was.
ReadsOn(X, scan, data, e, u) ==
    \A pre, g, r : /\ pre \in Seq(X) /\ Behind(g, Inside(u), e)
                   /\ Behind(data, pre, g) /\ Behind(r, u, e)
                   => scan[Len(pre) + 1] = Found(Len(data) + 1, r, "ok")

\* At the closing quote the scan is done.
LEMMA ReadsNone ==
    ASSUME NEW X, "\\" \in X, Quote \in X, NEW data, NEW scan, NEW e, IsOne(e, Quote),
           \A i \in Nat : scan[i] = QuoteStep(scan, data, Quote, i)
    PROVE  ReadsOn(X, scan, data, e, <<>>)
<1> SUFFICES ASSUME NEW pre \in Seq(X), NEW g, NEW r, Behind(g, Inside(<<>>), e),
                    Behind(data, pre, g), Behind(r, <<>>, e)
             PROVE  scan[Len(pre) + 1] = Found(Len(data) + 1, r, "ok")
  BY DEF ReadsOn
<1>1. e \in Seq(X) /\ Len(e) = 1 /\ e[1] = Quote /\ <<>> \o e = e
  BY DEF IsOne
<1>2. Inside(<<>>) = <<>>
  <2>1. <<>> \in Seq(X)
    OBVIOUS
  <2> QED
    BY <2>1, InsideIs
<1>3. g = e /\ r = e
  BY <1>1, <1>2 DEF Behind
<1>4. Both(data, pre, e)
  BY <1>1, <1>3, JoinedIs
<1>5. PICK n \in Nat : n = Len(pre)
  OBVIOUS
<1>6. Len(data) = n + 1 /\ data[n + 1] = Quote
  BY <1>1, <1>4, <1>5 DEF Both
<1>7. scan[n + 1] = QuoteStep(scan, data, Quote, n + 1)
  <2>1. n + 1 \in Nat
    OBVIOUS
  <2> QED
    BY <2>1
<1>8. QuoteStep(scan, data, Quote, n + 1) = Found((n + 1) + 1, e, "ok")
  <2>1. ~(n + 1 > Len(data))
    BY <1>6
  <2> QED
    BY <1>6, <2>1 DEF QuoteStep, Found, IsOne
<1> QED
  BY <1>3, <1>5, <1>6, <1>7, <1>8

\* One symbol written in quotes.
LEMMA ReadsOneOf ==
    ASSUME NEW data, NEW scan, \A i \in Nat : scan[i] = QuoteStep(scan, data, Quote, i), NEW c,
           NEW q, q = InQuote(c), NEW pre, NEW w, Both(w, pre, q), NEW b, Both(data, w, b),
           Len(b) >= 1
    PROVE  scan[Len(pre) + 1] = Prefixed(scan[Len(w) + 1], c)
<1>1. PICK i \in Nat : i = Len(pre) + 1
  BY DEF Both
<1>2. scan[i] = QuoteStep(scan, data, Quote, i)
  OBVIOUS
<1>3. CASE c \in {Quote, "\\"}
  <2>1. Len(q) = 2 /\ q[1] = "\\" /\ q[2] = c
    BY <1>3 DEF InQuote
  <2>2. /\ Len(w) + 1 = (i + 1) + 1 /\ data[i] = "\\" /\ data[i + 1] = c
        /\ i + 1 < Len(data) /\ Len(data) \in Nat
    <3>1. Len(w) = i + 1 /\ w[i] = "\\" /\ w[i + 1] = c
      BY <1>1, <2>1 DEF Both
    <3>2. data[i] = "\\" /\ data[i + 1] = c
      <4>1. i \in 1..Len(w) /\ i + 1 \in 1..Len(w)
        BY <1>1, <3>1
      <4> QED
        BY <3>1, <4>1 DEF Both
    <3> QED
      BY <1>1, <3>1, <3>2 DEF Both
  <2>3. QuoteStep(scan, data, Quote, i) = Prefixed(scan[(i + 1) + 1], c)
    <3>1. ~(i > Len(data)) /\ i # Len(data)
      BY <2>2
    <3> QED
      BY <1>3, <2>2, <3>1, QuoteIsNone DEF QuoteStep
  <2> QED
    BY <1>1, <1>2, <2>2, <2>3
<1>4. CASE c \notin {Quote, "\\"}
  <2>1. Len(q) = 1 /\ q[1] = c
    BY <1>4 DEF InQuote
  <2>2. /\ Len(w) + 1 = i + 1 /\ data[i] = c /\ i < Len(data) /\ Len(data) \in Nat
    <3>1. Len(w) = i /\ w[i] = c
      BY <1>1, <2>1 DEF Both
    <3>2. data[i] = c
      <4>1. i \in 1..Len(w)
        BY <1>1, <3>1
      <4> QED
        BY <3>1, <4>1 DEF Both
    <3> QED
      BY <1>1, <3>1, <3>2 DEF Both
  <2>3. QuoteStep(scan, data, Quote, i) = Prefixed(scan[i + 1], c)
    <3>1. ~(i > Len(data))
      BY <2>2
    <3> QED
      BY <1>4, <2>2, <3>1 DEF QuoteStep
  <2> QED
    BY <1>1, <1>2, <2>2, <2>3
<1> QED
  BY <1>3, <1>4

\* A scan that reads the rest of a name reads one character more.
LEMMA ReadsNext ==
    ASSUME NEW X, "\\" \in X, Quote \in X, NEW data, NEW scan, NEW e, IsOne(e, Quote),
           \A i \in Nat : scan[i] = QuoteStep(scan, data, Quote, i),
           NEW c \in X, NEW s \in Seq(X), ReadsOn(X, scan, data, e, s),
           NEW one, IsOne(one, c), NEW t, Behind(t, one, s)
    PROVE  ReadsOn(X, scan, data, e, t)
<1> SUFFICES ASSUME NEW pre \in Seq(X), NEW g, NEW r, Behind(g, Inside(t), e),
                    Behind(data, pre, g), Behind(r, t, e)
             PROVE  scan[Len(pre) + 1] = Found(Len(data) + 1, r, "ok")
  BY DEF ReadsOn
<1>1. PICK q, a, f : q = InQuote(c) /\ a = Inside(s) /\ f = Inside(t)
  OBVIOUS
<1>2. e \in Seq(X) /\ Len(e) = 1 /\ one \in Seq(X)
  BY DEF IsOne
<1>3. a \in Seq(X)
  BY <1>1, InsideIs
<1>4. q \in Seq(X) /\ Behind(f, q, a)
  BY <1>1, InsideCons
<1>5. PICK b, w, x : Behind(b, a, e) /\ Behind(w, pre, q) /\ Behind(x, s, e)
  BY DEF Behind
<1>6. Behind(data, w, b)
  <2>1. Behind(g, f, e)
    BY <1>1
  <2> QED
    BY <1>2, <1>3, <1>4, <1>5, <2>1, Regrouping
<1>7. w \in Seq(X) /\ Both(w, pre, q) /\ b \in Seq(X) /\ Both(b, a, e)
  BY <1>2, <1>3, <1>4, <1>5, JoinedIs
<1>8. Both(data, w, b)
  BY <1>6, <1>7, JoinedIs
<1>9. scan[Len(w) + 1] = Found(Len(data) + 1, x, "ok")
  BY <1>1, <1>5, <1>6, <1>7 DEF ReadsOn
<1>10. Len(b) >= 1
  BY <1>2, <1>7 DEF Both
<1>11. scan[Len(pre) + 1] = Prefixed(scan[Len(w) + 1], c)
  BY <1>1, <1>7, <1>8, <1>10, ReadsOneOf
<1>12. Behind(r, one, x)
  BY <1>2, <1>5, Grouped
<1> QED
  BY <1>9, <1>11, <1>12, PrefixedOne

\* The scan reads a name to its closing quote.
LEMMA ReadsAll ==
    ASSUME NEW X, "\\" \in X, Quote \in X, NEW data, NEW scan, NEW e, IsOne(e, Quote),
           \A i \in Nat : scan[i] = QuoteStep(scan, data, Quote, i), NEW name \in Seq(X)
    PROVE  ReadsOn(X, scan, data, e, name)
<1> DEFINE N == Len(name)
           Rest(n) == SubSeq(name, (N - n) + 1, N)
           S == {n \in 0..N : ~ReadsOn(X, scan, data, e, Rest(n))}
<1>1. N \in Nat
  OBVIOUS
<1>2. S = {}
  <2> SUFFICES ASSUME S # {} PROVE FALSE
    OBVIOUS
  <2>1. PICK n \in S : \A j \in S : n <= j
    <3>1. S \in SUBSET Nat
      OBVIOUS
    <3> QED
      BY <3>1, Least
  <2>2. n \in 0..N /\ ~ReadsOn(X, scan, data, e, Rest(n))
    BY <2>1
  <2>3. CASE n = 0
    <3>1. Rest(n) = <<>>
      <4>1. (N - n) + 1 > N
        BY <1>1, <2>3
      <4> QED
        BY <1>1, <4>1, SubSeqEmpty
    <3>2. ReadsOn(X, scan, data, e, <<>>)
      BY ReadsNone
    <3> QED
      BY <2>2, <3>1, <3>2
  <2>4. CASE n # 0
    <3>1. n - 1 \in 0..N /\ n - 1 \notin S
      <4>1. n - 1 \in 0..N /\ ~(n <= n - 1)
        BY <1>1, <2>2, <2>4
      <4> HIDE DEF S
      <4> QED
        BY <2>1, <4>1
    <3>2. ReadsOn(X, scan, data, e, Rest(n - 1))
      BY <3>1
    <3>3. PICK k \in 1..N : k = (N - n) + 1 /\ (N - (n - 1)) + 1 = k + 1
      <4>1. (N - n) + 1 \in 1..N /\ (N - (n - 1)) + 1 = ((N - n) + 1) + 1
        BY <1>1, <2>2, <2>4
      <4> QED
        BY <4>1
    <3>4. PICK s : s = SubSeq(name, k + 1, N)
      OBVIOUS
    <3>5. s \in Seq(X)
      <4>1. k + 1 \in Nat \ {0} /\ N <= Len(name)
        BY <1>1
      <4> QED
        BY <1>1, <3>4, <4>1, PartType
    <3>6. name[k] \in X
      OBVIOUS
    <3>7. Rest(n) = <<name[k]>> \o s
      <4>1. 1 <= k /\ k <= N /\ k \in 1..Len(name) /\ N \in 1..Len(name)
        BY <1>1
      <4> QED
        BY <3>3, <3>4, <4>1, SubSeqRecursiveFirst
    <3>8. ReadsOn(X, scan, data, e, s)
      BY <3>2, <3>3, <3>4
    <3>9. PICK c, one, t : c = name[k] /\ one = <<c>> /\ t = Rest(n)
      OBVIOUS
    <3> HIDE DEF Rest, N
    <3>10. c \in X /\ Behind(t, one, s) /\ IsOne(one, c)
      BY <3>6, <3>7, <3>9 DEF Behind, IsOne, IsOne
    <3>11. ReadsOn(X, scan, data, e, t)
      BY <3>5, <3>8, <3>9, <3>10, ReadsNext
    <3> QED
      BY <2>2, <3>9, <3>11
  <2> QED
    BY <2>3, <2>4
<1>3. ReadsOn(X, scan, data, e, Rest(N))
  <2>1. N \in 0..N
    BY <1>1
  <2> QED
    BY <1>2, <2>1
<1>4. Rest(N) = name
  <2>1. (N - N) + 1 = 1
    BY <1>1
  <2> QED
    BY <2>1, SubSeqFull
<1> QED
  BY <1>3, <1>4

\* A name in quotes at the end of a text is one token.
IsRead(X, data, pre, name) ==
    /\ Quoted(name) \in Seq(X) /\ data \in Seq(X) /\ data[Len(pre) + 1] = Quote
    /\ data[Len(data)] = Quote /\ Len(pre) + 2 <= Len(data)
    /\ FindEndWithQuote(data, Len(pre) + 1, Quote) =
           Found(Len(data) + 1, <<Quote>> \o (name \o <<Quote>>), "ok")

\* FindEndWithQuote gives back a name in quotes, wherever it stands.
LEMMA QuotedIsRead ==
    ASSUME NEW X, "\\" \in X, Quote \in X, NEW name \in Seq(X), NEW pre \in Seq(X),
           NEW data, Behind(data, pre, Quoted(name))
    PROVE  IsRead(X, data, pre, name)
<1>1. PICK q, a, e, z : q = Quoted(name) /\ IsOne(e, Quote) /\ a = Inside(name) /\ z = <<Quote>> \o (name \o <<Quote>>)
  BY DEF IsOne
<1>2. e \in Seq(X) /\ Len(e) = 1 /\ e[1] = Quote
  BY <1>1 DEF IsOne
<1>3. a \in Seq(X) /\ q = e \o a \o e
  BY <1>1, InsideIs DEF IsOne
<1>4. PICK b, v, w, r : /\ Behind(b, a, e) /\ Behind(v, e, a) /\ Behind(w, pre, e)
                        /\ Behind(r, name, e)
  BY DEF Behind
<1>5. Behind(q, v, e) /\ Behind(data, pre, q) /\ Behind(z, e, r)
  BY <1>1, <1>3, <1>4 DEF Behind, IsOne
<1>6. b \in Seq(X) /\ Both(b, a, e) /\ v \in Seq(X) /\ w \in Seq(X) /\ Both(w, pre, e)
  BY <1>2, <1>3, <1>4, JoinedIs
<1>7. Behind(q, e, b)
  BY <1>2, <1>3, <1>4, <1>5, <1>6, Grouped
<1>8. q \in Seq(X) /\ Both(q, e, b)
  BY <1>2, <1>6, <1>7, JoinedIs
<1>9. data \in Seq(X) /\ Both(data, pre, q)
  BY <1>5, <1>8, JoinedIs
<1>10. Behind(data, w, b)
  BY <1>2, <1>4, <1>5, <1>6, <1>7, Grouped
<1>11. PICK start \in Nat : start = Len(pre) + 1
  OBVIOUS
<1>12. PICK d : d = data
  OBVIOUS
<1>13. PICK scan : /\ \A i \in Nat : scan[i] = QuoteStep(scan, d, Quote, i)
                   /\ FindEndWithQuote(d, start, Quote) = Prefixed(scan[start + 1], d[start])
  <2>1. Len(d) \in Nat
    BY <1>9, <1>12
  <2> QED
    BY <2>1, FindEndIs
<1>14. ReadsOn(X, scan, d, e, name)
  BY <1>1, <1>13, ReadsAll
<1>15. scan[Len(w) + 1] = Found(Len(d) + 1, r, "ok")
  BY <1>1, <1>4, <1>6, <1>10, <1>12, <1>14 DEF ReadsOn
<1>16. Len(w) = start
  BY <1>2, <1>6, <1>11 DEF Both
<1>17. d[start] = Quote
  <2>1. q[1] = Quote /\ Len(q) \in Nat /\ Len(q) >= 1
    BY <1>2, <1>8 DEF Both
  <2>2. 1 \in 1..Len(q)
    BY <2>1
  <2> QED
    BY <1>9, <1>11, <1>12, <2>1, <2>2 DEF Both
<1>18. d[Len(d)] = Quote /\ Len(pre) + 2 <= Len(d)
  <2>1. Len(b) \in 1..Len(b) /\ b[Len(b)] = Quote
    BY <1>2, <1>6 DEF Both
  <2>2. Len(q) = 1 + Len(b) /\ q[Len(q)] = Quote /\ Len(q) \in 1..Len(q) /\ Len(q) >= 2
    BY <1>2, <1>8, <2>1 DEF Both
  <2>3. Len(d) = Len(pre) + Len(q) /\ Len(pre) \in Nat
    BY <1>9, <1>12 DEF Both
  <2>4. d[Len(pre) + Len(q)] = q[Len(q)]
    BY <1>9, <1>12, <2>2 DEF Both
  <2> QED
    BY <2>2, <2>3, <2>4
<1>19. Prefixed(Found(Len(d) + 1, r, "ok"), Quote) = Found(Len(d) + 1, z, "ok")
  <2>1. \A n : Prefixed(Found(n, r, "ok"), Quote) = Found(n, z, "ok")
    BY <1>1, <1>5, PrefixedOne
  <2> QED
    BY <2>1
<1> QED
  BY <1>1, <1>8, <1>9, <1>11, <1>12, <1>13, <1>15, <1>16, <1>17, <1>18, <1>19 DEF IsRead

-----------------------------------------------------------------------------
(* One token. *)

Special == {Blank, Quote, "'", "(", "[", "{", Comma, "."}

TokenTo(data, start, ends) ==
    LET end == FirstOf(ends, 0)
    IN  Found(end + 1, SubSeq(data, start, end), IF end = 0 THEN "error" ELSE "ok")
Counted(data, start, c, i) == Cardinality({j \in start..i : data[j] = c})
Balanced(data, start) ==
    {i \in start..Len(data) : Counted(data, start, "(", i) = Counted(data, start, ")", i)}
Bracket(data, start) == {i \in start..Len(data) : data[i] = "]"}
WordEnd(data, start) ==
    {FirstOf({i \in start..Len(data) : data[i] \in {Blank, ".", Quote}}, Len(data) + 1) - 1}

LEMMA TokenIs ==
    ASSUME NEW data, NEW start
    PROVE  ScanToken(data, start) =
             CASE data[start] \in {Quote, "'"} -> FindEndWithQuote(data, start, data[start])
               [] data[start] = "(" -> TokenTo(data, start, Balanced(data, start))
               [] data[start] = "[" -> TokenTo(data, start, Bracket(data, start))
               [] data[start] = "{" -> TokenTo(data, start, Bracket(data, start))
               [] data[start] \in {Comma, "."} -> TokenTo(data, start, {start})
               [] OTHER -> TokenTo(data, start, WordEnd(data, start))
  BY DEF ScanToken, TokenTo, Found, Balanced, Bracket, WordEnd, Counted

\* TokenTo goes forward, or ends in an error.
LEMMA TokenToFinds ==
    ASSUME NEW data, NEW start \in Nat \ {0}, NEW ends \in SUBSET Nat, \A i \in ends : start <= i
    PROVE  IsFound(TokenTo(data, start, ends), start)
<1>1. PICK end : end = FirstOf(ends, 0)
  OBVIOUS
<1>2. PICK text : text = SubSeq(data, start, end)
  OBVIOUS
<1>3. TokenTo(data, start, ends) = Found(end + 1, text, IF end = 0 THEN "error" ELSE "ok")
  BY <1>1, <1>2 DEF TokenTo
<1>4. CASE ends = {}
  <2>1. end = 0
    BY <1>1, <1>4 DEF FirstOf
  <2>2. TokenTo(data, start, ends) = Found(end + 1, text, "error")
    BY <1>3, <2>1
  <2> QED
    BY <2>2, WrongIsFound
<1>5. CASE ends # {}
  <2>1. end \in ends
    BY <1>1, <1>5, FirstOfIs
  <2>2. end \in Nat /\ start <= end
    BY <2>1
  <2>3. TokenTo(data, start, ends) = Found(end + 1, text, "ok")
    BY <1>3, <2>2
  <2>4. end + 1 \in Nat /\ start < end + 1
    BY <2>2
  <2> QED
    BY <2>3, <2>4 DEF IsFound
<1> QED
  BY <1>4, <1>5

\* A token that is found ends behind its start.
LEMMA TokenFinds ==
    ASSUME NEW data, Len(data) \in Nat, NEW start \in 1..Len(data), data[start] # Blank
    PROVE  IsFound(ScanToken(data, start), start)
<1>1. start \in Nat \ {0}
  OBVIOUS
<1>2. IsFound(FindEndWithQuote(data, start, data[start]), start)
  BY FindEndFinds
<1>3. IsFound(TokenTo(data, start, Balanced(data, start)), start)
  <2>1. Balanced(data, start) \in SUBSET Nat /\ \A i \in Balanced(data, start) : start <= i
    BY DEF Balanced
  <2> HIDE DEF Balanced
  <2> QED
    BY <1>1, <2>1, TokenToFinds
<1>4. IsFound(TokenTo(data, start, Bracket(data, start)), start)
  <2>1. Bracket(data, start) \in SUBSET Nat /\ \A i \in Bracket(data, start) : start <= i
    BY DEF Bracket
  <2> QED
    BY <1>1, <2>1, TokenToFinds
<1>5. IsFound(TokenTo(data, start, {start}), start)
  <2>1. {start} \in SUBSET Nat /\ \A i \in {start} : start <= i
    OBVIOUS
  <2> QED
    BY <1>1, <2>1, TokenToFinds
<1>6. ASSUME data[start] \notin {".", Quote} PROVE IsFound(TokenTo(data, start, WordEnd(data, start)), start)
  <2>1. PICK S : S = {i \in start..Len(data) : data[i] \in {Blank, ".", Quote}}
    OBVIOUS
  <2>2. S \in SUBSET Nat /\ \A i \in S : start < i
    <3>1. start \notin S
      BY <1>6, <2>1
    <3>2. \A i \in S : i \in start..Len(data)
      BY <2>1
    <3> QED
      BY <3>1, <3>2
  <2>3. PICK e : e = FirstOf(S, Len(data) + 1)
    OBVIOUS
  <2>4. e \in Nat /\ start < e
    <3>1. CASE S = {}
      BY <2>3, <3>1 DEF FirstOf
    <3>2. CASE S # {}
      BY <2>2, <2>3, <3>2, FirstOfIs
    <3> QED
      BY <3>1, <3>2
  <2>5. WordEnd(data, start) = {e - 1}
    BY <2>1, <2>3 DEF WordEnd
  <2>6. {e - 1} \in SUBSET Nat /\ \A i \in {e - 1} : start <= i
    BY <1>1, <2>4
  <2> QED
    BY <1>1, <2>5, <2>6, TokenToFinds
<1>7. PICK c, t, t1, t2, t3, t4, t5 :
         /\ c = data[start] /\ t = ScanToken(data, start)
         /\ t1 = FindEndWithQuote(data, start, c)
         /\ t2 = TokenTo(data, start, Balanced(data, start))
         /\ t3 = TokenTo(data, start, Bracket(data, start))
         /\ t4 = TokenTo(data, start, {start})
         /\ t5 = TokenTo(data, start, WordEnd(data, start))
  OBVIOUS
<1>8. t = CASE c \in {Quote, "'"} -> t1 [] c = "(" -> t2 [] c = "[" -> t3 [] c = "{" -> t3
            [] c \in {Comma, "."} -> t4 [] OTHER -> t5
  BY <1>7, TokenIs
<1>9. t \in {t1, t2, t3, t4} \/ (t = t5 /\ c \notin {".", Quote})
  BY <1>8
<1> QED
  BY <1>2, <1>3, <1>4, <1>5, <1>6, <1>7, <1>9

LEMMA OnePart ==
    ASSUME NEW X, NEW data \in Seq(X), NEW start \in 1..Len(data)
    PROVE  SubSeq(data, start, start) = <<data[start]>>
<1>1. PICK t : t = SubSeq(data, start, start)
  OBVIOUS
<1>2. t = <<data[start]>>
  <2>1. start \in Nat \ {0} /\ start \in Nat /\ start <= Len(data) /\ start - start + 1 = 1
    OBVIOUS
  <2>2. t \in Seq(X) /\ Len(t) = 1 /\ t[1] = data[start]
    <3>3. /\ SubSeq(data, start, start) \in Seq(X)
          /\ Len(SubSeq(data, start, start)) = IF start <= start THEN start - start + 1 ELSE 0
          /\ \A i \in 1..Len(SubSeq(data, start, start)) :
                SubSeq(data, start, start)[i] = data[start + i - 1]
      <4>1. PICK m, n \in Nat \ {0} : m = start /\ n = start
        OBVIOUS
      <4>2. n \in Nat /\ n <= Len(data)
        BY <4>1
      <4> QED
        BY <4>1, <4>2, PartType
    <3>1. t \in Seq(X) /\ Len(t) = 1 /\ \A i \in 1..Len(t) : t[i] = data[start + i - 1]
      BY <1>1, <2>1, <3>3
    <3>2. start + 1 - 1 = start
      OBVIOUS
    <3> QED
      BY <3>1, <3>2
  <2> QED
    BY <2>2
<1> QED
  BY <1>1, <1>2

\* A symbol before a blank is a token.
LEMMA WordIsToken ==
    ASSUME NEW X, NEW data \in Seq(X), NEW start \in 1..(Len(data) - 1),
           data[start] \notin Special, data[start + 1] = Blank
    PROVE  ScanToken(data, start) = Found(start + 1, <<data[start]>>, "ok")
<1>1. PICK c : c = data[start]
  OBVIOUS
<1>2. ScanToken(data, start) = TokenTo(data, start, WordEnd(data, start))
  <2>1. c \notin {Quote, "'"} /\ c # "(" /\ c # "[" /\ c # "{" /\ c \notin {Comma, "."}
    BY <1>1 DEF Special
  <2> QED
    BY <1>1, <2>1, TokenIs
<1>3. PICK S : S = {i \in start..Len(data) : data[i] \in {Blank, ".", Quote}}
  OBVIOUS
<1>4. start + 1 \in S /\ S \in SUBSET Nat /\ \A j \in S : start + 1 <= j
  <2>1. start \notin S
    BY <1>3 DEF Special
  <2>2. start + 1 \in S
    BY <1>3
  <2>3. \A i \in S : i \in start..Len(data)
    BY <1>3
  <2> QED
    BY <2>1, <2>2, <2>3
<1>5. FirstOf(S, Len(data) + 1) = start + 1
  BY <1>4, FirstIs
<1>6. WordEnd(data, start) = {start}
  <2>1. (start + 1) - 1 = start
    OBVIOUS
  <2> QED
    BY <1>3, <1>5, <2>1 DEF WordEnd
<1>7. FirstOf({start}, 0) = start
  <2>1. {start} \in SUBSET Nat /\ start \in {start} /\ \A j \in {start} : start <= j
    OBVIOUS
  <2> QED
    BY <2>1, FirstIs
<1>8. PICK t : t = SubSeq(data, start, start)
  OBVIOUS
<1>9. t = <<data[start]>>
  BY <1>8, OnePart
<1>10. start # 0
  OBVIOUS
<1>11. TokenTo(data, start, {start}) = Found(start + 1, t, "ok")
  BY <1>7, <1>8, <1>10 DEF TokenTo
<1> QED
  BY <1>2, <1>6, <1>9, <1>11

\* A token that starts with a quote is scanned to the closing one.
LEMMA QuoteIsToken ==
    ASSUME NEW data, NEW start, data[start] = Quote
    PROVE  ScanToken(data, start) = FindEndWithQuote(data, start, Quote)
<1>1. /\ Quote \notin {"(", "[", "{", Comma, "."}
  BY Zenon DEF Quote, Comma
<1> QED
  BY <1>1, TokenIs

-----------------------------------------------------------------------------
(* All tokens. *)

StartFrom(data, i) == FirstOf({k \in i..Len(data) : data[k] # Blank}, 0)
Scanned(tokens, st) == [tokens |-> tokens, st |-> st]
Leading(rest, text) == [rest EXCEPT !.tokens = <<text>> \o @]
TokenStep(from, data, i) ==
    LET start == StartFrom(data, i)
        token == ScanToken(data, start)
    IN  IF start = 0 \/ (start # 0 /\ token.st = "error") THEN Scanned(<<>>, "ok")
        ELSE IF token.st = "panic" THEN Scanned(<<>>, "panic")
        ELSE Leading(from[token.next], token.text)
TokenScans(from, data, D) == from = [i \in D |-> TokenStep(from, data, i)]

\* The next token starts at a character that is no blank.
LEMMA StartIs ==
    ASSUME NEW data, Len(data) \in Nat, NEW i \in Nat
    PROVE  \/ StartFrom(data, i) = 0
           \/ StartFrom(data, i) \in i..Len(data) /\ data[StartFrom(data, i)] # Blank
<1>1. PICK S : S = {k \in i..Len(data) : data[k] # Blank}
  OBVIOUS
<1>2. StartFrom(data, i) = FirstOf(S, 0)
  BY <1>1 DEF StartFrom
<1>3. CASE S = {}
  BY <1>2, <1>3 DEF FirstOf
<1>4. CASE S # {}
  <2>1. S \in SUBSET Nat
    BY <1>1
  <2>2. FirstOf(S, 0) \in S
    BY <1>4, <2>1, FirstOfIs
  <2> QED
    BY <1>1, <1>2, <2>2
<1> QED
  BY <1>3, <1>4

\* Only blanks are skipped.
LEMMA StartHere ==
    ASSUME NEW data, Len(data) \in Nat, NEW i \in 1..Len(data), data[i] # Blank,
           NEW j \in Nat, j <= i, \A k \in j..(i - 1) : data[k] = Blank
    PROVE  StartFrom(data, j) = i
<1>1. PICK S : S = {k \in j..Len(data) : data[k] # Blank}
  OBVIOUS
<1>2. StartFrom(data, j) = FirstOf(S, 0)
  BY <1>1 DEF StartFrom
<1>3. S \in SUBSET Nat /\ i \in S
  BY <1>1
<1>4. \A k \in S : i <= k
  <2> SUFFICES ASSUME NEW k \in S, k < i PROVE FALSE
    BY <1>3
  <2>1. k \in j..(i - 1) /\ data[k] # Blank
    BY <1>1
  <2> QED
    BY <2>1
<1> QED
  BY <1>2, <1>3, <1>4, FirstIs

LEMMA StartNowhere ==
    ASSUME NEW data, Len(data) \in Nat, NEW i \in Nat, i > Len(data)
    PROVE  StartFrom(data, i) = 0
<1>1. {k \in i..Len(data) : data[k] # Blank} = {}
  OBVIOUS
<1> QED
  BY <1>1 DEF StartFrom, FirstOf

\* It looks ahead only.
LEMMA TokenStepAhead ==
    ASSUME NEW f, NEW g, NEW data, NEW i \in Nat, Len(data) \in Nat,
           \A j \in Nat : i < j => f[j] = g[j]
    PROVE  TokenStep(f, data, i) = TokenStep(g, data, i)
<1>1. PICK start, token : start = StartFrom(data, i) /\ token = ScanToken(data, start)
  OBVIOUS
<1>2. start = 0 \/ (start \in i..Len(data) /\ data[start] # Blank)
  BY <1>1, StartIs
<1>3. CASE start = 0
  BY <1>1, <1>3 DEF TokenStep
<1>4. CASE start # 0 /\ token.st \in {"error", "panic"}
  BY <1>1, <1>4 DEF TokenStep
<1>5. CASE start # 0 /\ token.st \notin {"error", "panic"}
  <2>1. start \in 1..Len(data) /\ i <= start /\ data[start] # Blank
    BY <1>2, <1>5
  <2>2. IsFound(token, start)
    BY <1>1, <2>1, TokenFinds
  <2>3. token.next \in Nat /\ start < token.next
    <3>1. PICK n, t, s : /\ token = Found(n, t, s) /\ s \in {"ok", "error", "panic"}
                         /\ s = "ok" => n \in Nat /\ start < n
      BY <2>2 DEF IsFound
    <3>2. token.st = s /\ token.next = n
      BY <3>1 DEF Found
    <3> QED
      BY <1>5, <3>1, <3>2
  <2>4. f[token.next] = g[token.next]
    <3>1. i < token.next
      BY <2>1, <2>3
    <3> QED
      BY <2>3, <3>1
  <2> QED
    BY <1>1, <1>5, <2>4 DEF TokenStep
<1> QED
  BY <1>3, <1>4, <1>5

\* The tokens of data of any length exist.
LEMMA TokenScansExist ==
    ASSUME NEW data, Len(data) \in Nat
    PROVE  \E from : TokenScans(from, data, Nat)
<1> DEFINE n == Len(data) + 1
           P(m) == \E from : TokenScans(from, data, Beyond(n - m))
           S == {m \in 0..n : ~P(m)}
<1>1. S = {}
  <2> SUFFICES ASSUME S # {} PROVE FALSE
    OBVIOUS
  <2>1. PICK m \in S : \A k \in S : m <= k
    <3>1. S \in SUBSET Nat
      OBVIOUS
    <3> QED
      BY <3>1, Least
  <2>2. m \in 0..n /\ ~P(m)
    BY <2>1
  <2>3. m # 0
    <3> SUFFICES P(0)
      BY <2>2
    <3>1. PICK from : from = [i \in Beyond(n - 0) |-> Scanned(<<>>, "ok")]
      OBVIOUS
    <3>2. ASSUME NEW i \in Beyond(n - 0) PROVE TokenStep(from, data, i) = Scanned(<<>>, "ok")
      <4>1. i \in Nat /\ i > Len(data)
        BY DEF Beyond
      <4>2. StartFrom(data, i) = 0
        BY <4>1, StartNowhere
      <4> QED
        BY <4>2 DEF TokenStep
    <3>3. from = [i \in Beyond(n - 0) |-> TokenStep(from, data, i)]
      BY <3>1, <3>2
    <3> QED
      BY <3>3 DEF TokenScans
  <2>4. PICK i0 \in Nat : i0 = n - m /\ n - (m - 1) = i0 + 1 /\ i0 < n
    <3>1. n - m \in Nat /\ n - (m - 1) = (n - m) + 1 /\ n - m < n
      BY <2>2, <2>3
    <3> QED
      BY <3>1
  <2>5. P(m - 1)
    <3>1. m - 1 \in 0..n /\ ~(m <= m - 1)
      BY <2>2, <2>3
    <3>2. m - 1 \notin S
      <4> HIDE DEF S
      <4> QED
        BY <2>1, <3>1
    <3> HIDE DEF P
    <3> QED
      BY <3>1, <3>2
  <2>6. PICK f : TokenScans(f, data, Beyond(i0 + 1))
    BY <2>4, <2>5
  <2>7. PICK x : x = TokenStep(f, data, i0)
    OBVIOUS
  <2>8. PICK g : g = [i \in Beyond(i0) |-> IF i = i0 THEN x ELSE f[i]]
    OBVIOUS
  <2>9. \A j \in Nat : i0 < j => g[j] = f[j]
    BY <2>8 DEF Beyond
  <2>10. ASSUME NEW i \in Beyond(i0) PROVE g[i] = TokenStep(g, data, i)
    <3>1. i \in Nat /\ i >= i0
      BY <2>4 DEF Beyond
    <3>2. TokenStep(g, data, i) = TokenStep(f, data, i)
      <4>1. \A j \in Nat : i < j => g[j] = f[j]
        BY <2>9, <3>1
      <4> QED
        BY <3>1, <4>1, TokenStepAhead
    <3>3. CASE i = i0
      BY <2>7, <2>8, <3>2, <3>3
    <3>4. CASE i # i0
      <4>1. i \in Beyond(i0 + 1) /\ i0 < i
        BY <3>1, <3>4 DEF Beyond
      <4>2. f[i] = TokenStep(f, data, i)
        BY <2>6, <4>1 DEF TokenScans
      <4> QED
        BY <2>9, <3>1, <3>2, <4>1, <4>2
    <3> QED
      BY <3>3, <3>4
  <2>11. TokenScans(g, data, Beyond(i0))
    <3>1. \E y : g = [i \in Beyond(i0) |-> y[i]]
      <4>1. PICK y : y = [i \in Beyond(i0) |-> IF i = i0 THEN x ELSE f[i]]
        OBVIOUS
      <4>2. g = [i \in Beyond(i0) |-> y[i]]
        BY <2>8, <4>1
      <4> QED
        BY <4>2
    <3>2. g = [i \in Beyond(i0) |-> g[i]]
      BY <3>1
    <3> QED
      BY <2>10, <3>2 DEF TokenScans
  <2>12. P(m)
    BY <2>4, <2>11
  <2> QED
    BY <2>2, <2>12
<1>2. P(n)
  <2>1. n \in 0..n
    OBVIOUS
  <2> HIDE DEF P, n
  <2> QED
    BY <1>1, <2>1
<1>3. Beyond(n - n) = Nat
  BY DEF Beyond
<1> QED
  BY <1>2, <1>3

\* ScanTokens is the tokens from the first character on.
LEMMA TokensAre ==
    ASSUME NEW q, NEW data, data = TrimmedRight(Trimmed(q, Space), {";", Blank}), Len(data) \in Nat
    PROVE  \E from : /\ \A i \in Nat : from[i] = TokenStep(from, data, i)
                     /\ ScanTokens(q) = from[1]
<1> DEFINE D == TrimmedRight(Trimmed(q, Space), {";", Blank})
           F == CHOOSE from : TokenScans(from, D, Nat)
<1>1. ScanTokens(q) = F[1]
  BY DEF ScanTokens, TokenScans, TokenStep, Leading, Scanned, StartFrom
<1>2. D = data
  OBVIOUS
<1> HIDE DEF D
<1>3. TokenScans(F, D, Nat)
  BY <1>2, TokenScansExist
<1> HIDE DEF F
<1>4. \A i \in Nat : F[i] = TokenStep(F, data, i)
  BY <1>2, <1>3 DEF TokenScans
<1> QED
  BY <1>1, <1>4

\* The next token, and the end of the text.
LEMMA NextToken ==
    ASSUME NEW from, NEW data, \A i \in Nat : from[i] = TokenStep(from, data, i),
           NEW start \in Nat \ {0}, NEW i \in Nat, StartFrom(data, i) = start,
           NEW n, NEW t, ScanToken(data, start) = Found(n, t, "ok")
    PROVE  from[i] = Leading(from[n], t)
<1>1. PICK token : token = ScanToken(data, start)
  OBVIOUS
<1>2. token.next = n /\ token.text = t /\ token.st = "ok"
  BY <1>1 DEF Found
<1>3. TokenStep(from, data, i) = Leading(from[token.next], token.text)
  BY <1>1, <1>2 DEF TokenStep
<1> QED
  BY <1>2, <1>3

\* Behind the last token there is none.
LEMMA NoToken ==
    ASSUME NEW from, NEW data, \A i \in Nat : from[i] = TokenStep(from, data, i),
           NEW i \in Nat, StartFrom(data, i) = 0
    PROVE  from[i] = Scanned(<<>>, "ok")
  BY DEF TokenStep

\* A token in front of those scanned.
LEMMA LeadingIs ==
    ASSUME NEW ts, NEW st, NEW t, NEW one, IsOne(one, t), NEW us, Behind(us, one, ts)
    PROVE  Leading(Scanned(ts, st), t) = Scanned(us, st)
<1>1. us = <<t>> \o ts
  BY DEF IsOne, Behind
<1>2. PICK r : r = Scanned(ts, st)
  OBVIOUS
<1>3. r = [tokens |-> ts, st |-> st]
  BY <1>2 DEF Scanned
<1>4. r.tokens = ts
  BY <1>3
<1>5. Leading(r, t) = [r EXCEPT !.tokens = us]
  BY <1>1, <1>4 DEF Leading
<1>6. [r EXCEPT !.tokens = us] = [tokens |-> us, st |-> st]
  BY <1>3
<1> QED
  BY <1>2, <1>5, <1>6 DEF Scanned

-----------------------------------------------------------------------------
(* The tokens of a query. *)

LEMMA WordsAre ==
    /\ "select" \notin Special /\ "from" \notin Special
    /\ "select" \notin Space /\ Quote \notin Space /\ Quote \notin {";", Blank} /\ Quote # Blank
  BY Zenon DEF Special, Space, Blank, Quote, Comma

\* A text that does not end in junk is not trimmed.
LEMMA TrimmedRightKeeps ==
    ASSUME NEW X, NEW text \in Seq(X), text # <<>>, NEW junk, text[Len(text)] \notin junk
    PROVE  TrimmedRight(text, junk) = text
<1>1. PICK n \in Nat : n = Len(text)
  OBVIOUS
<1>2. n # 0
  BY <1>1, EmptySeq
<1>3. PICK S : S = {i \in 1..Len(text) : text[i] \notin junk}
  OBVIOUS
<1>4. S \in SUBSET Nat /\ n \in S /\ \A j \in S : j <= n
  BY <1>1, <1>2, <1>3
<1>5. LastOf(S, 0) = n
  BY <1>4, LastIs
<1>6. TrimmedRight(text, junk) = SubSeq(text, 1, LastOf(S, 0))
  BY <1>3 DEF TrimmedRight
<1> QED
  BY <1>1, <1>5, <1>6, SubSeqFull

\* Four tokens behind each other.
LEMMA FourTokens ==
    ASSUME NEW a, NEW b, NEW c, NEW d, NEW f1, NEW f2, NEW f3, NEW f4, NEW f5,
           f1 = Leading(f2, a), f2 = Leading(f3, b), f3 = Leading(f4, c), f4 = Leading(f5, d),
           f5 = Scanned(<<>>, "ok")
    PROVE  f1 = Scanned(<<a, b, c, d>>, "ok")
<1>1. PICK t1, t2, t3, t4 : /\ t4 = <<d>> /\ t3 = <<c, d>> /\ t2 = <<b, c, d>>
                            /\ t1 = <<a, b, c, d>>
  OBVIOUS
<1>2. PICK o1, o2, o3, o4 : IsOne(o1, a) /\ IsOne(o2, b) /\ IsOne(o3, c) /\ IsOne(o4, d)
  BY DEF IsOne
<1>3. PICK none : none = <<>>
  OBVIOUS
<1>4. Behind(t4, o4, none)
  BY <1>1, <1>2, <1>3 DEF IsOne, Behind
<1>5. Behind(t3, o3, t4)
  <2>1. <<c>> \o <<d>> = <<c, d>>
    <3>1. PICK X : X = {c, d}
      OBVIOUS
    <3>2. PICK p, q, u, v : p = <<c>> /\ q = <<d>> /\ u = p \o q /\ v = <<c, d>>
      OBVIOUS
    <3>3. c \in X /\ d \in X
      BY <3>1
    <3>4. p \in Seq(X) /\ Len(p) = 1 /\ p[1] = c
      BY <3>2, <3>3
    <3>5. q \in Seq(X) /\ Len(q) = 1 /\ q[1] = d
      BY <3>2, <3>3
    <3>6. v \in Seq(X) /\ Len(v) = 2 /\ v[1] = c /\ v[2] = d
      BY <3>2, <3>3
    <3>7. u \in Seq(X) /\ Both(u, p, q)
      BY <3>2, <3>4, <3>5, Joined
    <3>8. Len(u) = 2 /\ u[1] = c /\ u[2] = d
      BY <3>4, <3>5, <3>7 DEF Both
    <3>9. \A i \in 1..Len(u) : u[i] = v[i]
      BY <3>6, <3>8
    <3>10. u = v
      BY <3>6, <3>7, <3>8, <3>9, SeqEqual
    <3> QED
      BY <3>2, <3>10
  <2> QED
    BY <1>1, <1>2, <2>1 DEF IsOne, Behind
<1>6. Behind(t2, o2, t3)
  BY <1>1, <1>2 DEF IsOne, Behind
<1>7. Behind(t1, o1, t2)
  BY <1>1, <1>2 DEF IsOne, Behind
<1>8. Leading(Scanned(none, "ok"), d) = Scanned(t4, "ok")
  BY <1>2, <1>4, LeadingIs
<1>9. Leading(Scanned(t4, "ok"), c) = Scanned(t3, "ok")
  BY <1>2, <1>5, LeadingIs
<1>10. Leading(Scanned(t3, "ok"), b) = Scanned(t2, "ok")
  BY <1>2, <1>6, LeadingIs
<1>11. Leading(Scanned(t2, "ok"), a) = Scanned(t1, "ok")
  BY <1>2, <1>7, LeadingIs
<1> QED
  BY <1>1, <1>3, <1>8, <1>9, <1>10, <1>11

\* The text of a query.
Opening(field) == <<"select", Blank, field, Blank, "from", Blank>>
Reads(data, field, qt) ==
    /\ Len(data) \in Nat /\ 8 <= Len(data)
    /\ data[1] = "select" /\ data[2] = Blank /\ data[3] = field /\ data[4] = Blank
    /\ data[5] = "from" /\ data[6] = Blank /\ data[7] = Quote /\ data[Len(data)] = Quote
    /\ FindEndWithQuote(data, 7, Quote) = Found(Len(data) + 1, qt, "ok")

\* The characters of a select in their places.
LEMMA SelectReads ==
    ASSUME NEW X, NEW name \in Seq(X), NEW field
    PROVE  \E Y : Select(field, name) \in Seq(Y) /\ Select(field, name) # <<>> /\
                  Reads(Select(field, name), field, <<Quote>> \o (name \o <<Quote>>))
<1>1. PICK Y : Y = X \cup {"select", Blank, field, "from", "\\", Quote}
  OBVIOUS
<1>2. name \in Seq(Y) /\ "\\" \in Y /\ Quote \in Y
  <2>1. X \subseteq Y
    BY <1>1
  <2> QED
    BY <1>1, <2>1, SeqMonotonic
<1>3. PICK pre : pre = Opening(field)
  OBVIOUS
<1>4. /\ pre \in Seq(Y) /\ Len(pre) = 6
      /\ pre[1] = "select" /\ pre[2] = Blank /\ pre[3] = field /\ pre[4] = Blank
      /\ pre[5] = "from" /\ pre[6] = Blank
  BY <1>1, <1>3 DEF Opening
<1>5. PICK data, q, qt : /\ data = Select(field, name) /\ q = Quoted(name)
                         /\ qt = <<Quote>> \o (name \o <<Quote>>)
  OBVIOUS
<1>6. data = pre \o q /\ Behind(data, pre, Quoted(name))
  BY <1>3, <1>5 DEF Select, Opening, Behind
<1>7. /\ q \in Seq(Y) /\ data \in Seq(Y) /\ data[Len(pre) + 1] = Quote
      /\ data[Len(data)] = Quote /\ Len(pre) + 2 <= Len(data)
      /\ FindEndWithQuote(data, Len(pre) + 1, Quote) = Found(Len(data) + 1, qt, "ok")
  <2>1. /\ Quoted(name) \in Seq(Y) /\ data \in Seq(Y) /\ data[Len(pre) + 1] = Quote
        /\ data[Len(data)] = Quote /\ Len(pre) + 2 <= Len(data)
        /\ FindEndWithQuote(data, Len(pre) + 1, Quote) =
               Found(Len(data) + 1, <<Quote>> \o (name \o <<Quote>>), "ok")
    <3>1. IsRead(Y, data, pre, name)
      BY <1>2, <1>4, <1>6, QuotedIsRead
    <3> QED
      BY <3>1 DEF IsRead
  <2> QED
    BY <1>5, <2>1
<1>8. Both(data, pre, q)
  BY <1>4, <1>6, <1>7, Joined
<1>9. \A i \in 1..6 : data[i] = pre[i]
  BY <1>4, <1>8 DEF Both
<1>10. Reads(data, field, qt)
  <2>1. Len(pre) + 1 = 7 /\ Len(pre) + 2 = 8
    BY <1>4
  <2>2. /\ data[1] = pre[1] /\ data[2] = pre[2] /\ data[3] = pre[3] /\ data[4] = pre[4]
        /\ data[5] = pre[5] /\ data[6] = pre[6]
    BY <1>9
  <2> QED
    BY <1>4, <1>7, <2>1, <2>2 DEF Reads
<1>11. data # <<>>
  BY <1>10 DEF Reads
<1> QED
  BY <1>5, <1>7, <1>10, <1>11

\* The tokens of a select are its words and the quoted name.
LEMMA SelectIsScanned ==
    ASSUME NEW X, NEW name \in Seq(X), NEW field, field \notin Special
    PROVE  /\ ScanTokens(Select(field, name)) =
                Scanned(<< <<"select">>, <<field>>, <<"from">>,
                           <<Quote>> \o (name \o <<Quote>>) >>, "ok")
           /\ Trimmed(Select(field, name), Space) # <<>>
<1>1. PICK data, qt : data = Select(field, name) /\ qt = <<Quote>> \o (name \o <<Quote>>)
  OBVIOUS
<1>2. PICK Y : data \in Seq(Y) /\ data # <<>> /\ Reads(data, field, qt)
  BY <1>1, SelectReads
<1>3. PICK n \in Nat : n = Len(data)
  BY <1>2
<1>4. /\ 8 <= n /\ data[1] = "select" /\ data[2] = Blank /\ data[3] = field /\ data[4] = Blank
      /\ data[5] = "from" /\ data[6] = Blank /\ data[7] = Quote /\ data[n] = Quote
      /\ FindEndWithQuote(data, 7, Quote) = Found(n + 1, qt, "ok")
  BY <1>2, <1>3 DEF Reads
<1>5. Trimmed(data, Space) = data
  BY <1>2, <1>3, <1>4, WordsAre, TrimmedKeeps
<1>6. data = TrimmedRight(Trimmed(data, Space), {";", Blank})
  <2>1. TrimmedRight(data, {";", Blank}) = data
    BY <1>2, <1>3, <1>4, WordsAre, TrimmedRightKeeps
  <2> QED
    BY <1>5, <2>1
<1>7. PICK from : /\ \A i \in Nat : from[i] = TokenStep(from, data, i)
                  /\ ScanTokens(data) = from[1]
  BY <1>3, <1>6, TokensAre
<1>8. /\ ScanToken(data, 1) = Found(2, <<"select">>, "ok")
      /\ ScanToken(data, 3) = Found(4, <<field>>, "ok")
      /\ ScanToken(data, 5) = Found(6, <<"from">>, "ok")
      /\ ScanToken(data, 7) = Found(n + 1, qt, "ok")
  <2>1. /\ 1 \in 1..(Len(data) - 1) /\ 3 \in 1..(Len(data) - 1) /\ 5 \in 1..(Len(data) - 1)
        /\ 1 + 1 = 2 /\ 3 + 1 = 4 /\ 5 + 1 = 6
    BY <1>3, <1>4
  <2>2. ScanToken(data, 1) = Found(1 + 1, <<data[1]>>, "ok")
    BY <1>2, <1>4, <2>1, WordsAre, WordIsToken
  <2>3. ScanToken(data, 3) = Found(3 + 1, <<data[3]>>, "ok")
    BY <1>2, <1>4, <2>1, WordIsToken
  <2>4. ScanToken(data, 5) = Found(5 + 1, <<data[5]>>, "ok")
    BY <1>2, <1>4, <2>1, WordsAre, WordIsToken
  <2>5. ScanToken(data, 7) = Found(n + 1, qt, "ok")
    BY <1>4, QuoteIsToken
  <2> QED
    BY <1>4, <2>1, <2>2, <2>3, <2>4, <2>5
<1>9. /\ StartFrom(data, 1) = 1 /\ StartFrom(data, 2) = 3 /\ StartFrom(data, 4) = 5
      /\ StartFrom(data, 6) = 7 /\ StartFrom(data, n + 1) = 0
  <2>1. data[1] # Blank /\ data[3] # Blank /\ data[5] # Blank /\ data[7] # Blank
    BY <1>4, WordsAre DEF Special
  <2>2. /\ 1 \in 1..Len(data) /\ 3 \in 1..Len(data) /\ 5 \in 1..Len(data) /\ 7 \in 1..Len(data)
    BY <1>3, <1>4
  <2>3. \A k \in 1..(1 - 1) : data[k] = Blank
    OBVIOUS
  <2>4. /\ \A k \in 2..(3 - 1) : data[k] = Blank
        /\ \A k \in 4..(5 - 1) : data[k] = Blank
        /\ \A k \in 6..(7 - 1) : data[k] = Blank
    <3>1. 2..(3 - 1) = {2} /\ 4..(5 - 1) = {4} /\ 6..(7 - 1) = {6}
      OBVIOUS
    <3> QED
      BY <1>4, <3>1
  <2>5. StartFrom(data, 1) = 1
    BY <1>3, <2>1, <2>2, <2>3, StartHere
  <2>6. StartFrom(data, 2) = 3
    BY <1>3, <2>1, <2>2, <2>4, StartHere
  <2>7. StartFrom(data, 4) = 5
    BY <1>3, <2>1, <2>2, <2>4, StartHere
  <2>8. StartFrom(data, 6) = 7
    BY <1>3, <2>1, <2>2, <2>4, StartHere
  <2>9. StartFrom(data, n + 1) = 0
    BY <1>3, StartNowhere
  <2> QED
    BY <2>5, <2>6, <2>7, <2>8, <2>9
<1>10. PICK a, b, c : a = <<"select">> /\ b = <<field>> /\ c = <<"from">>
  OBVIOUS
<1>11. from[1] = Leading(from[2], a)
  BY <1>7, <1>8, <1>9, <1>10, NextToken
<1>12. from[2] = Leading(from[4], b)
  BY <1>7, <1>8, <1>9, <1>10, NextToken
<1>13. from[4] = Leading(from[6], c)
  BY <1>7, <1>8, <1>9, <1>10, NextToken
<1>14. from[6] = Leading(from[n + 1], qt)
  BY <1>7, <1>8, <1>9, NextToken
<1>15. from[n + 1] = Scanned(<<>>, "ok")
  BY <1>7, <1>9, NoToken
<1>16. from[1] = Scanned(<<a, b, c, qt>>, "ok")
  <2>1. PICK f1, f2, f3, f4, f5 : /\ f1 = from[1] /\ f2 = from[2] /\ f3 = from[4]
                                  /\ f4 = from[6] /\ f5 = from[n + 1]
    OBVIOUS
  <2>2. /\ f1 = Leading(f2, a) /\ f2 = Leading(f3, b) /\ f3 = Leading(f4, c)
        /\ f4 = Leading(f5, qt) /\ f5 = Scanned(<<>>, "ok")
    BY <1>11, <1>12, <1>13, <1>14, <1>15, <2>1
  <2>3. f1 = Scanned(<<a, b, c, qt>>, "ok")
    BY <2>2, FourTokens
  <2> QED
    BY <2>1, <2>3
<1> QED
  BY <1>1, <1>2, <1>5, <1>7, <1>10, <1>16

-----------------------------------------------------------------------------
(* What is made of the tokens of a query. *)

Keywords == {"from", "into", "on", "database", "measurement"}

\* What the functions of the analysis look at in them.
QueryTokens(tokens, name) ==
    /\ \E Y : tokens \in Seq(Seq(Y))
    /\ Len(tokens) = 4 /\ DOMAIN tokens = 1..4
    /\ Lower(tokens[1]) = <<"select">> /\ Lower(tokens[3]) = <<"from">>
    /\ \A w \in Keywords : Lower(tokens[2]) # <<w>>
    /\ \A w : Lower(tokens[4]) # <<w>>
    /\ SubSeq(tokens, 4, 4) = <<tokens[4]>>
    /\ \A i \in 1..4 : tokens[i][1] # "("
    /\ tokens[4][1] = Quote
    /\ SubSeq(tokens[4], 2, Len(tokens[4]) - 1) = name

\* A name is what its quotes enclose.
LEMMA InQuotesIs ==
    ASSUME NEW X, NEW name \in Seq(X), NEW qt, qt = <<Quote>> \o (name \o <<Quote>>)
    PROVE  /\ Len(qt) \in Nat /\ Len(qt) = Len(name) + 2 /\ qt[1] = Quote
           /\ SubSeq(qt, 2, Len(qt) - 1) = name
<1>1. PICK Y : Y = X \cup {Quote}
  OBVIOUS
<1>2. name \in Seq(Y) /\ Quote \in Y
  <2>1. X \subseteq Y
    BY <1>1
  <2> QED
    BY <1>1, <2>1, SeqMonotonic
<1>3. PICK e, r : e = <<Quote>> /\ r = name \o e
  OBVIOUS
<1>4. e \in Seq(Y) /\ Len(e) = 1 /\ e[1] = Quote
  BY <1>2, <1>3
<1>5. r \in Seq(Y) /\ Both(r, name, e)
  BY <1>2, <1>3, <1>4, Joined
<1>6. qt = e \o r
  BY <1>3
<1>7. qt \in Seq(Y) /\ Both(qt, e, r)
  BY <1>4, <1>5, <1>6, Joined
<1>8. PICK n \in Nat : n = Len(name)
  OBVIOUS
<1>9. Len(qt) = n + 2 /\ qt[1] = Quote /\ \A i \in 1..n : qt[i + 1] = name[i]
  <2>1. Len(r) = n + 1 /\ \A i \in 1..n : r[i] = name[i]
    BY <1>4, <1>5, <1>8 DEF Both
  <2>2. Len(qt) = n + 2 /\ qt[1] = Quote
    BY <1>4, <1>7, <2>1 DEF Both
  <2>3. \A i \in 1..n : qt[1 + i] = r[i]
    BY <1>4, <1>7, <2>1 DEF Both
  <2>4. \A i \in 1..n : i + 1 = 1 + i
    OBVIOUS
  <2> QED
    BY <2>1, <2>2, <2>3, <2>4
<1>10. PICK t : t = SubSeq(qt, 2, n + 1)
  OBVIOUS
<1>11. t \in Seq(Y) /\ Len(t) = n /\ \A i \in 1..n : t[i] = qt[2 + i - 1]
  <2>1. 2 \in Nat \ {0} /\ n + 1 \in Nat /\ n + 1 <= Len(qt)
    BY <1>9
  <2>2. PICK m1 \in Nat \ {0}, m2 \in Nat : m1 = 2 /\ m2 = n + 1 /\ m2 <= Len(qt)
    BY <2>1
  <2>3. t = SubSeq(qt, m1, m2)
    BY <1>10, <2>2
  <2>4. /\ t \in Seq(Y)
        /\ Len(t) = IF m1 <= m2 THEN m2 - m1 + 1 ELSE 0
        /\ \A i \in 1..Len(t) : t[i] = qt[m1 + i - 1]
    BY <1>7, <2>2, <2>3, PartType
  <2>5. Len(t) = n
    BY <2>2, <2>4
  <2> QED
    BY <2>2, <2>4, <2>5
<1>12. \A i \in 1..n : t[i] = name[i]
  <2>1. \A i \in 1..n : 2 + i - 1 = i + 1
    OBVIOUS
  <2> QED
    BY <1>9, <1>11, <2>1
<1>13. t = name
  BY <1>2, <1>8, <1>11, <1>12, SeqEqual
<1>14. Len(qt) - 1 = n + 1
  BY <1>9
<1> QED
  BY <1>8, <1>9, <1>10, <1>13, <1>14

LEMMA LowerOne ==
    ASSUME NEW c, c \notin DOMAIN LowerCase
    PROVE  Lower(<<c>>) = <<c>>
<1>1. PICK s : s = <<c>>
  OBVIOUS
<1>2. Len(s) = 1 /\ s[1] = c
  BY <1>1
<1>3. 1..1 = {1}
  OBVIOUS
<1>4. Lower(s) = [i \in {1} |-> c]
  BY <1>2, <1>3 DEF Lower
<1>5. [i \in {1} |-> c] = <<c>>
  BY <1>3
<1> QED
  BY <1>1, <1>4, <1>5

LEMMA LowerLen ==
    ASSUME NEW s, Len(s) \in Nat
    PROVE  Len(Lower(s)) = Len(s)
  BY DEF Lower

\* What the analysis needs to know of the four tokens of a select.
LEMMA TokensOfQuery ==
    ASSUME NEW X, NEW name \in Seq(X), NEW field, IsField(field),
           NEW tokens, tokens = << <<"select">>, <<field>>, <<"from">>,
                                   <<Quote>> \o (name \o <<Quote>>) >>
    PROVE  QueryTokens(tokens, name)
<1>1. PICK a, b, c, d : /\ a = <<"select">> /\ b = <<field>> /\ c = <<"from">>
                        /\ d = <<Quote>> \o (name \o <<Quote>>)
  OBVIOUS
<1>2. Len(d) \in Nat /\ Len(d) = Len(name) + 2 /\ d[1] = Quote /\ SubSeq(d, 2, Len(d) - 1) = name
  BY <1>1, InQuotesIs
<1>3. tokens = <<a, b, c, d>>
  BY <1>1
<1>4. /\ tokens \in Seq({a, b, c, d}) /\ Len(tokens) = 4 /\ DOMAIN tokens = 1..4
      /\ tokens[1] = a /\ tokens[2] = b /\ tokens[3] = c /\ tokens[4] = d
  BY <1>3
<1>11. \E Y : tokens \in Seq(Seq(Y))
  <2>1. PICK Y : Y = X \cup {"select", field, "from", Quote}
    OBVIOUS
  <2>2. a \in Seq(Y) /\ b \in Seq(Y) /\ c \in Seq(Y)
    BY <1>1, <2>1
  <2>3. d \in Seq(Y)
    <3>1. name \in Seq(Y)
      <4>1. X \subseteq Y
        BY <2>1
      <4> QED
        BY <4>1, SeqMonotonic
    <3>2. PICK e, r : e = <<Quote>> /\ r = name \o e
      OBVIOUS
    <3>3. e \in Seq(Y)
      BY <2>1, <3>2
    <3>4. r \in Seq(Y)
      BY <3>1, <3>2, <3>3, Joined
    <3>5. d = e \o r
      BY <1>1, <3>2
    <3> QED
      BY <3>3, <3>4, <3>5, Joined
  <2>4. PICK Z : Z = Seq(Y)
    OBVIOUS
  <2>5. tokens \in Seq(Z)
    <3>1. a \in Z /\ b \in Z /\ c \in Z /\ d \in Z
      BY <2>2, <2>3, <2>4
    <3>2. PICK V : V = {a, b, c, d}
      OBVIOUS
    <3>3. V \subseteq Z /\ tokens \in Seq(V)
      BY <1>4, <3>1, <3>2
    <3> QED
      BY <3>3, SeqMonotonic
  <2> QED
    BY <2>4, <2>5
<1>5. Lower(a) = <<"select">> /\ Lower(c) = <<"from">>
  BY <1>1, LowerOne, KeywordsAreLower
<1>6. \A w \in Keywords : Lower(b) # <<w>>
  BY <1>1, Zenon DEF IsField, Keywords
<1>7. \A w : Lower(d) # <<w>>
  <2>1. Len(Lower(d)) = Len(name) + 2
    BY <1>2, LowerLen
  <2>2. Len(name) \in Nat
    OBVIOUS
  <2> SUFFICES ASSUME NEW w, Lower(d) = <<w>> PROVE FALSE
    OBVIOUS
  <2>3. PICK s : s = <<w>>
    OBVIOUS
  <2>4. Len(s) = 1
    BY <2>3
  <2> QED
    BY <2>1, <2>2, <2>3, <2>4
<1>8. SubSeq(tokens, 4, 4) = <<d>>
  <2>1. 4 \in 1..Len(tokens)
    BY <1>4
  <2>2. PICK m \in 1..Len(tokens) : m = 4
    BY <2>1
  <2>3. SubSeq(tokens, m, m) = <<tokens[m]>>
    BY <1>4, OnePart
  <2> QED
    BY <1>4, <2>2, <2>3
<1>9. a[1] # "(" /\ b[1] # "(" /\ c[1] # "(" /\ d[1] # "("
  <2>1. a[1] = "select" /\ b[1] = field /\ c[1] = "from"
    BY <1>1
  <2>2. field # "("
    BY Zenon DEF IsField
  <2>3. Quote # "("
    BY Zenon DEF Quote
  <2> QED
    BY <1>2, <2>1, <2>2, <2>3
<1>10. \A i \in 1..4 : tokens[i][1] # "("
  <2>1. \A i \in 1..4 : i = 1 \/ i = 2 \/ i = 3 \/ i = 4
    OBVIOUS
  <2> QED
    BY <1>4, <1>9, <2>1
<1> QED
  BY <1>2, <1>4, <1>5, <1>6, <1>7, <1>8, <1>10, <1>11 DEF QueryTokens

-----------------------------------------------------------------------------
(* Database and measurement of a query. *)

LEMMA SameOne == ASSUME NEW v, NEW w, <<v>> = <<w>> PROVE v = w
<1>1. PICK s, t : s = <<v>> /\ t = <<w>>
  OBVIOUS
<1>2. s[1] = v /\ t[1] = w
  BY <1>1
<1> QED
  BY <1>1, <1>2

LEMMA KeywordsAre == "select" \notin Keywords /\ "from" \in Keywords /\ "into" \in Keywords /\ "from" # "into"
  BY DEF Keywords

\* The identifier of a select is the token behind from.
LEMMA IdentifierOfQuery ==
    ASSUME NEW tokens, NEW name, QueryTokens(tokens, name),
           NEW keywords \in SUBSET Keywords, "from" \in keywords
    PROVE  GetIdentifierFromTokens(tokens, keywords) =
               [found |-> TRUE, keyword |-> "from", tokens |-> <<tokens[4]>>]
<1>1. /\ Len(tokens) = 4 /\ Lower(tokens[1]) = <<"select">> /\ Lower(tokens[3]) = <<"from">>
      /\ \A w \in Keywords : Lower(tokens[2]) # <<w>>
      /\ SubSeq(tokens, 4, 4) = <<tokens[4]>>
  BY DEF QueryTokens
<1>2. PICK S : S = {k \in 1..(Len(tokens) - 1) : \E w \in keywords : Lower(tokens[k]) = <<w>>}
  OBVIOUS
<1>3. 1 \notin S
  <2> SUFFICES ASSUME NEW w \in keywords, Lower(tokens[1]) = <<w>> PROVE FALSE
    BY <1>2
  <2>1. w = "select"
    BY <1>1, SameOne
  <2> QED
    BY <2>1, KeywordsAre
<1>4. 2 \notin S
  BY <1>1, <1>2
<1>5. 3 \in S
  <2>1. 3 \in 1..(Len(tokens) - 1)
    BY <1>1
  <2> QED
    BY <1>1, <1>2, <2>1
<1>6. S \in SUBSET Nat /\ \A j \in S : 3 <= j
  <2>1. \A j \in S : j \in 1..3
    BY <1>1, <1>2
  <2> QED
    BY <1>3, <1>4, <2>1
<1>7. FirstOf(S, 0) = 3
  <2>1. PICK i \in S : i = 3
    BY <1>5
  <2>2. FirstOf(S, 0) = i
    BY <1>6, <2>1, FirstIs
  <2> QED
    BY <2>1, <2>2
<1>8. PICK i : i = FirstOf({k \in 1..(Len(tokens) - 1) : \E w \in keywords : Lower(tokens[k]) = <<w>>}, 0)
  OBVIOUS
<1>9. i = 3
  BY <1>2, <1>7, <1>8
<1>10. GetIdentifierFromTokens(tokens, keywords) =
          IF i = 0 THEN [found |-> FALSE]
          ELSE [found |-> TRUE, keyword |-> Lower(tokens[i])[1],
                tokens |-> SubSeq(tokens, i + 1, Len(tokens))]
  BY <1>8 DEF GetIdentifierFromTokens
<1>11. i + 1 = 4 /\ Lower(tokens[i])[1] = "from"
  BY <1>1, <1>9
<1>12. SubSeq(tokens, i + 1, Len(tokens)) = <<tokens[4]>>
  BY <1>1, <1>11
<1>13. i # 0
  BY <1>9
<1> QED
  BY <1>10, <1>11, <1>12, <1>13

\* The depth of tokens is a number.
LEMMA DepthType ==
    ASSUME NEW Y, NEW tokens \in Seq(Seq(Y))
    PROVE  Depth(tokens) \in Nat
<1>1. PICK text : text = FlattenSeq(tokens)
  OBVIOUS
<1>2. Len(text) \in Nat
  <2>1. text \in Seq(Y)
    BY <1>1, FlattenType
  <2> QED
    BY <2>1
<1>3. PICK S : S = {i \in 1..Len(text) : text[i] = "("}
  OBVIOUS
<1>4. IsFiniteSet(S)
  <2>1. IsFiniteSet(1..Len(text))
    BY <1>2, FS_Interval
  <2>2. S \subseteq 1..Len(text)
    BY <1>3
  <2> QED
    BY <2>1, <2>2, FS_Subset
<1>5. Depth(tokens) = Cardinality(S)
  BY <1>1, <1>3 DEF Depth
<1> QED
  BY <1>4, <1>5, FS_CardinalityType

\* The database: none, so the one of the form is taken.
DatabaseNamed(t) ==
    LET id == GetIdentifierFromTokens(t, {"on", "database", "from"})
    IN  IF id.found THEN getDatabase(id.tokens, id.keyword) ELSE NoName
DatabaseStep(level, tokens, n) ==
    IF n = 0 THEN tokens
    ELSE LET db == DatabaseNamed(level[n - 1])
         IN  IF IsSubquery(db) THEN ScanTokens(SubSeq(db, 2, Len(db))).tokens ELSE level[n - 1]
DatabaseLevels(level, tokens, N) == level = [n \in 0..N |-> DatabaseStep(level, tokens, n)]

\* A measurement in quotes names no database.
LEMMA DatabaseNamedIs ==
    ASSUME NEW tokens, NEW name, QueryTokens(tokens, name)
    PROVE  DatabaseNamed(tokens) = NoName
<1>1. PICK id : id = GetIdentifierFromTokens(tokens, {"on", "database", "from"})
  OBVIOUS
<1>2. id = [found |-> TRUE, keyword |-> "from", tokens |-> <<tokens[4]>>]
  <2>1. {"on", "database", "from"} \in SUBSET Keywords /\ "from" \in {"on", "database", "from"}
    BY DEF Keywords
  <2>2. PICK K \in SUBSET Keywords : K = {"on", "database", "from"} /\ "from" \in K
    BY <2>1
  <2>3. GetIdentifierFromTokens(tokens, K)
            = [found |-> TRUE, keyword |-> "from", tokens |-> <<tokens[4]>>]
    BY <2>2, IdentifierOfQuery
  <2> QED
    BY <1>1, <2>2, <2>3
<1>3. PICK t : t = <<tokens[4]>>
  OBVIOUS
<1>4. Len(t) = 1 /\ t[1] = tokens[4]
  BY <1>3
<1>5. DatabaseNamed(tokens) = getDatabase(t, "from")
  BY <1>1, <1>2, <1>3 DEF DatabaseNamed
<1>6. ~IsDot(t, 2)
  BY <1>4 DEF IsDot
<1>7. t[1][1] # "("
  <2>1. 4 \in 1..4
    OBVIOUS
  <2> QED
    BY <1>4, <2>1 DEF QueryTokens
<1>8. getDatabase(t, "from") = NoName
  BY <1>6, <1>7 DEF getDatabase
<1> QED
  BY <1>5, <1>8

LEMMA NoSubquery == ~IsSubquery(NoName)
  BY DEF IsSubquery, NoName

\* A select from a measurement in quotes names no database.
LEMMA DatabaseOfQuery ==
    ASSUME NEW tokens, NEW name, QueryTokens(tokens, name)
    PROVE  GetDatabaseFromTokens(tokens) = NoName
<1>1. PICK N \in Nat : N = Depth(tokens)
  <2>1. PICK Y : tokens \in Seq(Seq(Y))
    BY DEF QueryTokens
  <2> QED
    BY <2>1, DepthType
<1>2. DatabaseNamed(tokens) = NoName
  BY DatabaseNamedIs
<1> DEFINE F == CHOOSE level : DatabaseLevels(level, tokens, Depth(tokens))
<1>3. GetDatabaseFromTokens(tokens) = DatabaseNamed(F[Depth(tokens)])
  BY DEF GetDatabaseFromTokens, DatabaseLevels, DatabaseStep, DatabaseNamed
<1>4. DatabaseLevels(F, tokens, N)
  <2>1. PICK level : level = [n \in 0..N |-> tokens]
    OBVIOUS
  <2>2. ASSUME NEW n \in 0..N PROVE DatabaseStep(level, tokens, n) = tokens
    <3>1. CASE n = 0
      BY <3>1 DEF DatabaseStep
    <3>2. CASE n # 0
      <4>1. level[n - 1] = tokens
        BY <2>1, <3>2
      <4> QED
        BY <1>2, <3>2, <4>1, NoSubquery DEF DatabaseStep
    <3> QED
      BY <3>1, <3>2
  <2>3. level = [n \in 0..N |-> DatabaseStep(level, tokens, n)]
    BY <2>1, <2>2
  <2>4. DatabaseLevels(level, tokens, Depth(tokens))
    BY <1>1, <2>3 DEF DatabaseLevels
  <2> QED
    BY <1>1, <2>4
<1> HIDE DEF F
<1>5. \A n \in 0..N : F[n] = DatabaseStep(F, tokens, n)
  BY <1>4 DEF DatabaseLevels
<1>6. F[N] = tokens
  <2> DEFINE S == {n \in 0..N : F[n] # tokens}
  <2> SUFFICES ASSUME S # {} PROVE FALSE
    OBVIOUS
  <2>1. PICK n \in S : \A k \in S : n <= k
    <3>1. S \in SUBSET Nat
      OBVIOUS
    <3> QED
      BY <3>1, Least
  <2>2. n \in 0..N /\ F[n] # tokens
    BY <2>1
  <2>3. n # 0
    BY <1>5, <2>2 DEF DatabaseStep
  <2>4. F[n - 1] = tokens
    <3>1. n - 1 \in 0..N /\ ~(n <= n - 1)
      BY <2>2, <2>3
    <3>2. n - 1 \notin S
      <4> HIDE DEF S
      <4> QED
        BY <2>1, <3>1
    <3> QED
      BY <3>1, <3>2
  <2>5. DatabaseStep(F, tokens, n) = tokens
    BY <1>2, <2>3, <2>4, NoSubquery DEF DatabaseStep
  <2> QED
    BY <1>5, <2>2, <2>5
<1> QED
  BY <1>1, <1>2, <1>3, <1>6

-----------------------------------------------------------------------------
MeasurementId(t) == GetIdentifierFromTokens(t, {"from", "measurement"})
MeasurementNamed(t) ==
    IF MeasurementId(t).found
    THEN getMeasurement(MeasurementId(t).tokens, MeasurementId(t).keyword) ELSE NoName
MeasurementStep(level, tokens, n) ==
    IF n = 0 THEN tokens
    ELSE LET mm == MeasurementNamed(level[n - 1])
         IN  IF IsSubquery(mm) /\ mm \in Range(level[n - 1])
             THEN ScanTokens(SubSeq(mm, 2, Len(mm) - 1)).tokens
             ELSE level[n - 1]
MeasurementLevels(level, tokens, N) == level = [n \in 0..N |-> MeasurementStep(level, tokens, n)]

\* The name in quotes is the measurement, dots and keywords included.
LEMMA MeasurementNamedIs ==
    ASSUME NEW tokens, NEW name, QueryTokens(tokens, name)
    PROVE  MeasurementId(tokens).found /\ MeasurementNamed(tokens) = name
<1>1. PICK id : id = MeasurementId(tokens)
  OBVIOUS
<1>2. id = [found |-> TRUE, keyword |-> "from", tokens |-> <<tokens[4]>>]
  <2>1. {"from", "measurement"} \in SUBSET Keywords /\ "from" \in {"from", "measurement"}
    BY DEF Keywords
  <2>2. PICK K \in SUBSET Keywords : K = {"from", "measurement"} /\ "from" \in K
    BY <2>1
  <2>3. GetIdentifierFromTokens(tokens, K)
            = [found |-> TRUE, keyword |-> "from", tokens |-> <<tokens[4]>>]
    BY <2>2, IdentifierOfQuery
  <2> QED
    BY <1>1, <2>2, <2>3 DEF MeasurementId
<1>3. PICK t : t = <<tokens[4]>>
  OBVIOUS
<1>4. Len(t) = 1 /\ t[1] = tokens[4]
  BY <1>3
<1>5. MeasurementNamed(tokens) = getMeasurement(t, "from") /\ MeasurementId(tokens).found
  BY <1>1, <1>2, <1>3 DEF MeasurementNamed
<1>6. ~IsDot(t, 2)
  BY <1>4 DEF IsDot
<1>7. t[1][1] = Quote /\ SubSeq(t[1], 2, Len(t[1]) - 1) = name
  BY <1>4 DEF QueryTokens
<1>8. Quote # "(" /\ Quote # "/"
  BY Zenon DEF Quote
<1>9. getMeasurement(t, "from") = Unquoted(t[1])
  BY <1>6, <1>7, <1>8 DEF getMeasurement
<1>10. Unquoted(t[1]) = name
  BY <1>7 DEF Unquoted
<1> QED
  BY <1>5, <1>9, <1>10

\* The name is not read as a subquery: a token in quotes is none.
LEMMA NameIsNoToken ==
    ASSUME NEW tokens, NEW name, QueryTokens(tokens, name)
    PROVE  ~(IsSubquery(name) /\ name \in Range(tokens))
<1> SUFFICES ASSUME IsSubquery(name), name \in Range(tokens) PROVE FALSE
  OBVIOUS
<1>1. name[1] = "("
  BY DEF IsSubquery
<1>2. DOMAIN tokens = 1..4 /\ \A i \in 1..4 : tokens[i][1] # "("
  BY DEF QueryTokens
<1>3. \E i \in DOMAIN tokens : tokens[i] = name
  BY DEF Range
<1> QED
  BY <1>1, <1>2, <1>3

\* GetMeasurementFromTokens finds the name in quotes.
LEMMA MeasurementOfQuery ==
    ASSUME NEW tokens, NEW name, QueryTokens(tokens, name)
    PROVE  GetMeasurementFromTokens(tokens) = [found |-> TRUE, name |-> name]
<1>1. PICK N \in Nat : N = Depth(tokens)
  <2>1. PICK Y : tokens \in Seq(Seq(Y))
    BY DEF QueryTokens
  <2> QED
    BY <2>1, DepthType
<1>2. /\ MeasurementId(tokens).found /\ MeasurementNamed(tokens) = name
      /\ ~(IsSubquery(name) /\ name \in Range(tokens))
  BY MeasurementNamedIs, NameIsNoToken
<1> DEFINE F == CHOOSE level : MeasurementLevels(level, tokens, Depth(tokens))
<1>3. GetMeasurementFromTokens(tokens) =
          [found |-> MeasurementId(F[Depth(tokens)]).found,
           name |-> MeasurementNamed(F[Depth(tokens)])]
  BY DEF GetMeasurementFromTokens, MeasurementLevels, MeasurementStep, MeasurementNamed,
         MeasurementId
<1>4. MeasurementLevels(F, tokens, N)
  <2>1. PICK level : level = [n \in 0..N |-> tokens]
    OBVIOUS
  <2>2. ASSUME NEW n \in 0..N PROVE MeasurementStep(level, tokens, n) = tokens
    <3>1. CASE n = 0
      BY <3>1 DEF MeasurementStep
    <3>2. CASE n # 0
      <4>1. level[n - 1] = tokens
        BY <2>1, <3>2
      <4> QED
        BY <1>2, <3>2, <4>1 DEF MeasurementStep
    <3> QED
      BY <3>1, <3>2
  <2>3. level = [n \in 0..N |-> MeasurementStep(level, tokens, n)]
    BY <2>1, <2>2
  <2>4. MeasurementLevels(level, tokens, Depth(tokens))
    BY <1>1, <2>3 DEF MeasurementLevels
  <2> QED
    BY <1>1, <2>4
<1> HIDE DEF F
<1>5. \A n \in 0..N : F[n] = MeasurementStep(F, tokens, n)
  BY <1>4 DEF MeasurementLevels
<1>6. F[N] = tokens
  <2> DEFINE S == {n \in 0..N : F[n] # tokens}
  <2> SUFFICES ASSUME S # {} PROVE FALSE
    OBVIOUS
  <2>1. PICK n \in S : \A k \in S : n <= k
    <3>1. S \in SUBSET Nat
      OBVIOUS
    <3> QED
      BY <3>1, Least
  <2>2. n \in 0..N /\ F[n] # tokens
    BY <2>1
  <2>3. n # 0
    BY <1>5, <2>2 DEF MeasurementStep
  <2>4. F[n - 1] = tokens
    <3>1. n - 1 \in 0..N /\ ~(n <= n - 1)
      BY <2>2, <2>3
    <3>2. n - 1 \notin S
      <4> HIDE DEF S
      <4> QED
        BY <2>1, <3>1
    <3> QED
      BY <3>1, <3>2
  <2>5. MeasurementStep(F, tokens, n) = tokens
    BY <1>2, <2>3, <2>4 DEF MeasurementStep
  <2> QED
    BY <1>5, <2>2, <2>5
<1> QED
  BY <1>1, <1>2, <1>3, <1>6

-----------------------------------------------------------------------------
(* The query. *)

\* CheckQuery takes a select for a query with a from.
LEMMA CheckOfQuery ==
    ASSUME NEW tokens, NEW name, QueryTokens(tokens, name)
    PROVE  CheckQuery(tokens) = [check |-> TRUE, from |-> TRUE]
<1>1. /\ Len(tokens) = 4 /\ Lower(tokens[1]) = <<"select">> /\ Lower(tokens[3]) = <<"from">>
      /\ \A w : Lower(tokens[4]) # <<w>>
  BY DEF QueryTokens
<1>2. PICK S, T : /\ S = {i \in 3..Len(tokens) : Lower(tokens[i]) = <<"from">>}
                  /\ T = {i \in 3..Len(tokens) : Lower(tokens[i]) = <<"into">>}
  OBVIOUS
<1>3. FirstOf(S, 0) = 3
  <2>1. S \in SUBSET Nat /\ 3 \in S /\ \A j \in S : 3 <= j
    BY <1>1, <1>2
  <2>2. PICK i \in S : i = 3
    BY <2>1
  <2>3. FirstOf(S, 0) = i
    BY <2>1, <2>2, FirstIs
  <2> QED
    BY <2>2, <2>3
<1>4. FirstOf(T, 0) = 0
  <2>1. Lower(tokens[3]) # <<"into">>
    BY <1>1, SameOne, KeywordsAre
  <2>2. \A i \in 3..4 : i = 3 \/ i = 4
    OBVIOUS
  <2>3. T = {}
    BY <1>1, <1>2, <2>1, <2>2
  <2> QED
    BY <2>3 DEF FirstOf
<1>5. PICK from, into :
        /\ from = FirstOf({i \in 3..Len(tokens) : Lower(tokens[i]) = <<"from">>}, 0)
        /\ into = FirstOf({i \in 3..Len(tokens) : Lower(tokens[i]) = <<"into">>}, 0)
  OBVIOUS
<1>6. from = 3 /\ into = 0
  BY <1>2, <1>3, <1>4, <1>5
<1>7. from # 0 /\ (into = 0 \/ from < into)
  BY <1>6
<1> QED
  BY <1>1, <1>5, <1>7 DEF CheckQuery

\* A select is no statement of two words.
LEMMA HeadOfQuery ==
    ASSUME NEW tokens, NEW name, QueryTokens(tokens, name), NEW v, NEW w, v # "select"
    PROVE  GetHeadStmt(tokens, 2) # Stmt(<<v, w>>)
<1>1. Len(tokens) = 4 /\ Lower(tokens[1]) = <<"select">>
  BY DEF QueryTokens
<1>2. PICK s : s = <<v, w>>
  OBVIOUS
<1>3. Len(s) = 2 /\ s[1] = v
  BY <1>2
<1>4. Stmt(s)[1] = <<v>>
  BY <1>3 DEF Stmt
<1>5. GetHeadStmt(tokens, 2)[1] = <<"select">>
  BY <1>1 DEF GetHeadStmt
<1> QED
  BY <1>2, <1>4, <1>5, SameOne

\* A select does not go to all backends.
LEMMA DatabaseUntouched ==
    ASSUME NEW tokens, NEW name, QueryTokens(tokens, name)
    PROVE  CheckDatabaseFromTokens(tokens) = [show |-> FALSE, alter |-> FALSE, db |-> NoName]
<1>1. PICK head : head = GetHeadStmt(tokens, 2)
  OBVIOUS
<1>2. /\ head # Stmt(<<"show", "databases">>) /\ head # Stmt(<<"create", "database">>)
      /\ head # Stmt(<<"drop", "database">>)
  <2>1. "show" # "select" /\ "create" # "select" /\ "drop" # "select"
    OBVIOUS
  <2> QED
    BY <1>1, <2>1, HeadOfQuery
<1>3. PICK a, b, c : /\ a = Stmt(<<"show", "databases">>) /\ b = Stmt(<<"create", "database">>)
                     /\ c = Stmt(<<"drop", "database">>)
  OBVIOUS
<1>4. PICK d : d = getDatabase(SubSeq(tokens, 3, Len(tokens)), "database")
  OBVIOUS
<1>5. CheckDatabaseFromTokens(tokens) =
          [show |-> head = a, alter |-> head \in {b, c},
           db |-> IF head \in {b, c} /\ Len(tokens) >= 3 THEN d ELSE NoName]
  BY <1>1, <1>3, <1>4 DEF CheckDatabaseFromTokens
<1>6. (head = a) = FALSE /\ (head \in {b, c}) = FALSE
  BY <1>2, <1>3
<1> QED
  BY <1>5, <1>6

\* For any measurement, whatever quotes, backslashes, dots, blanks or keywords are in it,
\* and any database that may be queried: a select from the measurement in quotes is routed
\* by the two (Proxy.Query).
THEOREM IsReadThereCorrect ==
    ASSUME NEW X, NEW name \in Seq(X), NEW field, IsField(field),
           NEW db, db # NoName, ~IsForbiddenDB(db)
    PROVE  IsReadThere(field, name, db)
<1>1. PICK q, tokens : /\ q = Select(field, name)
                       /\ tokens = << <<"select">>, <<field>>, <<"from">>,
                                      <<Quote>> \o (name \o <<Quote>>) >>
  OBVIOUS
<1>2. ScanTokens(q) = [tokens |-> tokens, st |-> "ok"] /\ Trimmed(q, Space) # <<>>
  <2>1. field \notin Special
    BY Zenon DEF IsField, Special
  <2>2. /\ ScanTokens(Select(field, name)) =
                Scanned(<< <<"select">>, <<field>>, <<"from">>,
                           <<Quote>> \o (name \o <<Quote>>) >>, "ok")
        /\ Trimmed(Select(field, name), Space) # <<>>
    BY <2>1, SelectIsScanned
  <2> QED
    BY <1>1, <2>2 DEF Scanned
<1>3. QueryTokens(tokens, name)
  BY <1>1, TokensOfQuery
<1>4. /\ CheckQuery(tokens) = [check |-> TRUE, from |-> TRUE]
      /\ CheckDatabaseFromTokens(tokens) = [show |-> FALSE, alter |-> FALSE, db |-> NoName]
      /\ GetDatabaseFromTokens(tokens) = NoName
      /\ GetMeasurementFromTokens(tokens) = [found |-> TRUE, name |-> name]
  BY <1>3, CheckOfQuery, DatabaseUntouched, DatabaseOfQuery, MeasurementOfQuery
<1>5. Lower(tokens[1]) \in {<<"select">>, <<"show">>} /\ tokens # <<>>
  <2>1. Lower(tokens[1]) = <<"select">> /\ Len(tokens) = 4
    BY <1>3 DEF QueryTokens
  <2>2. Lower(tokens[1]) \in {<<"select">>, <<"show">>}
    BY <2>1, Zenon
  <2>3. tokens # <<>>
    <3> SUFFICES ASSUME tokens = <<>> PROVE FALSE
      OBVIOUS
    <3>1. PICK none : none = <<>>
      OBVIOUS
    <3>2. Len(none) = 0 /\ Len(none) = 4
      BY <2>1, <3>1
    <3> QED
      BY <3>2
  <2> QED
    BY <2>2, <2>3
<1>6. PICK scan, query, database, meas :
        /\ scan = ScanTokens(q) /\ query = CheckQuery(tokens)
        /\ database = CheckDatabaseFromTokens(tokens) /\ meas = GetMeasurementFromTokens(tokens)
  OBVIOUS
<1>7. /\ scan.tokens = tokens /\ scan.st = "ok" /\ query.check /\ query.from
      /\ database.show = FALSE /\ database.alter = FALSE /\ meas.found /\ meas.name = name
  BY <1>2, <1>4, <1>6
<1>8. Query(q, db) = [op |-> "one", key |-> GetKey(db, name)]
  <2>1. OnKey("one", db, meas) = [op |-> "one", key |-> GetKey(db, name)]
    BY <1>7 DEF OnKey
  <2>2. Destination(tokens, db) = [op |-> "one", key |-> GetKey(db, name)]
    BY <1>5, <1>6, <1>7, <2>1 DEF Destination
  <2>3. DatabaseOf(tokens, db) = db
    BY <1>4, <1>6, <1>7 DEF DatabaseOf
  <2> QED
    BY <1>2, <1>5, <1>6, <1>7, <2>2, <2>3 DEF Query
<1> QED
  BY <1>1, <1>8 DEF IsReadThere

-----------------------------------------------------------------------------
(* A body and its blocks.                                                   *)

State == [escaped : BOOLEAN, quoted : BOOLEAN, fields : BOOLEAN, open : Int]

\* What a scan from start on knows at every character, and where it ends by that.
States(at, buf, start) ==
    /\ at[start] = Fresh
    /\ \A i \in (start + 1)..Len(buf) : at[i] = Pass(at[i - 1], buf[i - 1], i < Len(buf))
Ends(at, buf, i) == buf[i] = "\n" /\ ~at[i].escaped /\ ~at[i].quoted
EndBy(at, buf, start) == FirstOf({i \in start..Len(buf) : Ends(at, buf, i)}, Len(buf) + 1)

LEMMA PassType ==
    ASSUME NEW s \in State, NEW c, NEW room
    PROVE  Pass(s, c, room) \in State
<1>1. s.escaped \in BOOLEAN /\ s.quoted \in BOOLEAN /\ s.fields \in BOOLEAN /\ s.open \in Int
  BY DEF State
<1>2. [s EXCEPT !.escaped = FALSE] \in State /\ [s EXCEPT !.escaped = TRUE] \in State
  BY DEF State
<1>3. PICK q \in BOOLEAN, f \in BOOLEAN :
         /\ f = (s.fields \/ c = Blank)
         /\ q = IF f /\ c = Quote /\ s.open > 0 THEN ~s.quoted ELSE s.quoted
  BY <1>1
<1>4. PICK o \in Int : o = IF f /\ ~s.quoted /\ c = "=" THEN s.open + 1
                           ELSE IF f /\ ~s.quoted /\ c = Comma THEN s.open - 1 ELSE s.open
  BY <1>1
<1>5. [escaped |-> FALSE, fields |-> f, quoted |-> q, open |-> o] \in State
  BY DEF State
<1> QED
  BY <1>2, <1>3, <1>4, <1>5 DEF Pass

\* The states of a scan exist for a text of any length.
LEMMA StatesExist ==
    ASSUME NEW buf, Len(buf) \in Nat, NEW start \in 1..Len(buf)
    PROVE  \E at : at = [i \in start..Len(buf) |-> IF i = start THEN Fresh
                             ELSE Pass(at[i - 1], buf[i - 1], i < Len(buf))]
<1>1. PICK n \in Nat : n = Len(buf) - start
  OBVIOUS
<1>2. PICK step : step = [x \in (1..n) \X State |->
                            Pass(x[2], buf[start + x[1] - 1], start + x[1] < Len(buf))]
  OBVIOUS
<1>3. step \in [(1..n) \X State -> State]
  <2>1. ASSUME NEW x \in (1..n) \X State
        PROVE  Pass(x[2], buf[start + x[1] - 1], start + x[1] < Len(buf)) \in State
    <3>1. x[2] \in State
      OBVIOUS
    <3> QED
      BY <3>1, PassType
  <2> QED
    BY <1>2, <2>1
<1>4. Fresh \in State
  BY DEF Fresh, State
<1>5. PICK f \in [0..n -> State] : Steps(f, Fresh, n, step)
  BY <1>3, <1>4, Iterated
<1>6. PICK at : at = [i \in start..Len(buf) |-> f[i - start]]
  OBVIOUS
<1>7. ASSUME NEW i \in start..Len(buf)
      PROVE  at[i] = IF i = start THEN Fresh ELSE Pass(at[i - 1], buf[i - 1], i < Len(buf))
  <2>1. PICK k \in 0..n : k = i - start
    BY <1>1
  <2>2. at[i] = f[k]
    BY <1>6, <2>1
  <2>3. CASE i = start
    BY <1>5, <2>1, <2>2, <2>3 DEF Steps
  <2>4. CASE i # start
    <3>1. k \in 1..n /\ k - 1 \in 0..n /\ i - 1 \in start..Len(buf) /\ (i - 1) - start = k - 1
      BY <2>1, <2>4
    <3>2. f[k] = step[<<k, f[k - 1]>>]
      BY <1>5, <3>1 DEF Steps
    <3>3. PICK s \in State : s = f[k - 1]
      BY <1>5, <3>1
    <3>4. <<k, s>> \in (1..n) \X State
      BY <3>1
    <3>5. step[<<k, s>>] = Pass(s, buf[start + k - 1], start + k < Len(buf))
      BY <1>2, <3>4
    <3>6. start + k - 1 = i - 1 /\ start + k = i
      BY <2>1
    <3>7. at[i - 1] = s
      BY <1>6, <3>1, <3>3
    <3> QED
      BY <1>5, <2>2, <2>4, <3>2, <3>3, <3>5, <3>6, <3>7
  <2> QED
    BY <2>3, <2>4
<1> QED
  BY <1>6, <1>7

\* ScanLine ends where its states first end it.
LEMMA ScanLineIs ==
    ASSUME NEW buf, Len(buf) \in Nat, NEW start \in 1..Len(buf)
    PROVE  \E at : /\ States(at, buf, start) /\ \A i \in start..Len(buf) : at[i] \in State
                   /\ ScanLine(buf, start) = EndBy(at, buf, start)
<1> DEFINE Whole(at) == at = [i \in start..Len(buf) |-> IF i = start THEN Fresh
                                ELSE Pass(at[i - 1], buf[i - 1], i < Len(buf))]
           F == CHOOSE at : Whole(at)
<1>1. ScanLine(buf, start) = EndBy(F, buf, start)
  BY DEF ScanLine, EndBy, Ends
<1>2. Whole(F)
  <2>1. \E at : Whole(at)
    BY StatesExist
  <2> HIDE DEF Whole
  <2> QED
    BY <2>1
<1> HIDE DEF F
<1>3. States(F, buf, start)
  BY <1>2 DEF States
<1>4. \A i \in start..Len(buf) : F[i] \in State
  <2> DEFINE S == {i \in start..Len(buf) : F[i] \notin State}
  <2> SUFFICES ASSUME S # {} PROVE FALSE
    OBVIOUS
  <2>1. PICK i \in S : \A j \in S : i <= j
    <3>1. S \in SUBSET Nat
      OBVIOUS
    <3> QED
      BY <3>1, Least
  <2>2. CASE i = start
    <3>1. Fresh \in State
      BY DEF Fresh, State
    <3> QED
      BY <1>3, <2>1, <2>2, <3>1 DEF States
  <2>3. CASE i # start
    <3>1. i - 1 \in start..Len(buf) /\ ~(i <= i - 1) /\ i \in (start + 1)..Len(buf)
      BY <2>1, <2>3
    <3>2. F[i - 1] \in State
      BY <2>1, <3>1
    <3>3. Pass(F[i - 1], buf[i - 1], i < Len(buf)) \in State
      BY <3>2, PassType
    <3> QED
      BY <1>3, <2>1, <3>1, <3>3 DEF States
  <2> QED
    BY <2>2, <2>3
<1> QED
  BY <1>1, <1>3, <1>4

\* Texts that agree for a while are scanned alike, wherever they stand.
Alike(buf, cuf, k, start, n) ==
    /\ n <= Len(buf) /\ k + n <= Len(cuf)
    /\ \A i \in start..n : cuf[k + i] = buf[i] /\ ((k + i < Len(cuf)) <=> (i < Len(buf)))

SameStates(at, au, k, start, n) == \A i \in start..n : au[k + i] = at[i]

\* Two scans know the same as long as their texts are alike.
LEMMA StatesAgree ==
    ASSUME NEW at, NEW buf, Len(buf) \in Nat, NEW start \in 1..Len(buf), States(at, buf, start),
           NEW au, NEW cuf, Len(cuf) \in Nat, NEW k \in Nat, States(au, cuf, k + start),
           NEW n \in Nat, Alike(buf, cuf, k, start, n)
    PROVE  SameStates(at, au, k, start, n)
<1> DEFINE S == {i \in start..n : au[k + i] # at[i]}
<1> SUFFICES ASSUME S # {} PROVE FALSE
  BY DEF SameStates
<1>1. PICK i \in S : \A j \in S : i <= j
  <2>1. S \in SUBSET Nat
    OBVIOUS
  <2> QED
    BY <2>1, Least
<1>2. CASE i = start
  BY <1>1, <1>2 DEF States
<1>3. CASE i # start
  <2>1. i - 1 \in start..n /\ ~(i <= i - 1) /\ i \in (start + 1)..Len(buf)
    BY <1>1, <1>3 DEF Alike
  <2>2. au[k + (i - 1)] = at[i - 1]
    BY <1>1, <2>1
  <2>3. PICK j : j = k + i
    OBVIOUS
  <2>4. j \in (k + start + 1)..Len(cuf) /\ j - 1 = k + (i - 1)
    BY <1>1, <2>1, <2>3 DEF Alike
  <2>5. au[j] = Pass(au[j - 1], cuf[j - 1], j < Len(cuf))
    BY <2>4 DEF States
  <2>6. at[i] = Pass(at[i - 1], buf[i - 1], i < Len(buf))
    BY <2>1 DEF States
  <2>7. cuf[j - 1] = buf[i - 1]
    BY <2>1, <2>4 DEF Alike
  <2>8. (j < Len(cuf)) = (i < Len(buf))
    BY <1>1, <2>3 DEF Alike
  <2>9. au[j] = at[i]
    BY <2>2, <2>4, <2>5, <2>6, <2>7, <2>8
  <2> QED
    BY <1>1, <2>3, <2>9
<1> QED
  BY <1>2, <1>3

\* ScanLine ends at its first end.
LEMMA EndIs ==
    ASSUME NEW at, NEW buf, Len(buf) \in Nat, NEW start \in 1..Len(buf), NEW e,
           e = EndBy(at, buf, start)
    PROVE  /\ e \in start..(Len(buf) + 1) /\ (e <= Len(buf) => Ends(at, buf, e))
           /\ \A i \in start..Len(buf) : i < e => ~Ends(at, buf, i)
<1>1. PICK S : S = {i \in start..Len(buf) : Ends(at, buf, i)}
  OBVIOUS
<1>2. e = FirstOf(S, Len(buf) + 1) /\ S \in SUBSET Nat
  BY <1>1 DEF EndBy
<1>3. CASE S = {}
  <2>1. e = Len(buf) + 1
    BY <1>2, <1>3 DEF FirstOf
  <2> QED
    BY <1>1, <1>3, <2>1
<1>4. CASE S # {}
  <2>1. e \in S /\ \A i \in S : e <= i
    BY <1>2, <1>4, FirstOfIs
  <2>2. \A i \in start..Len(buf) : i < e => i \notin S
    BY <1>2, <2>1
  <2> QED
    BY <1>1, <2>1, <2>2
<1> QED
  BY <1>3, <1>4

\* The first end is where ScanLine ends.
LEMMA EndHere ==
    ASSUME NEW at, NEW buf, Len(buf) \in Nat, NEW start \in 1..Len(buf),
           NEW e \in start..(Len(buf) + 1), e <= Len(buf) => Ends(at, buf, e),
           \A i \in start..Len(buf) : i < e => ~Ends(at, buf, i)
    PROVE  EndBy(at, buf, start) = e
<1>1. PICK f : f = EndBy(at, buf, start)
  OBVIOUS
<1>2. /\ f \in start..(Len(buf) + 1) /\ (f <= Len(buf) => Ends(at, buf, f))
      /\ \A i \in start..Len(buf) : i < f => ~Ends(at, buf, i)
  BY <1>1, EndIs
<1> QED
  BY <1>1, <1>2

\* A line goes on at least to the next character.
LEMMA ScanLineGoesOn ==
    ASSUME NEW buf, Len(buf) \in Nat, NEW start \in Nat, start <= Len(buf)
    PROVE  ScanLine(buf, start) \in start..(Len(buf) + 1)
<1>1. PICK at : ScanLine(buf, start) = FirstOf({i \in start..Len(buf) : Ends(at, buf, i)}, Len(buf) + 1)
  BY DEF ScanLine, Ends
<1>2. PICK S : S = {i \in start..Len(buf) : Ends(at, buf, i)}
  OBVIOUS
<1>3. ScanLine(buf, start) = FirstOf(S, Len(buf) + 1) /\ S \in SUBSET Nat
  BY <1>1, <1>2
<1>4. CASE S = {}
  <2>1. ScanLine(buf, start) = Len(buf) + 1
    BY <1>3, <1>4 DEF FirstOf
  <2> QED
    BY <2>1
<1>5. CASE S # {}
  <2>1. FirstOf(S, Len(buf) + 1) \in S
    BY <1>3, <1>5, FirstOfIs
  <2> QED
    BY <1>2, <1>3, <2>1
<1> QED
  BY <1>4, <1>5

\* What stands before a line does not matter.
LEMMA ScanLineBehind ==
    ASSUME NEW body, NEW pre, NEW rest, Both(body, pre, rest), NEW p \in 1..Len(rest)
    PROVE  ScanLine(body, Len(pre) + p) = Len(pre) + ScanLine(rest, p)
<1>1. PICK k, n \in Nat : k = Len(pre) /\ n = Len(rest)
  BY DEF Both
<1>2. Len(body) = k + n /\ \A i \in 1..n : body[k + i] = rest[i]
  BY <1>1 DEF Both
<1>3. k + p \in 1..Len(body) /\ Len(body) \in Nat /\ p \in 1..n
  BY <1>1, <1>2
<1>4. PICK at : States(at, rest, p) /\ ScanLine(rest, p) = EndBy(at, rest, p)
  BY <1>1, ScanLineIs
<1>5. PICK au : States(au, body, k + p) /\ ScanLine(body, k + p) = EndBy(au, body, k + p)
  BY <1>3, ScanLineIs
<1>6. \A i \in p..n : au[k + i] = at[i]
  <2>1. \A i \in p..n : body[k + i] = rest[i] /\ ((k + i < Len(body)) <=> (i < Len(rest)))
    BY <1>1, <1>2, <1>3
  <2>2. n <= Len(rest) /\ k + n <= Len(body)
    BY <1>1, <1>2
  <2>3. Alike(rest, body, k, p, n)
    BY <2>1, <2>2 DEF Alike
  <2>4. Len(rest) \in Nat /\ Len(body) \in Nat
    BY <1>1, <1>3
  <2>5. SameStates(at, au, k, p, n)
    BY <1>3, <1>4, <1>5, <2>3, <2>4, StatesAgree
  <2> QED
    BY <2>5 DEF SameStates
<1>7. PICK e : e = EndBy(at, rest, p)
  OBVIOUS
<1>8. /\ e \in p..(n + 1) /\ (e <= n => Ends(at, rest, e))
      /\ \A i \in p..n : i < e => ~Ends(at, rest, i)
  BY <1>1, <1>7, EndIs
<1>9. \A i \in p..n : Ends(au, body, k + i) <=> Ends(at, rest, i)
  BY <1>2, <1>3, <1>6 DEF Ends
<1>10. PICK f : f = k + e
  OBVIOUS
<1>11. /\ f \in (k + p)..(Len(body) + 1) /\ (f <= Len(body) => Ends(au, body, f))
       /\ \A i \in (k + p)..Len(body) : i < f => ~Ends(au, body, i)
  <2>1. f \in (k + p)..(Len(body) + 1) /\ (f <= Len(body) => e \in p..n)
    BY <1>2, <1>3, <1>8, <1>10
  <2>2. f <= Len(body) => Ends(au, body, f)
    BY <1>8, <1>9, <1>10, <2>1
  <2>3. ASSUME NEW i \in (k + p)..Len(body), i < f PROVE ~Ends(au, body, i)
    <3>1. PICK j \in p..n : i = k + j /\ j < e
      <4>1. i - k \in p..n /\ i = k + (i - k) /\ i - k < e
        BY <1>2, <1>3, <1>8, <1>10, <2>3
      <4> QED
        BY <4>1
    <3> QED
      BY <1>8, <1>9, <3>1
  <2> QED
    BY <2>1, <2>2, <2>3
<1>12. EndBy(au, body, k + p) = f
  BY <1>3, <1>11, EndHere
<1> QED
  BY <1>1, <1>4, <1>5, <1>7, <1>10, <1>12

\* Texts that agree beyond where a line ends have their line ends there.
LEMMA EndsAlike ==
    ASSUME NEW buf, NEW cuf, Len(buf) \in Nat, Len(cuf) \in Nat, NEW e \in 1..Len(buf),
           e <= Len(cuf), ScanLine(buf, 1) = e, Alike(buf, cuf, 0, 1, e)
    PROVE  ScanLine(cuf, 1) = e
<1>1. PICK k, one \in Nat : k = 0 /\ one = 1 /\ k + one = one
  OBVIOUS
<1>2. one \in 1..Len(buf) /\ one \in 1..Len(cuf) /\ one \in 1..e
  BY <1>1
<1>3. PICK at : States(at, buf, one) /\ ScanLine(buf, one) = EndBy(at, buf, one)
  BY <1>2, ScanLineIs
<1>4. PICK au : States(au, cuf, one) /\ ScanLine(cuf, one) = EndBy(au, cuf, one)
  BY <1>2, ScanLineIs
<1>5. SameStates(at, au, k, one, e)
  <2>1. Alike(buf, cuf, k, one, e) /\ States(au, cuf, k + one) /\ e \in Nat
    BY <1>1, <1>4
  <2> QED
    BY <1>2, <1>3, <2>1, StatesAgree
<1>6. \A i \in 1..e : au[i] = at[i] /\ cuf[i] = buf[i]
  <2>1. \A i \in 1..e : k + i = i
    BY <1>1
  <2>2. \A i \in 1..e : au[k + i] = at[i]
    BY <1>1, <1>5 DEF SameStates
  <2>3. \A i \in 1..e : cuf[k + i] = buf[i]
    BY <1>1 DEF Alike
  <2> QED
    BY <2>1, <2>2, <2>3
<1>7. \A i \in 1..e : Ends(au, cuf, i) <=> Ends(at, buf, i)
  BY <1>6 DEF Ends
<1>8. Ends(at, buf, e) /\ \A i \in 1..Len(buf) : i < e => ~Ends(at, buf, i)
  <2>1. e = EndBy(at, buf, one)
    BY <1>1, <1>3
  <2> QED
    BY <1>1, <1>2, <2>1, EndIs
<1>9. Ends(au, cuf, e) /\ \A i \in 1..Len(cuf) : i < e => ~Ends(au, cuf, i)
  BY <1>7, <1>8
<1>10. EndBy(au, cuf, one) = e
  <2>1. e \in one..(Len(cuf) + 1)
    BY <1>1
  <2> QED
    BY <1>1, <1>2, <1>9, <2>1, EndHere
<1> QED
  BY <1>1, <1>4, <1>10

Feed == <<"\n">>
TwoFeeds == <<"\n", "\n">>

\* What IsBlock says of the three texts.
LEMMA BlockIs ==
    ASSUME NEW X, NEW block \in Seq(X), IsBlock(block)
    PROVE  /\ ScanLine(block, 1) = Len(block) + 1
           /\ ScanLine(block \o Feed, 1) = Len(block) + 1
           /\ ScanLine(block \o TwoFeeds, 1) = Len(block) + 1
<1>1. ScanLine(block \o <<>>, 1) = Len(block) + 1
  BY DEF IsBlock
<1>2. block \o <<>> = block
  BY ConcatEmptySeq
<1>3. ScanLine(block \o Feed, 1) = Len(block) + 1
  BY DEF IsBlock, Feed
<1>4. ScanLine(block \o TwoFeeds, 1) = Len(block) + 1
  BY DEF IsBlock, TwoFeeds
<1> QED
  BY <1>1, <1>2, <1>3, <1>4

\* A block ends before its line feed, whatever comes behind.
LEMMA BlockEndsBehind ==
    ASSUME NEW X, NEW block \in Seq(X), IsBlock(block), NEW rest \in Seq(X), NEW tail,
           Both(tail, Feed, rest), NEW body, Both(body, block, tail), rest = <<>> => body = block \o Feed
    PROVE  ScanLine(body, 1) = Len(block) + 1
<1>1. PICK b, r \in Nat : b = Len(block) /\ r = Len(rest)
  OBVIOUS
<1>2. CASE rest = <<>>
  BY <1>2, BlockIs
<1>3. CASE rest # <<>>
  <2>1. r # 0
    BY <1>1, <1>3, EmptySeq
  <2>2. Feed[1] = "\n" /\ Len(Feed) = 1 /\ TwoFeeds[1] = "\n" /\ Len(TwoFeeds) = 2
    BY DEF Feed, TwoFeeds
  <2>3. Len(tail) = 1 + r /\ tail[1] = "\n"
    BY <1>1, <2>2 DEF Both
  <2>4. Len(body) = b + 1 + r /\ (\A i \in 1..b : body[i] = block[i]) /\ body[b + 1] = "\n"
    <3>1. 1 \in 1..Len(tail)
      BY <1>1, <2>3
    <3>2. body[Len(block) + 1] = tail[1]
      BY <3>1 DEF Both
    <3>3. Len(body) = Len(block) + Len(tail) /\ \A i \in 1..Len(block) : body[i] = block[i]
      BY DEF Both
    <3>4. b + (1 + r) = b + 1 + r
      OBVIOUS
    <3> QED
      BY <1>1, <2>3, <3>2, <3>3, <3>4
  <2>5. PICK std : std = block \o TwoFeeds
    OBVIOUS
  <2>6. Len(std) = b + 2 /\ (\A i \in 1..b : std[i] = block[i]) /\ std[b + 1] = "\n"
    <3>1. PICK Y : Y = X \cup {"\n"}
      OBVIOUS
    <3>2. X \subseteq Y /\ "\n" \in Y
      BY <3>1
    <3>3. block \in Seq(Y) /\ TwoFeeds \in Seq(Y)
      BY <3>2 DEF TwoFeeds
    <3>4. Both(std, block, TwoFeeds)
      BY <2>5, <3>3, Joined
    <3>5. 1 \in 1..Len(TwoFeeds)
      BY <2>2
    <3> QED
      BY <1>1, <2>2, <3>4, <3>5 DEF Both
  <2>7. PICK e \in Nat : e = b + 1
    OBVIOUS
  <2>8. Alike(std, body, 0, 1, e)
    <3>1. \A i \in 1..e : body[i] = std[i]
      BY <1>1, <2>4, <2>6, <2>7
    <3>2. \A i \in 1..e : i < Len(body) /\ i < Len(std) /\ 0 + i = i
      BY <1>1, <2>1, <2>4, <2>6, <2>7
    <3>3. e <= Len(std) /\ 0 + e <= Len(body)
      BY <1>1, <2>1, <2>4, <2>6, <2>7
    <3> QED
      BY <3>1, <3>2, <3>3 DEF Alike
  <2>9. ScanLine(std, 1) = e
    BY <1>1, <2>5, <2>7, BlockIs
  <2>10. /\ Len(std) \in Nat /\ Len(body) \in Nat /\ e \in 1..Len(std) /\ e <= Len(body)
    BY <1>1, <2>1, <2>4, <2>6, <2>7
  <2>11. ScanLine(body, 1) = e
    BY <2>8, <2>9, <2>10, EndsAlike
  <2> QED
    BY <1>1, <2>7, <2>11
<1> QED
  BY <1>2, <1>3

\* Only a quote that is not escaped begins or ends a string, and only a backslash with
\* room behind it escapes.
LEMMA PassIs ==
    ASSUME NEW s \in State, NEW c, NEW room
    PROVE  /\ Pass(s, c, room).quoted =
                  IF ~s.escaped /\ s.fields /\ c = Quote /\ s.open > 0 THEN ~s.quoted ELSE s.quoted
           /\ Pass(s, c, room).escaped => room
<1>1. Quote # "\\" /\ Quote # Blank
  BY Zenon DEF Quote, Blank
<1>2. s.escaped \in BOOLEAN /\ s.quoted \in BOOLEAN /\ s.fields \in BOOLEAN /\ s.open \in Int
  BY DEF State
<1>3. CASE s.escaped
  <2>1. Pass(s, c, room) = [s EXCEPT !.escaped = FALSE]
    BY <1>3 DEF Pass
  <2>2. [s EXCEPT !.escaped = FALSE].quoted = s.quoted /\ [s EXCEPT !.escaped = FALSE].escaped = FALSE
    BY DEF State
  <2> QED
    BY <1>2, <1>3, <2>1, <2>2
<1>4. CASE ~s.escaped /\ c = "\\" /\ room
  <2>1. Pass(s, c, room) = [s EXCEPT !.escaped = TRUE]
    BY <1>4 DEF Pass
  <2>2. [s EXCEPT !.escaped = TRUE].quoted = s.quoted /\ [s EXCEPT !.escaped = TRUE].escaped = TRUE
    BY DEF State
  <2> QED
    BY <1>1, <1>2, <1>4, <2>1, <2>2
<1>5. CASE ~s.escaped /\ ~(c = "\\" /\ room)
  <2>1. PICK r : r = Pass(s, c, room)
    OBVIOUS
  <2>2. /\ r.escaped = FALSE
        /\ r.quoted = IF (s.fields \/ c = Blank) /\ c = Quote /\ s.open > 0 THEN ~s.quoted ELSE s.quoted
    BY <1>5, <2>1 DEF Pass
  <2> QED
    BY <1>1, <1>5, <2>1, <2>2
<1> QED
  BY <1>3, <1>4, <1>5

\* Strings that are still open at the end of a block would swallow its line feed.
LEMMA LastIsNoFeed ==
    ASSUME NEW X, NEW block \in Seq(X), IsBlock(block), NEW n \in Nat \ {0}, n = Len(block)
    PROVE  block[n] # "\n"
<1> SUFFICES ASSUME block[n] = "\n" PROVE FALSE
  OBVIOUS
<1>1. PICK one \in Nat : one = 1
  OBVIOUS
<1>2. PICK ext : ext = block \o Feed
  OBVIOUS
<1>3. Len(ext) = n + 1 /\ (\A i \in 1..n : ext[i] = block[i]) /\ ext[n + 1] = "\n"
  <2>1. PICK Y : Y = X \cup {"\n"}
    OBVIOUS
  <2>2. X \subseteq Y /\ "\n" \in Y
    BY <2>1
  <2>3. block \in Seq(Y) /\ Feed \in Seq(Y) /\ Len(Feed) = 1 /\ Feed[1] = "\n"
    BY <2>2 DEF Feed
  <2>4. Both(ext, block, Feed)
    BY <1>2, <2>3, Joined
  <2>5. 1 \in 1..Len(Feed)
    BY <2>3
  <2> QED
    BY <2>3, <2>4, <2>5 DEF Both
<1>4. one \in 1..Len(block) /\ one \in 1..Len(ext) /\ Len(ext) \in Nat /\ Len(block) \in Nat
  BY <1>1, <1>3
<1>5. PICK at : /\ States(at, block, one) /\ \A i \in one..Len(block) : at[i] \in State
                /\ ScanLine(block, one) = EndBy(at, block, one)
  BY <1>4, ScanLineIs
<1>6. PICK au : /\ States(au, ext, one) /\ \A i \in one..Len(ext) : au[i] \in State
                /\ ScanLine(ext, one) = EndBy(au, ext, one)
  BY <1>4, ScanLineIs
<1>7. EndBy(at, block, one) = n + 1 /\ EndBy(au, ext, one) = n + 1
  BY <1>1, <1>2, <1>5, <1>6, BlockIs
<1>8. at[n].escaped \/ at[n].quoted
  <2>1. PICK e : e = EndBy(at, block, one)
    OBVIOUS
  <2>2. \A i \in one..Len(block) : i < e => ~Ends(at, block, i)
    BY <1>4, <2>1, EndIs
  <2>3. n \in one..Len(block) /\ n < e
    BY <1>1, <1>7, <2>1
  <2> QED
    BY <2>2, <2>3 DEF Ends
<1>9. ~au[n + 1].quoted
  <2>1. PICK e : e = EndBy(au, ext, one)
    OBVIOUS
  <2>2. e <= Len(ext) => Ends(au, ext, e)
    BY <1>4, <2>1, EndIs
  <2>3. e = n + 1 /\ e <= Len(ext)
    BY <1>3, <1>7, <2>1
  <2> QED
    BY <2>2, <2>3 DEF Ends
<1>10. au[n + 1].quoted = au[n].quoted
  <2>1. n + 1 \in (one + 1)..Len(ext) /\ (n + 1) - 1 = n /\ n \in one..Len(ext)
    BY <1>1, <1>3
  <2>2. au[n + 1] = Pass(au[n], ext[n], n + 1 < Len(ext))
    BY <1>6, <2>1 DEF States
  <2>3. ext[n] # Quote
    <3>1. Quote # "\n"
      BY Zenon DEF Quote
    <3> QED
      BY <1>3, <3>1
  <2>4. au[n] \in State
    BY <1>6, <2>1
  <2> QED
    BY <2>2, <2>3, <2>4, PassIs
<1>11. n # 1
  <2> SUFFICES ASSUME n = 1 PROVE FALSE
    OBVIOUS
  <2>1. at[1] = Fresh /\ au[1] = Fresh
    BY <1>1, <1>5, <1>6 DEF States
  <2> QED
    BY <1>8, <2>1 DEF Fresh
<1>12. PICK m \in Nat \ {0} : m = n - 1 /\ n = m + 1
  BY <1>11
<1>13. m \in 1..m /\ m \in one..Len(block) /\ m \in one..Len(ext)
  BY <1>1, <1>3, <1>12
<1>14. au[m] = at[m]
  <2>1. Alike(block, ext, 0, one, m)
    <3>1. m <= Len(block) /\ 0 + m <= Len(ext)
      BY <1>3, <1>12
    <3>2. \A i \in one..m : 0 + i = i /\ i \in 1..n /\ i < Len(ext) /\ i < Len(block)
      BY <1>1, <1>3, <1>12
    <3> QED
      BY <1>3, <3>1, <3>2 DEF Alike
  <2>2. PICK k \in Nat : k = 0
    OBVIOUS
  <2>3. States(au, ext, k + one) /\ Alike(block, ext, k, one, m)
    BY <1>1, <1>6, <2>1, <2>2
  <2>4. SameStates(at, au, k, one, m)
    BY <1>4, <1>5, <2>3, StatesAgree
  <2>5. au[k + m] = at[m]
    BY <1>1, <1>13, <2>4 DEF SameStates
  <2> QED
    BY <2>2, <2>5
<1>15. at[n] = Pass(at[m], block[m], n < Len(block)) /\ au[n] = Pass(au[m], ext[m], n < Len(ext))
  <2>1. n \in (one + 1)..Len(block) /\ n \in (one + 1)..Len(ext) /\ n - 1 = m
    BY <1>1, <1>3, <1>12
  <2> QED
    BY <1>5, <1>6, <2>1 DEF States
<1>16. ext[m] = block[m] /\ at[m] \in State
  BY <1>3, <1>5, <1>12, <1>13
<1>17. ~at[n].escaped
  <2>1. ~(n < Len(block))
    OBVIOUS
  <2>2. PICK s, c, room : s = at[m] /\ c = block[m] /\ room = (n < Len(block)) /\ s \in State
    BY <1>16
  <2>3. Pass(s, c, room).escaped => room
    BY <2>2, PassIs
  <2> QED
    BY <1>15, <2>1, <2>2, <2>3
<1>18. au[n].quoted = at[n].quoted
  BY <1>14, <1>15, <1>16, PassIs
<1> QED
  BY <1>8, <1>9, <1>10, <1>17, <1>18

-----------------------------------------------------------------------------
(* All lines of a body.                                                     *)

\* What becomes of a block, with the code's care for a line feed at its end.
BlockLines(block) ==
    LET start == SkipWhitespace(block, 1)
        stop == IF block # <<>> /\ Last(block) = "\n" THEN Len(block) - 1 ELSE Len(block)
        line == SubSeq(block, start, stop)
    IN  IF line = <<>> \/ line[1] = "#" THEN <<>> ELSE <<line>>
LineStep(from, body, pos) ==
    IF pos > Len(body) THEN <<>>
    ELSE BlockLines(SubSeq(body, pos, ScanLine(body, pos) - 1)) \o from[ScanLine(body, pos) + 1]
CutsInto(from, body, D) == from = [i \in D |-> LineStep(from, body, i)]

LEMMA LineStepAhead ==
    ASSUME NEW f, NEW g, NEW body, NEW i \in Nat, Len(body) \in Nat,
           \A j \in Nat : i < j => f[j] = g[j]
    PROVE  LineStep(f, body, i) = LineStep(g, body, i)
<1>1. CASE i > Len(body)
  BY <1>1 DEF LineStep
<1>2. CASE ~(i > Len(body))
  <2>1. PICK e : e = ScanLine(body, i)
    OBVIOUS
  <2>2. e \in i..(Len(body) + 1)
    BY <1>2, <2>1, ScanLineGoesOn
  <2>3. e + 1 \in Nat /\ i < e + 1
    BY <2>2
  <2>4. f[e + 1] = g[e + 1]
    BY <2>3
  <2> QED
    BY <1>2, <2>1, <2>4 DEF LineStep
<1> QED
  BY <1>1, <1>2

\* The lines of a body of any length exist.
LEMMA LinesExist ==
    ASSUME NEW body, Len(body) \in Nat
    PROVE  \E from : CutsInto(from, body, Nat)
<1> DEFINE n == Len(body) + 1
           P(m) == \E from : CutsInto(from, body, Beyond(n - m))
           S == {m \in 0..n : ~P(m)}
<1>1. S = {}
  <2> SUFFICES ASSUME S # {} PROVE FALSE
    OBVIOUS
  <2>1. PICK m \in S : \A k \in S : m <= k
    <3>1. S \in SUBSET Nat
      OBVIOUS
    <3> QED
      BY <3>1, Least
  <2>2. m \in 0..n /\ ~P(m)
    BY <2>1
  <2>3. m # 0
    <3> SUFFICES P(0)
      BY <2>2
    <3>1. PICK from : from = [i \in Beyond(n - 0) |-> <<>>]
      OBVIOUS
    <3>2. ASSUME NEW i \in Beyond(n - 0) PROVE LineStep(from, body, i) = <<>>
      <4>1. i \in Nat /\ i > Len(body)
        BY DEF Beyond
      <4> QED
        BY <4>1 DEF LineStep
    <3>3. from = [i \in Beyond(n - 0) |-> LineStep(from, body, i)]
      BY <3>1, <3>2
    <3> QED
      BY <3>3 DEF CutsInto
  <2>4. PICK i0 \in Nat : i0 = n - m /\ n - (m - 1) = i0 + 1 /\ i0 < n
    <3>1. n - m \in Nat /\ n - (m - 1) = (n - m) + 1 /\ n - m < n
      BY <2>2, <2>3
    <3> QED
      BY <3>1
  <2>5. P(m - 1)
    <3>1. m - 1 \in 0..n /\ ~(m <= m - 1)
      BY <2>2, <2>3
    <3>2. m - 1 \notin S
      <4> HIDE DEF S
      <4> QED
        BY <2>1, <3>1
    <3> HIDE DEF P
    <3> QED
      BY <3>1, <3>2
  <2>6. PICK f : CutsInto(f, body, Beyond(i0 + 1))
    BY <2>4, <2>5
  <2>7. PICK x : x = LineStep(f, body, i0)
    OBVIOUS
  <2>8. PICK g : g = [i \in Beyond(i0) |-> IF i = i0 THEN x ELSE f[i]]
    OBVIOUS
  <2>9. \A j \in Nat : i0 < j => g[j] = f[j]
    BY <2>8 DEF Beyond
  <2>10. ASSUME NEW i \in Beyond(i0) PROVE g[i] = LineStep(g, body, i)
    <3>1. i \in Nat /\ i >= i0
      BY <2>4 DEF Beyond
    <3>2. LineStep(g, body, i) = LineStep(f, body, i)
      <4>1. \A j \in Nat : i < j => g[j] = f[j]
        BY <2>9, <3>1
      <4> QED
        BY <3>1, <4>1, LineStepAhead
    <3>3. CASE i = i0
      BY <2>7, <2>8, <3>2, <3>3
    <3>4. CASE i # i0
      <4>1. i \in Beyond(i0 + 1) /\ i0 < i
        BY <3>1, <3>4 DEF Beyond
      <4>2. f[i] = LineStep(f, body, i)
        BY <2>6, <4>1 DEF CutsInto
      <4> QED
        BY <2>9, <3>1, <3>2, <4>1, <4>2
    <3> QED
      BY <3>3, <3>4
  <2>11. CutsInto(g, body, Beyond(i0))
    <3>1. \E y : g = [i \in Beyond(i0) |-> y[i]]
      <4>1. PICK y : y = [i \in Beyond(i0) |-> IF i = i0 THEN x ELSE f[i]]
        OBVIOUS
      <4>2. g = [i \in Beyond(i0) |-> y[i]]
        BY <2>8, <4>1
      <4> QED
        BY <4>2
    <3>2. g = [i \in Beyond(i0) |-> g[i]]
      BY <3>1
    <3> QED
      BY <2>10, <3>2 DEF CutsInto
  <2>12. P(m)
    BY <2>4, <2>11
  <2> QED
    BY <2>2, <2>12
<1>2. P(n)
  <2>1. n \in 0..n
    OBVIOUS
  <2> HIDE DEF P, n
  <2> QED
    BY <1>1, <2>1
<1>3. Beyond(n - n) = Nat
  BY DEF Beyond
<1> QED
  BY <1>2, <1>3

\* Lines is what is cut from the first character on.
LEMMA LinesAre ==
    ASSUME NEW body, Len(body) \in Nat
    PROVE  \E from : (\A i \in Nat : from[i] = LineStep(from, body, i)) /\ Lines(body) = from[1]
<1> DEFINE F == CHOOSE from : CutsInto(from, body, Nat)
<1>1. Lines(body) = F[1]
  BY DEF Lines, CutsInto, LineStep, BlockLines
<1>2. CutsInto(F, body, Nat)
  BY LinesExist
<1> HIDE DEF F
<1>3. \A i \in Nat : F[i] = LineStep(F, body, i)
  BY <1>2 DEF CutsInto
<1> QED
  BY <1>1, <1>3

\* A block's line.
LEMMA BlockLinesAre ==
    ASSUME NEW X, NEW block \in Seq(X), IsBlock(block)
    PROVE  BlockLines(block) = LineOf(block)
<1>1. PICK n \in Nat : n = Len(block)
  OBVIOUS
<1>2. PICK shown : shown = {i \in 1..n : block[i] \notin {Blank, "\t", "NUL"}}
  OBVIOUS
<1>3. PICK stop : stop = IF block # <<>> /\ Last(block) = "\n" THEN n - 1 ELSE n
  OBVIOUS
<1>4. stop = n
  <2>1. CASE n = 0
    <3>1. block = <<>>
      BY <1>1, <2>1, EmptySeq
    <3> QED
      BY <1>3, <3>1
  <2>2. CASE n # 0
    <3>1. block[n] # "\n"
      BY <1>1, <2>2, LastIsNoFeed
    <3> QED
      BY <1>1, <1>3, <3>1 DEF Last
  <2> QED
    BY <2>1, <2>2
<1>5. PICK start : start = FirstOf(shown, n + 1)
  OBVIOUS
<1>6. SkipWhitespace(block, 1) = start
  BY <1>1, <1>2, <1>5 DEF SkipWhitespace
<1>7. PICK line : line = SubSeq(block, start, n)
  OBVIOUS
<1>8. BlockLines(block) = IF line = <<>> \/ line[1] = "#" THEN <<>> ELSE <<line>>
  BY <1>1, <1>3, <1>4, <1>6, <1>7 DEF BlockLines
<1>9. CASE shown = {}
  <2>1. start = n + 1
    BY <1>5, <1>9 DEF FirstOf
  <2>2. PICK m \in Nat \ {0} : m = n + 1
    OBVIOUS
  <2>3. Len(SubSeq(block, m, n)) = 0 /\ SubSeq(block, m, n) \in Seq(X)
    BY <1>1, <2>2, PartType
  <2>4. line = <<>>
    BY <1>7, <2>1, <2>2, <2>3, EmptySeq
  <2>5. LineOf(block) = <<>>
    BY <1>1, <1>2, <1>9 DEF LineOf
  <2> QED
    BY <1>8, <2>4, <2>5
<1>10. CASE shown # {}
  <2>1. start = FirstOf(shown, 0)
    BY <1>5, <1>10 DEF FirstOf
  <2>2. start \in shown
    <3>1. shown \in SUBSET Nat
      BY <1>2
    <3> QED
      BY <1>5, <1>10, <3>1, FirstOfIs
  <2>3. PICK m \in Nat \ {0} : m = start /\ m <= n
    BY <1>2, <2>2
  <2>4. /\ line \in Seq(X) /\ Len(line) = n - m + 1
        /\ \A i \in 1..Len(line) : line[i] = block[m + i - 1]
    BY <1>1, <1>7, <2>3, PartType
  <2>5. line # <<>> /\ line[1] = block[m]
    BY <1>1, <2>3, <2>4
  <2>6. LineOf(block) = IF shown = {} \/ block[m] = "#" THEN <<>> ELSE <<line>>
    BY <1>1, <1>2, <1>7, <2>1, <2>3 DEF LineOf
  <2> QED
    BY <1>8, <1>10, <2>5, <2>6
<1> QED
  BY <1>9, <1>10

\* How far the rest of a body is cut already.
Cuts(from, body) == \A i \in Nat : from[i] = LineStep(from, body, i)

\* A line from i to before e, and the lines behind it.
Line(from, body, i, e) == BlockLines(SubSeq(body, i, e - 1)) \o from[e + 1]

\* Behind the body there is no line.
LEMMA CutsEnd ==
    ASSUME NEW f, NEW body, Cuts(f, body), NEW i \in Nat, Len(body) \in Nat, i > Len(body)
    PROVE  f[i] = <<>>
BY DEF Cuts, LineStep

\* A line goes as far as ScanLine.
LEMMA CutsStep ==
    ASSUME NEW f, NEW body, Cuts(f, body), NEW i \in Nat, Len(body) \in Nat, i <= Len(body)
    PROVE  f[i] = Line(f, body, i, ScanLine(body, i))
<1>1. ~(i > Len(body))
  OBVIOUS
<1>2. f[i] = LineStep(f, body, i)
  BY DEF Cuts
<1> QED
  BY <1>1, <1>2 DEF LineStep, Line

SamePart(body, rest, k, p, q) == SubSeq(body, k + p, k + q) = SubSeq(rest, p, q)
SameFrom(f, g, k) == \A p \in Nat \ {0} : f[k + p] = g[p]

\* A part of a text is a part of what stands behind something else.
LEMMA PartBehind ==
    ASSUME NEW X, NEW body \in Seq(X), NEW rest \in Seq(X), NEW pre, Both(body, pre, rest),
           NEW k \in Nat, k = Len(pre), NEW p \in Nat \ {0}, NEW q \in Nat, q <= Len(rest)
    PROVE  SamePart(body, rest, k, p, q)
<1>1. Len(body) = k + Len(rest) /\ \A i \in 1..Len(rest) : body[k + i] = rest[i]
  BY DEF Both
<1>2. k + p \in Nat \ {0} /\ k + q \in Nat /\ k + q <= Len(body)
  BY <1>1
<1>3. PICK s, t : s = SubSeq(body, k + p, k + q) /\ t = SubSeq(rest, p, q)
  OBVIOUS
<1>4. /\ s \in Seq(X) /\ Len(s) = IF k + p <= k + q THEN (k + q) - (k + p) + 1 ELSE 0
      /\ \A i \in 1..Len(s) : s[i] = body[k + p + i - 1]
  BY <1>2, <1>3, PartType
<1>5. /\ t \in Seq(X) /\ Len(t) = IF p <= q THEN q - p + 1 ELSE 0
      /\ \A i \in 1..Len(t) : t[i] = rest[p + i - 1]
  BY <1>3, PartType
<1>6. Len(s) = Len(t)
  BY <1>4, <1>5
<1>7. ASSUME NEW i \in 1..Len(s) PROVE s[i] = t[i]
  <2>1. PICK j \in 1..Len(rest) : j = p + i - 1 /\ k + p + i - 1 = k + j
    <3>1. p + i - 1 \in 1..Len(rest)
      BY <1>4
    <3> QED
      BY <3>1
  <2> QED
    BY <1>1, <1>4, <1>5, <1>6, <2>1
<1> QED
  <2>1. s = t
    BY <1>4, <1>5, <1>6, <1>7, SeqEqual
  <2> QED
    BY <1>3, <2>1 DEF SamePart

\* The lines of a rest do not depend on what stands before it.
LEMMA LinesBehind ==
    ASSUME NEW X, NEW body \in Seq(X), NEW rest \in Seq(X), NEW pre, Both(body, pre, rest),
           NEW f, Cuts(f, body), NEW g, Cuts(g, rest), NEW k \in Nat, k = Len(pre)
    PROVE  SameFrom(f, g, k)
<1>1. PICK n \in Nat : n = Len(rest) /\ Len(body) = k + n
  BY DEF Both
<1>2. ASSUME NEW p \in Nat \ {0}, p > n PROVE f[k + p] = g[p]
  <2>1. k + p \in Nat /\ k + p > Len(body) /\ Len(body) \in Nat /\ Len(rest) \in Nat
    BY <1>1, <1>2
  <2>2. f[k + p] = <<>>
    BY <2>1, CutsEnd
  <2>3. g[p] = <<>>
    BY <1>1, <1>2, <2>1, CutsEnd
  <2> QED
    BY <2>2, <2>3
<1> DEFINE S == {p \in 1..n : f[k + p] # g[p]}
<1>3. S = {}
  <2> SUFFICES ASSUME S # {} PROVE FALSE
    OBVIOUS
  <2>1. PICK p \in S : \A q \in S : q <= p
    <3>1. S \in SUBSET (0..n)
      OBVIOUS
    <3> HIDE DEF S
    <3> QED
      BY <3>1, LastOfIs
  <2>2. p \in 1..n /\ f[k + p] # g[p]
    BY <2>1
  <2>3. PICK e : e = ScanLine(rest, p)
    OBVIOUS
  <2>4. e \in p..(n + 1)
    BY <1>1, <2>2, <2>3, ScanLineGoesOn
  <2>5. k + e = ScanLine(body, k + p)
    BY <1>1, <2>2, <2>3, ScanLineBehind
  <2>6. k + p \in Nat /\ k + p <= Len(body) /\ Len(body) \in Nat
    BY <1>1, <2>2
  <2>7. f[k + p] = BlockLines(SubSeq(body, k + p, (k + e) - 1)) \o f[(k + e) + 1]
    <3>1. PICK i, d : i = k + p /\ d = k + e /\ d = ScanLine(body, i) /\ i <= Len(body) /\ i \in Nat
      BY <2>5, <2>6
    <3>2. f[i] = Line(f, body, i, d)
      <4>1. f[i] = Line(f, body, i, ScanLine(body, i))
        BY <2>6, <3>1, CutsStep
      <4> QED
        BY <3>1, <4>1
    <3> QED
      BY <3>1, <3>2 DEF Line
  <2>8. g[p] = BlockLines(SubSeq(rest, p, e - 1)) \o g[e + 1]
    <3>1. p \in Nat /\ Len(rest) \in Nat /\ p <= Len(rest)
      BY <1>1, <2>2
    <3>2. g[p] = Line(g, rest, p, ScanLine(rest, p))
      BY <3>1, CutsStep
    <3> QED
      BY <2>3, <3>2 DEF Line
  <2>9. PICK q \in Nat : q = e - 1 /\ q <= n /\ (k + e) - 1 = k + q
    <3>1. e - 1 \in Nat /\ e - 1 <= n /\ (k + e) - 1 = k + (e - 1)
      BY <2>2, <2>4
    <3> QED
      BY <3>1
  <2>10. SubSeq(body, k + p, k + q) = SubSeq(rest, p, q)
    <3>1. p \in Nat \ {0} /\ q <= Len(rest)
      BY <1>1, <2>2, <2>9
    <3>2. SamePart(body, rest, k, p, q)
      BY <3>1, PartBehind
    <3> QED
      BY <3>2 DEF SamePart
  <2>11. f[(k + e) + 1] = g[e + 1]
    <3>1. PICK r \in Nat \ {0} : r = e + 1 /\ (k + e) + 1 = k + r /\ ~(r <= p)
      <4>1. e + 1 \in Nat \ {0} /\ (k + e) + 1 = k + (e + 1) /\ ~(e + 1 <= p)
        BY <2>2, <2>4
      <4> QED
        BY <4>1
    <3>2. CASE r > n
      BY <1>2, <3>1, <3>2
    <3>3. CASE ~(r > n)
      <4>1. r \notin S
        BY <2>1, <3>1
      <4>2. r \in 1..n
        BY <3>3
      <4> QED
        BY <3>1, <4>1, <4>2
    <3> QED
      BY <3>2, <3>3
  <2>12. f[k + p] = g[p]
    BY <2>7, <2>8, <2>9, <2>10, <2>11
  <2> QED
    BY <2>2, <2>12
<1> QED
  <2> SUFFICES ASSUME NEW p \in Nat \ {0} PROVE f[k + p] = g[p]
    BY DEF SameFrom
  <2>1. CASE p > n
    BY <1>2, <2>1
  <2>2. CASE ~(p > n)
    BY <1>3, <2>2
  <2> QED
    BY <2>1, <2>2

LEMMA LineOfType ==
    ASSUME NEW X, NEW block \in Seq(X)
    PROVE  LineOf(block) \in Seq(Seq(X))
<1>1. PICK n \in Nat : n = Len(block)
  OBVIOUS
<1>2. PICK S : S = {i \in 1..n : block[i] \notin {Blank, "\t", "NUL"}}
  OBVIOUS
<1>3. LineOf(block) = IF S = {} \/ block[FirstOf(S, 0)] = "#" THEN <<>>
                      ELSE <<SubSeq(block, FirstOf(S, 0), n)>>
  BY <1>1, <1>2 DEF LineOf
<1>4. <<>> \in Seq(Seq(X))
  BY EmptySeq
<1>5. CASE S # {}
  <2>1. S \in SUBSET Nat
    BY <1>2
  <2>2. FirstOf(S, 0) \in S
    BY <1>5, <2>1, FirstOfIs
  <2>3. PICK m \in Nat \ {0} : m = FirstOf(S, 0)
    <3>1. \A i \in S : i \in Nat \ {0}
      BY <1>2
    <3> QED
      BY <2>2, <3>1
  <2>4. SubSeq(block, m, n) \in Seq(X)
    BY <1>1, PartType
  <2>5. <<SubSeq(block, m, n)>> \in Seq(Seq(X))
    BY <2>4
  <2> QED
    BY <1>3, <1>4, <2>3, <2>5
<1> QED
  BY <1>3, <1>4, <1>5

\* The first block's line, and then the lines of the rest.
LEMMA LinesOfBlock ==
    ASSUME NEW X, NEW block \in Seq(X), IsBlock(block), NEW rest \in Seq(X), "\n" \in X
    PROVE  Lines(block \o (Feed \o rest)) = LineOf(block) \o Lines(rest)
<1>1. PICK b, r \in Nat : b = Len(block) /\ r = Len(rest)
  OBVIOUS
<1>2. Feed \in Seq(X) /\ Len(Feed) = 1
  BY DEF Feed
<1>3. PICK tail : tail = Feed \o rest
  OBVIOUS
<1>4. tail \in Seq(X) /\ Both(tail, Feed, rest)
  BY <1>2, <1>3, Joined
<1>5. PICK body : body = block \o tail
  OBVIOUS
<1>6. body \in Seq(X) /\ Both(body, block, tail)
  BY <1>4, <1>5, Joined
<1>7. PICK pre : pre = block \o Feed
  OBVIOUS
<1>8. pre \in Seq(X) /\ Len(pre) = b + 1 /\ Both(body, pre, rest)
  <2>1. pre \in Seq(X) /\ Both(pre, block, Feed)
    BY <1>2, <1>7, Joined
  <2>2. body = pre \o rest
    <3>1. (block \o Feed) \o rest = block \o (Feed \o rest)
      BY <1>2, ConcatAssociative
    <3> QED
      BY <1>3, <1>5, <1>7, <3>1
  <2> QED
    <3>1. Both(body, pre, rest)
      BY <2>1, <2>2, Joined
    <3>2. Len(pre) = b + 1
      BY <1>1, <1>2, <2>1 DEF Both
    <3> QED
      BY <2>1, <3>1, <3>2
<1>9. Len(body) = b + 1 + r
  BY <1>1, <1>8 DEF Both
<1>10. PICK e \in Nat \ {0} : e = b + 1
  BY <1>1
<1>11. ScanLine(body, 1) = e
  <2>1. rest = <<>> => body = block \o Feed
    <3>1. Feed \o <<>> = Feed
      BY <1>2, ConcatEmptySeq
    <3> QED
      BY <1>3, <1>5, <3>1
  <2> QED
    BY <1>1, <1>4, <1>6, <1>10, <2>1, BlockEndsBehind
<1>12. PICK f : Cuts(f, body) /\ Lines(body) = f[1]
  <2>1. Len(body) \in Nat
    BY <1>1, <1>9
  <2> QED
    BY <2>1, LinesAre DEF Cuts
<1>13. PICK g : Cuts(g, rest) /\ Lines(rest) = g[1]
  <2>1. Len(rest) \in Nat
    BY <1>1
  <2> QED
    BY <2>1, LinesAre DEF Cuts
<1>14. f[1] = BlockLines(SubSeq(body, 1, e - 1)) \o f[e + 1]
  <2>1. Len(body) \in Nat /\ 1 <= Len(body)
    BY <1>1, <1>9
  <2>2. PICK one \in Nat : one = 1
    OBVIOUS
  <2>3. f[one] = Line(f, body, one, ScanLine(body, one))
    BY <1>12, <2>1, <2>2, CutsStep
  <2> QED
    BY <1>11, <2>2, <2>3 DEF Line
<1>15. f[e + 1] = g[1]
  <2>1. e \in Nat /\ e = Len(pre) /\ 1 \in Nat \ {0}
    BY <1>8, <1>10
  <2>2. PICK k \in Nat : k = e /\ k = Len(pre)
    BY <2>1
  <2>3. SameFrom(f, g, k)
    BY <1>6, <1>8, <1>12, <1>13, <2>2, LinesBehind
  <2> QED
    BY <2>1, <2>2, <2>3 DEF SameFrom
<1>16. SubSeq(body, 1, e - 1) = block
  <2>1. PICK one \in Nat \ {0} : one = 1
    OBVIOUS
  <2>2. PICK s : s = SubSeq(body, one, b)
    OBVIOUS
  <2>3. b <= Len(body)
    BY <1>1, <1>9
  <2>4. /\ s \in Seq(X) /\ Len(s) = IF one <= b THEN b - one + 1 ELSE 0
        /\ \A i \in 1..Len(s) : s[i] = body[one + i - 1]
    BY <1>6, <2>2, <2>3, PartType
  <2>5. Len(s) = b
    BY <1>1, <2>1, <2>4
  <2>6. \A i \in 1..b : body[i] = block[i] /\ one + i - 1 = i
    BY <1>1, <1>6, <2>1 DEF Both
  <2>7. \A i \in 1..Len(s) : s[i] = block[i]
    BY <2>4, <2>5, <2>6
  <2>8. s = block
    BY <1>1, <2>4, <2>5, <2>7, SeqEqual
  <2>9. e - 1 = b
    BY <1>10
  <2> QED
    BY <2>1, <2>2, <2>8, <2>9
<1>17. BlockLines(block) = LineOf(block)
  BY BlockLinesAre
<1> QED
  BY <1>3, <1>5, <1>12, <1>13, <1>14, <1>15, <1>16, <1>17

\* The lines of a text that is one block.
LEMMA LinesOfLast ==
    ASSUME NEW X, NEW block \in Seq(X), IsBlock(block)
    PROVE  Lines(block) = LineOf(block)
<1>1. PICK b \in Nat : b = Len(block)
  OBVIOUS
<1>2. PICK f : Cuts(f, block) /\ Lines(block) = f[1]
  <2>1. Len(block) \in Nat
    BY <1>1
  <2> QED
    BY <2>1, LinesAre DEF Cuts
<1>3. BlockLines(block) = LineOf(block) /\ LineOf(block) \in Seq(Seq(X))
  BY BlockLinesAre, LineOfType
<1>4. CASE b = 0
  <2>1. f[1] = <<>>
    <3>1. PICK one \in Nat : one = 1 /\ one > Len(block) /\ Len(block) \in Nat
      BY <1>1, <1>4
    <3> QED
      BY <1>2, <3>1, CutsEnd
  <2>2. LineOf(block) = <<>>
    BY <1>1, <1>4 DEF LineOf
  <2> QED
    BY <1>2, <2>1, <2>2
<1>5. CASE b # 0
  <2>1. PICK e \in Nat : e = b + 1
    OBVIOUS
  <2>2. e = ScanLine(block, 1)
    BY <1>1, <2>1, BlockIs
  <2>3. f[1] = BlockLines(SubSeq(block, 1, e - 1)) \o f[e + 1]
    <3>1. PICK one \in Nat : one = 1 /\ one <= Len(block) /\ Len(block) \in Nat
      BY <1>1, <1>5
    <3>2. f[one] = Line(f, block, one, ScanLine(block, one))
      BY <1>2, <3>1, CutsStep
    <3> QED
      BY <2>2, <3>1, <3>2 DEF Line
  <2>4. f[e + 1] = <<>>
    <3>1. e + 1 \in Nat /\ e + 1 > Len(block)
      BY <1>1, <2>1
    <3> QED
      BY <1>1, <1>2, <3>1, CutsEnd
  <2>5. SubSeq(block, 1, e - 1) = block
    <3>1. e - 1 = Len(block)
      BY <1>1, <2>1
    <3> QED
      BY <3>1, SubSeqFull
  <2>6. LineOf(block) \o <<>> = LineOf(block)
    BY <1>3, ConcatEmptySeq
  <2> QED
    BY <1>2, <1>3, <2>3, <2>4, <2>5, <2>6
<1> QED
  BY <1>4, <1>5

\* One in front of the others.
Ahead(s, a, u) ==
    /\ Len(s) = Len(u) + 1 /\ s[1] = a
    /\ \A i \in 1..Len(u) : s[i + 1] = u[i]

\* FlattenSeq starts with the first sequence.
LEMMA FlattenAhead ==
    ASSUME NEW T, NEW s \in Seq(Seq(T)), NEW a \in Seq(T), NEW u \in Seq(Seq(T)), Ahead(s, a, u)
    PROVE  FlattenSeq(s) = a \o FlattenSeq(u)
<1>1. PICK one : one = <<a>>
  OBVIOUS
<1>2. one \in Seq(Seq(T)) /\ Len(one) = 1 /\ one[1] = a
  BY <1>1
<1>3. PICK v : v = one \o u
  OBVIOUS
<1>4. v \in Seq(Seq(T)) /\ Both(v, one, u)
  BY <1>2, <1>3, Joined
<1>5. s = v
  <2>1. PICK n \in Nat : n = Len(u)
    OBVIOUS
  <2>2. Len(s) = n + 1 /\ Len(v) = n + 1
    BY <1>2, <1>4, <2>1 DEF Ahead, Both
  <2>3. ASSUME NEW i \in 1..(n + 1) PROVE s[i] = v[i]
    <3>1. CASE i = 1
      <4>1. v[1] = one[1]
        BY <1>2, <1>4 DEF Both
      <4> QED
        BY <1>2, <3>1, <4>1 DEF Ahead
    <3>2. CASE i # 1
      <4>1. PICK j \in 1..n : i = j + 1 /\ i = 1 + j
        <5>1. i - 1 \in 1..n /\ i = (i - 1) + 1 /\ i = 1 + (i - 1)
          BY <3>2
        <5> QED
          BY <5>1
      <4>2. v[1 + j] = u[j]
        BY <1>2, <1>4, <2>1, <4>1 DEF Both
      <4>3. s[j + 1] = u[j]
        BY <2>1, <4>1 DEF Ahead
      <4> QED
        BY <4>1, <4>2, <4>3
    <3> QED
      BY <3>1, <3>2
  <2>4. \A i \in 1..Len(s) : s[i] = v[i]
    BY <2>2, <2>3
  <2> QED
    BY <1>4, <2>2, <2>4, SeqEqual
<1>6. FlattenSeq(v) = FlattenSeq(one) \o FlattenSeq(u)
  BY <1>2, <1>3, FlattenConcat
<1>7. FlattenSeq(one) = a
  BY <1>1, FlattenOne
<1> QED
  BY <1>5, <1>6, <1>7

\* What follows a block, the blocks with that, and the lines of all of them.
Follows(blocks, ended, i) == IF i < Len(blocks) \/ ended THEN Feed ELSE <<>>
Pieces(blocks, ended) == [i \in 1..Len(blocks) |-> blocks[i] \o Follows(blocks, ended, i)]
LineSeqs(blocks) == [i \in 1..Len(blocks) |-> LineOf(blocks[i])]

\* What a body of blocks is, and what its cutting says.
LEMMA BodyIs ==
    ASSUME NEW blocks, NEW ended
    PROVE  /\ BodyText(blocks, ended) = FlattenSeq(Pieces(blocks, ended))
           /\ BodyIsCut(blocks, ended) <=>
                  Lines(BodyText(blocks, ended)) = FlattenSeq(LineSeqs(blocks))
BY DEF BodyText, BodyIsCut, Pieces, LineSeqs, Follows, Feed

LEMMA PiecesType ==
    ASSUME NEW X, "\n" \in X, NEW blocks \in Seq(Seq(X)), NEW ended
    PROVE  /\ Pieces(blocks, ended) \in Seq(Seq(X)) /\ Len(Pieces(blocks, ended)) = Len(blocks)
           /\ \A i \in 1..Len(blocks) :
                 Pieces(blocks, ended)[i] = blocks[i] \o Follows(blocks, ended, i)
<1>1. PICK n \in Nat : n = Len(blocks)
  OBVIOUS
<1>2. ASSUME NEW i \in 1..n PROVE blocks[i] \o Follows(blocks, ended, i) \in Seq(X)
  <2>1. blocks[i] \in Seq(X)
    BY <1>1
  <2>2. Follows(blocks, ended, i) \in Seq(X)
    <3>1. Feed \in Seq(X) /\ <<>> \in Seq(X)
      BY DEF Feed
    <3> QED
      BY <3>1 DEF Follows
  <2> QED
    BY <2>1, <2>2, ConcatProperties
<1>3. PICK s : s = [i \in 1..n |-> blocks[i] \o Follows(blocks, ended, i)]
  OBVIOUS
<1>4. \A i \in 1..n : s[i] = blocks[i] \o Follows(blocks, ended, i) /\ s[i] \in Seq(X)
  BY <1>2, <1>3
<1>5. s \in [1..n -> Seq(X)]
  BY <1>3, <1>4
<1>6. s \in Seq(Seq(X)) /\ Len(s) = n
  BY <1>5
<1>7. s = Pieces(blocks, ended)
  BY <1>1, <1>3 DEF Pieces
<1> QED
  BY <1>1, <1>4, <1>6, <1>7

LEMMA LineSeqsType ==
    ASSUME NEW X, NEW blocks \in Seq(Seq(X))
    PROVE  /\ LineSeqs(blocks) \in Seq(Seq(Seq(X))) /\ Len(LineSeqs(blocks)) = Len(blocks)
           /\ \A i \in 1..Len(blocks) : LineSeqs(blocks)[i] = LineOf(blocks[i])
<1>1. PICK n \in Nat : n = Len(blocks)
  OBVIOUS
<1>2. ASSUME NEW i \in 1..n PROVE LineOf(blocks[i]) \in Seq(Seq(X))
  <2>1. blocks[i] \in Seq(X)
    BY <1>1
  <2> QED
    BY <2>1, LineOfType
<1>3. PICK s : s = [i \in 1..n |-> LineOf(blocks[i])]
  OBVIOUS
<1>4. \A i \in 1..n : s[i] = LineOf(blocks[i]) /\ s[i] \in Seq(Seq(X))
  BY <1>2, <1>3
<1>5. s \in [1..n -> Seq(Seq(X))]
  BY <1>3, <1>4
<1>6. s \in Seq(Seq(Seq(X))) /\ Len(s) = n
  BY <1>5
<1>7. s = LineSeqs(blocks)
  BY <1>1, <1>3 DEF LineSeqs
<1> QED
  BY <1>1, <1>4, <1>6, <1>7

\* The first block, and the others.
BodyIsMore(blocks, h, t, ended) ==
    /\ BodyText(blocks, ended) = (h \o Follows(blocks, ended, 1)) \o BodyText(t, ended)
    /\ FlattenSeq(LineSeqs(blocks)) = LineOf(h) \o FlattenSeq(LineSeqs(t))

\* A body of more blocks is the first, a line end, and the body of the others.
LEMMA BodyOfMore ==
    ASSUME NEW X, "\n" \in X, NEW blocks \in Seq(Seq(X)), NEW h \in Seq(X), NEW t \in Seq(Seq(X)),
           Ahead(blocks, h, t), NEW ended
    PROVE  BodyIsMore(blocks, h, t, ended)
<1>1. PICK n \in Nat : n = Len(t) /\ Len(blocks) = n + 1
  BY DEF Ahead
<1>2. PICK p, q : p = Pieces(blocks, ended) /\ q = Pieces(t, ended)
  OBVIOUS
<1>3. /\ p \in Seq(Seq(X)) /\ Len(p) = n + 1
      /\ \A i \in 1..(n + 1) : p[i] = blocks[i] \o Follows(blocks, ended, i)
  BY <1>1, <1>2, PiecesType
<1>4. /\ q \in Seq(Seq(X)) /\ Len(q) = n
      /\ \A i \in 1..n : q[i] = t[i] \o Follows(t, ended, i)
  BY <1>1, <1>2, PiecesType
<1>5. 1 \in 1..(n + 1)
  OBVIOUS
<1>6. PICK a : a = h \o Follows(blocks, ended, 1)
  OBVIOUS
<1>7. p[1] = a /\ a \in Seq(X)
  <2>1. p[1] = a
    BY <1>3, <1>5, <1>6 DEF Ahead
  <2> QED
    BY <1>3, <1>5, <2>1
<1>8. ASSUME NEW i \in 1..n PROVE p[i + 1] = q[i]
  <2>1. i + 1 \in 1..(n + 1)
    OBVIOUS
  <2>2. blocks[i + 1] = t[i]
    BY <1>1 DEF Ahead
  <2>3. Follows(blocks, ended, i + 1) = Follows(t, ended, i)
    BY <1>1 DEF Follows
  <2> QED
    BY <1>3, <1>4, <2>1, <2>2, <2>3
<1>9. Ahead(p, a, q)
  BY <1>3, <1>4, <1>7, <1>8 DEF Ahead
<1>10. FlattenSeq(p) = a \o FlattenSeq(q)
  BY <1>3, <1>4, <1>7, <1>9, FlattenAhead
<1>11. PICK l, m : l = LineSeqs(blocks) /\ m = LineSeqs(t)
  OBVIOUS
<1>12. /\ l \in Seq(Seq(Seq(X))) /\ Len(l) = n + 1
       /\ \A i \in 1..(n + 1) : l[i] = LineOf(blocks[i])
  BY <1>1, <1>11, LineSeqsType
<1>13. /\ m \in Seq(Seq(Seq(X))) /\ Len(m) = n
       /\ \A i \in 1..n : m[i] = LineOf(t[i])
  BY <1>1, <1>11, LineSeqsType
<1>14. ASSUME NEW i \in 1..n PROVE l[i + 1] = m[i]
  <2>1. i + 1 \in 1..(n + 1)
    OBVIOUS
  <2>2. blocks[i + 1] = t[i]
    BY <1>1 DEF Ahead
  <2> QED
    BY <1>12, <1>13, <2>1, <2>2
<1>15. PICK x : x = LineOf(h)
  OBVIOUS
<1>16. l[1] = x
  BY <1>5, <1>12, <1>15 DEF Ahead
<1>17. Ahead(l, x, m)
  BY <1>12, <1>13, <1>14, <1>16 DEF Ahead
<1>18. x \in Seq(Seq(X))
  BY <1>15, LineOfType
<1>19. FlattenSeq(l) = x \o FlattenSeq(m)
  BY <1>12, <1>13, <1>17, <1>18, FlattenAhead
<1>20. BodyText(blocks, ended) = a \o BodyText(t, ended)
  BY <1>2, <1>10, BodyIs
<1> QED
  BY <1>6, <1>11, <1>15, <1>19, <1>20 DEF BodyIsMore

LEMMA BodyTextType ==
    ASSUME NEW X, "\n" \in X, NEW blocks \in Seq(Seq(X)), NEW ended
    PROVE  BodyText(blocks, ended) \in Seq(X)
<1>1. Pieces(blocks, ended) \in Seq(Seq(X))
  BY PiecesType
<1> QED
  BY <1>1, FlattenType, BodyIs

\* An empty body has no line.
LEMMA NoBlocks ==
    ASSUME NEW ended
    PROVE  BodyText(<<>>, ended) = <<>> /\ Lines(<<>>) = <<>> /\ FlattenSeq(LineSeqs(<<>>)) = <<>>
<1>1. PICK X : X = {"\n"}
  OBVIOUS
<1>2. PICK none \in Seq(Seq(X)) : none = <<>> /\ Len(none) = 0
  BY EmptySeq
<1>3. Pieces(none, ended) = <<>>
  <2>1. "\n" \in X
    BY <1>1
  <2>2. Pieces(none, ended) \in Seq(Seq(X)) /\ Len(Pieces(none, ended)) = 0
    BY <1>2, <2>1, PiecesType
  <2> QED
    BY <2>2, EmptySeq
<1>4. LineSeqs(none) = <<>>
  <2>1. LineSeqs(none) \in Seq(Seq(Seq(X))) /\ Len(LineSeqs(none)) = 0
    BY <1>2, LineSeqsType
  <2> QED
    BY <2>1, EmptySeq
<1>5. FlattenSeq(<<>>) = <<>>
  BY DEF FlattenSeq
<1>6. Lines(<<>>) = <<>>
  <2>1. PICK e : e = <<>> /\ Len(e) = 0 /\ Len(e) \in Nat
    BY <1>2
  <2>2. PICK f : Cuts(f, e) /\ Lines(e) = f[1]
    BY <2>1, LinesAre DEF Cuts
  <2>3. PICK one \in Nat : one = 1 /\ one > Len(e)
    BY <2>1
  <2>4. f[one] = <<>>
    BY <2>1, <2>2, <2>3, CutsEnd
  <2> QED
    BY <2>1, <2>2, <2>3, <2>4
<1> QED
  BY <1>2, <1>3, <1>4, <1>5, <1>6, BodyIs

\* One block more.
LEMMA BodyIsCutMore ==
    ASSUME NEW X, "\n" \in X, NEW blocks \in Seq(Seq(X)), NEW h \in Seq(X), NEW t \in Seq(Seq(X)),
           Ahead(blocks, h, t), IsBlock(h), NEW ended, BodyIsCut(t, ended)
    PROVE  BodyIsCut(blocks, ended)
<1>1. PICK w : w = BodyText(t, ended)
  OBVIOUS
<1>2. w \in Seq(X)
  BY <1>1, BodyTextType
<1>3. Lines(w) = FlattenSeq(LineSeqs(t))
  BY <1>1, BodyIs
<1>4. /\ BodyText(blocks, ended) = (h \o Follows(blocks, ended, 1)) \o w
      /\ FlattenSeq(LineSeqs(blocks)) = LineOf(h) \o FlattenSeq(LineSeqs(t))
  <2>1. BodyIsMore(blocks, h, t, ended)
    BY BodyOfMore
  <2> QED
    BY <1>1, <2>1 DEF BodyIsMore
<1>5. CASE 1 < Len(blocks) \/ ended
  <2>1. Follows(blocks, ended, 1) = Feed
    BY <1>5 DEF Follows
  <2>2. Feed \in Seq(X)
    BY DEF Feed
  <2>3. (h \o Feed) \o w = h \o (Feed \o w)
    BY <1>2, <2>2, ConcatAssociative
  <2>4. Lines(h \o (Feed \o w)) = LineOf(h) \o Lines(w)
    BY <1>2, LinesOfBlock
  <2> QED
    BY <1>3, <1>4, <2>1, <2>3, <2>4, BodyIs
<1>6. CASE ~(1 < Len(blocks) \/ ended)
  <2>1. Follows(blocks, ended, 1) = <<>>
    BY <1>6 DEF Follows
  <2>2. t = <<>>
    <3>1. PICK n \in Nat : n = Len(t) /\ Len(blocks) = n + 1
      BY DEF Ahead
    <3>2. Len(t) = 0
      BY <1>6, <3>1
    <3> QED
      BY <3>2, EmptySeq
  <2>3. w = <<>> /\ FlattenSeq(LineSeqs(t)) = <<>>
    BY <1>1, <2>2, NoBlocks
  <2>4. h \o <<>> = h
    BY ConcatEmptySeq
  <2>5. BodyText(blocks, ended) = h
    BY <1>4, <2>1, <2>3, <2>4
  <2>6. LineOf(h) \o <<>> = LineOf(h)
    <3>1. LineOf(h) \in Seq(Seq(X))
      BY LineOfType
    <3> QED
      BY <3>1, ConcatEmptySeq
  <2>7. Lines(h) = LineOf(h)
    BY LinesOfLast
  <2> QED
    BY <1>4, <2>3, <2>5, <2>6, <2>7, BodyIs
<1> QED
  BY <1>5, <1>6

\* A body falls into the lines of its blocks, however many they are.
THEOREM BodyIsCutCorrect ==
    ASSUME NEW X, NEW blocks \in Seq(Seq(X)), \A i \in 1..Len(blocks) : IsBlock(blocks[i]),
           NEW ended \in BOOLEAN
    PROVE  BodyIsCut(blocks, ended)
<1>0. PICK Y : Y = X \cup {"\n"}
  OBVIOUS
<1>1. X \subseteq Y /\ "\n" \in Y
  BY <1>0
<1> DEFINE P(b) == (\A i \in 1..Len(b) : IsBlock(b[i])) => BodyIsCut(b, ended)
           L == {Len(b) : b \in {b \in Seq(Seq(Y)) : ~P(b)}}
<1>2. \A b \in Seq(Seq(Y)) : P(b)
  <2> SUFFICES ASSUME NEW b0 \in Seq(Seq(Y)), ~P(b0) PROVE FALSE
    OBVIOUS
  <2>1. PICK b \in Seq(Seq(Y)) : ~P(b) /\ \A c \in Seq(Seq(Y)) : ~P(c) => Len(b) <= Len(c)
    <3> HIDE DEF P
    <3>1. L \in SUBSET Nat /\ L # {}
      BY LenProperties
    <3>2. PICK x \in L : \A y \in L : x <= y
      BY <3>1, Least
    <3> QED
      BY <3>2
  <2>2. (\A i \in 1..Len(b) : IsBlock(b[i])) /\ ~BodyIsCut(b, ended)
    BY <2>1
  <2>3. b # <<>>
    <3>1. BodyIsCut(<<>>, ended)
      BY NoBlocks, BodyIs
    <3> QED
      BY <2>2, <3>1
  <2>4. PICK h, t : h = Head(b) /\ t = Tail(b)
    OBVIOUS
  <2>5. /\ h \in Seq(Y) /\ t \in Seq(Seq(Y)) /\ Len(t) = Len(b) - 1
        /\ \A i \in 1..Len(t) : t[i] = b[i + 1]
    BY <2>3, <2>4, HeadTailProperties
  <2>6. h = b[1]
    BY <2>3, <2>4
  <2>7. PICK n \in Nat : n = Len(t) /\ Len(b) = n + 1
    BY <2>5
  <2>8. Ahead(b, h, t)
    BY <2>5, <2>6, <2>7 DEF Ahead
  <2>9. IsBlock(h) /\ \A i \in 1..n : IsBlock(t[i])
    <3>1. IsBlock(b[1])
      <4>1. 1 \in 1..Len(b)
        BY <2>7
      <4> QED
        BY <2>2, <4>1
    <3>2. ASSUME NEW i \in 1..n PROVE IsBlock(t[i])
      <4>1. PICK j \in 1..Len(b) : j = i + 1
        <5>1. i + 1 \in 1..Len(b)
          BY <2>7
        <5> QED
          BY <5>1
      <4>2. t[i] = b[j]
        BY <2>5, <2>7, <4>1
      <4>3. IsBlock(b[j])
        BY <2>2
      <4> QED
        BY <4>2, <4>3
    <3> QED
      BY <2>6, <3>1, <3>2
  <2>10. BodyIsCut(t, ended)
    <3>1. ~(Len(b) <= Len(t))
      BY <2>7
    <3>2. P(t)
      <4> HIDE DEF P
      <4> QED
        BY <2>1, <2>5, <3>1
    <3> QED
      BY <2>7, <2>9, <3>2
  <2>11. BodyIsCut(b, ended)
    BY <1>1, <2>5, <2>8, <2>9, <2>10, BodyIsCutMore
  <2> QED
    BY <2>2, <2>11
<1>3. blocks \in Seq(Seq(Y))
  <2>1. Seq(X) \subseteq Seq(Y)
    BY <1>1, SeqMonotonic
  <2> QED
    BY <2>1, SeqMonotonic
<1> QED
  BY <1>2, <1>3

\* What a scan knows along a block, with room behind every character, and that it is
\* through at its end.
Along(st, block, n) ==
    /\ st[1] = Fresh
    /\ \A i \in 1..n : st[i + 1] = Pass(st[i], block[i], TRUE)
Through(st, block, n) ==
    /\ \A i \in 1..n : /\ block[i] = "\n" => st[i].escaped \/ st[i].quoted
                       /\ block[i] = "\\" => i < n - 1
    /\ ~st[n + 1].escaped /\ ~st[n + 1].quoted

\* What follows matters to a scan at a backslash only.
LEMMA RoomMatters ==
    ASSUME NEW s, NEW c, c # "\\", NEW a, NEW b
    PROVE  Pass(s, c, a) = Pass(s, c, b)
BY DEF Pass

\* A scan that comes through a block ends behind it.
LEMMA EndOfBlock ==
    ASSUME NEW st, NEW block, NEW n \in Nat, Along(st, block, n), Through(st, block, n),
           NEW buf, NEW m \in Nat, m = Len(buf), n <= m, m # 0,
           \A i \in 1..n : buf[i] = block[i], n < m => buf[n + 1] = "\n"
    PROVE  ScanLine(buf, 1) = n + 1
<1>1. PICK one \in Nat : one = 1 /\ one \in 1..m
  OBVIOUS
<1>2. PICK at : /\ States(at, buf, one) /\ \A i \in one..m : at[i] \in State
                /\ ScanLine(buf, one) = EndBy(at, buf, one)
  BY <1>1, ScanLineIs
<1> DEFINE S == {i \in 1..m : i <= n + 1 /\ at[i] # st[i]}
<1>3. S = {}
  <2> SUFFICES ASSUME S # {} PROVE FALSE
    OBVIOUS
  <2>1. PICK i \in S : \A j \in S : i <= j
    <3>1. S \in SUBSET Nat
      OBVIOUS
    <3> QED
      BY <3>1, Least
  <2>2. CASE i = 1
    BY <1>1, <1>2, <2>1, <2>2 DEF States, Along
  <2>3. CASE i # 1
    <3>1. PICK j \in 1..n : i = j + 1 /\ j = i - 1 /\ j \in 1..m /\ ~(i <= j)
      <4>1. i - 1 \in 1..n /\ i = (i - 1) + 1 /\ i - 1 \in 1..m /\ ~(i <= i - 1)
        BY <2>1, <2>3
      <4> QED
        BY <4>1
    <3>2. at[j] = st[j]
      BY <2>1, <3>1
    <3>3. at[i] = Pass(at[j], buf[j], i < m)
      <4>1. i \in (one + 1)..Len(buf)
        BY <1>1, <2>1, <2>3
      <4> QED
        BY <1>2, <3>1, <4>1 DEF States
    <3>4. st[i] = Pass(st[j], block[j], TRUE)
      BY <3>1 DEF Along
    <3>5. buf[j] = block[j]
      BY <3>1
    <3>6. Pass(st[j], block[j], i < m) = Pass(st[j], block[j], TRUE)
      <4>1. CASE block[j] = "\\"
        <5>1. j < n - 1
          BY <4>1 DEF Through
        <5>2. (i < m) = TRUE
          BY <3>1, <5>1
        <5> QED
          BY <5>2
      <4>2. CASE block[j] # "\\"
        BY <4>2, RoomMatters
      <4> QED
        BY <4>1, <4>2
    <3> QED
      BY <2>1, <3>2, <3>3, <3>4, <3>5, <3>6
  <2> QED
    BY <2>2, <2>3
<1>4. \A i \in 1..m : i <= n + 1 => at[i] = st[i]
  BY <1>3
<1>5. \A i \in one..m : i < n + 1 => ~Ends(at, buf, i)
  <2> TAKE i \in one..m
  <2> SUFFICES ASSUME i < n + 1 PROVE ~Ends(at, buf, i)
    OBVIOUS
  <2>1. i \in 1..n /\ i \in 1..m /\ i <= n + 1
    BY <1>1
  <2>2. at[i] = st[i] /\ buf[i] = block[i]
    BY <1>4, <2>1
  <2> QED
    BY <2>1, <2>2 DEF Ends, Through
<1>6. n + 1 <= m => Ends(at, buf, n + 1)
  <2> SUFFICES ASSUME n + 1 <= m PROVE Ends(at, buf, n + 1)
    OBVIOUS
  <2>1. n + 1 \in 1..m /\ n < m
    OBVIOUS
  <2>2. at[n + 1] = st[n + 1]
    BY <1>4, <2>1
  <2> QED
    BY <2>1, <2>2 DEF Ends, Through
<1>7. PICK e \in one..(m + 1) : e = n + 1
  BY <1>1
<1>8. EndBy(at, buf, one) = e
  <2>1. one \in 1..Len(buf) /\ Len(buf) \in Nat /\ e \in one..(Len(buf) + 1)
    BY <1>1
  <2>2. e <= Len(buf) => Ends(at, buf, e)
    BY <1>6, <1>7
  <2>3. \A i \in one..Len(buf) : i < e => ~Ends(at, buf, i)
    BY <1>5, <1>7
  <2> QED
    BY <2>1, <2>2, <2>3, EndHere
<1> QED
  BY <1>1, <1>2, <1>7, <1>8

\* A text a scan comes through is a block.
LEMMA ThroughIsBlock ==
    ASSUME NEW X, NEW block \in Seq(X), NEW n \in Nat, n = Len(block),
           NEW st, Along(st, block, n), Through(st, block, n)
    PROVE  IsBlock(block)
<1>1. block \o <<>> = block
  BY ConcatEmptySeq
<1>2. ScanLine(block, 1) = n + 1
  <2>1. CASE n = 0
    <3>1. block = <<>>
      BY <2>1, EmptySeq
    <3>2. PICK S : S = {i \in 1..0 : FALSE}
      OBVIOUS
    <3>3. 1..Len(block) = {}
      BY <2>1
    <3>4. PICK T : T \subseteq 1..Len(block) /\ ScanLine(block, 1) = FirstOf(T, Len(block) + 1)
      <4>1. PICK at : ScanLine(block, 1) = FirstOf({i \in 1..Len(block) : Ends(at, block, i)}, Len(block) + 1)
        BY DEF ScanLine, Ends
      <4>2. PICK T : T = {i \in 1..Len(block) : Ends(at, block, i)}
        OBVIOUS
      <4> QED
        BY <4>1, <4>2
    <3>5. T = {}
      BY <3>3, <3>4
    <3> QED
      BY <2>1, <3>4, <3>5 DEF FirstOf
  <2>2. CASE n # 0
    <3>1. n <= n /\ (\A i \in 1..n : block[i] = block[i]) /\ ~(n < n)
      OBVIOUS
    <3> QED
      BY <2>2, <3>1, EndOfBlock
  <2> QED
    BY <2>1, <2>2
<1>3. ASSUME NEW feeds \in {Feed, TwoFeeds} PROVE ScanLine(block \o feeds, 1) = n + 1
  <2>1. PICK Y : Y = X \cup {"\n"}
    OBVIOUS
  <2>2. X \subseteq Y /\ "\n" \in Y
    BY <2>1
  <2>3. block \in Seq(Y) /\ feeds \in Seq(Y) /\ feeds[1] = "\n" /\ Len(feeds) \in {1, 2}
    <3>1. <<"\n">> \in Seq(Y) /\ <<"\n", "\n">> \in Seq(Y)
      BY <2>2
    <3>2. CASE feeds = Feed
      <4>1. feeds = <<"\n">>
        BY <3>2 DEF Feed
      <4> QED
        BY <2>2, <3>1, <4>1
    <3>3. CASE feeds = TwoFeeds
      <4>1. feeds = <<"\n", "\n">>
        BY <3>3 DEF TwoFeeds
      <4> QED
        BY <2>2, <3>1, <4>1
    <3> QED
      BY <3>2, <3>3
  <2>4. PICK buf : buf = block \o feeds
    OBVIOUS
  <2>5. Both(buf, block, feeds)
    BY <2>3, <2>4, Joined
  <2>6. Len(buf) \in Nat /\ n < Len(buf) /\ \A i \in 1..n : buf[i] = block[i]
    BY <2>3, <2>5 DEF Both
  <2>7. buf[n + 1] = "\n"
    <3>1. 1 \in 1..Len(feeds)
      BY <2>3
    <3> QED
      BY <2>3, <2>5, <3>1 DEF Both
  <2>8. ScanLine(buf, 1) = n + 1
    <3>1. PICK m \in Nat : m = Len(buf) /\ n < m /\ n <= m /\ m # 0
      BY <2>6
    <3> QED
      BY <2>6, <2>7, <3>1, EndOfBlock
  <2> QED
    BY <2>4, <2>8
<1>4. ASSUME NEW rest \in {<<>>, <<"\n">>, <<"\n", "\n">>} PROVE ScanLine(block \o rest, 1) = n + 1
  <2>1. CASE rest = <<>>
    BY <1>1, <1>2, <2>1
  <2>2. CASE rest = <<"\n">>
    BY <1>3, <2>2 DEF Feed
  <2>3. CASE rest = <<"\n", "\n">>
    BY <1>3, <2>3 DEF TwoFeeds
  <2> QED
    BY <2>1, <2>2, <2>3
<1> QED
  BY <1>4 DEF IsBlock

\* Without line feeds, backslashes and quotes a text is a block.
LEMMA PlainPass ==
    ASSUME NEW s \in State, ~s.escaped, ~s.quoted, NEW c, c \notin {"\\", Quote}, NEW room
    PROVE  ~Pass(s, c, room).escaped /\ ~Pass(s, c, room).quoted
<1>1. PICK r : r = Pass(s, c, room)
  OBVIOUS
<1>2. ~r.quoted
  BY <1>1, PassIs
<1>3. ~r.escaped
  BY <1>1 DEF Pass
<1> QED
  BY <1>1, <1>2, <1>3

\* Text without quotes and backslashes is a block.
LEMMA PlainIsBlock ==
    ASSUME NEW X, NEW block \in Seq(X), \A i \in 1..Len(block) : block[i] \notin {"\n", "\\", Quote}
    PROVE  IsBlock(block)
<1>1. PICK n, one \in Nat : n = Len(block) /\ one = 1
  OBVIOUS
<1>2. PICK Y : Y = X \cup {"\n"}
  OBVIOUS
<1>3. X \subseteq Y /\ "\n" \in Y
  BY <1>2
<1>4. block \in Seq(Y) /\ TwoFeeds \in Seq(Y) /\ Len(TwoFeeds) = 2
  BY <1>3 DEF TwoFeeds
<1>5. PICK buf : buf = block \o TwoFeeds
  OBVIOUS
<1>6. Len(buf) = n + 2 /\ \A i \in 1..n : buf[i] = block[i]
  <2>1. Both(buf, block, TwoFeeds)
    BY <1>4, <1>5, Joined
  <2> QED
    BY <1>1, <1>4, <2>1 DEF Both
<1>7. PICK at : States(at, buf, one) /\ \A i \in one..Len(buf) : at[i] \in State
  <2>1. one \in 1..Len(buf) /\ Len(buf) \in Nat
    BY <1>1, <1>6
  <2> QED
    BY <2>1, ScanLineIs
<1>8. Along(at, block, n)
  <2>1. at[1] = Fresh
    BY <1>1, <1>7 DEF States
  <2>2. ASSUME NEW i \in 1..n PROVE at[i + 1] = Pass(at[i], block[i], TRUE)
    <3>1. PICK j : j = i + 1
      OBVIOUS
    <3>2. j \in (one + 1)..Len(buf) /\ j - 1 = i /\ (j < Len(buf)) = TRUE
      BY <1>1, <1>6, <3>1
    <3>3. at[j] = Pass(at[j - 1], buf[j - 1], j < Len(buf))
      BY <1>7, <3>2 DEF States
    <3> QED
      BY <1>6, <3>1, <3>2, <3>3
  <2> QED
    BY <2>1, <2>2 DEF Along
<1> DEFINE S == {i \in 1..(n + 1) : at[i].escaped \/ at[i].quoted}
<1>9. S = {}
  <2> SUFFICES ASSUME S # {} PROVE FALSE
    OBVIOUS
  <2>1. PICK i \in S : \A j \in S : i <= j
    <3>1. S \in SUBSET Nat
      OBVIOUS
    <3> QED
      BY <3>1, Least
  <2>2. CASE i = 1
    BY <1>8, <2>1, <2>2 DEF Along, Fresh
  <2>3. CASE i # 1
    <3>1. PICK j \in 1..n : i = j + 1 /\ j \in 1..(n + 1) /\ j \in one..Len(buf) /\ ~(i <= j)
      <4>1. i - 1 \in 1..n /\ i = (i - 1) + 1 /\ ~(i <= i - 1)
        BY <2>1, <2>3
      <4>2. i - 1 \in 1..(n + 1) /\ i - 1 \in one..Len(buf)
        BY <1>1, <1>6, <4>1
      <4> QED
        BY <4>1, <4>2
    <3>2. ~at[j].escaped /\ ~at[j].quoted
      BY <2>1, <3>1
    <3>3. at[i] = Pass(at[j], block[j], TRUE)
      BY <1>8, <3>1 DEF Along
    <3>4. block[j] \notin {"\\", Quote} /\ at[j] \in State
      BY <1>1, <1>7, <3>1
    <3>5. ~at[i].escaped /\ ~at[i].quoted
      BY <3>2, <3>3, <3>4, PlainPass
    <3> QED
      BY <2>1, <3>5
  <2> QED
    BY <2>2, <2>3
<1>10. Through(at, block, n)
  <2>1. n + 1 \in 1..(n + 1)
    OBVIOUS
  <2>2. ~at[n + 1].escaped /\ ~at[n + 1].quoted
    BY <1>9, <2>1
  <2> QED
    BY <1>1, <2>2 DEF Through
<1> QED
  BY <1>1, <1>8, <1>10, ThroughIsBlock

-----------------------------------------------------------------------------
(* Blocks of a few characters, which a scan can be followed through.         *)

Know(escaped, quoted, fields, open) ==
    [escaped |-> escaped, quoted |-> quoted, fields |-> fields, open |-> open]

LEMMA ScanCharactersDiffer ==
    /\ "\\" \notin {Blank, Quote, "=", Comma} /\ Blank \notin {Quote, "=", Comma}
    /\ Quote \notin {"=", Comma} /\ Comma # "="
BY Zenon DEF Blank, Quote, Comma

\* What a scan knows in the blocks with strings or escaped characters.
Nothing == Know(FALSE, FALSE, FALSE, 0)
Fielded == Know(FALSE, FALSE, TRUE, 0)
AtValue == Know(FALSE, FALSE, TRUE, 1)
InString == Know(FALSE, TRUE, TRUE, 1)
InEscape == Know(TRUE, TRUE, TRUE, 1)

LEMMA ScanStarts == Fresh = Nothing
  BY DEF Fresh, Nothing, Know

\* A quote in a value starts or ends a string.
LEMMA PassQuote ==
    ASSUME NEW q \in BOOLEAN, NEW r \in BOOLEAN, r # q, NEW o \in Int, o > 0
    PROVE  Pass(Know(FALSE, q, TRUE, o), Quote, TRUE) = Know(FALSE, r, TRUE, o)
<1>1. Pass(Know(FALSE, q, TRUE, o), Quote, TRUE) = Know(FALSE, ~q, TRUE, o)
  BY ScanCharactersDiffer DEF Pass, Know
<1>2. Know(FALSE, ~q, TRUE, o) = Know(FALSE, r, TRUE, o)
  BY DEF Know
<1> QED
  BY <1>1, <1>2

\* What a scan of the run's bodies does at each character.
LEMMA PassHere ==
    /\ \A c : c \notin {"\\", Blank, Quote, "=", Comma} =>
          /\ Pass(Nothing, c, TRUE) = Nothing /\ Pass(Fielded, c, TRUE) = Fielded
          /\ Pass(AtValue, c, TRUE) = AtValue /\ Pass(InString, c, TRUE) = InString
    /\ \A c : c \in {Quote, "=", Comma} => Pass(Nothing, c, TRUE) = Nothing
    /\ Pass(Nothing, Blank, TRUE) = Fielded
    /\ Pass(Nothing, "\\", TRUE) = Know(TRUE, FALSE, FALSE, 0)
    /\ Pass(Know(TRUE, FALSE, FALSE, 0), Blank, TRUE) = Nothing
    /\ Pass(Fielded, "=", TRUE) = AtValue
    /\ Pass(AtValue, Comma, TRUE) = Fielded
    /\ Pass(AtValue, Quote, TRUE) = InString
    /\ Pass(InString, Quote, TRUE) = AtValue
    /\ Pass(InString, Blank, TRUE) = InString
    /\ Pass(InString, Comma, TRUE) = InString
    /\ Pass(InString, "\\", TRUE) = InEscape
    /\ Pass(InEscape, Quote, TRUE) = InString
<1>1. \A c : c \notin {"\\", Blank, Quote, "=", Comma} =>
          /\ Pass(Nothing, c, TRUE) = Nothing /\ Pass(Fielded, c, TRUE) = Fielded
          /\ Pass(AtValue, c, TRUE) = AtValue /\ Pass(InString, c, TRUE) = InString
  BY DEF Pass, Know, Nothing, Fielded, AtValue, InString
<1>2. \A c : c \in {Quote, "=", Comma} => Pass(Nothing, c, TRUE) = Nothing
  BY ScanCharactersDiffer DEF Pass, Know, Nothing
<1>3. Pass(Nothing, Blank, TRUE) = Fielded /\ Pass(InString, Blank, TRUE) = InString
  BY ScanCharactersDiffer DEF Pass, Know, Nothing, Fielded, InString
<1>4. /\ Pass(Nothing, "\\", TRUE) = Know(TRUE, FALSE, FALSE, 0)
      /\ Pass(InString, "\\", TRUE) = InEscape
  BY DEF Pass, Know, Nothing, InString, InEscape
<1>5. /\ Pass(Know(TRUE, FALSE, FALSE, 0), Blank, TRUE) = Nothing
      /\ Pass(InEscape, Quote, TRUE) = InString
  BY DEF Pass, Know, Nothing, InString, InEscape
<1>6. Pass(Fielded, "=", TRUE) = AtValue /\ Pass(AtValue, Comma, TRUE) = Fielded
  <2>1. Know(FALSE, FALSE, TRUE, 0 + 1) = AtValue /\ Know(FALSE, FALSE, TRUE, 1 - 1) = Fielded
    BY DEF Fielded, AtValue, Know
  <2>2. Pass(Know(FALSE, FALSE, TRUE, 0), "=", TRUE) = Know(FALSE, FALSE, TRUE, 0 + 1)
    BY ScanCharactersDiffer DEF Pass, Know
  <2>3. Pass(Know(FALSE, FALSE, TRUE, 1), Comma, TRUE) = Know(FALSE, FALSE, TRUE, 1 - 1)
    BY ScanCharactersDiffer DEF Pass, Know
  <2> QED
    BY <2>1, <2>2, <2>3 DEF Fielded, AtValue
<1>7. Pass(AtValue, Quote, TRUE) = InString /\ Pass(InString, Quote, TRUE) = AtValue
  <2>1. PICK one \in Int : one = 1 /\ one > 0
    OBVIOUS
  <2>2. PICK no, yes \in BOOLEAN : no = FALSE /\ yes = TRUE /\ no # yes
    OBVIOUS
  <2>3. /\ Pass(Know(FALSE, no, TRUE, one), Quote, TRUE) = Know(FALSE, yes, TRUE, one)
        /\ Pass(Know(FALSE, yes, TRUE, one), Quote, TRUE) = Know(FALSE, no, TRUE, one)
    BY <2>1, <2>2, PassQuote
  <2>4. AtValue = Know(FALSE, no, TRUE, one) /\ InString = Know(FALSE, yes, TRUE, one)
    BY <2>1, <2>2 DEF AtValue, InString
  <2> QED
    BY <2>3, <2>4
<1>8. Pass(InString, Comma, TRUE) = InString
  BY ScanCharactersDiffer DEF Pass, Know, InString
<1> QED
  BY <1>1, <1>2, <1>3, <1>4, <1>5, <1>6, <1>7, <1>8

LEMMA FlagsAre ==
    /\ ~Nothing.escaped /\ ~Nothing.quoted /\ ~AtValue.escaped /\ ~AtValue.quoted
    /\ InString.quoted
BY DEF Nothing, AtValue, InString, Know

LEMMA OthersDiffer ==
    /\ \A c \in {"a", "t", "f", "1", "2", "g", "\n", "#"} : c \notin {"\\", Blank, Quote, "=", Comma}
    /\ "\n" \notin {"a", "t", "f", "1", "2", "g", "#", "\\", Blank, Quote, "=", Comma}
BY Zenon DEF Blank, Quote, Comma

\* The same by character.
LEMMA CharacterSteps ==
    /\ Pass(Nothing, "a", TRUE) = Nothing
    /\ Pass(Nothing, "\\", TRUE) = Know(TRUE, FALSE, FALSE, 0)
    /\ Pass(Know(TRUE, FALSE, FALSE, 0), Blank, TRUE) = Nothing
    /\ Pass(Nothing, Comma, TRUE) = Nothing
    /\ Pass(Nothing, "t", TRUE) = Nothing
    /\ Pass(Nothing, "=", TRUE) = Nothing
    /\ Pass(Nothing, Quote, TRUE) = Nothing
    /\ Pass(Nothing, Blank, TRUE) = Fielded
    /\ Pass(Fielded, "f", TRUE) = Fielded
    /\ Pass(Fielded, "=", TRUE) = AtValue
    /\ Pass(AtValue, "1", TRUE) = AtValue
    /\ Pass(AtValue, Quote, TRUE) = InString
    /\ Pass(InString, Blank, TRUE) = InString
    /\ Pass(InString, Comma, TRUE) = InString
    /\ Pass(InString, Quote, TRUE) = AtValue
    /\ Pass(InString, "\\", TRUE) = InEscape
    /\ Pass(InEscape, Quote, TRUE) = InString
    /\ Pass(InString, "\n", TRUE) = InString
    /\ Pass(AtValue, Comma, TRUE) = Fielded
    /\ Pass(Fielded, "g", TRUE) = Fielded
    /\ Pass(AtValue, "2", TRUE) = AtValue
BY PassHere, OthersDiffer

\* A point with an escaped blank and a quote in its tags is a block.
LEMMA EscapedTagIsBlock ==
    ASSUME NEW X, NEW b \in Seq(X), NEW n \in Nat, n = Len(b), n = 11,
           /\ b[1] = "a" /\ b[2] = "\\" /\ b[3] = Blank /\ b[4] = Comma
           /\ b[5] = "t" /\ b[6] = "=" /\ b[7] = Quote /\ b[8] = Blank /\ b[9] = "f" /\ b[10] = "="
           /\ b[11] = "1"
    PROVE  IsBlock(b)
<1>1. PICK escape : escape = Know(TRUE, FALSE, FALSE, 0)
  OBVIOUS
<1>2. PICK st : st = <<Nothing, Nothing, escape, Nothing, Nothing, Nothing, Nothing, Nothing,
                       Fielded, Fielded, AtValue, AtValue>>
  OBVIOUS
<1>3. /\ st[1] = Nothing /\ st[2] = Nothing /\ st[3] = escape /\ st[4] = Nothing /\ st[5] = Nothing
      /\ st[6] = Nothing /\ st[7] = Nothing /\ st[8] = Nothing /\ st[9] = Fielded /\ st[10] = Fielded
      /\ st[11] = AtValue /\ st[12] = AtValue
  BY <1>2
<1>4. Along(st, b, n)
  <2>1. st[2] = Pass(st[1], b[1], TRUE)
    BY <1>1, <1>3, CharacterSteps
  <2>2. st[3] = Pass(st[2], b[2], TRUE)
    BY <1>1, <1>3, CharacterSteps
  <2>3. st[4] = Pass(st[3], b[3], TRUE)
    BY <1>1, <1>3, CharacterSteps
  <2>4. st[5] = Pass(st[4], b[4], TRUE)
    BY <1>1, <1>3, CharacterSteps
  <2>5. st[6] = Pass(st[5], b[5], TRUE)
    BY <1>1, <1>3, CharacterSteps
  <2>6. st[7] = Pass(st[6], b[6], TRUE)
    BY <1>1, <1>3, CharacterSteps
  <2>7. st[8] = Pass(st[7], b[7], TRUE)
    BY <1>1, <1>3, CharacterSteps
  <2>8. st[9] = Pass(st[8], b[8], TRUE)
    BY <1>1, <1>3, CharacterSteps
  <2>9. st[10] = Pass(st[9], b[9], TRUE)
    BY <1>1, <1>3, CharacterSteps
  <2>10. st[11] = Pass(st[10], b[10], TRUE)
    BY <1>1, <1>3, CharacterSteps
  <2>11. st[12] = Pass(st[11], b[11], TRUE)
    BY <1>1, <1>3, CharacterSteps
  <2>12. ASSUME NEW i \in 1..n PROVE st[i + 1] = Pass(st[i], b[i], TRUE)
    <3>1. PICK j : j = i + 1
      OBVIOUS
    <3>2. CASE i = 1
      <4>1. j = 2
        BY <3>1, <3>2
      <4>2. st[j] = Pass(st[i], b[i], TRUE)
        BY <2>1, <3>2, <4>1
      <4> QED
        BY <3>1, <4>2
    <3>3. CASE i = 2
      <4>1. j = 3
        BY <3>1, <3>3
      <4>2. st[j] = Pass(st[i], b[i], TRUE)
        BY <2>2, <3>3, <4>1
      <4> QED
        BY <3>1, <4>2
    <3>4. CASE i = 3
      <4>1. j = 4
        BY <3>1, <3>4
      <4>2. st[j] = Pass(st[i], b[i], TRUE)
        BY <2>3, <3>4, <4>1
      <4> QED
        BY <3>1, <4>2
    <3>5. CASE i = 4
      <4>1. j = 5
        BY <3>1, <3>5
      <4>2. st[j] = Pass(st[i], b[i], TRUE)
        BY <2>4, <3>5, <4>1
      <4> QED
        BY <3>1, <4>2
    <3>6. CASE i = 5
      <4>1. j = 6
        BY <3>1, <3>6
      <4>2. st[j] = Pass(st[i], b[i], TRUE)
        BY <2>5, <3>6, <4>1
      <4> QED
        BY <3>1, <4>2
    <3>7. CASE i = 6
      <4>1. j = 7
        BY <3>1, <3>7
      <4>2. st[j] = Pass(st[i], b[i], TRUE)
        BY <2>6, <3>7, <4>1
      <4> QED
        BY <3>1, <4>2
    <3>8. CASE i = 7
      <4>1. j = 8
        BY <3>1, <3>8
      <4>2. st[j] = Pass(st[i], b[i], TRUE)
        BY <2>7, <3>8, <4>1
      <4> QED
        BY <3>1, <4>2
    <3>9. CASE i = 8
      <4>1. j = 9
        BY <3>1, <3>9
      <4>2. st[j] = Pass(st[i], b[i], TRUE)
        BY <2>8, <3>9, <4>1
      <4> QED
        BY <3>1, <4>2
    <3>10. CASE i = 9
      <4>1. j = 10
        BY <3>1, <3>10
      <4>2. st[j] = Pass(st[i], b[i], TRUE)
        BY <2>9, <3>10, <4>1
      <4> QED
        BY <3>1, <4>2
    <3>11. CASE i = 10
      <4>1. j = 11
        BY <3>1, <3>11
      <4>2. st[j] = Pass(st[i], b[i], TRUE)
        BY <2>10, <3>11, <4>1
      <4> QED
        BY <3>1, <4>2
    <3>12. CASE i = 11
      <4>1. j = 12
        BY <3>1, <3>12
      <4>2. st[j] = Pass(st[i], b[i], TRUE)
        BY <2>11, <3>12, <4>1
      <4> QED
        BY <3>1, <4>2
    <3>13. i \in {1, 2, 3, 4, 5, 6, 7, 8, 9, 10, 11}
      OBVIOUS
    <3> QED
      BY <3>2, <3>3, <3>4, <3>5, <3>6, <3>7, <3>8, <3>9, <3>10, <3>11, <3>12, <3>13
  <2> QED
    BY <1>3, <2>12, ScanStarts DEF Along
<1>5. Through(st, b, n)
  <2>1. ASSUME NEW i \in 1..n
        PROVE  (b[i] = "\n" => st[i].escaped \/ st[i].quoted) /\ (b[i] = "\\" => i < n - 1)
    <3>1. i \in {1, 2, 3, 4, 5, 6, 7, 8, 9, 10, 11}
      OBVIOUS
    <3> QED
      BY <3>1, OthersDiffer, ScanCharactersDiffer
  <2>2. n + 1 = 12
    OBVIOUS
  <2> QED
    BY <1>3, <2>1, <2>2, FlagsAre DEF Through
<1> QED
  BY <1>4, <1>5, ThroughIsBlock

\* A point with blanks and commas in a string is a block.
LEMMA StringIsBlock ==
    ASSUME NEW X, NEW b \in Seq(X), NEW n \in Nat, n = Len(b), n = 8,
           /\ b[1] = "a" /\ b[2] = Blank /\ b[3] = "f" /\ b[4] = "="
           /\ b[5] = Quote /\ b[6] = Blank /\ b[7] = Comma /\ b[8] = Quote
    PROVE  IsBlock(b)
<1>1. PICK st : st = <<Nothing, Nothing, Fielded, Fielded, AtValue, InString, InString, InString, AtValue>>
  OBVIOUS
<1>2. /\ st[1] = Nothing /\ st[2] = Nothing /\ st[3] = Fielded /\ st[4] = Fielded /\ st[5] = AtValue
      /\ st[6] = InString /\ st[7] = InString /\ st[8] = InString /\ st[9] = AtValue
  BY <1>1
<1>3. Along(st, b, n)
  <2>1. st[2] = Pass(st[1], b[1], TRUE)
    BY <1>2, CharacterSteps
  <2>2. st[3] = Pass(st[2], b[2], TRUE)
    BY <1>2, CharacterSteps
  <2>3. st[4] = Pass(st[3], b[3], TRUE)
    BY <1>2, CharacterSteps
  <2>4. st[5] = Pass(st[4], b[4], TRUE)
    BY <1>2, CharacterSteps
  <2>5. st[6] = Pass(st[5], b[5], TRUE)
    BY <1>2, CharacterSteps
  <2>6. st[7] = Pass(st[6], b[6], TRUE)
    BY <1>2, CharacterSteps
  <2>7. st[8] = Pass(st[7], b[7], TRUE)
    BY <1>2, CharacterSteps
  <2>8. st[9] = Pass(st[8], b[8], TRUE)
    BY <1>2, CharacterSteps
  <2>9. ASSUME NEW i \in 1..n PROVE st[i + 1] = Pass(st[i], b[i], TRUE)
    <3>1. PICK j : j = i + 1
      OBVIOUS
    <3>2. CASE i = 1
      <4>1. j = 2
        BY <3>1, <3>2
      <4>2. st[j] = Pass(st[i], b[i], TRUE)
        BY <2>1, <3>2, <4>1
      <4> QED
        BY <3>1, <4>2
    <3>3. CASE i = 2
      <4>1. j = 3
        BY <3>1, <3>3
      <4>2. st[j] = Pass(st[i], b[i], TRUE)
        BY <2>2, <3>3, <4>1
      <4> QED
        BY <3>1, <4>2
    <3>4. CASE i = 3
      <4>1. j = 4
        BY <3>1, <3>4
      <4>2. st[j] = Pass(st[i], b[i], TRUE)
        BY <2>3, <3>4, <4>1
      <4> QED
        BY <3>1, <4>2
    <3>5. CASE i = 4
      <4>1. j = 5
        BY <3>1, <3>5
      <4>2. st[j] = Pass(st[i], b[i], TRUE)
        BY <2>4, <3>5, <4>1
      <4> QED
        BY <3>1, <4>2
    <3>6. CASE i = 5
      <4>1. j = 6
        BY <3>1, <3>6
      <4>2. st[j] = Pass(st[i], b[i], TRUE)
        BY <2>5, <3>6, <4>1
      <4> QED
        BY <3>1, <4>2
    <3>7. CASE i = 6
      <4>1. j = 7
        BY <3>1, <3>7
      <4>2. st[j] = Pass(st[i], b[i], TRUE)
        BY <2>6, <3>7, <4>1
      <4> QED
        BY <3>1, <4>2
    <3>8. CASE i = 7
      <4>1. j = 8
        BY <3>1, <3>8
      <4>2. st[j] = Pass(st[i], b[i], TRUE)
        BY <2>7, <3>8, <4>1
      <4> QED
        BY <3>1, <4>2
    <3>9. CASE i = 8
      <4>1. j = 9
        BY <3>1, <3>9
      <4>2. st[j] = Pass(st[i], b[i], TRUE)
        BY <2>8, <3>9, <4>1
      <4> QED
        BY <3>1, <4>2
    <3>10. i \in {1, 2, 3, 4, 5, 6, 7, 8}
      OBVIOUS
    <3> QED
      BY <3>2, <3>3, <3>4, <3>5, <3>6, <3>7, <3>8, <3>9, <3>10
  <2> QED
    BY <1>2, <2>9, ScanStarts DEF Along
<1>4. Through(st, b, n)
  <2>1. ASSUME NEW i \in 1..n
        PROVE  (b[i] = "\n" => st[i].escaped \/ st[i].quoted) /\ (b[i] = "\\" => i < n - 1)
    <3>1. i \in {1, 2, 3, 4, 5, 6, 7, 8}
      OBVIOUS
    <3> QED
      BY <3>1, OthersDiffer, ScanCharactersDiffer
  <2>2. n + 1 = 9
    OBVIOUS
  <2> QED
    BY <1>2, <2>1, <2>2, FlagsAre DEF Through
<1> QED
  BY <1>3, <1>4, ThroughIsBlock

\* A point with an escaped quote and a line end in a string is a block.
LEMMA EscapedStringIsBlock ==
    ASSUME NEW X, NEW b \in Seq(X), NEW n \in Nat, n = Len(b), n = 13,
           /\ b[1] = "a" /\ b[2] = Blank /\ b[3] = "f" /\ b[4] = "="
           /\ b[5] = Quote /\ b[6] = "\\" /\ b[7] = Quote /\ b[8] = "\n" /\ b[9] = Quote /\ b[10] = Comma
           /\ b[11] = "g" /\ b[12] = "=" /\ b[13] = "2"
    PROVE  IsBlock(b)
<1>1. PICK st : st = <<Nothing, Nothing, Fielded, Fielded, AtValue, InString, InEscape, InString,
                       InString, AtValue, Fielded, Fielded, AtValue, AtValue>>
  OBVIOUS
<1>2. /\ st[1] = Nothing /\ st[2] = Nothing /\ st[3] = Fielded /\ st[4] = Fielded /\ st[5] = AtValue
      /\ st[6] = InString /\ st[7] = InEscape /\ st[8] = InString /\ st[9] = InString
      /\ st[10] = AtValue /\ st[11] = Fielded /\ st[12] = Fielded /\ st[13] = AtValue /\ st[14] = AtValue
  BY <1>1
<1>3. Along(st, b, n)
  <2>1. st[2] = Pass(st[1], b[1], TRUE)
    BY <1>2, CharacterSteps
  <2>2. st[3] = Pass(st[2], b[2], TRUE)
    BY <1>2, CharacterSteps
  <2>3. st[4] = Pass(st[3], b[3], TRUE)
    BY <1>2, CharacterSteps
  <2>4. st[5] = Pass(st[4], b[4], TRUE)
    BY <1>2, CharacterSteps
  <2>5. st[6] = Pass(st[5], b[5], TRUE)
    BY <1>2, CharacterSteps
  <2>6. st[7] = Pass(st[6], b[6], TRUE)
    BY <1>2, CharacterSteps
  <2>7. st[8] = Pass(st[7], b[7], TRUE)
    BY <1>2, CharacterSteps
  <2>8. st[9] = Pass(st[8], b[8], TRUE)
    BY <1>2, CharacterSteps
  <2>9. st[10] = Pass(st[9], b[9], TRUE)
    BY <1>2, CharacterSteps
  <2>10. st[11] = Pass(st[10], b[10], TRUE)
    BY <1>2, CharacterSteps
  <2>11. st[12] = Pass(st[11], b[11], TRUE)
    BY <1>2, CharacterSteps
  <2>12. st[13] = Pass(st[12], b[12], TRUE)
    BY <1>2, CharacterSteps
  <2>13. st[14] = Pass(st[13], b[13], TRUE)
    BY <1>2, CharacterSteps
  <2>14. ASSUME NEW i \in 1..n PROVE st[i + 1] = Pass(st[i], b[i], TRUE)
    <3>1. PICK j : j = i + 1
      OBVIOUS
    <3>2. CASE i = 1
      <4>1. j = 2
        BY <3>1, <3>2
      <4>2. st[j] = Pass(st[i], b[i], TRUE)
        BY <2>1, <3>2, <4>1
      <4> QED
        BY <3>1, <4>2
    <3>3. CASE i = 2
      <4>1. j = 3
        BY <3>1, <3>3
      <4>2. st[j] = Pass(st[i], b[i], TRUE)
        BY <2>2, <3>3, <4>1
      <4> QED
        BY <3>1, <4>2
    <3>4. CASE i = 3
      <4>1. j = 4
        BY <3>1, <3>4
      <4>2. st[j] = Pass(st[i], b[i], TRUE)
        BY <2>3, <3>4, <4>1
      <4> QED
        BY <3>1, <4>2
    <3>5. CASE i = 4
      <4>1. j = 5
        BY <3>1, <3>5
      <4>2. st[j] = Pass(st[i], b[i], TRUE)
        BY <2>4, <3>5, <4>1
      <4> QED
        BY <3>1, <4>2
    <3>6. CASE i = 5
      <4>1. j = 6
        BY <3>1, <3>6
      <4>2. st[j] = Pass(st[i], b[i], TRUE)
        BY <2>5, <3>6, <4>1
      <4> QED
        BY <3>1, <4>2
    <3>7. CASE i = 6
      <4>1. j = 7
        BY <3>1, <3>7
      <4>2. st[j] = Pass(st[i], b[i], TRUE)
        BY <2>6, <3>7, <4>1
      <4> QED
        BY <3>1, <4>2
    <3>8. CASE i = 7
      <4>1. j = 8
        BY <3>1, <3>8
      <4>2. st[j] = Pass(st[i], b[i], TRUE)
        BY <2>7, <3>8, <4>1
      <4> QED
        BY <3>1, <4>2
    <3>9. CASE i = 8
      <4>1. j = 9
        BY <3>1, <3>9
      <4>2. st[j] = Pass(st[i], b[i], TRUE)
        BY <2>8, <3>9, <4>1
      <4> QED
        BY <3>1, <4>2
    <3>10. CASE i = 9
      <4>1. j = 10
        BY <3>1, <3>10
      <4>2. st[j] = Pass(st[i], b[i], TRUE)
        BY <2>9, <3>10, <4>1
      <4> QED
        BY <3>1, <4>2
    <3>11. CASE i = 10
      <4>1. j = 11
        BY <3>1, <3>11
      <4>2. st[j] = Pass(st[i], b[i], TRUE)
        BY <2>10, <3>11, <4>1
      <4> QED
        BY <3>1, <4>2
    <3>12. CASE i = 11
      <4>1. j = 12
        BY <3>1, <3>12
      <4>2. st[j] = Pass(st[i], b[i], TRUE)
        BY <2>11, <3>12, <4>1
      <4> QED
        BY <3>1, <4>2
    <3>13. CASE i = 12
      <4>1. j = 13
        BY <3>1, <3>13
      <4>2. st[j] = Pass(st[i], b[i], TRUE)
        BY <2>12, <3>13, <4>1
      <4> QED
        BY <3>1, <4>2
    <3>14. CASE i = 13
      <4>1. j = 14
        BY <3>1, <3>14
      <4>2. st[j] = Pass(st[i], b[i], TRUE)
        BY <2>13, <3>14, <4>1
      <4> QED
        BY <3>1, <4>2
    <3>15. i \in {1, 2, 3, 4, 5, 6, 7, 8, 9, 10, 11, 12, 13}
      OBVIOUS
    <3> QED
      BY <3>2, <3>3, <3>4, <3>5, <3>6, <3>7, <3>8, <3>9, <3>10, <3>11, <3>12, <3>13, <3>14, <3>15
  <2> QED
    BY <1>2, <2>14, ScanStarts DEF Along
<1>4. Through(st, b, n)
  <2>1. ASSUME NEW i \in 1..n
        PROVE  (b[i] = "\n" => st[i].escaped \/ st[i].quoted) /\ (b[i] = "\\" => i < n - 1)
    <3>1. i \in {1, 2, 3, 4, 5, 6, 7, 8, 9, 10, 11, 12, 13}
      OBVIOUS
    <3>2. "\n" \notin {"a", "f", "2", "g", "\\", Blank, Quote, "=", Comma}
      BY OthersDiffer
    <3>3. "\\" \notin {"a", "f", "2", "g", "\n", Blank, Quote, "=", Comma}
      BY OthersDiffer, ScanCharactersDiffer
    <3>4. i \notin {8} => b[i] # "\n"
      BY <3>1, <3>2
    <3>5. i \notin {6} => b[i] # "\\"
      BY <3>1, <3>3
    <3>6. st[8].quoted
      BY <1>2, FlagsAre
    <3> QED
      BY <3>4, <3>5, <3>6
  <2>2. n + 1 = 14
    OBVIOUS
  <2> QED
    BY <1>2, <2>1, <2>2, FlagsAre DEF Through
<1> QED
  BY <1>3, <1>4, ThroughIsBlock

\* The characters of the bodies, and those that are nothing special.
InBodies == {"a", "t", "f", "g", "1", "2", "#", "=", "\\", "\n", Blank, Comma, Quote}
Plain == {"a", "f", "1", "#", "=", Blank}

LEMMA PlainBlocks ==
    ASSUME NEW b \in Seq(Plain)
    PROVE  IsBlock(b)
<1>1. \A c \in Plain : c \notin {"\n", "\\", Quote}
  BY Zenon DEF Plain, Blank, Quote
<1>2. \A i \in 1..Len(b) : b[i] \in Plain
  OBVIOUS
<1>3. \A i \in 1..Len(b) : b[i] \notin {"\n", "\\", Quote}
  BY <1>1, <1>2
<1> QED
  BY <1>3, PlainIsBlock

\* What stands behind the blank of a block.
LEMMA FieldsBehind ==
    ASSUME NEW X, X \subseteq InBodies, NEW f \in Seq(X), NEW b, b = <<"a", Blank>> \o f
    PROVE  /\ b \in Seq(InBodies)
           /\ Len(b) = Len(f) + 2 /\ b[1] = "a" /\ b[2] = Blank
           /\ \A i \in 1..Len(f) : b[i + 2] = f[i]
<1>1. PICK Y : Y = InBodies
  OBVIOUS
<1>2. X \subseteq Y /\ "a" \in Y /\ Blank \in Y
  BY <1>1 DEF InBodies
<1>3. PICK h : h = <<"a", Blank>>
  OBVIOUS
<1>4. h \in Seq(Y) /\ f \in Seq(Y) /\ Len(h) = 2 /\ h[1] = "a" /\ h[2] = Blank
  BY <1>2, <1>3
<1>5. b \in Seq(Y) /\ Both(b, h, f)
  BY <1>3, <1>4, Joined
<1>6. PICK m, n \in Nat : m = Len(h) /\ n = Len(f)
  BY <1>4
<1>7. Len(b) = n + 2
  BY <1>4, <1>5, <1>6 DEF Both
<1>8. b[1] = "a" /\ b[2] = Blank
  BY <1>4, <1>5 DEF Both
<1>9. ASSUME NEW i \in 1..n PROVE b[i + 2] = f[i]
  <2>1. b[Len(h) + i] = f[i]
    BY <1>5, <1>6 DEF Both
  <2>2. Len(h) + i = i + 2
    BY <1>4
  <2> QED
    BY <2>1, <2>2
<1> QED
  BY <1>1, <1>5, <1>6, <1>7, <1>8, <1>9

\* The run's blocks are blocks.
LEMMA BlocksFit ==
    ASSUME NEW b \in Blocks
    PROVE  IsBlock(b) /\ b \in Seq(InBodies)
<1>1. ASSUME b \in Seq({"a", "f", "1", "#", "=", Blank}) PROVE IsBlock(b) /\ b \in Seq(InBodies)
  <2>1. {"a", "f", "1", "#", "=", Blank} \subseteq InBodies
    BY DEF InBodies
  <2>2. b \in Seq(InBodies)
    BY <1>1, <2>1, SeqMonotonic
  <2> QED
    BY <1>1, <2>2, PlainBlocks DEF Plain
<1>2. CASE b = <<>>
  BY <1>1, <1>2
<1>3. CASE b = <<Blank>>
  BY <1>1, <1>3
<1>4. CASE b = <<"#", "a">>
  BY <1>1, <1>4
<1>5. CASE b = <<Blank, "a", Blank, "f", "=", "1">>
  BY <1>1, <1>5
<1>6. CASE b = <<"a", "\\", Blank, Comma, "t", "=", Quote, Blank, "f", "=", "1">>
  <2>1. PICK X : X = {"a", "\\", Blank, Comma, "t", "=", Quote, "f", "1"}
    OBVIOUS
  <2>2. /\ b \in Seq(X) /\ Len(b) = 11
        /\ b[1] = "a" /\ b[2] = "\\" /\ b[3] = Blank /\ b[4] = Comma
        /\ b[5] = "t" /\ b[6] = "=" /\ b[7] = Quote /\ b[8] = Blank /\ b[9] = "f"
        /\ b[10] = "=" /\ b[11] = "1"
    BY <1>6, <2>1
  <2>3. PICK n \in Nat : n = Len(b) /\ n = 11
    BY <2>2
  <2>4. X \subseteq InBodies
    BY <2>1 DEF InBodies
  <2>5. b \in Seq(InBodies)
    BY <2>2, <2>4, SeqMonotonic
  <2> QED
    BY <2>2, <2>3, <2>5, EscapedTagIsBlock
<1>7. CASE b = <<"a", Blank>> \o <<"f", "=", "1">>
  BY <1>1, <1>7
<1>8. CASE b = <<"a", Blank>> \o <<"f", "=", Quote, Blank, Comma, Quote>>
  <2> DEFINE X == {"f", "=", Quote, Blank, Comma}
  <2>1. PICK f : f = <<"f", "=", Quote, Blank, Comma, Quote>>
    OBVIOUS
  <2>2. /\ f \in Seq(X) /\ Len(f) = 6
        /\ f[1] = "f" /\ f[2] = "=" /\ f[3] = Quote /\ f[4] = Blank /\ f[5] = Comma /\ f[6] = Quote
    BY <2>1
  <2>3. X \subseteq InBodies
    BY DEF InBodies
  <2> HIDE DEF X
  <2>4. /\ b \in Seq(InBodies) /\ Len(b) = 8 /\ b[1] = "a" /\ b[2] = Blank
        /\ \A i \in 1..6 : b[i + 2] = f[i]
    <3>1. b = <<"a", Blank>> \o f /\ f \in Seq(X)
      BY <1>8, <2>1, <2>2
    <3>2. /\ b \in Seq(InBodies) /\ Len(b) = Len(f) + 2 /\ b[1] = "a" /\ b[2] = Blank
          /\ \A i \in 1..Len(f) : b[i + 2] = f[i]
      BY <2>3, <3>1, FieldsBehind
    <3> QED
      BY <2>2, <3>2
  <2>5. /\ b[1 + 2] = "f" /\ b[2 + 2] = "=" /\ b[3 + 2] = Quote /\ b[4 + 2] = Blank
        /\ b[5 + 2] = Comma /\ b[6 + 2] = Quote
    BY <2>2, <2>4
  <2>6. /\ b[1] = "a" /\ b[2] = Blank /\ b[3] = "f" /\ b[4] = "="
        /\ b[5] = Quote /\ b[6] = Blank /\ b[7] = Comma /\ b[8] = Quote
    BY <2>4, <2>5
  <2>7. PICK n \in Nat : n = Len(b) /\ n = 8
    BY <2>4
  <2> QED
    BY <2>4, <2>6, <2>7, StringIsBlock
<1>9. CASE b = <<"a", Blank>> \o <<"f", "=", Quote, "\\", Quote, "\n", Quote, Comma, "g", "=", "2">>
  <2> DEFINE X == {"f", "=", Quote, "\\", "\n", Comma, "g", "2"}
  <2>1. PICK f : f = <<"f", "=", Quote, "\\", Quote, "\n", Quote, Comma, "g", "=", "2">>
    OBVIOUS
  <2>2. /\ f \in Seq(X) /\ Len(f) = 11
        /\ f[1] = "f" /\ f[2] = "=" /\ f[3] = Quote /\ f[4] = "\\" /\ f[5] = Quote /\ f[6] = "\n"
        /\ f[7] = Quote /\ f[8] = Comma /\ f[9] = "g" /\ f[10] = "=" /\ f[11] = "2"
    BY <2>1
  <2>3. X \subseteq InBodies
    BY DEF InBodies
  <2> HIDE DEF X
  <2>4. /\ b \in Seq(InBodies) /\ Len(b) = 13 /\ b[1] = "a" /\ b[2] = Blank
        /\ \A i \in 1..11 : b[i + 2] = f[i]
    <3>1. b = <<"a", Blank>> \o f /\ f \in Seq(X)
      BY <1>9, <2>1, <2>2
    <3>2. /\ b \in Seq(InBodies) /\ Len(b) = Len(f) + 2 /\ b[1] = "a" /\ b[2] = Blank
          /\ \A i \in 1..Len(f) : b[i + 2] = f[i]
      BY <2>3, <3>1, FieldsBehind
    <3> QED
      BY <2>2, <3>2
  <2>5. /\ b[1 + 2] = "f" /\ b[2 + 2] = "=" /\ b[3 + 2] = Quote /\ b[4 + 2] = "\\"
        /\ b[5 + 2] = Quote /\ b[6 + 2] = "\n" /\ b[7 + 2] = Quote /\ b[8 + 2] = Comma
        /\ b[9 + 2] = "g" /\ b[10 + 2] = "=" /\ b[11 + 2] = "2"
    BY <2>2, <2>4
  <2>6. /\ b[1] = "a" /\ b[2] = Blank /\ b[3] = "f" /\ b[4] = "="
        /\ b[5] = Quote /\ b[6] = "\\" /\ b[7] = Quote /\ b[8] = "\n" /\ b[9] = Quote
        /\ b[10] = Comma /\ b[11] = "g" /\ b[12] = "=" /\ b[13] = "2"
    BY <2>4, <2>5
  <2>7. PICK n \in Nat : n = Len(b) /\ n = 13
    BY <2>4
  <2> QED
    BY <2>4, <2>6, <2>7, EscapedStringIsBlock
<1>10. b \in {<<"a", Blank>> \o f : f \in FieldSets} =>
          \/ b = <<"a", Blank>> \o <<"f", "=", "1">>
          \/ b = <<"a", Blank>> \o <<"f", "=", Quote, Blank, Comma, Quote>>
          \/ b = <<"a", Blank>> \o <<"f", "=", Quote, "\\", Quote, "\n", Quote, Comma, "g", "=", "2">>
  BY DEF FieldSets
<1> QED
  BY <1>2, <1>3, <1>4, <1>5, <1>6, <1>7, <1>8, <1>9, <1>10 DEF Blocks

-----------------------------------------------------------------------------
(* The reductions.                                                          *)

Series(Name, Row) == [name : Name, values : Seq(Row)]

\* Bodies as they are decoded: results of series.
AreBodies(bodies, Name, Row) == bodies \in Seq(Seq(Seq(Series(Name, Row))))

LEMMA RangeIs ==
    ASSUME NEW T, NEW s \in Seq(T)
    PROVE  \A e : e \in Range(s) <=> \E i \in 1..Len(s) : e = s[i]
  BY DEF Range

LEMMA SeriesAre ==
    ASSUME NEW Name, NEW Row, NEW bodies, AreBodies(bodies, Name, Row), NEW b \in Range(bodies)
    PROVE  SeriesOf(b) \in Seq(Series(Name, Row))
<1>1. PICK T : T = Series(Name, Row)
  OBVIOUS
<1>2. b \in Seq(Seq(T))
  BY <1>1 DEF AreBodies, Range
<1>3. b # <<>> => b[1] \in Seq(T)
  BY <1>2
<1> QED
  BY <1>1, <1>3 DEF SeriesOf

\* The rows of a body that has exactly one series.
Single(b) == Len(SeriesOf(b)) = 1
FirstRows(b) == SeriesOf(b)[1].values

LEMMA RowsAre ==
    ASSUME NEW Name, NEW Row, NEW bodies, AreBodies(bodies, Name, Row), NEW b \in Range(bodies),
           Single(b)
    PROVE  FirstRows(b) \in Seq(Row)
<1>1. SeriesOf(b) \in Seq(Series(Name, Row))
  BY SeriesAre
<1>2. SeriesOf(b)[1] \in Series(Name, Row)
  BY <1>1 DEF Single
<1> QED
  BY <1>2 DEF Series, FirstRows

LEMMA AnswerRowsAre ==
    ASSUME NEW bodies, NEW e
    PROVE  e \in AnswerRows(bodies) <=> \E b \in Range(bodies) : Single(b) /\ e \in Range(FirstRows(b))
  BY DEF AnswerRows, Single, FirstRows

\* Values are those of the bodies that have one series.
LEMMA ValuesAre ==
    ASSUME NEW Name, NEW Row, NEW bodies, AreBodies(bodies, Name, Row)
    PROVE  /\ Values(bodies) \in Seq(Seq(Row))
           /\ \A v : v \in Range(Values(bodies)) <=> \E b \in Range(bodies) : Single(b) /\ v = FirstRows(b)
<1>1. PICK pieces : pieces = [i \in 1..Len(bodies) |-> IF Single(bodies[i]) THEN <<FirstRows(bodies[i])>>
                                                      ELSE <<>>]
  OBVIOUS
<1>2. Values(bodies) = FlattenSeq(pieces)
  BY <1>1 DEF Values, Single, FirstRows
<1>3. PICK n \in Nat : n = Len(bodies) /\ DOMAIN bodies = 1..n
  BY DEF AreBodies
<1>4. \A i \in 1..n : bodies[i] \in Range(bodies)
  BY <1>3 DEF Range
<1>5. \A b \in Range(bodies) : \E i \in 1..n : b = bodies[i]
  BY <1>3 DEF Range
<1>6. PICK T : T = Seq(Row)
  OBVIOUS
<1>7. \A i \in 1..n : pieces[i] \in Seq(T)
  <2> TAKE i \in 1..n
  <2>1. CASE Single(bodies[i])
    <3>1. FirstRows(bodies[i]) \in T
      BY <1>4, <1>6, <2>1, RowsAre
    <3>2. <<FirstRows(bodies[i])>> \in Seq(T)
      BY <3>1
    <3> QED
      BY <1>1, <1>3, <2>1, <3>2
  <2>2. CASE ~Single(bodies[i])
    BY <1>1, <1>3, <2>2
  <2> QED
    BY <2>1, <2>2
<1>8. pieces \in Seq(Seq(T)) /\ Len(pieces) = n
  <2>1. pieces \in [1..n -> Seq(T)]
    BY <1>1, <1>3, <1>7
  <2> QED
    BY <2>1
<1>9. ASSUME NEW v
      PROVE  v \in Range(Values(bodies)) <=> \E b \in Range(bodies) : Single(b) /\ v = FirstRows(b)
  <2>1. v \in Range(Values(bodies)) <=> \E i \in 1..n : v \in Range(pieces[i])
    BY <1>2, <1>8, FlattenRange
  <2>2. ASSUME NEW i \in 1..n
        PROVE  v \in Range(pieces[i]) <=> Single(bodies[i]) /\ v = FirstRows(bodies[i])
    <3>1. CASE Single(bodies[i])
      <4>1. pieces[i] = <<FirstRows(bodies[i])>>
        BY <1>1, <1>3, <3>1
      <4>2. \A e : e \in Range(<<FirstRows(bodies[i])>>) <=> e = FirstRows(bodies[i])
        BY DEF Range
      <4> QED
        BY <3>1, <4>1, <4>2
    <3>2. CASE ~Single(bodies[i])
      <4>1. pieces[i] = <<>>
        BY <1>1, <1>3, <3>2
      <4>2. \A e : e \notin Range(<<>>)
        BY DEF Range
      <4> QED
        BY <3>2, <4>1, <4>2
    <3> QED
      BY <3>1, <3>2
  <2> QED
    BY <1>4, <1>5, <2>1, <2>2
<1>10. Values(bodies) \in Seq(T)
  BY <1>2, <1>8, FlattenType
<1> QED
  BY <1>6, <1>9, <1>10

\* All their rows, end to end.
LEMMA AllRows ==
    ASSUME NEW Name, NEW Row, NEW bodies, AreBodies(bodies, Name, Row)
    PROVE  /\ FlattenSeq(Values(bodies)) \in Seq(Row)
           /\ \A e : e \in Range(FlattenSeq(Values(bodies))) <=> e \in AnswerRows(bodies)
<1>1. PICK values : values = Values(bodies)
  OBVIOUS
<1>2. values \in Seq(Seq(Row))
  BY <1>1, ValuesAre
<1>3. ASSUME NEW e
      PROVE  e \in Range(FlattenSeq(values)) <=> e \in AnswerRows(bodies)
  <2>1. e \in Range(FlattenSeq(values)) <=> \E i \in 1..Len(values) : e \in Range(values[i])
    BY <1>2, FlattenRange
  <2>2. \A v : v \in Range(values) <=> \E i \in 1..Len(values) : v = values[i]
    BY <1>2, RangeIs
  <2>3. \A v : v \in Range(values) <=> \E b \in Range(bodies) : Single(b) /\ v = FirstRows(b)
    BY <1>1, ValuesAre
  <2>4. e \in AnswerRows(bodies) <=> \E b \in Range(bodies) : Single(b) /\ e \in Range(FirstRows(b))
    BY AnswerRowsAre
  <2>5. e \in Range(FlattenSeq(values)) <=> \E v \in Range(values) : e \in Range(v)
    BY <2>1, <2>2
  <2>6. (\E v \in Range(values) : e \in Range(v))
            <=> \E b \in Range(bodies) : Single(b) /\ e \in Range(FirstRows(b))
    BY <2>3
  <2> QED
    BY <2>4, <2>5, <2>6
<1> QED
  BY <1>1, <1>2, <1>3, FlattenType

\* The last row with a key.
LastRow(rows, k) == LastOf({i \in DOMAIN rows : rows[i][1] = k}, 0)

LEMMA LastRowIs ==
    ASSUME NEW Row, NEW rows \in Seq(Row), NEW r \in Range(rows)
    PROVE  /\ rows[LastRow(rows, r[1])] \in Range(rows)
           /\ rows[LastRow(rows, r[1])][1] = r[1]
<1> DEFINE S == {i \in DOMAIN rows : rows[i][1] = r[1]}
<1>1. PICK n \in Nat : n = Len(rows) /\ DOMAIN rows = 1..n
  OBVIOUS
<1>2. PICK i \in 1..n : r = rows[i]
  BY <1>1 DEF Range
<1>3. S \in SUBSET (0..n) /\ S # {}
  BY <1>1, <1>2
<1>4. \A j \in S : j \in DOMAIN rows /\ rows[j][1] = r[1]
  OBVIOUS
<1>5. LastRow(rows, r[1]) = LastOf(S, 0)
  BY DEF LastRow
<1> HIDE DEF S
<1>6. LastOf(S, 0) \in S
  BY <1>3, LastOfIs
<1> QED
  BY <1>4, <1>5, <1>6 DEF Range

\* For any backends, answers and order of them: a show of values has one row for every
\* key that some answer has, and no other (reduceByValues).
THEOREM ValuesAreWholeCorrect ==
    ASSUME NEW Name, NEW Row, NEW bodies, AreBodies(bodies, Name, Row)
    PROVE  ValuesAreWhole(bodies)
<1> DEFINE rows == FlattenSeq(Values(bodies))
           merged == reduceByValues(bodies)
<1>1. merged = {rows[LastRow(rows, r[1])] : r \in Range(rows)}
  BY DEF reduceByValues, LastRow
<1>2. rows \in Seq(Row) /\ \A e : e \in Range(rows) <=> e \in AnswerRows(bodies)
  BY AllRows
<1> HIDE DEF rows, merged
<1>3. \A r \in Range(rows) : /\ rows[LastRow(rows, r[1])] \in Range(rows)
                             /\ rows[LastRow(rows, r[1])][1] = r[1]
  BY <1>2, LastRowIs
<1>4. merged \subseteq AnswerRows(bodies)
  BY <1>1, <1>2, <1>3
<1>5. \A r \in AnswerRows(bodies) : \E x \in merged : x[1] = r[1]
  BY <1>1, <1>2, <1>3
<1>6. \A x, y \in merged : x[1] = y[1] => x = y
  <2> TAKE x, y \in merged
  <2>1. PICK r \in Range(rows) : x = rows[LastRow(rows, r[1])]
    BY <1>1
  <2>2. PICK q \in Range(rows) : y = rows[LastRow(rows, q[1])]
    BY <1>1
  <2>3. x[1] = r[1] /\ y[1] = q[1]
    BY <1>3, <2>1, <2>2
  <2> QED
    BY <2>1, <2>2, <2>3
<1> QED
  BY <1>4, <1>5, <1>6 DEF ValuesAreWhole, merged

\* All the series, end to end.
AllOf(bodies) == FlattenSeq([i \in 1..Len(bodies) |-> SeriesOf(bodies[i])])

\* The series of all answers together.
LEMMA AllSeries ==
    ASSUME NEW Name, NEW Row, NEW bodies, AreBodies(bodies, Name, Row)
    PROVE  /\ AllOf(bodies) \in Seq(Series(Name, Row))
           /\ \A e : e \in Range(AllOf(bodies)) <=> e \in AnswerSeries(bodies)
<1>1. PICK pieces : pieces = [i \in 1..Len(bodies) |-> SeriesOf(bodies[i])]
  OBVIOUS
<1>2. PICK n \in Nat : n = Len(bodies) /\ DOMAIN bodies = 1..n
  BY DEF AreBodies
<1>3. \A i \in 1..n : bodies[i] \in Range(bodies)
  BY <1>2 DEF Range
<1>4. \A b \in Range(bodies) : \E i \in 1..n : b = bodies[i]
  BY <1>2 DEF Range
<1>5. PICK T : T = Series(Name, Row)
  OBVIOUS
<1>6. \A i \in 1..n : pieces[i] = SeriesOf(bodies[i]) /\ pieces[i] \in Seq(T)
  BY <1>1, <1>2, <1>3, <1>5, SeriesAre
<1>7. pieces \in Seq(Seq(T)) /\ Len(pieces) = n
  <2>1. pieces \in [1..n -> Seq(T)]
    BY <1>1, <1>2, <1>6
  <2> QED
    BY <2>1
<1>8. AllOf(bodies) = FlattenSeq(pieces)
  BY <1>1 DEF AllOf
<1>9. ASSUME NEW e
      PROVE  e \in Range(AllOf(bodies)) <=> e \in AnswerSeries(bodies)
  <2>1. e \in Range(AllOf(bodies)) <=> \E i \in 1..n : e \in Range(pieces[i])
    BY <1>7, <1>8, FlattenRange
  <2>2. e \in AnswerSeries(bodies) <=> \E b \in Range(bodies) : e \in Range(SeriesOf(b))
    BY DEF AnswerSeries
  <2>3. (\E i \in 1..n : e \in Range(pieces[i])) <=> \E b \in Range(bodies) : e \in Range(SeriesOf(b))
    BY <1>3, <1>4, <1>6
  <2> QED
    BY <2>1, <2>2, <2>3
<1> QED
  BY <1>5, <1>7, <1>8, <1>9, FlattenType

\* The last of the series with a name.
LastSeries(all, name) == LastOf({i \in DOMAIN all : all[i].name = name}, 0)

LEMMA LastSeriesIs ==
    ASSUME NEW T, NEW all \in Seq(T), NEW s \in Range(all)
    PROVE  /\ all[LastSeries(all, s.name)] \in Range(all)
           /\ all[LastSeries(all, s.name)].name = s.name
<1> DEFINE S == {i \in DOMAIN all : all[i].name = s.name}
<1>1. PICK n \in Nat : n = Len(all) /\ DOMAIN all = 1..n
  OBVIOUS
<1>2. PICK i \in 1..n : s = all[i]
  BY <1>1 DEF Range
<1>3. S \in SUBSET (0..n) /\ S # {}
  BY <1>1, <1>2
<1>4. \A j \in S : j \in DOMAIN all /\ all[j].name = s.name
  OBVIOUS
<1>5. LastSeries(all, s.name) = LastOf(S, 0)
  BY DEF LastSeries
<1> HIDE DEF S
<1>6. LastOf(S, 0) \in S
  BY <1>3, LastOfIs
<1> QED
  BY <1>4, <1>5, <1>6 DEF Range

\* For any answers in any order: a show of series has each that some answer has once,
\* and no other (reduceBySeries).
THEOREM SeriesAreWholeCorrect ==
    ASSUME NEW Name, NEW Row, NEW bodies, AreBodies(bodies, Name, Row)
    PROVE  SeriesAreWhole(bodies)
<1> DEFINE all == AllOf(bodies)
           merged == reduceBySeries(bodies)
<1>1. merged = {all[LastSeries(all, s.name)] : s \in Range(all)}
  BY DEF reduceBySeries, LastSeries, AllOf
<1>2. all \in Seq(Series(Name, Row)) /\ \A e : e \in Range(all) <=> e \in AnswerSeries(bodies)
  BY AllSeries
<1> HIDE DEF all, merged
<1>3. \A s \in Range(all) : /\ all[LastSeries(all, s.name)] \in Range(all)
                            /\ all[LastSeries(all, s.name)].name = s.name
  BY <1>2, LastSeriesIs
<1>4. merged \subseteq AnswerSeries(bodies)
  BY <1>1, <1>2, <1>3
<1>5. \A s \in AnswerSeries(bodies) : \E x \in merged : x.name = s.name
  BY <1>1, <1>2, <1>3
<1>6. \A x, y \in merged : x.name = y.name => x = y
  <2> TAKE x, y \in merged
  <2>1. PICK s \in Range(all) : x = all[LastSeries(all, s.name)]
    BY <1>1
  <2>2. PICK t \in Range(all) : y = all[LastSeries(all, t.name)]
    BY <1>1
  <2>3. x.name = s.name /\ y.name = t.name
    BY <1>3, <2>1, <2>2
  <2> QED
    BY <2>1, <2>2, <2>3
<1> QED
  BY <1>4, <1>5, <1>6 DEF SeriesAreWhole, merged

\* Attaching, row by row.
Attached(rows, first, others, n) ==
    IF n = 0 THEN first
    ELSE IF \E row \in Range(rows[n - 1]) : row[1] = others[n][1] THEN rows[n - 1]
    ELSE Append(rows[n - 1], others[n])
Attaching(rows, first, others, m) == rows = [n \in 0..m |-> Attached(rows, first, others, n)]

\* Attaching row by row has its sequence of results.
LEMMA AttachingExists ==
    ASSUME NEW first, NEW others, NEW n \in Nat
    PROVE  \E rows : Attaching(rows, first, others, n)
<1> DEFINE P(m) == \E rows : Attaching(rows, first, others, m)
           S == {m \in Nat : ~P(m)}
<1> SUFFICES ASSUME S # {} PROVE FALSE
  OBVIOUS
<1>1. PICK m \in S : \A k \in S : m <= k
  BY Least
<1>2. m # 0
  <2>1. Attaching([k \in 0..0 |-> first], first, others, 0)
    BY DEF Attaching, Attached
  <2> QED
    BY <2>1, Zenon
<1>3. m \in Nat \ {0} /\ m - 1 \in Nat /\ m - 1 \notin S
  <2> HIDE DEF P
  <2> QED
    BY <1>1, <1>2
<1>4. PICK f : Attaching(f, first, others, m - 1)
  <2>1. P(m - 1)
    BY <1>3
  <2> QED
    BY <2>1
<1>5. \A k \in 0..(m - 1) : f[k] = Attached(f, first, others, k)
  BY <1>4 DEF Attaching
<1>6. PICK g : g = [k \in 0..m |-> IF k < m THEN f[k] ELSE Attached(f, first, others, m)]
  OBVIOUS
<1>7. \A k \in 0..m : g[k] = Attached(g, first, others, k)
  <2> TAKE k \in 0..m
  <2>1. g[k] = Attached(f, first, others, k)
    <3>1. CASE k < m
      <4>1. k \in 0..(m - 1)
        BY <1>3, <3>1
      <4> QED
        BY <1>5, <1>6, <3>1, <4>1
    <3>2. CASE k = m
      BY <1>3, <1>6, <3>2
    <3> QED
      BY <1>3, <3>1, <3>2
  <2>2. CASE k = 0
    BY <2>1, <2>2 DEF Attached
  <2>3. CASE k # 0
    <3>1. PICK j : j = k - 1
      OBVIOUS
    <3>2. j \in 0..m /\ j < m
      BY <1>3, <2>3, <3>1
    <3>3. g[j] = f[j]
      BY <1>6, <3>2
    <3> QED
      BY <2>1, <2>3, <3>1, <3>3 DEF Attached
  <2> QED
    BY <2>2, <2>3
<1>8. Attaching(g, first, others, m)
  <2>1. g = [k \in 0..m |-> g[k]]
    BY <1>6
  <2> QED
    BY <1>7, <2>1 DEF Attaching
<1> QED
  BY <1>1, <1>8

\* attachByValues is the last of these results.
LEMMA AttachByValuesIs ==
    ASSUME NEW bodies, Values(bodies) # <<>>,
           \E rows : Attaching(rows, Head(Values(bodies)), FlattenSeq(Tail(Values(bodies))),
                              Len(FlattenSeq(Tail(Values(bodies)))))
    PROVE  \E rows : /\ Attaching(rows, Head(Values(bodies)), FlattenSeq(Tail(Values(bodies))),
                                 Len(FlattenSeq(Tail(Values(bodies)))))
                     /\ attachByValues(bodies) = rows[Len(FlattenSeq(Tail(Values(bodies))))]
  BY DEF attachByValues, Attaching, Attached

\* What is there when n rows have been looked at.
AttachInv(rows, first, others, n) ==
    /\ Len(first) <= Len(rows) /\ \A i \in 1..Len(first) : rows[i] = first[i]
    /\ \A i \in 1..Len(rows) : rows[i] \in Range(first) \cup Range(others)
    /\ \A m \in 1..n : \E i \in 1..Len(rows) : rows[i][1] = others[m][1]
    /\ \A i, j \in 1..Len(rows) : i < j /\ Len(first) < j => rows[i][1] # rows[j][1]

\* One more row is attached if its key is new, and keys stay apart.
LEMMA AttachStep ==
    ASSUME NEW Row, NEW rows \in Seq(Row), NEW first \in Seq(Row), NEW others \in Seq(Row),
           NEW n \in 1..Len(others), AttachInv(rows, first, others, n - 1),
           NEW next, next = IF \E row \in Range(rows) : row[1] = others[n][1] THEN rows
                            ELSE Append(rows, others[n])
    PROVE  next \in Seq(Row) /\ AttachInv(next, first, others, n)
<1>1. \A e : e \in Range(rows) <=> \E i \in 1..Len(rows) : e = rows[i]
  BY RangeIs
<1>2. n \in Nat \ {0} /\ others[n] \in Row /\ others[n] \in Range(others)
  BY DEF Range
<1>3. \A m \in 1..n : m = n \/ m \in 1..(n - 1)
  BY <1>2
<1>4. CASE \E row \in Range(rows) : row[1] = others[n][1]
  <2>1. next = rows
    BY <1>4
  <2>2. \E i \in 1..Len(rows) : rows[i][1] = others[n][1]
    BY <1>1, <1>4
  <2> QED
    BY <1>3, <2>1, <2>2 DEF AttachInv
<1>5. CASE ~\E row \in Range(rows) : row[1] = others[n][1]
  <2>1. next = Append(rows, others[n])
    BY <1>5
  <2>2. PICK l, f \in Nat : l = Len(rows) /\ f = Len(first)
    <3>1. Len(rows) \in Nat /\ Len(first) \in Nat
      BY LenProperties
    <3> QED
      BY <3>1
  <2>3. /\ next \in Seq(Row) /\ Len(next) = l + 1 /\ next[l + 1] = others[n]
        /\ \A i \in 1..l : next[i] = rows[i]
    BY <1>2, <2>1, <2>2, AppendProperties
  <2>4. \A i \in 1..(l + 1) : i = l + 1 \/ i \in 1..l
    BY <2>2
  <2>5. l + 1 \in 1..(l + 1) /\ \A i \in 1..l : i \in 1..(l + 1) /\ i < l + 1
    BY <2>2
  <2>6. f <= l /\ \A i \in 1..f : i \in 1..l /\ rows[i] = first[i]
    BY <2>2 DEF AttachInv
  <2>7. f <= l + 1 /\ \A i \in 1..f : next[i] = first[i]
    BY <2>2, <2>3, <2>6
  <2>8. \A i \in 1..(l + 1) : next[i] \in Range(first) \cup Range(others)
    BY <1>2, <2>2, <2>3, <2>4 DEF AttachInv
  <2>9. \A m \in 1..n : \E i \in 1..(l + 1) : next[i][1] = others[m][1]
    BY <1>3, <2>2, <2>3, <2>5 DEF AttachInv
  <2>10. \A i, j \in 1..(l + 1) : i < j /\ f < j => next[i][1] # next[j][1]
    <3> SUFFICES ASSUME NEW i \in 1..(l + 1), NEW j \in 1..(l + 1), i < j, f < j
                 PROVE  next[i][1] # next[j][1]
      OBVIOUS
    <3>1. i \in 1..l
      BY <2>2
    <3>2. CASE j \in 1..l
      BY <2>2, <2>3, <3>1, <3>2 DEF AttachInv
    <3>3. CASE j = l + 1
      <4>1. rows[i] \in Range(rows)
        BY <1>1, <2>2, <3>1
      <4> QED
        BY <1>5, <2>3, <3>1, <3>3, <4>1
    <3> QED
      BY <2>4, <3>2, <3>3
  <2>11. Len(first) <= Len(next) /\ \A i \in 1..Len(first) : next[i] = first[i]
    BY <2>2, <2>3, <2>7
  <2>12. \A i \in 1..Len(next) : next[i] \in Range(first) \cup Range(others)
    BY <2>3, <2>8
  <2>13. \A m \in 1..n : \E i \in 1..Len(next) : next[i][1] = others[m][1]
    BY <2>3, <2>9
  <2>14. \A i, j \in 1..Len(next) : i < j /\ Len(first) < j => next[i][1] # next[j][1]
    BY <2>2, <2>3, <2>10
  <2> QED
    BY <2>3, <2>11, <2>12, <2>13, <2>14, Zenon DEF AttachInv
<1> QED
  BY <1>4, <1>5

\* All rows attached: the first answer and one row for each further key.
LEMMA AttachIs ==
    ASSUME NEW Row, NEW first \in Seq(Row), NEW others \in Seq(Row), NEW rows,
           Attaching(rows, first, others, Len(others))
    PROVE  LET all == rows[Len(others)] IN all \in Seq(Row) /\ AttachInv(all, first, others, Len(others))
<1> DEFINE Good(n) == rows[n] \in Seq(Row) /\ AttachInv(rows[n], first, others, n)
           S == {n \in 0..Len(others) : ~Good(n)}
<1>0. PICK l \in Nat : l = Len(others)
  OBVIOUS
<1> SUFFICES ASSUME S # {} PROVE FALSE
  BY <1>0
<1>1. PICK n \in S : \A k \in S : n <= k
  <2>1. S \in SUBSET Nat
    BY <1>0
  <2> QED
    BY <2>1, Least
<1> HIDE DEF Good
<1>2. n \in 0..l /\ rows[n] = Attached(rows, first, others, n)
  BY <1>0, <1>1 DEF Attaching
<1>3. CASE n = 0
  <2>1. rows[n] = first
    BY <1>2, <1>3 DEF Attached
  <2>2. AttachInv(first, first, others, 0)
    <3>1. \A i \in 1..Len(first) : first[i] \in Range(first)
      BY DEF Range
    <3>2. Len(first) \in Nat
      OBVIOUS
    <3>3. \A i, j \in 1..Len(first) : ~(Len(first) < j)
      BY <3>2
    <3> QED
      BY <3>1, <3>2, <3>3 DEF AttachInv
  <2> QED
    BY <1>1, <1>3, <2>1, <2>2 DEF Good
<1>4. CASE n # 0
  <2>1. PICK j : j = n - 1
    OBVIOUS
  <2>2. j \in 0..Len(others) /\ j \notin S /\ n \in 1..Len(others)
    BY <1>0, <1>1, <1>2, <1>4, <2>1
  <2>3. Good(j)
    BY <2>2
  <2>4. PICK last \in Seq(Row) : last = rows[j] /\ AttachInv(last, first, others, n - 1)
    BY <2>1, <2>3 DEF Good
  <2>5. PICK next : next = rows[n]
    OBVIOUS
  <2>6. next = IF \E row \in Range(last) : row[1] = others[n][1] THEN last
               ELSE Append(last, others[n])
    BY <1>2, <1>4, <2>1, <2>4, <2>5 DEF Attached
  <2>7. next \in Seq(Row) /\ AttachInv(next, first, others, n)
    BY <2>2, <2>4, <2>6, AttachStep
  <2> QED
    BY <1>1, <2>5, <2>7 DEF Good
<1> QED
  BY <1>3, <1>4

\* For any answers in any order: a show of policies is the first answer with, behind it,
\* a row for every other key that some answer has, and no other (attachByValues).
THEOREM PoliciesAreWholeCorrect ==
    ASSUME NEW Name, NEW Row, NEW bodies, AreBodies(bodies, Name, Row)
    PROVE  PoliciesAreWhole(bodies)
<1>1. PICK values \in Seq(Seq(Row)) : values = Values(bodies)
  BY ValuesAre
<1>2. \A e : e \in AnswerRows(bodies) <=> \E v \in Range(values) : e \in Range(v)
  <2>1. \A v : v \in Range(values) <=> \E b \in Range(bodies) : Single(b) /\ v = FirstRows(b)
    BY <1>1, ValuesAre
  <2> QED
    BY <2>1, AnswerRowsAre
<1>3. CASE values = <<>>
  <2>1. \A e : e \notin Range(<<>>)
    BY DEF Range
  <2>2. attachByValues(bodies) = <<>> /\ \A e : e \notin AnswerRows(bodies)
    BY <1>1, <1>2, <1>3, <2>1 DEF attachByValues
  <2> QED
    BY <1>1, <1>3, <2>1, <2>2 DEF PoliciesAreWhole
<1>4. CASE values # <<>>
  <2>1. PICK first \in Seq(Row), rest \in Seq(Seq(Row)) :
            first = Head(values) /\ rest = Tail(values)
    BY <1>4, HeadTailProperties
  <2>2. PICK others \in Seq(Row) : others = FlattenSeq(rest)
    BY FlattenType
  <2>3. \E rows : Attaching(rows, first, others, Len(others))
    <3>1. Len(others) \in Nat
      OBVIOUS
    <3> QED
      BY <3>1, AttachingExists
  <2>4. PICK rows : /\ Attaching(rows, first, others, Len(others))
                    /\ attachByValues(bodies) = rows[Len(others)]
    BY <1>1, <1>4, <2>1, <2>2, <2>3, AttachByValuesIs
  <2>5. PICK all \in Seq(Row) : all = attachByValues(bodies) /\ AttachInv(all, first, others, Len(others))
    BY <2>4, AttachIs
  <2>6. \A e : e \in AnswerRows(bodies) <=> e \in Range(first) \/ e \in Range(others)
    <3>1. \A e : e \in Range(others) <=> \E i \in 1..Len(rest) : e \in Range(rest[i])
      BY <2>2, FlattenRange
    <3>2. \A v : v \in Range(rest) <=> \E i \in 1..Len(rest) : v = rest[i]
      BY RangeIs
    <3>3. \A v : v \in Range(values) <=> v = first \/ v \in Range(rest)
      <4>1. /\ Len(values) = Len(rest) + 1 /\ Len(rest) \in Nat /\ values[1] = first
            /\ \A i \in 1..Len(rest) : values[i + 1] = rest[i]
        <5>1. Len(values) \in Nat \ {0}
          BY <1>4
        <5>2. values[1] = first
          BY <1>4, <2>1
        <5>3. Len(rest) = Len(values) - 1 /\ \A i \in 1..(Len(values) - 1) : rest[i] = values[i + 1]
          BY <1>4, <2>1, HeadTailProperties
        <5> QED
          BY <5>1, <5>2, <5>3
      <4>2. \A v : v \in Range(values) <=> \E i \in 1..(Len(rest) + 1) : v = values[i]
        BY <4>1, RangeIs
      <4>3. ASSUME NEW i \in 1..(Len(rest) + 1), i # 1
            PROVE  \E j \in 1..Len(rest) : values[i] = rest[j]
        <5>1. PICK j \in 1..Len(rest) : i = j + 1
          <6>1. i - 1 \in 1..Len(rest) /\ i = (i - 1) + 1
            BY <4>1, <4>3
          <6> QED
            BY <6>1
        <5> QED
          BY <4>1, <5>1
      <4>4. 1 \in 1..(Len(rest) + 1) /\ \A j \in 1..Len(rest) : j + 1 \in 1..(Len(rest) + 1)
        BY <4>1
      <4>5. ASSUME NEW v \in Range(values), v # first PROVE v \in Range(rest)
        <5>1. PICK i \in 1..(Len(rest) + 1) : v = values[i]
          BY <4>2, <4>5
        <5>2. i # 1
          BY <4>1, <4>5, <5>1
        <5> QED
          BY <3>2, <4>3, <5>1, <5>2
      <4>6. ASSUME NEW v \in Range(rest) PROVE v \in Range(values)
        <5>1. PICK j \in 1..Len(rest) : v = rest[j]
          BY <3>2, <4>6
        <5> QED
          BY <4>1, <4>2, <4>4, <5>1
      <4>7. first \in Range(values)
        BY <4>1, <4>2, <4>4
      <4> QED
        BY <4>5, <4>6, <4>7
    <3> QED
      BY <1>2, <3>1, <3>2, <3>3
  <2>7. /\ \A e : e \in Range(first) <=> \E i \in 1..Len(first) : e = first[i]
        /\ \A e : e \in Range(others) <=> \E i \in 1..Len(others) : e = others[i]
        /\ \A e : e \in Range(all) <=> \E i \in 1..Len(all) : e = all[i]
    BY RangeIs
  <2>8. Range(all) \subseteq AnswerRows(bodies)
    <3>1. ASSUME NEW e \in Range(all) PROVE e \in AnswerRows(bodies)
      <4>1. PICK i \in 1..Len(all) : e = all[i]
        BY <2>7, <3>1
      <4>2. all[i] \in Range(first) \cup Range(others)
        BY <2>5 DEF AttachInv
      <4> QED
        BY <2>6, <4>1, <4>2
    <3> QED
      BY <3>1
  <2>9. ASSUME NEW r \in AnswerRows(bodies) PROVE \E x \in Range(all) : x[1] = r[1]
    <3>1. CASE r \in Range(first)
      <4>1. PICK i \in 1..Len(first) : r = first[i]
        BY <2>7, <3>1
      <4>2. i \in 1..Len(all) /\ all[i] = r
        BY <2>5, <4>1 DEF AttachInv
      <4> QED
        BY <2>7, <4>2
    <3>2. CASE r \in Range(others)
      <4>1. PICK m \in 1..Len(others) : r = others[m]
        BY <2>7, <3>2
      <4>2. PICK i \in 1..Len(all) : all[i][1] = r[1]
        BY <2>5, <4>1 DEF AttachInv
      <4> QED
        BY <2>7, <4>2
    <3> QED
      BY <2>6, <3>1, <3>2
  <2>10. PoliciesAreWhole(bodies) <=>
            /\ Range(all) \subseteq AnswerRows(bodies)
            /\ \A r \in AnswerRows(bodies) : \E x \in Range(all) : x[1] = r[1]
            /\ Len(first) <= Len(all) /\ \A i \in 1..Len(first) : all[i] = first[i]
            /\ \A i, j \in 1..Len(all) : i < j /\ Len(first) < j => all[i][1] # all[j][1]
    BY <1>1, <1>4, <2>1, <2>5 DEF PoliciesAreWhole
  <2> QED
    BY <2>5, <2>8, <2>9, <2>10 DEF AttachInv
<1> QED
  BY <1>3, <1>4

-----------------------------------------------------------------------------
(* Answers to shows.                                                        *)

LEMMA SeqsUpToAre == ASSUME NEW S, NEW n \in Nat, NEW s \in SeqsUpTo(S, n) PROVE s \in Seq(S)
<1>1. PICK k \in 0..n : s \in [1..k -> S]
  BY DEF SeqsUpTo
<1>2. k \in Nat
  OBVIOUS
<1> QED
  BY <1>1, <1>2

\* The elements of a finite set, one after the other.
LEMMA SetToSeqIs ==
    ASSUME NEW S, IsFiniteSet(S)
    PROVE  SetToSeq(S) \in Seq(S) /\ \A e : e \in Range(SetToSeq(S)) <=> e \in S
<1>1. PICK n \in Nat : n = Cardinality(S) /\ ExistsBijection(1..n, S)
  BY FS_CardinalityType
<1>2. \E f \in [1..n -> S] : IsInjective(f)
  BY <1>1, Fun_BijectionProperties DEF ExistsBijection, IsInjective
<1>3. PICK f : f = SetToSeq(S)
  OBVIOUS
<1>4. f \in [1..n -> S] /\ IsInjective(f)
  BY <1>1, <1>2, <1>3 DEF SetToSeq
<1>5. f \in Injection(1..n, S)
  BY <1>4 DEF Injection, IsInjective
<1>6. IsFiniteSet(1..n) /\ Cardinality(1..n) = n
  BY FS_Interval
<1>7. f \in Surjection(1..n, S)
  BY <1>1, <1>5, <1>6, FS_Injection
<1>8. \A e : e \in S => \E i \in 1..n : e = f[i]
  BY <1>7 DEF Surjection
<1>9. f \in Seq(S)
  BY <1>4
<1>10. \A e : e \in Range(f) <=> \E i \in 1..n : e = f[i]
  BY <1>4 DEF Range
<1>11. \A i \in 1..n : f[i] \in S
  BY <1>4
<1> QED
  BY <1>3, <1>8, <1>9, <1>10, <1>11

\* Pieces of one element each, end to end.
SinglesOf(s) == [i \in 1..Len(s) |-> <<s[i]>>]

LEMMA SinglesType == ASSUME NEW T, NEW s \in Seq(T) PROVE SinglesOf(s) \in Seq(Seq(T))
<1>1. PICK n \in Nat : n = Len(s) /\ \A i \in 1..n : s[i] \in T
  OBVIOUS
<1>2. \A i \in 1..n : <<s[i]>> \in Seq(T)
  BY <1>1
<1>3. SinglesOf(s) \in [1..n -> Seq(T)]
  BY <1>1, <1>2 DEF SinglesOf
<1> QED
  BY <1>3

\* A sequence cut into ones and put together is the sequence.
LEMMA FlattenSingles == ASSUME NEW T, NEW s \in Seq(T) PROVE FlattenSeq(SinglesOf(s)) = s
<1> DEFINE P(t) == FlattenSeq(SinglesOf(t)) = t
           L == {Len(t) : t \in {t \in Seq(T) : ~P(t)}}
<1> SUFFICES ASSUME L # {} PROVE FALSE
  OBVIOUS
<1>1. L \in SUBSET Nat
  OBVIOUS
<1>2. PICK n \in L : \A k \in L : n <= k
  BY <1>1, Least
<1>3. PICK t \in Seq(T) : ~P(t) /\ Len(t) = n
  BY <1>2
<1>4. \A u \in Seq(T) : ~P(u) => n <= Len(u)
  BY <1>2
<1> HIDE DEF L
<1>5. t # <<>>
  <2>1. SinglesOf(<<>>) = <<>>
    BY DEF SinglesOf
  <2>2. FlattenSeq(<<>>) = <<>>
    <3>1. <<>> \in Seq(Seq({}))
      OBVIOUS
    <3>2. FlattenSeq(<<>>) \in Seq({})
      BY <3>1, FlattenType
    <3> QED
      BY <3>2
  <2> QED
    BY <1>3, <2>1, <2>2
<1>6. PICK u \in Seq(T), e \in T : t = Append(u, e)
  BY <1>5, SequenceEmptyOrAppend
<1>7. FlattenSeq(SinglesOf(u)) = u
  <2>1. Len(u) < n
    BY <1>3, <1>6
  <2> QED
    BY <1>4, <1>3, <2>1
<1>8. SinglesOf(t) = Append(SinglesOf(u), <<e>>)
  <2>1. PICK m \in Nat : m = Len(u) /\ Len(t) = m + 1 /\ t[m + 1] = e /\ \A i \in 1..m : t[i] = u[i]
    BY <1>6
  <2> QED
    BY <1>6, <2>1 DEF SinglesOf
<1>9. SinglesOf(u) \in Seq(Seq(T)) /\ <<e>> \in Seq(T)
  BY SinglesType
<1>10. FlattenSeq(SinglesOf(t)) = FlattenSeq(SinglesOf(u)) \o <<e>>
  BY <1>8, <1>9, FlattenAppend
<1> QED
  BY <1>3, <1>6, <1>7, <1>10

\* The rows of one value each.
OneOf(T) == {<<t>> : t \in T}

\* Each value is in a row of its own.
LEMMA RowsOfIs ==
    ASSUME NEW T, NEW s \in Seq(T)
    PROVE  /\ RowsOf(s) \in Seq(OneOf(T)) /\ Len(RowsOf(s)) = Len(s)
           /\ \A i \in 1..Len(s) : RowsOf(s)[i] = <<s[i]>>
           /\ \A e : e \in Range(RowsOf(s)) <=> \E t \in Range(s) : e = <<t>>
<1>1. PICK n \in Nat : n = Len(s) /\ \A i \in 1..n : s[i] \in T
  OBVIOUS
<1>2. PICK rows : rows = RowsOf(s)
  OBVIOUS
<1>3. rows = [i \in 1..n |-> <<s[i]>>]
  BY <1>1, <1>2 DEF RowsOf
<1>4. \A i \in 1..n : rows[i] = <<s[i]>> /\ rows[i] \in OneOf(T)
  BY <1>1, <1>3 DEF OneOf
<1>5. rows \in Seq(OneOf(T)) /\ Len(rows) = n
  <2>1. rows \in [1..n -> OneOf(T)]
    BY <1>3, <1>4
  <2> QED
    BY <2>1
<1>6. \A e : e \in Range(rows) <=> \E i \in 1..n : e = rows[i]
  BY <1>5, RangeIs
<1>7. \A t : t \in Range(s) <=> \E i \in 1..n : t = s[i]
  BY <1>1, RangeIs
<1>8. ASSUME NEW e PROVE e \in Range(rows) <=> \E t \in Range(s) : e = <<t>>
  <2>1. ASSUME e \in Range(rows) PROVE \E t \in Range(s) : e = <<t>>
    <3>1. PICK i \in 1..n : e = rows[i]
      BY <1>6, <2>1
    <3>2. s[i] \in Range(s) /\ e = <<s[i]>>
      BY <1>4, <1>7, <3>1
    <3> QED
      BY <3>2
  <2>2. ASSUME NEW t \in Range(s), e = <<t>> PROVE e \in Range(rows)
    <3>1. PICK i \in 1..n : t = s[i]
      BY <1>7
    <3>2. e = rows[i]
      BY <1>4, <2>2, <3>1
    <3> QED
      BY <1>6, <3>2
  <2> QED
    BY <2>1, <2>2
<1> QED
  BY <1>1, <1>2, <1>4, <1>5, <1>8

Three == {"m1", "m2", "m3"}

\* One whole circle among the answers has every measurement.
LEMMA OrderIs ==
    ASSUME NEW in \in Shows
    PROVE  /\ in.order \in Seq(Backends) /\ Len(in.order) \in Nat \ {0}
           /\ \A m \in Three : \E b \in Range(in.order) : m \in At(in, b)
<1>1. PICK order : order = in.order
  OBVIOUS
<1>2. order \in Orders /\ in.ring \in [{1, 2} \X Three -> {1, 2}]
  BY <1>1 DEF Shows, Three
<1>3. order \in Seq(Backends)
  <2>1. order \in SeqsUpTo(Backends, 4) /\ 4 \in Nat
    BY <1>2 DEF Orders
  <2> QED
    BY <2>1, SeqsUpToAre
<1>4. PICK c \in {1, 2} : Circle(c) \subseteq Range(order)
  BY <1>2 DEF Orders
<1>5. ASSUME NEW m \in Three PROVE \E b \in Range(order) : m \in At(in, b)
  <2>1. PICK h \in {1, 2} : h = in.ring[<<c, m>>]
    BY <1>2
  <2>2. <<c, h>> \in Range(order)
    BY <1>4 DEF Circle
  <2>3. m \in At(in, <<c, h>>)
    BY <2>1 DEF At, Three
  <2> QED
    BY <2>2, <2>3
<1>6. \A e : e \in Range(order) <=> \E i \in 1..Len(order) : e = order[i]
  BY <1>3, RangeIs
<1>7. PICK b : b \in Range(order)
  <2>1. "m1" \in Three
    BY DEF Three
  <2> QED
    BY <1>5, <2>1
<1>8. PICK i \in 1..Len(order) : b = order[i]
  BY <1>6, <1>7
<1>9. Len(order) \in Nat
  BY <1>3
<1>10. Len(order) \in Nat \ {0}
  BY <1>8, <1>9
<1> QED
  BY <1>1, <1>3, <1>5, <1>10

LEMMA AtIs == ASSUME NEW in, NEW b PROVE At(in, b) \subseteq Three /\ IsFiniteSet(At(in, b))
<1>1. IsFiniteSet(Three)
  <2>1. IsFiniteSet({"m1"} \cup {"m2"} \cup {"m3"})
    BY FS_Singleton, FS_AddElement
  <2>2. Three = {"m1"} \cup {"m2"} \cup {"m3"}
    BY DEF Three
  <2> QED
    BY <2>1, <2>2
<1>2. At(in, b) \subseteq Three
  BY DEF At, Three
<1> QED
  BY <1>1, <1>2, FS_Subset

\* The bodies that a reduction gets.
AnswersOf(in, by) == [i \in 1..Len(in.order) |-> Body(in, in.order[i], by)]

\* The answers of a show are those of the backends that answered.
LEMMA AnswersAre ==
    ASSUME NEW in \in Shows, NEW by, NEW Name, NEW Row,
           \A b \in Backends : Body(in, b, by) \in Seq(Seq(Series(Name, Row)))
    PROVE  /\ AreBodies(AnswersOf(in, by), Name, Row)
           /\ \A x : x \in Range(AnswersOf(in, by)) <=> \E b \in Range(in.order) : x = Body(in, b, by)
<1>1. PICK order \in Seq(Backends) : order = in.order
  BY OrderIs
<1>2. PICK n \in Nat : n = Len(order) /\ \A i \in 1..n : order[i] \in Backends
  OBVIOUS
<1>3. PICK answers : answers = AnswersOf(in, by)
  OBVIOUS
<1>4. answers = [i \in 1..n |-> Body(in, order[i], by)]
  BY <1>1, <1>2, <1>3 DEF AnswersOf
<1>5. PICK T : T = Seq(Seq(Series(Name, Row)))
  OBVIOUS
<1>6. answers \in Seq(T) /\ Len(answers) = n
  <2>1. answers \in [1..n -> T]
    BY <1>2, <1>4, <1>5
  <2> QED
    BY <2>1
<1>7. \A e : e \in Range(answers) <=> \E i \in 1..n : e = answers[i]
  BY <1>6, RangeIs
<1>8. \A e : e \in Range(order) <=> \E i \in 1..n : e = order[i]
  BY <1>2, RangeIs
<1>9. \A i \in 1..n : answers[i] = Body(in, order[i], by)
  BY <1>4
<1>10. \A x : x \in Range(answers) <=> \E b \in Range(order) : x = Body(in, b, by)
  BY <1>7, <1>8, <1>9
<1> QED
  BY <1>1, <1>3, <1>5, <1>6, <1>10 DEF AreBodies

Measured(m) == [name |-> m, values |-> <<<<"key of", m>>>>]

\* The bodies, and the series each has.
LEMMA ValuesBody ==
    ASSUME NEW in, NEW b
    PROVE  Body(in, b, "reduceByValues") =
              <<IF At(in, b) = {} THEN <<>>
                ELSE <<[name |-> "measurements", values |-> RowsOf(SetToSeq(At(in, b)))]>> >>
  BY DEF Body

\* What a backend answers to a show of series,
LEMMA SeriesBody ==
    ASSUME NEW in, NEW b
    PROVE  Body(in, b, "reduceBySeries") = <<SetToSeq({Measured(m) : m \in At(in, b)})>>
<1>1. "reduceBySeries" # "reduceByValues"
  OBVIOUS
<1> QED
  BY <1>1 DEF Body, Measured

\* to a show of policies,
LEMMA PoliciesBody ==
    ASSUME NEW in, NEW b
    PROVE  Body(in, b, "attachByValues") = <<<<[name |-> "", values |-> RowsOf(in.policies[b])]>>>>
<1>1. "attachByValues" # "reduceByValues" /\ "attachByValues" # "reduceBySeries"
  OBVIOUS
<1> QED
  BY <1>1 DEF Body

\* and to a show of stats.
LEMMA StatsBody ==
    ASSUME NEW in, NEW b
    PROVE  Body(in, b, "concatByResults") = <<<<[name |-> "stats", values |-> <<b>>]>>>>
<1>1. /\ "concatByResults" # "reduceByValues" /\ "concatByResults" # "reduceBySeries"
      /\ "concatByResults" # "attachByValues"
  OBVIOUS
<1> QED
  BY <1>1 DEF Body

\* The reduction of each show.
LEMMA ReducedIs ==
    ASSUME NEW bodies
    PROVE  /\ Reduced("reduceByValues", bodies) = reduceByValues(bodies)
           /\ Reduced("reduceBySeries", bodies) = reduceBySeries(bodies)
           /\ Reduced("attachByValues", bodies) = attachByValues(bodies)
           /\ Reduced("concatByResults", bodies) = concatByResults(bodies)
<1>1. /\ "reduceBySeries" # "reduceByValues"
      /\ "attachByValues" # "reduceByValues" /\ "attachByValues" # "reduceBySeries"
      /\ "concatByResults" # "reduceByValues" /\ "concatByResults" # "reduceBySeries"
      /\ "concatByResults" # "attachByValues"
  OBVIOUS
<1> QED
  BY <1>1 DEF Reduced

LEMMA SeriesOfOne ==
    ASSUME NEW T, NEW s \in Seq(T)
    PROVE  <<s>> \in Seq(Seq(T)) /\ SeriesOf(<<s>>) = s
<1>1. PICK U : U = Seq(T)
  OBVIOUS
<1>2. <<s>> \in Seq(U)
  BY <1>1
<1>3. <<s>> # <<>> /\ <<s>>[1] = s
  OBVIOUS
<1> QED
  BY <1>1, <1>2, <1>3 DEF SeriesOf

\* A show of measurements has every one.
LEMMA ValuesShown ==
    ASSUME NEW in \in Shows
    PROVE  /\ ValuesAreWhole(AnswersOf(in, "reduceByValues"))
           /\ reduceByValues(AnswersOf(in, "reduceByValues")) = OneOf(Three)
<1> DEFINE by == "reduceByValues"
           Row == OneOf(Three)
           Name == {"measurements"}
           listed(b) == [name |-> "measurements", values |-> RowsOf(SetToSeq(At(in, b)))]
<1>1. PICK bodies : bodies = AnswersOf(in, by)
  OBVIOUS
<1>2. \A b : /\ RowsOf(SetToSeq(At(in, b))) \in Seq(Row)
            /\ \A e : e \in Range(RowsOf(SetToSeq(At(in, b)))) <=> \E m \in At(in, b) : e = <<m>>
  <2> TAKE b
  <2>1. PICK s \in Seq(At(in, b)) : s = SetToSeq(At(in, b)) /\ \A e : e \in Range(s) <=> e \in At(in, b)
    BY AtIs, SetToSeqIs
  <2>2. s \in Seq(Three)
    BY AtIs, SeqMonotonic
  <2> QED
    BY <2>1, <2>2, RowsOfIs
<1>3. \A b : listed(b) \in Series(Name, Row)
  BY <1>2 DEF Series
<1>4. \A b : /\ Body(in, b, by) \in Seq(Seq(Series(Name, Row)))
            /\ SeriesOf(Body(in, b, by)) = IF At(in, b) = {} THEN <<>> ELSE <<listed(b)>>
  <2> TAKE b
  <2> HIDE DEF Name, Row, listed
  <2>1. PICK s : s = IF At(in, b) = {} THEN <<>> ELSE <<listed(b)>>
    OBVIOUS
  <2>2. s \in Seq(Series(Name, Row))
    BY <1>3, <2>1
  <2>3. Body(in, b, by) = <<s>>
    BY <2>1, ValuesBody DEF listed
  <2>4. <<s>> \in Seq(Seq(Series(Name, Row))) /\ SeriesOf(<<s>>) = s
    BY <2>2, SeriesOfOne
  <2> QED
    BY <2>1, <2>3, <2>4
<1>5. /\ AreBodies(bodies, Name, Row)
      /\ \A x : x \in Range(bodies) <=> \E b \in Range(in.order) : x = Body(in, b, by)
  <2> HIDE DEF Name, Row
  <2> QED
    BY <1>1, <1>4, AnswersAre
<1> HIDE DEF Name, by
<1>6. \A e : e \in AnswerRows(bodies) <=> e \in Row
  <2>1. ASSUME NEW b, NEW e
        PROVE  Single(Body(in, b, by)) /\ e \in Range(FirstRows(Body(in, b, by)))
                   <=> \E m \in At(in, b) : e = <<m>>
    <3>1. CASE At(in, b) = {}
      <4>1. SeriesOf(Body(in, b, by)) = <<>>
        BY <1>4, <3>1
      <4>2. Len(<<>>) # 1
        OBVIOUS
      <4>3. ~Single(Body(in, b, by))
        BY <4>1, <4>2 DEF Single
      <4> QED
        BY <3>1, <4>3
    <3>2. CASE At(in, b) # {}
      <4>1. Single(Body(in, b, by)) /\ FirstRows(Body(in, b, by)) = RowsOf(SetToSeq(At(in, b)))
        BY <1>4, <3>2 DEF Single, FirstRows
      <4> QED
        BY <1>2, <4>1
    <3> QED
      BY <3>1, <3>2
  <2>2. ASSUME NEW e
        PROVE  e \in AnswerRows(bodies) <=> \E b \in Range(in.order) : \E m \in At(in, b) : e = <<m>>
    <3>1. e \in AnswerRows(bodies) <=> \E x \in Range(bodies) : Single(x) /\ e \in Range(FirstRows(x))
      BY AnswerRowsAre
    <3>2. e \in AnswerRows(bodies) <=> \E b \in Range(in.order) :
              Single(Body(in, b, by)) /\ e \in Range(FirstRows(Body(in, b, by)))
      BY <1>5, <3>1
    <3> QED
      BY <2>1, <3>2
  <2>3. ASSUME NEW e, NEW b \in Range(in.order), NEW m \in At(in, b), e = <<m>> PROVE e \in Row
    BY <2>3, AtIs DEF OneOf
  <2>4. ASSUME NEW e \in Row PROVE \E b \in Range(in.order) : \E m \in At(in, b) : e = <<m>>
    BY OrderIs DEF OneOf
  <2> QED
    BY <2>2, <2>3, <2>4
<1>7. ValuesAreWhole(bodies)
  BY <1>5, ValuesAreWholeCorrect
<1>8. PICK merged : merged = reduceByValues(bodies)
  OBVIOUS
<1>9. merged \subseteq Row /\ \A r \in Row : \E x \in merged : x[1] = r[1]
  BY <1>6, <1>7, <1>8 DEF ValuesAreWhole
<1>10. \A r, x \in Row : x[1] = r[1] => x = r
  BY DEF OneOf
<1>11. merged = Row
  <2> HIDE DEF Row
  <2> QED
    BY <1>9, <1>10
<1> QED
  BY <1>1, <1>7, <1>8, <1>11 DEF by

LEMMA TwoCharacters == ASSUME NEW T, NEW x \in T, NEW y \in T PROVE <<x, y>> \in Seq(T)
  OBVIOUS

\* A show of tag keys has every measurement's.
LEMMA SeriesShown ==
    ASSUME NEW in \in Shows
    PROVE  /\ SeriesAreWhole(AnswersOf(in, "reduceBySeries"))
           /\ reduceBySeries(AnswersOf(in, "reduceBySeries")) = {Measured(m) : m \in Three}
<1> DEFINE by == "reduceBySeries"
           All == {Measured(m) : m \in Three}
           AllAt(b) == {Measured(m) : m \in At(in, b)}
<1>1. PICK bodies : bodies = AnswersOf(in, by)
  OBVIOUS
<1>2. PICK Row : Row = {<<"key of", m>> : m \in Three}
  OBVIOUS
<1>3. \A m \in Three : Measured(m) \in Series(Three, Row)
  <2> TAKE m \in Three
  <2>1. PICK row \in Row : row = <<"key of", m>>
    BY <1>2
  <2>2. <<row>> \in Seq(Row)
    BY OneCharacter
  <2> QED
    BY <2>1, <2>2 DEF Measured, Series
<1>4. \A m : Measured(m).name = m
  BY DEF Measured
<1>5. \A b : SetToSeq(AllAt(b)) \in Seq(AllAt(b)) /\ \A e : e \in Range(SetToSeq(AllAt(b))) <=> e \in AllAt(b)
  <2> TAKE b
  <2>1. IsFiniteSet(AllAt(b))
    <3>1. PICK f : f = [m \in At(in, b) |-> Measured(m)]
      OBVIOUS
    <3>2. f \in Surjection(At(in, b), AllAt(b))
      BY <3>1 DEF Surjection
    <3> QED
      BY <3>2, AtIs, FS_Surjection
  <2> HIDE DEF AllAt
  <2> QED
    BY <2>1, SetToSeqIs
<1>6. \A b : /\ Body(in, b, by) \in Seq(Seq(Series(Three, Row)))
            /\ SeriesOf(Body(in, b, by)) = SetToSeq(AllAt(b))
  <2> TAKE b
  <2>1. PICK s : s = SetToSeq(AllAt(b))
    OBVIOUS
  <2>2. AllAt(b) \subseteq Series(Three, Row)
    BY <1>3, AtIs
  <2>3. s \in Seq(Series(Three, Row))
    <3> HIDE DEF AllAt
    <3> QED
      BY <1>5, <2>1, <2>2, SeqMonotonic
  <2>4. Body(in, b, by) = <<s>>
    BY <2>1, SeriesBody
  <2> QED
    BY <2>1, <2>3, <2>4, SeriesOfOne
<1>7. /\ AreBodies(bodies, Three, Row)
      /\ \A x : x \in Range(bodies) <=> \E b \in Range(in.order) : x = Body(in, b, by)
  <2> HIDE DEF by
  <2> QED
    BY <1>1, <1>6, AnswersAre
<1> HIDE DEF by
<1>8. \A e : e \in AnswerSeries(bodies) <=> e \in All
  <2>1. ASSUME NEW e
        PROVE  e \in AnswerSeries(bodies) <=> \E b \in Range(in.order) : e \in AllAt(b)
    <3> HIDE DEF AllAt
    <3>1. e \in AnswerSeries(bodies) <=> \E x \in Range(bodies) : e \in Range(SeriesOf(x))
      BY DEF AnswerSeries
    <3>2. e \in AnswerSeries(bodies) <=> \E b \in Range(in.order) : e \in Range(SeriesOf(Body(in, b, by)))
      BY <1>7, <3>1
    <3> QED
      BY <1>5, <1>6, <3>2
  <2>2. \A b : AllAt(b) \subseteq All
    BY AtIs
  <2>3. \A e \in All : \E b \in Range(in.order) : e \in AllAt(b)
    <3> TAKE e \in All
    <3>1. PICK m \in Three : e = Measured(m)
      OBVIOUS
    <3>2. PICK b \in Range(in.order) : m \in At(in, b)
      BY OrderIs
    <3> QED
      BY <3>1, <3>2
  <2> HIDE DEF All, AllAt
  <2> QED
    BY <2>1, <2>2, <2>3
<1>9. SeriesAreWhole(bodies)
  BY <1>7, SeriesAreWholeCorrect
<1>10. PICK merged : merged = reduceBySeries(bodies)
  OBVIOUS
<1>11. merged \subseteq All /\ \A s \in All : \E x \in merged : x.name = s.name
  <2> HIDE DEF All
  <2> QED
    BY <1>8, <1>9, <1>10 DEF SeriesAreWhole
<1>12. \A s, x \in All : x.name = s.name => x = s
  BY <1>4
<1>13. merged = All
  <2> HIDE DEF All
  <2> QED
    BY <1>11, <1>12
<1> QED
  BY <1>1, <1>9, <1>10, <1>13 DEF by

\* A show of stats has one result from every backend that answered.
LEMMA StatsShown ==
    ASSUME NEW in \in Shows
    PROVE  LET all == concatByResults(AnswersOf(in, "concatByResults"))
           IN  /\ Len(all) = Len(in.order)
               /\ {s[1].values[1] : s \in Range(all)} = Range(in.order)
<1> DEFINE by == "concatByResults"
           stats(b) == <<[name |-> "stats", values |-> <<b>>]>>
<1>1. PICK order \in Seq(Backends) : order = in.order
  BY OrderIs
<1>2. PICK n \in Nat : n = Len(order)
  OBVIOUS
<1>3. PICK results : results = [i \in 1..n |-> stats(order[i])]
  OBVIOUS
<1>4. PICK T : T = {stats(b) : b \in Backends}
  OBVIOUS
<1>5. results \in Seq(T) /\ Len(results) = n
  <2>1. \A i \in 1..n : order[i] \in Backends
    BY <1>2
  <2>2. results \in [1..n -> T]
    BY <1>3, <1>4, <2>1
  <2> QED
    BY <2>2
<1>6. \A b : stats(b)[1].values[1] = b
  OBVIOUS
<1>7. \A b : Body(in, b, by) = <<stats(b)>>
  BY StatsBody
<1> HIDE DEF stats, by
<1>8. PICK bodies : bodies = AnswersOf(in, by)
  OBVIOUS
<1>9. bodies = SinglesOf(results)
  <2>1. bodies = [i \in 1..n |-> Body(in, order[i], by)]
    BY <1>1, <1>2, <1>8 DEF AnswersOf
  <2>2. \A i \in 1..n : Body(in, order[i], by) = <<results[i]>>
    BY <1>3, <1>7
  <2>3. SinglesOf(results) = [i \in 1..n |-> <<results[i]>>]
    BY <1>5 DEF SinglesOf
  <2> QED
    BY <2>1, <2>2, <2>3
<1>10. concatByResults(bodies) = FlattenSeq(SinglesOf(results))
  <2>1. Len(bodies) = n /\ \A i \in 1..n : bodies[i] = <<results[i]>>
    BY <1>5, <1>9 DEF SinglesOf
  <2>2. \A x : Len(<<x>>) = 1
    OBVIOUS
  <2>3. PICK pieces : pieces = [i \in 1..Len(bodies) |-> IF Len(bodies[i]) = 1 THEN bodies[i] ELSE <<>>]
    OBVIOUS
  <2>4. concatByResults(bodies) = FlattenSeq(pieces)
    BY <2>3 DEF concatByResults
  <2>5. pieces = [i \in 1..n |-> <<results[i]>>]
    BY <2>1, <2>2, <2>3
  <2>6. SinglesOf(results) = [i \in 1..n |-> <<results[i]>>]
    BY <1>5 DEF SinglesOf
  <2> QED
    BY <2>4, <2>5, <2>6
<1>11. concatByResults(bodies) = results
  BY <1>5, <1>10, FlattenSingles
<1>12. {s[1].values[1] : s \in Range(results)} = Range(order)
  <2>1. \A e : e \in Range(order) <=> \E i \in 1..n : e = order[i]
    BY <1>2, RangeIs
  <2>2. \A s : s \in Range(results) <=> \E i \in 1..n : s = stats(order[i])
    <3>1. \A s : s \in Range(results) <=> \E i \in 1..n : s = results[i]
      BY <1>5, RangeIs
    <3> QED
      BY <1>3, <3>1
  <2>3. \A s : s \in Range(results) <=> \E b \in Range(order) : s = stats(b)
    BY <2>1, <2>2
  <2> QED
    BY <1>6, <2>3
<1> QED
  BY <1>1, <1>2, <1>5, <1>8, <1>11, <1>12 DEF by

\* attachByValues gives rows.
LEMMA AttachedType ==
    ASSUME NEW Name, NEW Row, NEW bodies, AreBodies(bodies, Name, Row), Values(bodies) # <<>>
    PROVE  attachByValues(bodies) \in Seq(Row)
<1>1. PICK values \in Seq(Seq(Row)) : values = Values(bodies)
  BY ValuesAre
<1>2. PICK first \in Seq(Row), rest \in Seq(Seq(Row)) : first = Head(values) /\ rest = Tail(values)
  BY <1>1, HeadTailProperties
<1>3. PICK others \in Seq(Row) : others = FlattenSeq(rest)
  BY FlattenType
<1>4. \E rows : Attaching(rows, first, others, Len(others))
  <2>1. Len(others) \in Nat
    OBVIOUS
  <2> QED
    BY <2>1, AttachingExists
<1>5. PICK rows : /\ Attaching(rows, first, others, Len(others))
                  /\ attachByValues(bodies) = rows[Len(others)]
  BY <1>1, <1>2, <1>3, <1>4, AttachByValuesIs
<1> QED
  BY <1>5, AttachIs

Granted == {<<"autogen">>, <<"autogen", "p">>}

\* The policies a backend may have.
LEMMA GrantedIs ==
    ASSUME NEW p \in Granted
    PROVE  /\ p \in Seq({"autogen", "p"}) /\ Len(p) \in {1, 2} /\ p[1] = "autogen"
           /\ \A i, j \in 1..Len(p) : i < j => p[i] # p[j]
<1>0. "autogen" \in {"autogen", "p"} /\ "p" \in {"autogen", "p"}
  OBVIOUS
<1>1. CASE p = <<"autogen">>
  <2>1. p \in Seq({"autogen", "p"})
    BY <1>0, <1>1, OneCharacter
  <2>2. Len(p) = 1 /\ p[1] = "autogen"
    BY <1>1
  <2>3. \A i, j \in 1..1 : ~(i < j)
    OBVIOUS
  <2> QED
    BY <2>1, <2>2, <2>3
<1>2. CASE p = <<"autogen", "p">>
  <2>1. "autogen" # "p"
    OBVIOUS
  <2>2. Len(p) = 2 /\ p[1] = "autogen" /\ p[2] = "p"
    BY <1>2
  <2>3. ASSUME NEW i \in 1..2, NEW j \in 1..2, i < j PROVE i = 1 /\ j = 2
    BY <2>3
  <2>4. p \in Seq({"autogen", "p"})
    BY <1>0, <1>2, TwoCharacters
  <2> QED
    BY <2>1, <2>2, <2>3, <2>4
<1> QED
  BY <1>1, <1>2 DEF Granted

\* A show of policies has every one that some backend has, each once.
LEMMA PoliciesShown ==
    ASSUME NEW in \in Shows
    PROVE  LET bodies == AnswersOf(in, "attachByValues")
               policies == attachByValues(bodies)
           IN  /\ PoliciesAreWhole(bodies)
               /\ IsInjective(policies)
               /\ {row[1] : row \in Range(policies)} =
                      UNION {Range(in.policies[b]) : b \in Range(in.order)}
               /\ policies[1] = <<"autogen">>
<1> DEFINE by == "attachByValues"
           Name == {""}
           Row == OneOf({"autogen", "p"})
           granted(b) == [name |-> "", values |-> RowsOf(in.policies[b])]
<1>1. PICK order \in Seq(Backends) : order = in.order /\ Len(order) \in Nat \ {0}
  BY OrderIs
<1>2. \A b \in Range(order) : b \in Backends
  BY RangeIs
<1>3. \A b \in Backends : in.policies[b] \in Granted /\ in.policies[b] \in Seq({"autogen", "p"})
  <2>1. in.policies \in [Backends -> Granted]
    BY DEF Shows, Granted
  <2> QED
    BY <2>1, GrantedIs
<1>4. ASSUME NEW b \in Backends
      PROVE  /\ Body(in, b, by) \in Seq(Seq(Series(Name, Row)))
             /\ SeriesOf(Body(in, b, by)) = <<granted(b)>>
  <2>1. RowsOf(in.policies[b]) \in Seq(Row)
    BY <1>3, RowsOfIs
  <2>2. granted(b) \in Series(Name, Row)
    BY <2>1 DEF Series
  <2>3. Body(in, b, by) = <<<<granted(b)>>>>
    BY PoliciesBody
  <2> HIDE DEF granted, Name, Row
  <2>4. <<granted(b)>> \in Seq(Series(Name, Row))
    BY <2>2
  <2> QED
    BY <2>3, <2>4, SeriesOfOne
<1>5. ASSUME NEW b \in Backends
      PROVE  Single(Body(in, b, by)) /\ FirstRows(Body(in, b, by)) = RowsOf(in.policies[b])
  <2>1. SeriesOf(Body(in, b, by)) = <<granted(b)>>
    BY <1>4
  <2>2. granted(b).values = RowsOf(in.policies[b])
    OBVIOUS
  <2> HIDE DEF by, granted
  <2>3. Len(<<granted(b)>>) = 1 /\ <<granted(b)>>[1] = granted(b)
    OBVIOUS
  <2> QED
    BY <2>1, <2>2, <2>3 DEF Single, FirstRows
<1>6. PICK bodies : bodies = AnswersOf(in, by)
  OBVIOUS
<1>7. /\ AreBodies(bodies, Name, Row)
      /\ \A x : x \in Range(bodies) <=> \E b \in Range(order) : x = Body(in, b, by)
  <2> HIDE DEF Name, Row, by
  <2> QED
    BY <1>1, <1>4, <1>6, AnswersAre
<1> HIDE DEF Name, Row, by, granted
<1>8. \A v : v \in Range(Values(bodies)) <=> \E b \in Range(order) : v = RowsOf(in.policies[b])
  <2>1. \A v : v \in Range(Values(bodies)) <=> \E x \in Range(bodies) : Single(x) /\ v = FirstRows(x)
    BY <1>7, ValuesAre
  <2> QED
    BY <1>2, <1>5, <1>7, <2>1
<1>9. \A e : e \in AnswerRows(bodies) <=>
              \E b \in Range(order) : \E p \in Range(in.policies[b]) : e = <<p>>
  <2>1. \A e : e \in AnswerRows(bodies) <=> \E x \in Range(bodies) : Single(x) /\ e \in Range(FirstRows(x))
    BY AnswerRowsAre
  <2>2. \A e : e \in AnswerRows(bodies) <=> \E b \in Range(order) : e \in Range(RowsOf(in.policies[b]))
    BY <1>2, <1>5, <1>7, <2>1
  <2>3. ASSUME NEW b \in Range(order), NEW e
        PROVE  e \in Range(RowsOf(in.policies[b])) <=> \E p \in Range(in.policies[b]) : e = <<p>>
    <3>1. in.policies[b] \in Seq({"autogen", "p"})
      BY <1>2, <1>3
    <3> QED
      BY <3>1, RowsOfIs
  <2> QED
    BY <2>2, <2>3
<1>10. PICK values \in Seq(Seq(Row)) : values = Values(bodies)
  BY <1>7, ValuesAre
<1>11. values # <<>>
  <2>1. PICK i \in 1..Len(order) : i = 1
    BY <1>1
  <2>2. order[i] \in Range(order)
    BY RangeIs
  <2>3. RowsOf(in.policies[order[i]]) \in Range(values)
    BY <1>8, <1>10, <2>2
  <2>4. \A e : e \notin Range(<<>>)
    BY DEF Range
  <2> QED
    BY <2>3, <2>4
<1>12. PICK b \in Range(order) : Head(values) = RowsOf(in.policies[b])
  <2>1. Head(values) = values[1] /\ 1 \in 1..Len(values)
    BY <1>11
  <2>2. Head(values) \in Range(values)
    BY <2>1, RangeIs
  <2> QED
    BY <1>8, <1>10, <2>2
<1>13. PICK p \in Granted : p = in.policies[b]
  BY <1>2, <1>3
<1>14. /\ p \in Seq({"autogen", "p"}) /\ Len(p) \in {1, 2} /\ p[1] = "autogen"
       /\ \A i, j \in 1..Len(p) : i < j => p[i] # p[j]
  BY GrantedIs
<1>15. PICK first : first = Head(values)
  OBVIOUS
<1>16. Len(first) = Len(p) /\ \A i \in 1..Len(p) : first[i] = <<p[i]>>
  <2>1. first = RowsOf(p)
    BY <1>12, <1>13, <1>15
  <2> QED
    BY <1>14, <2>1, RowsOfIs
<1>17. PICK rows \in Seq(Row) : rows = attachByValues(bodies)
  BY <1>7, <1>10, <1>11, AttachedType
<1>18. PoliciesAreWhole(bodies)
  BY <1>7, PoliciesAreWholeCorrect
<1>19. /\ Range(rows) \subseteq AnswerRows(bodies)
       /\ \A r \in AnswerRows(bodies) : \E x \in Range(rows) : x[1] = r[1]
       /\ Len(first) <= Len(rows) /\ \A i \in 1..Len(first) : rows[i] = first[i]
       /\ \A i, j \in 1..Len(rows) : i < j /\ Len(first) < j => rows[i][1] # rows[j][1]
  BY <1>10, <1>11, <1>15, <1>17, <1>18 DEF PoliciesAreWhole
<1>20. PICK f, n \in Nat : f = Len(p) /\ n = Len(rows)
  BY <1>14
<1>21. \A i \in 1..f : rows[i] = <<p[i]>>
  BY <1>16, <1>19, <1>20
<1>22. ASSUME NEW i \in 1..n, NEW j \in 1..n, i < j PROVE rows[i] # rows[j]
  <2>1. CASE f < j
    BY <1>16, <1>19, <1>20, <1>22, <2>1
  <2>2. CASE j <= f
    <3>1. i \in 1..f /\ j \in 1..f
      BY <1>20, <1>22, <2>2
    <3>2. p[i] # p[j]
      BY <1>14, <1>20, <1>22, <3>1
    <3>3. rows[i] = <<p[i]>> /\ rows[j] = <<p[j]>>
      BY <1>21, <3>1
    <3>4. <<p[i]>>[1] = p[i] /\ <<p[j]>>[1] = p[j]
      OBVIOUS
    <3> QED
      BY <3>2, <3>3, <3>4
  <2> QED
    BY <1>20, <2>1, <2>2
<1>23. IsInjective(rows)
  <2>1. DOMAIN rows = 1..n
    BY <1>20
  <2>2. ASSUME NEW i \in 1..n, NEW j \in 1..n, rows[i] = rows[j] PROVE i = j
    BY <1>20, <1>22, <2>2
  <2> QED
    BY <2>1, <2>2 DEF IsInjective
<1>24. rows[1] = <<"autogen">>
  BY <1>14, <1>20, <1>21
<1>25. {row[1] : row \in Range(rows)} = UNION {Range(in.policies[a]) : a \in Range(order)}
  <2>1. \A x : <<x>>[1] = x
    OBVIOUS
  <2>2. PICK all : all = UNION {Range(in.policies[a]) : a \in Range(order)}
    OBVIOUS
  <2>3. \A x : x \in all <=> \E a \in Range(order) : x \in Range(in.policies[a])
    BY <2>2
  <2>4. \A row \in Range(rows) : row[1] \in all
    BY <1>9, <1>19, <2>1, <2>3
  <2>5. \A x \in all : \E row \in Range(rows) : x = row[1]
    <3> TAKE x \in all
    <3>1. <<x>> \in AnswerRows(bodies)
      BY <1>9, <2>3
    <3> QED
      BY <1>19, <2>1, <3>1
  <2>6. {row[1] : row \in Range(rows)} = all
    BY <2>4, <2>5
  <2> QED
    BY <2>2, <2>6
<1> QED
  BY <1>1, <1>6, <1>17, <1>18, <1>23, <1>24, <1>25 DEF by

-----------------------------------------------------------------------------
(* What the theorems say of the inputs.                                     *)

\* What the inputs of a kind are.
LEMMA KindsAre ==
    ASSUME Init
    PROVE  /\ input.kind = "any" =>
                input \in [kind : {"any"}, line : AnyLine, precision : Precisions \cap {"ns", "h"}]
           /\ input.kind = "point" => input \in Points
           /\ input.kind = "name" => input \in Measurements
           /\ input.kind = "placement" => input \in Placements
           /\ input.kind = "body" => input \in Bodies
           /\ input.kind = "show" => input \in Shows
<1>1. input \in Placements => input.kind = "placement"
  BY DEF Placements
<1>2. input \in Shows => input.kind = "show"
  BY DEF Shows
<1>3. input \in [kind : {"any"}, line : AnyLine, precision : Precisions \cap {"ns", "h"}] =>
        input.kind = "any"
  OBVIOUS
<1>4. input \in Points => input.kind = "point"
  BY DEF Points
<1>5. input \in Measurements => input.kind = "name"
  BY DEF Measurements
<1>6. input \in Bodies => input.kind = "body"
  BY DEF Bodies
<1>7. input \in Statements => input.kind = "statement"
  BY DEF Statements
<1> QED
  BY <1>1, <1>2, <1>3, <1>4, <1>5, <1>6, <1>7 DEF Init

\* Proxy.Write cuts every body of the run's inputs into its lines, also where a string or
\* an escape has a line end, a blank or a quote in it (ScanLine).
THEOREM BodyIsItsLinesCorrect == Spec => []BodyIsItsLines
<1>1. Init => BodyIsItsLines
  <2> SUFFICES ASSUME Init, input.kind = "body"
               PROVE  /\ \A i \in 1..Len(input.blocks) : IsBlock(input.blocks[i])
                      /\ BodyIsCut(input.blocks, input.ended)
    BY DEF BodyIsItsLines
  <2>1. PICK blocks \in Seq(Blocks), ended \in BOOLEAN : blocks = input.blocks /\ ended = input.ended
    <3>1. input.blocks \in SeqsUpTo(Blocks, 3) /\ input.ended \in BOOLEAN
      BY KindsAre DEF Bodies
    <3>2. 3 \in Nat
      OBVIOUS
    <3> QED
      BY <3>1, <3>2, SeqsUpToAre
  <2>2. \A i \in 1..Len(blocks) : IsBlock(blocks[i])
    <3>1. \A i \in 1..Len(blocks) : blocks[i] \in Blocks
      BY <2>1
    <3> QED
      BY <3>1, BlocksFit
  <2>3. blocks \in Seq(Seq(InBodies))
    <3>1. Blocks \subseteq Seq(InBodies)
      BY BlocksFit
    <3> QED
      BY <2>1, <3>1, SeqMonotonic
  <2>4. BodyIsCut(blocks, ended)
    BY <2>2, <2>3, BodyIsCutCorrect
  <2> QED
    BY <2>1, <2>2, <2>4
<1>2. BodyIsItsLines /\ [Next]_input => BodyIsItsLines'
  <2> SUFFICES ASSUME BodyIsItsLines, input' = input PROVE BodyIsItsLines'
    BY DEF Next
  <2> QED
    BY DEF BodyIsItsLines
<1> QED
  BY <1>1, <1>2, PTL DEF Spec

\* Every line of the run's inputs is written or dropped: WriteRow neither reads beyond its
\* end nor stays at a blank (AppendNano, ScanKey, RapidCheck).
THEOREM EveryLineEndsCorrect == Spec => []EveryLineEnds
<1>1. Init => EveryLineEnds
  <2> SUFFICES ASSUME Init, input.kind = "any" PROVE LineEnds(input.line, input.precision)
    BY DEF EveryLineEnds
  <2>1. input.line \in AnyLine /\ input.precision \in Precisions
    BY KindsAre
  <2>2. input.line \in Seq({"a", Blank, Comma, "=", "\\", "1", "NUL"})
    BY <2>1, SeqsUpToAre DEF AnyLine
  <2> QED
    BY <2>1, <2>2, LineEndsCorrect DEF Precisions
<1>2. EveryLineEnds /\ [Next]_input => EveryLineEnds'
  <2> SUFFICES ASSUME EveryLineEnds, input' = input PROVE EveryLineEnds'
    BY DEF Next
  <2> QED
    BY DEF EveryLineEnds
<1> QED
  BY <1>1, <1>2, PTL DEF Spec

\* Rebalance, cleanup, recovery and resync keep the data of every placement of the run.
THEOREM OperationsKeepDataCorrect == Spec => []OperationsKeepData
<1>1. Init => OperationsKeepData
  <2> SUFFICES ASSUME Init, input.kind = "placement"
               PROVE  /\ IsPlacement(input.has, input.up, input.ring)
                      /\ CleanupIsSafe(input.has, input.up, input.ring)
                      /\ RecoveryIsWhole(input.has, input.up, input.ring)
                      /\ ResyncIsWhole(input.has, input.up, input.ring)
    BY DEF OperationsKeepData
  <2>1. input \in Placements
    BY KindsAre
  <2>2. PICK has, up, ring : has = input.has /\ up = input.up /\ ring = input.ring
    OBVIOUS
  <2>3. /\ has \in [Backends -> SUBSET Keys] /\ up \subseteq Backends
        /\ \E r1 \in [Keys -> Circle(1)], r2 \in [Keys -> Circle(2)] : ring = <<r1, r2>>
    BY <2>1, <2>2 DEF Placements
  <2>4. PICK r1 \in [Keys -> Circle(1)], r2 \in [Keys -> Circle(2)] : ring = <<r1, r2>>
    BY <2>3
  <2>5. Len(ring) = 2 /\ DOMAIN ring = 1..2 /\ ring[1] = r1 /\ ring[2] = r2
    BY <2>4
  <2>6. IsPlacement(has, up, ring)
    <3>1. \A b \in Backends : b[1] \in 1..2
      BY DEF Backends
    <3>2. ASSUME NEW c \in 1..2, NEW k \in Keys PROVE ring[c][k] \in Backends /\ ring[c][k][1] = c
      <4>1. ring[c][k] \in Circle(c)
        BY <2>5
      <4> QED
        BY <4>1 DEF Circle, Backends
    <3> QED
      BY <2>3, <2>5, <3>1, <3>2 DEF IsPlacement
  <2>7. Data!IsPlacement(has, up, ring)
    BY <2>6 DEF IsPlacement, Data!IsPlacement
  <2>8. CleanupIsSafe(has, up, ring)
    <3>1. Data!CleanupIsSafe(has, up, ring)
      BY <2>7, CleanupIsSafeCorrect
    <3> QED
      BY <3>1 DEF CleanupIsSafe, Cleanup, Rebalance, Copied, Listed, Task, Seen,
                  Data!CleanupIsSafe, Data!Cleanup, Data!Rebalance, Data!Copied, Data!Listed,
                  Data!Task, Data!Seen
  <2>9. RecoveryIsWhole(has, up, ring)
    <3>1. Data!RecoveryIsWhole(has, up, ring)
      BY RecoveryIsWholeCorrect
    <3> QED
      BY <3>1 DEF RecoveryIsWhole, Recovery, Copied, Listed, Task, Seen,
                  Data!RecoveryIsWhole, Data!Recovery, Data!Copied, Data!Listed,
                  Data!Task, Data!Seen
  <2>10. ResyncIsWhole(has, up, ring)
    <3>1. Data!ResyncIsWhole(has, up, ring)
      BY <2>7, ResyncIsWholeCorrect
    <3> QED
      BY <3>1 DEF ResyncIsWhole, Resync, ResyncFrom, Copied, Listed, Task, Seen,
                  Data!ResyncIsWhole, Data!Resync, Data!ResyncFrom, Data!Copied, Data!Listed,
                  Data!Task, Data!Seen
  <2> QED
    BY <2>2, <2>6, <2>8, <2>9, <2>10
<1>2. OperationsKeepData /\ [Next]_input => OperationsKeepData'
  <2> SUFFICES ASSUME OperationsKeepData, input' = input PROVE OperationsKeepData'
    BY DEF Next
  <2> QED
    BY DEF OperationsKeepData
<1> QED
  BY <1>1, <1>2, PTL DEF Spec

\* The characters of the points' parts.
Written == {"a", "f", "g", "t", "1", "2", "=", ".", "\\", "\n", Blank, Comma, Quote}

LEMMA CharactersDiffer ==
    /\ \A c \in {"a", Blank, Comma, Quote, "."} : c \notin Space \ {Blank} /\ c # "\\"
    /\ \A c \in {"a", "from", Blank, Comma, "=", Quote, "'", ".", "(", ")", "/"} :
          c \notin Space \ {Blank} /\ c # "\\"
    /\ "1" # "\\" /\ Blank # "\\" /\ "f" # Blank
    /\ "1" \notin Space /\ "2" \notin Space /\ Quote \notin Space
    /\ "=" \notin {Blank, "NUL"} /\ "2" \notin {Blank, "NUL"} /\ Quote \notin {Blank, "NUL"}
BY Zenon DEF Blank, Comma, Quote, Space

LEMMA SomeDigits == "1" \in Digit /\ "=" \notin Digit /\ Quote \notin Digit
<1>1. "=" \notin Decimal /\ Quote \notin Decimal
  BY Zenon DEF Quote, Decimal
<1> QED
  BY <1>1, DigitsAreDecimal

\* The run's measurements are as a point's,
LEMMA NamesFit ==
    ASSUME NEW name \in Names
    PROVE  /\ name \in Seq(Written) /\ name # <<>> /\ name[1] \notin Space \ {Blank}
           /\ \A i \in 1..Len(name) : name[i] # "\\"
<1> DEFINE S == {"a", Blank, Comma, Quote, "."}
<1>1. name \in Seq(S) /\ name # <<>>
  BY SeqsUpToAre DEF Names
<1>2. S \subseteq Written
  BY DEF Written
<1>3. \A c \in S : c \notin Space \ {Blank} /\ c # "\\"
  BY CharactersDiffer
<1> HIDE DEF S
<1>4. \A i \in 1..Len(name) : name[i] \in S
  BY <1>1
<1>5. 1 \in 1..Len(name)
  BY <1>1
<1> QED
  BY <1>1, <1>2, <1>3, <1>4, <1>5, SeqMonotonic

\* and its tags,
LEMMA TagsFit ==
    ASSUME NEW tags \in TagSets
    PROVE  /\ tags \in Seq(Written)
           /\ tags # <<>> => tags[1] = Comma /\ tags[Len(tags)] # "\\"
<1>1. CASE tags = <<>>
  BY <1>1
<1>2. CASE tags = <<Comma, "t", "=", "1">>
  <2>1. tags \in Seq({Comma, "t", "=", "1"}) /\ Len(tags) = 4 /\ tags[1] = Comma /\ tags[4] = "1"
    BY <1>2
  <2>2. {Comma, "t", "=", "1"} \subseteq Written
    BY DEF Written
  <2> QED
    BY <2>1, <2>2, SeqMonotonic, CharactersDiffer
<1>3. CASE tags = <<Comma, "t", "=", "\\", Blank>>
  <2>1. /\ tags \in Seq({Comma, "t", "=", "\\", Blank}) /\ Len(tags) = 5
        /\ tags[1] = Comma /\ tags[5] = Blank
    BY <1>3
  <2>2. {Comma, "t", "=", "\\", Blank} \subseteq Written
    BY DEF Written
  <2> QED
    BY <2>1, <2>2, SeqMonotonic, CharactersDiffer
<1> QED
  BY <1>1, <1>2, <1>3 DEF TagSets

\* and its gaps,
LEMMA GapsFit ==
    ASSUME NEW gap \in {<<Blank>>, <<Blank, Blank>>}
    PROVE  gap \in Seq(Written) /\ gap # <<>> /\ \A i \in 1..Len(gap) : gap[i] = Blank
<1>1. <<Blank>> \in Seq({Blank}) /\ <<Blank>> # <<>>
  OBVIOUS
<1>2. <<Blank, Blank>> \in Seq({Blank}) /\ <<Blank, Blank>> # <<>>
  OBVIOUS
<1>3. gap \in Seq({Blank}) /\ gap # <<>>
  BY <1>1, <1>2
<1>4. \A i \in 1..Len(gap) : gap[i] \in {Blank}
  BY <1>3
<1>5. {Blank} \subseteq Written
  BY DEF Written
<1> QED
  BY <1>3, <1>4, <1>5, SeqMonotonic

\* Fields of which the character at the position i is the last that is no digit.
LEMMA FieldsEnd ==
    ASSUME NEW fields \in Seq(Written), NEW n \in Nat, n = Len(fields), n >= 3,
           fields[1] = "f", fields[n] \notin Space,
           NEW i \in 1..n, fields[i] \notin Digit, fields[i] \notin {Blank, "NUL"},
           \A j \in (i + 1)..n : fields[j] \in Digit
    PROVE  /\ Len(fields) >= 3 /\ fields[1] # Blank /\ fields[Len(fields)] \notin Space
           /\ \E k \in 1..Len(fields) :
                 /\ ~IsDigit(fields[k]) /\ fields[k] \notin {Blank, "NUL"}
                 /\ \A j \in (k + 1)..Len(fields) : IsDigit(fields[j])
BY CharactersDiffer, DigitsAre

\* and its fields,
LEMMA FieldsFit ==
    ASSUME NEW fields \in FieldSets
    PROVE  /\ fields \in Seq(Written)
           /\ Len(fields) >= 3 /\ fields[1] # Blank /\ fields[Len(fields)] \notin Space
           /\ \E k \in 1..Len(fields) :
                 /\ ~IsDigit(fields[k]) /\ fields[k] \notin {Blank, "NUL"}
                 /\ \A j \in (k + 1)..Len(fields) : IsDigit(fields[j])
<1>1. CASE fields = <<"f", "=", "1">>
  <2>1. /\ fields \in Seq({"f", "=", "1"}) /\ Len(fields) = 3
        /\ fields[1] = "f" /\ fields[2] = "=" /\ fields[3] = "1"
    BY <1>1
  <2>2. {"f", "=", "1"} \subseteq Written
    BY DEF Written
  <2>3. fields \in Seq(Written)
    BY <2>1, <2>2, SeqMonotonic
  <2>4. \A j \in (2 + 1)..3 : fields[j] \in Digit
    BY <2>1, SomeDigits
  <2>5. PICK n \in Nat : n = 3
    OBVIOUS
  <2>6. PICK i \in 1..n : i = 2
    BY <2>5
  <2>7. /\ fields[i] \notin Digit /\ fields[i] \notin {Blank, "NUL"}
        /\ \A j \in (i + 1)..n : fields[j] \in Digit
    BY <2>1, <2>4, <2>5, <2>6, SomeDigits, CharactersDiffer
  <2>8. n = Len(fields) /\ n >= 3 /\ fields[1] = "f" /\ fields[n] \notin Space
    BY <2>1, <2>5, CharactersDiffer
  <2> QED
    BY <2>3, <2>7, <2>8, FieldsEnd
<1>2. CASE fields = <<"f", "=", Quote, Blank, Comma, Quote>>
  <2>1. /\ fields \in Seq({"f", "=", Quote, Blank, Comma}) /\ Len(fields) = 6
        /\ fields[1] = "f" /\ fields[6] = Quote
    BY <1>2
  <2>2. {"f", "=", Quote, Blank, Comma} \subseteq Written
    BY DEF Written
  <2>3. fields \in Seq(Written)
    BY <2>1, <2>2, SeqMonotonic
  <2>5. PICK n \in Nat : n = 6
    OBVIOUS
  <2>6. PICK i \in 1..n : i = 6
    BY <2>5
  <2>7. /\ fields[i] \notin Digit /\ fields[i] \notin {Blank, "NUL"}
        /\ \A j \in (i + 1)..n : fields[j] \in Digit
    BY <2>1, <2>5, <2>6, SomeDigits, CharactersDiffer
  <2>8. n = Len(fields) /\ n >= 3 /\ fields[1] = "f" /\ fields[n] \notin Space
    BY <2>1, <2>5, CharactersDiffer
  <2> QED
    BY <2>3, <2>7, <2>8, FieldsEnd
<1>3. CASE fields = <<"f", "=", Quote, "\\", Quote, "\n", Quote, Comma, "g", "=", "2">>
  <2>1. /\ fields \in Seq({"f", "=", Quote, "\\", "\n", Comma, "g", "2"}) /\ Len(fields) = 11
        /\ fields[1] = "f" /\ fields[10] = "=" /\ fields[11] = "2"
    BY <1>3
  <2>2. {"f", "=", Quote, "\\", "\n", Comma, "g", "2"} \subseteq Written
    BY DEF Written
  <2>3. fields \in Seq(Written)
    BY <2>1, <2>2, SeqMonotonic
  <2>5. PICK n \in Nat : n = 11
    OBVIOUS
  <2>6. PICK i \in 1..n : i = IF "2" \in Digit THEN 10 ELSE 11
    BY <2>5
  <2>7. /\ fields[i] \notin Digit /\ fields[i] \notin {Blank, "NUL"}
        /\ \A j \in (i + 1)..n : fields[j] \in Digit
    BY <2>1, <2>5, <2>6, SomeDigits, CharactersDiffer
  <2>8. n = Len(fields) /\ n >= 3 /\ fields[1] = "f" /\ fields[n] \notin Space
    BY <2>1, <2>5, CharactersDiffer
  <2> QED
    BY <2>3, <2>7, <2>8, FieldsEnd
<1> QED
  BY <1>1, <1>2, <1>3 DEF FieldSets

\* and its times.
LEMMA TimesFit == ASSUME NEW time \in Times PROVE time \in Seq(Digit)
<1>1. CASE time = <<>>
  BY <1>1
<1>2. CASE \E n \in {0, 1, 87, 1000} : time = Int64ToBytes(n)
  <2>1. PICK n \in {0, 1, 87, 1000} : time = Int64ToBytes(n)
    BY <1>2
  <2>2. n \in Nat
    OBVIOUS
  <2> QED
    BY <2>1, <2>2, NumberText
<1> QED
  BY <1>1, <1>2 DEF Times

\* Every point of the run's inputs is written as it came, with its time in nanoseconds, or
\* the clock's where that does not fit (Proxy.WriteRow, AppendNano).
THEOREM PointIsWrittenCorrect == Spec => []PointIsWritten
<1>1. Init => PointIsWritten
  <2> SUFFICES ASSUME Init, input.kind = "point"
               PROVE  /\ IsPoint(input.name, input.tags, input.gap, input.fields)
                      /\ PointIsKept(input.name, input.tags, input.gap, input.fields, input.time,
                                     input.precision)
    BY DEF PointIsWritten
  <2>1. PICK name \in Names, tags \in TagSets, gap \in {<<Blank>>, <<Blank, Blank>>},
             fields \in FieldSets, time \in Times, precision \in Precisions :
               /\ name = input.name /\ tags = input.tags /\ gap = input.gap
               /\ fields = input.fields /\ time = input.time /\ precision = input.precision
    BY KindsAre DEF Points
  <2>2. name \in Seq(Written) /\ tags \in Seq(Written) /\ gap \in Seq(Written) /\ fields \in Seq(Written)
    BY NamesFit, TagsFit, GapsFit, FieldsFit
  <2>3. IsPoint(name, tags, gap, fields)
    <3>1. /\ name # <<>> /\ name[1] \notin Space \ {Blank} /\ \A i \in 1..Len(name) : name[i] # "\\"
      BY NamesFit
    <3>2. tags # <<>> => tags[1] = Comma /\ tags[Len(tags)] # "\\"
      BY TagsFit
    <3>3. gap # <<>> /\ \A i \in 1..Len(gap) : gap[i] = Blank
      BY GapsFit
    <3>4. /\ Len(fields) >= 3 /\ fields[1] # Blank /\ fields[Len(fields)] \notin Space
          /\ \E k \in 1..Len(fields) :
                /\ ~IsDigit(fields[k]) /\ fields[k] \notin {Blank, "NUL"}
                /\ \A j \in (k + 1)..Len(fields) : IsDigit(fields[j])
      BY FieldsFit
    <3> QED
      BY <3>1, <3>2, <3>3, <3>4 DEF IsPoint
  <2>4. time \in Seq(Digit)
    BY TimesFit
  <2>5. PointIsKept(name, tags, gap, fields, time, precision)
    BY <2>2, <2>3, <2>4, PointIsKeptCorrect DEF Precisions
  <2> QED
    BY <2>1, <2>3, <2>5
<1>2. PointIsWritten /\ [Next]_input => PointIsWritten'
  <2> SUFFICES ASSUME PointIsWritten, input' = input PROVE PointIsWritten'
    BY DEF Next
  <2> QED
    BY DEF PointIsWritten
<1> QED
  BY <1>1, <1>2, PTL DEF Spec

\* The measurements a point and a query are compared on are a point's.
LEMMA MeasurementsFit ==
    ASSUME NEW name \in SeqsUpTo({"a", "from", Blank, Comma, "=", Quote, "'", ".", "(", ")", "/"}, 3) \ {<<>>},
           NEW tags \in TagSets, NEW gap, gap = <<Blank>>, NEW fields, fields = <<"f", "=", "1">>
    PROVE  /\ \E X : name \in Seq(X) /\ tags \in Seq(X) /\ gap \in Seq(X) /\ fields \in Seq(X)
           /\ IsPoint(name, tags, gap, fields)
<1> DEFINE S == {"a", "from", Blank, Comma, "=", Quote, "'", ".", "(", ")", "/"}
<1>1. name \in Seq(S) /\ name # <<>>
  BY SeqsUpToAre
<1>2. \A c \in S : c \notin Space \ {Blank} /\ c # "\\"
  BY CharactersDiffer
<1> HIDE DEF S
<1>3. /\ name[1] \notin Space \ {Blank} /\ \A i \in 1..Len(name) : name[i] # "\\"
  BY <1>1, <1>2
<1>4. gap \in Seq(Written) /\ gap # <<>> /\ \A i \in 1..Len(gap) : gap[i] = Blank
  BY GapsFit
<1>5. fields \in FieldSets
  BY DEF FieldSets
<1>6. /\ fields \in Seq(Written)
      /\ Len(fields) >= 3 /\ fields[1] # Blank /\ fields[Len(fields)] \notin Space
      /\ \E k \in 1..Len(fields) :
            /\ ~IsDigit(fields[k]) /\ fields[k] \notin {Blank, "NUL"}
            /\ \A j \in (k + 1)..Len(fields) : IsDigit(fields[j])
  BY <1>5, FieldsFit
<1>7. tags \in Seq(Written) /\ (tags # <<>> => tags[1] = Comma /\ tags[Len(tags)] # "\\")
  BY TagsFit
<1>8. IsPoint(name, tags, gap, fields)
  BY <1>1, <1>3, <1>4, <1>6, <1>7 DEF IsPoint
<1>9. name \in Seq(S \cup Written)
  BY <1>1
<1>10. tags \in Seq(S \cup Written) /\ gap \in Seq(S \cup Written) /\ fields \in Seq(S \cup Written)
  BY <1>4, <1>6, <1>7
<1> QED
  BY <1>8, <1>9, <1>10

\* A query goes where the points went: the key of ScanKey and that of
\* GetMeasurementFromTokens are the same for every measurement of the run.
THEOREM RoutesAgreeCorrect == Spec => []RoutesAgree
<1>1. Init => RoutesAgree
  <2> SUFFICES ASSUME Init, input.kind = "name"
               PROVE  LET line == PointText(input.name, input.tags, <<Blank>>, <<"f", "=", "1">>)
                          db == <<"d">>
                      IN  /\ \A p \in Precisions :
                                GetKey(db, WriteRow(line, p).meas) = GetKey(db, input.name)
                          /\ IsReadThere("f", input.name, db)
    BY DEF RoutesAgree
  <2> DEFINE S == {"a", "from", Blank, Comma, "=", Quote, "'", ".", "(", ")", "/"}
  <2>1. PICK name \in SeqsUpTo(S, 3) \ {<<>>}, tags \in TagSets : name = input.name /\ tags = input.tags
    BY KindsAre DEF Measurements
  <2>2. PICK gap, fields, db : gap = <<Blank>> /\ fields = <<"f", "=", "1">> /\ db = <<"d">>
    OBVIOUS
  <2>3. PICK X : /\ name \in Seq(X) /\ tags \in Seq(X) /\ gap \in Seq(X) /\ fields \in Seq(X)
                 /\ IsPoint(name, tags, gap, fields)
    BY <2>2, MeasurementsFit
  <2>4. PICK line : line = PointText(name, tags, gap, fields)
    OBVIOUS
  <2>5. ASSUME NEW p \in Precisions PROVE WriteRow(line, p).meas = name
    <3>1. PICK time : time = <<>>
      OBVIOUS
    <3>2. time \in Seq(Digit)
      BY <3>1
    <3>3. PointIsKept(name, tags, gap, fields, time, p)
      BY <2>3, <3>2, PointIsKeptCorrect DEF Precisions
    <3> QED
      BY <2>4, <3>1, <3>3 DEF PointIsKept
  <2>6. IsReadThere("f", name, db)
    <3>1. IsField("f") /\ db # NoName /\ ~IsForbiddenDB(db)
      BY <2>2, InputsFit DEF NoName
    <3> QED
      BY <2>3, <3>1, IsReadThereCorrect
  <2> QED
    BY <2>1, <2>2, <2>4, <2>5, <2>6
<1>2. RoutesAgree /\ [Next]_input => RoutesAgree'
  <2> SUFFICES ASSUME RoutesAgree, input' = input PROVE RoutesAgree'
    BY DEF Next
  <2> QED
    BY DEF RoutesAgree
<1> QED
  BY <1>1, <1>2, PTL DEF Spec

\* A show is answered with all that the backends have, whichever answer and in
\* whichever order, as long as one whole circle is among them.
THEOREM ShowIsWholeCorrect == Spec => []ShowIsWhole
<1>1. Init => ShowIsWhole
  <2> SUFFICES ASSUME Init, input.kind = "show" PROVE ShowIsWhole
    BY DEF ShowIsWhole
  <2>1. input \in Shows
    BY KindsAre
  <2> DEFINE values == AnswersOf(input, "reduceByValues")
             series == AnswersOf(input, "reduceBySeries")
             policies == AnswersOf(input, "attachByValues")
             stats == concatByResults(AnswersOf(input, "concatByResults"))
  <2>2. ValuesAreWhole(values) /\ reduceByValues(values) = {<<m>> : m \in {"m1", "m2", "m3"}}
    BY <2>1, ValuesShown DEF OneOf, Three
  <2>3. /\ SeriesAreWhole(series)
        /\ reduceBySeries(series) =
               {[name |-> m, values |-> <<<<"key of", m>>>>] : m \in {"m1", "m2", "m3"}}
    BY <2>1, SeriesShown DEF Measured, Three
  <2>4. /\ PoliciesAreWhole(policies)
        /\ IsInjective(attachByValues(policies))
        /\ {row[1] : row \in Range(attachByValues(policies))} =
               UNION {Range(input.policies[b]) : b \in Range(input.order)}
        /\ attachByValues(policies)[1] = <<"autogen">>
    BY <2>1, PoliciesShown
  <2>5. Len(stats) = Len(input.order) /\ {s[1].values[1] : s \in Range(stats)} = Range(input.order)
    BY <2>1, StatsShown
  <2>6. /\ Reduced("reduceByValues", values) = reduceByValues(values)
        /\ Reduced("reduceBySeries", series) = reduceBySeries(series)
        /\ Reduced("attachByValues", policies) = attachByValues(policies)
        /\ Reduced("concatByResults", AnswersOf(input, "concatByResults")) = stats
    BY ReducedIs
  <2>7. /\ ValuesAreWhole(values) /\ SeriesAreWhole(series) /\ PoliciesAreWhole(policies)
        /\ Reduced("reduceByValues", values) = {<<m>> : m \in {"m1", "m2", "m3"}}
        /\ Reduced("reduceBySeries", series) =
               {[name |-> m, values |-> <<<<"key of", m>>>>] : m \in {"m1", "m2", "m3"}}
    BY <2>2, <2>3, <2>4, <2>6, Zenon
  <2>8. /\ IsInjective(Reduced("attachByValues", policies))
        /\ {row[1] : row \in Range(Reduced("attachByValues", policies))} =
               UNION {Range(input.policies[b]) : b \in Range(input.order)}
        /\ Reduced("attachByValues", policies)[1] = <<"autogen">>
    BY <2>4, <2>6
  <2>9. LET all == Reduced("concatByResults", AnswersOf(input, "concatByResults"))
        IN  Len(all) = Len(input.order) /\ {s[1].values[1] : s \in Range(all)} = Range(input.order)
    BY <2>5, <2>6
  <2> QED
    BY <2>7, <2>8, <2>9, Zenon DEF ShowIsWhole, AnswersOf
<1>2. ShowIsWhole /\ [Next]_input => ShowIsWhole'
  BY DEF Next, ShowIsWhole
<1> QED
  BY <1>1, <1>2, PTL DEF Spec

=============================================================================
