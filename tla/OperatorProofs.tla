---------------------------- MODULE OperatorProofs ----------------------------
(***************************************************************************)
(* Theorems about the pure operators that know no state: the order of a     *)
(* finite set of numbers (Ranks), positions in a text (Text), sequences     *)
(* laid end to end (FlattenSeq), and what the operations of the transfer    *)
(* move and drop (Moves), for any circles, backends, keys and outages.      *)
(***************************************************************************)
EXTENDS Ranks, Text, SequenceTheorems, FiniteSetTheorems, FunctionTheorems, WellFoundedInduction,
        TLAPS

Data == INSTANCE Moves

-----------------------------------------------------------------------------
(* Numbers.                                                                 *)

Numbers(S) == S \subseteq Nat /\ IsFiniteSet(S)

\* A set of numbers that is not empty has a least one.
LEMMA Least ==
    ASSUME NEW S \in SUBSET Nat, S # {}
    PROVE  \E x \in S : \A y \in S : x <= y
<1>1. PICK x \in S : \A y \in S : ~(<<y, x>> \in OpToRel(<, Nat))
  BY WFMin, NatLessThanWellFounded, Zenon
<1>2. \A y \in S : ~(y < x)
  BY <1>1 DEF OpToRel
<1> QED
  BY <1>2

\* The elements up to a bound.
UpTo(S, c) == {j \in S : j <= c}

LEMMA UpToFinite ==
    ASSUME NEW S, Numbers(S), NEW c
    PROVE  /\ IsFiniteSet(UpTo(S, c))
           /\ Cardinality(S) \in Nat
           /\ Cardinality(UpTo(S, c)) \in 0..Cardinality(S)
<1>1. UpTo(S, c) \in SUBSET S
  BY DEF UpTo
<1>2. IsFiniteSet(UpTo(S, c)) /\ Cardinality(UpTo(S, c)) <= Cardinality(S)
  BY <1>1, FS_Subset DEF Numbers
<1> QED
  BY <1>2, FS_CardinalityType DEF Numbers

\* Ranks count from 1.
LEMMA RankType ==
    ASSUME NEW S, Numbers(S), NEW i \in S
    PROVE  Rank(S, i) \in 1..Cardinality(S)
<1>1. i \in UpTo(S, i) /\ Rank(S, i) = Cardinality(UpTo(S, i))
  BY DEF UpTo, Rank, Numbers
<1>2. Cardinality(UpTo(S, i)) # 0
  BY <1>1, UpToFinite, FS_EmptySet
<1> QED
  BY <1>1, <1>2, UpToFinite

\* They grow with the elements.
LEMMA RankMonotone ==
    ASSUME NEW S, Numbers(S), NEW i \in S, NEW j \in S, i < j
    PROVE  Rank(S, i) < Rank(S, j)
<1>0. \A e \in S : e \in Nat
  BY DEF Numbers
<1>1. UpTo(S, i) \in SUBSET UpTo(S, j) /\ j \in UpTo(S, j) /\ j \notin UpTo(S, i)
  <2>1. \A e \in S : e <= i => e <= j
    BY <1>0
  <2>2. j <= j /\ ~(j <= i)
    BY <1>0
  <2> QED
    BY <2>1, <2>2 DEF UpTo
<1>2. IsFiniteSet(UpTo(S, j))
  BY UpToFinite
<1>3. /\ Cardinality(UpTo(S, i)) <= Cardinality(UpTo(S, j))
      /\ Cardinality(UpTo(S, i)) # Cardinality(UpTo(S, j))
  BY <1>1, <1>2, FS_Subset
<1>4. Cardinality(UpTo(S, i)) \in Nat /\ Cardinality(UpTo(S, j)) \in Nat
  BY UpToFinite
<1> QED
  BY <1>3, <1>4 DEF Rank, UpTo

LEMMA RankInjective ==
    ASSUME NEW S, Numbers(S), NEW i \in S, NEW j \in S, Rank(S, i) = Rank(S, j)
    PROVE  i = j
<1>1. i \in Nat /\ j \in Nat
  BY DEF Numbers
<1>2. Rank(S, i) \in Nat
  BY RankType, UpToFinite
<1> QED
  BY <1>1, <1>2, RankMonotone

\* Every number from 1 to the cardinality is the rank of one element.
LEMMA NthType ==
    ASSUME NEW S, Numbers(S), NEW n \in 1..Cardinality(S)
    PROVE  Nth(S, n) \in S /\ Rank(S, Nth(S, n)) = n
<1> DEFINE T == 1..Cardinality(S)
           f == [i \in S |-> Rank(S, i)]
<1>1. Cardinality(S) \in Nat
  BY UpToFinite
<1>2. f \in [S -> T] /\ \A i, j \in S : f[i] = f[j] => i = j
  BY RankType, RankInjective
<1>3. f \in Injection(S, T)
  BY <1>2 DEF Injection, IsInjective
<1>4. IsFiniteSet(T) /\ Cardinality(T) = Cardinality(S)
  BY <1>1, FS_Interval
<1>5. f \in Surjection(S, T)
  BY <1>3, <1>4, FS_Injection
<1>6. \E i \in S : f[i] = n
  BY <1>5 DEF Surjection
<1>7. \E i \in S : Rank(S, i) = n
  BY <1>6
<1> QED
  BY <1>7 DEF Nth

LEMMA NthIs ==
    ASSUME NEW S, Numbers(S), NEW i \in S
    PROVE  Nth(S, Rank(S, i)) = i
  BY RankType, NthType, RankInjective

\* The elements come in their order.
LEMMA NthMonotone ==
    ASSUME NEW S, Numbers(S), NEW m \in 1..Cardinality(S), NEW n \in 1..Cardinality(S), m < n
    PROVE  Nth(S, m) < Nth(S, n)
<1>1. /\ Nth(S, m) \in S /\ Rank(S, Nth(S, m)) = m
      /\ Nth(S, n) \in S /\ Rank(S, Nth(S, n)) = n
  BY NthType
<1>2. Nth(S, m) \in Nat /\ Nth(S, n) \in Nat
  BY <1>1 DEF Numbers
<1>3. ASSUME Nth(S, n) < Nth(S, m) PROVE FALSE
  <2>1. n < m
    BY <1>1, <1>3, RankMonotone
  <2> QED
    BY <2>1, UpToFinite
<1>4. Nth(S, n) # Nth(S, m)
  BY <1>1, UpToFinite
<1> QED
  BY <1>2, <1>3, <1>4

\* A new largest element comes last.
LEMMA NthAdded ==
    ASSUME NEW S, Numbers(S), NEW x \in Nat, \A i \in S : i < x
    PROVE  /\ Numbers(S \union {x})
           /\ Cardinality(S \union {x}) = Cardinality(S) + 1
           /\ \A n \in 1..Cardinality(S) : Nth(S \union {x}, n) = Nth(S, n)
           /\ Nth(S \union {x}, Cardinality(S) + 1) = x
<1> DEFINE T == S \union {x}
<1>0. Cardinality(S) \in Nat
  BY UpToFinite
<1>1. x \notin S
  BY DEF Numbers
<1>2. Numbers(T) /\ Cardinality(T) = Cardinality(S) + 1
  BY <1>1, FS_AddElement DEF Numbers
<1>3. Rank(T, x) = Cardinality(S) + 1
  <2>1. \A j \in T : j <= x
    BY DEF Numbers
  <2>2. {j \in T : j <= x} = T
    BY <2>1
  <2> QED
    BY <1>2, <2>2 DEF Rank
<1>4. ASSUME NEW i \in S PROVE Rank(T, i) = Rank(S, i)
  <2>1. {j \in T : j <= i} = {j \in S : j <= i}
    BY <1>4 DEF Numbers
  <2> QED
    BY <2>1 DEF Rank
<1>5. ASSUME NEW n \in 1..Cardinality(S) PROVE Nth(T, n) = Nth(S, n)
  <2>1. PICK i \in S : i = Nth(S, n) /\ Rank(S, i) = n
    BY NthType
  <2>2. Rank(T, i) = n /\ i \in T
    BY <1>4, <2>1
  <2> HIDE DEF T
  <2> QED
    BY <1>2, <2>1, <2>2, NthIs
<1>6. Nth(T, Cardinality(S) + 1) = x
  <2>1. x \in T
    OBVIOUS
  <2> HIDE DEF T
  <2> QED
    BY <1>2, <1>3, <2>1, NthIs
<1> QED
  BY <1>2, <1>5, <1>6

\* The elements past a bound are the last ones.
LEMMA NthPast ==
    ASSUME NEW S, Numbers(S), NEW c \in Nat, NEW m, m = Cardinality(UpTo(S, c)),
           NEW T, T = {i \in S : i > c}
    PROVE  /\ Numbers(T)
           /\ m \in 0..Cardinality(S)
           /\ Cardinality(T) = Cardinality(S) - m
           /\ \A n \in 1..Cardinality(T) : Nth(T, n) = Nth(S, n + m)
           /\ \A n \in 1..m : Nth(S, n) <= c
<1>0. Cardinality(S) \in Nat /\ m \in 0..Cardinality(S) /\ IsFiniteSet(UpTo(S, c))
  BY UpToFinite
<1>1. Numbers(T)
  <2>1. T \in SUBSET S
    OBVIOUS
  <2> QED
    BY <2>1, FS_Subset DEF Numbers
<1>2. Cardinality(T) = Cardinality(S) - m
  <2>0. \A e \in S : e \in UpTo(S, c) <=> e \notin T
    BY DEF UpTo, Numbers
  <2>1. S = UpTo(S, c) \union T /\ UpTo(S, c) \intersect T = {}
    BY <2>0 DEF UpTo
  <2>2. Cardinality(S) = m + Cardinality(T) - 0
    BY <1>0, <1>1, <2>1, FS_Union, FS_EmptySet DEF Numbers
  <2>3. Cardinality(T) \in Nat
    BY <1>1, UpToFinite
  <2> QED
    BY <1>0, <2>2, <2>3
<1>3. ASSUME NEW i \in T PROVE Rank(S, i) = Rank(T, i) + m
  <2> DEFINE U == {j \in T : j <= i}
             V == {j \in S : j <= i}
  <2>0. Rank(S, i) = Cardinality(V) /\ Rank(T, i) = Cardinality(U)
    BY DEF Rank
  <2>4. i \in Nat /\ c < i /\ \A e \in S : e \in Nat
    BY DEF Numbers
  <2>5. \A e : e \in T <=> e \in S /\ e > c
    OBVIOUS
  <2>6. \A e : e \in U <=> e \in S /\ e > c /\ e <= i
    BY <2>5
  <2>7. \A e : e \in V <=> e \in S /\ e <= i
    OBVIOUS
  <2>8. \A e : e \in UpTo(S, c) <=> e \in S /\ e <= c
    BY DEF UpTo
  <2> HIDE DEF U, V
  <2>1. V = UpTo(S, c) \union U /\ UpTo(S, c) \intersect U = {}
    <3>1. ASSUME NEW e \in S
          PROVE  /\ e \in V <=> e \in UpTo(S, c) \/ e \in U
                 /\ ~(e \in UpTo(S, c) /\ e \in U)
      <4>1. e \in Nat /\ c \in Nat /\ i \in Nat
        BY <2>4
      <4>2. e <= i <=> e <= c \/ (e > c /\ e <= i)
        BY <2>4, <4>1
      <4>3. ~(e <= c /\ e > c)
        BY <4>1
      <4> QED
        BY <2>6, <2>7, <2>8, <4>2, <4>3
    <3> QED
      BY <2>6, <2>7, <2>8, <3>1
  <2>2. IsFiniteSet(U) /\ Cardinality(U) \in Nat
    <3>1. U = UpTo(T, i)
      BY DEF U, UpTo
    <3> QED
      BY <1>1, <3>1, UpToFinite
  <2>3. Cardinality(UpTo(S, c) \union U) = m + Cardinality(U) - 0
    BY <1>0, <2>1, <2>2, FS_Union, FS_EmptySet
  <2> QED
    BY <1>0, <2>0, <2>1, <2>2, <2>3
<1>4. ASSUME NEW n \in 1..Cardinality(T) PROVE Nth(T, n) = Nth(S, n + m)
  <2>1. PICK i \in T : i = Nth(T, n) /\ Rank(T, i) = n
    BY <1>1, NthType
  <2>2. i \in S /\ Rank(S, i) = n + m
    BY <1>3, <2>1
  <2> QED
    BY <2>1, <2>2, NthIs
<1>5. ASSUME NEW n \in 1..m PROVE Nth(S, n) <= c
  <2>1. n \in 1..Cardinality(S)
    BY <1>0
  <2>2. PICK i \in S : i = Nth(S, n) /\ Rank(S, i) = n
    BY <2>1, NthType
  <2>3. ASSUME i \in T PROVE FALSE
    <3>1. n = Rank(T, i) + m /\ Rank(T, i) \in 1..Cardinality(T)
      BY <1>1, <1>3, <2>2, <2>3, RankType
    <3>2. Rank(T, i) \in Nat /\ Rank(T, i) > 0
      BY <1>1, <3>1, UpToFinite
    <3> QED
      BY <1>0, <3>1, <3>2
  <2> QED
    BY <2>2, <2>3 DEF Numbers
<1> QED
  BY <1>0, <1>1, <1>2, <1>4, <1>5

-----------------------------------------------------------------------------
(* Positions and parts of a text. *)

\* The first and the last of a set of positions.
LEMMA FirstOfIs ==
    ASSUME NEW S \in SUBSET Nat, S # {}, NEW none
    PROVE  FirstOf(S, none) \in S /\ \A i \in S : FirstOf(S, none) <= i
<1>1. \E i \in S : \A j \in S : i <= j
  BY Least
<1> QED
  BY <1>1 DEF FirstOf

LEMMA LastOfIs ==
    ASSUME NEW n \in Nat, NEW S \in SUBSET (0..n), S # {}, NEW none
    PROVE  LastOf(S, none) \in S /\ \A i \in S : i <= LastOf(S, none)
<1> DEFINE T == {n - i : i \in S}
<1>1. T \in SUBSET Nat /\ T # {}
  <2>1. \A i \in S : n - i \in Nat
    OBVIOUS
  <2> QED
    BY <2>1
<1>2. PICK t \in T : \A u \in T : t <= u
  BY <1>1, Least
<1>3. PICK i \in S : t = n - i
  OBVIOUS
<1>4. \A j \in S : j <= i
  <2> TAKE j \in S
  <2>1. n - i <= n - j
    BY <1>2, <1>3
  <2> QED
    BY <2>1
<1> QED
  BY <1>4 DEF LastOf

\* A part of a text is a text.
LEMMA PartType ==
    ASSUME NEW X, NEW s \in Seq(X), NEW m \in Nat \ {0}, NEW n \in Nat, n <= Len(s)
    PROVE  /\ SubSeq(s, m, n) \in Seq(X)
           /\ Len(SubSeq(s, m, n)) = IF m <= n THEN n - m + 1 ELSE 0
           /\ \A i \in 1..Len(SubSeq(s, m, n)) : SubSeq(s, m, n)[i] = s[m + i - 1]
<1>1. \A i \in m..n : s[i] \in X
  OBVIOUS
<1>2. m \in Int /\ n \in Int
  OBVIOUS
<1> QED
  BY <1>1, <1>2, SubSeqProperties

LEMMA TrimmedType ==
    ASSUME NEW X, NEW text \in Seq(X), NEW junk
    PROVE  Trimmed(text, junk) \in Seq(X)
<1>1. ASSUME NEW s \in Seq(X) PROVE TrimmedRight(s, junk) \in Seq(X)
  <2> DEFINE S == {i \in 1..Len(s) : s[i] \notin junk}
  <2>1. LastOf(S, 0) \in 0..Len(s)
    <3>1. CASE S = {}
      BY <3>1 DEF LastOf
    <3>2. CASE S # {}
      <4>1. Len(s) \in Nat /\ S \in SUBSET (0..Len(s))
        OBVIOUS
      <4>2. LastOf(S, 0) \in S
        BY <3>2, <4>1, LastOfIs
      <4> QED
        BY <4>2
    <3> QED
      BY <3>1, <3>2
  <2>2. PICK n \in 0..Len(s) : n = LastOf(S, 0)
    BY <2>1
  <2>3. SubSeq(s, 1, n) \in Seq(X)
    BY PartType
  <2> QED
    BY <2>2, <2>3 DEF TrimmedRight
<1> DEFINE F == {i \in 1..Len(text) : text[i] \notin junk}
<1>2. FirstOf(F, 1) \in Nat \ {0}
  <2>1. CASE F = {}
    BY <2>1 DEF FirstOf
  <2>2. CASE F # {}
    <3>1. F \in SUBSET Nat
      OBVIOUS
    <3>2. FirstOf(F, 1) \in F
      BY <2>2, <3>1, FirstOfIs
    <3> QED
      BY <3>2
  <2> QED
    BY <2>1, <2>2
<1>3. PICK m \in Nat \ {0} : m = FirstOf(F, 1)
  BY <1>2
<1>4. SubSeq(text, m, Len(text)) \in Seq(X)
  BY PartType
<1> QED
  BY <1>1, <1>3, <1>4 DEF Trimmed

-----------------------------------------------------------------------------
(* What FlattenSeq does. *)

\* f is the function by which FlattenSeq goes over the first n of seqs.
Piece(f, seqs, i) == IF i = 1 THEN seqs[i] ELSE f[i-1] \o seqs[i]
Flattens(f, seqs, n) == f = [i \in 1..n |-> Piece(f, seqs, i)]

LEMMA FlattensStep ==
    ASSUME NEW f, NEW seqs, NEW n, Flattens(f, seqs, n), NEW i \in 1..n
    PROVE  f[i] = Piece(f, seqs, i)
  BY DEF Flattens

LEMMA FlattensExists ==
    ASSUME NEW T, NEW seqs \in Seq(Seq(T)), NEW n \in 0..Len(seqs)
    PROVE  \E f \in [1..n -> Seq(T)] : Flattens(f, seqs, n)
<1> DEFINE P(m) == \E f \in [1..m -> Seq(T)] : Flattens(f, seqs, m)
           S == {m \in 0..Len(seqs) : ~P(m)}
<1>1. Len(seqs) \in Nat /\ \A i \in 1..Len(seqs) : seqs[i] \in Seq(T)
  BY LenProperties, ElementOfSeq
<1> SUFFICES ASSUME S # {} PROVE FALSE
  OBVIOUS
<1>2. PICK m \in S : \A k \in S : m <= k
  <2>1. S \in SUBSET Nat
    BY <1>1
  <2> QED
    BY <2>1, Least
<1>3. m # 0
  <2>1. [i \in 1..0 |-> <<>>] \in [1..0 -> Seq(T)] /\ Flattens([i \in 1..0 |-> <<>>], seqs, 0)
    BY DEF Flattens
  <2> QED
    BY <2>1, Zenon
<1>4. m \in 1..Len(seqs) /\ m - 1 \in 0..Len(seqs) /\ m - 1 \notin S
  <2> HIDE DEF P
  <2> QED
    BY <1>1, <1>2, <1>3
<1>5. PICK f \in [1..(m-1) -> Seq(T)] : Flattens(f, seqs, m - 1)
  <2>1. P(m - 1)
    BY <1>4
  <2> QED
    BY <2>1
<1> DEFINE g == [i \in 1..m |-> IF i < m THEN f[i]
                                ELSE IF m = 1 THEN seqs[m] ELSE f[m-1] \o seqs[m]]
<1>6. \A i \in 1..m : g[i] \in Seq(T)
  <2>1. m # 1 => f[m-1] \in Seq(T) /\ f[m-1] \o seqs[m] \in Seq(T)
    BY <1>1, <1>4, ConcatProperties
  <2> QED
    BY <1>1, <1>4, <2>1
<1>7. \A i \in 1..m : g[i] = IF i = 1 THEN seqs[i] ELSE g[i-1] \o seqs[i]
  <2> TAKE i \in 1..m
  <2>1. CASE i < m
    <3>1. i \in 1..(m - 1)
      BY <1>4, <2>1
    <3>2. PICK k : k = m - 1
      OBVIOUS
    <3>3. Flattens(f, seqs, k) /\ i \in 1..k
      BY <1>5, <3>1, <3>2
    <3>4. f[i] = Piece(f, seqs, i)
      BY <3>3, FlattensStep
    <3>5. f[i] = IF i = 1 THEN seqs[i] ELSE f[i-1] \o seqs[i]
      BY <3>4 DEF Piece
    <3> QED
      BY <1>4, <2>1, <3>5
  <2>2. CASE i = m
    BY <1>4, <2>2
  <2> QED
    BY <1>4, <2>1, <2>2
<1>8. g \in [1..m -> Seq(T)] /\ Flattens(g, seqs, m)
  BY <1>6, <1>7 DEF Flattens, Piece
<1> QED
  BY <1>2, <1>8

SameTo(s, t, n) == \A i \in 1..n : s[i] = t[i]

\* It is the only one, and goes over longer sequences in the same way.
LEMMA FlattensAgree ==
    ASSUME NEW s, NEW t, NEW n \in Nat, NEW m \in Nat, n <= m,
           SameTo(s, t, n),
           NEW f, Flattens(f, s, n), NEW g, Flattens(g, t, m)
    PROVE  SameTo(f, g, n)
<1> DEFINE S == {i \in 1..n : f[i] # g[i]}
<1> SUFFICES ASSUME S # {} PROVE FALSE
  BY DEF SameTo
<1>0. S \in SUBSET Nat
  OBVIOUS
<1>1. PICK i \in S : \A k \in S : i <= k
  BY <1>0, Least
<1>2. f[i] = Piece(f, s, i) /\ g[i] = Piece(g, t, i)
  BY <1>1, FlattensStep
<1>3. s[i] = t[i] /\ (i # 1 => f[i-1] = g[i-1])
  BY <1>1 DEF SameTo
<1> QED
  BY <1>1, <1>2, <1>3 DEF Piece

LEMMA FlattenIs ==
    ASSUME NEW T, NEW seqs \in Seq(Seq(T)), seqs # <<>>
    PROVE  \E f \in [1..Len(seqs) -> Seq(T)] :
              Flattens(f, seqs, Len(seqs)) /\ FlattenSeq(seqs) = f[Len(seqs)]
<1> DEFINE n == Len(seqs)
<1>1. n \in Nat /\ n # 0
  BY LenProperties, EmptySeq
<1>2. PICK f \in [1..n -> Seq(T)] : Flattens(f, seqs, n)
  BY <1>1, FlattensExists
<1>3. PICK g : Flattens(g, seqs, n) /\ FlattenSeq(seqs) = g[n]
  BY <1>1, <1>2 DEF FlattenSeq, Flattens, Piece
<1>4. f[n] = g[n]
  <2>1. SameTo(seqs, seqs, n)
    BY DEF SameTo
  <2>2. SameTo(f, g, n) /\ n \in 1..n
    BY <1>1, <1>2, <1>3, <2>1, FlattensAgree
  <2> QED
    BY <2>2 DEF SameTo
<1> QED
  BY <1>2, <1>3, <1>4

LEMMA FlattenType ==
    ASSUME NEW T, NEW seqs \in Seq(Seq(T))
    PROVE  FlattenSeq(seqs) \in Seq(T)
<1>1. CASE seqs = <<>>
  BY <1>1 DEF FlattenSeq
<1>2. CASE seqs # <<>>
  <2>1. PICK f \in [1..Len(seqs) -> Seq(T)] : FlattenSeq(seqs) = f[Len(seqs)]
    BY <1>2, FlattenIs
  <2>2. Len(seqs) \in 1..Len(seqs)
    BY <1>2, LenProperties, EmptySeq
  <2> QED
    BY <2>1, <2>2
<1> QED
  BY <1>1, <1>2

LEMMA FlattenOne ==
    ASSUME NEW T, NEW s \in Seq(T)
    PROVE  FlattenSeq(<<s>>) = s
<1>1. <<s>> \in Seq(Seq(T)) /\ Len(<<s>>) = 1 /\ <<s>> # <<>> /\ <<s>>[1] = s
  OBVIOUS
<1>2. PICK f : Flattens(f, <<s>>, 1) /\ FlattenSeq(<<s>>) = f[1]
  BY <1>1, FlattenIs
<1> QED
  BY <1>1, <1>2 DEF Flattens, Piece

LEMMA FlattenAppend ==
    ASSUME NEW T, NEW seqs \in Seq(Seq(T)), NEW s \in Seq(T)
    PROVE  FlattenSeq(Append(seqs, s)) = FlattenSeq(seqs) \o s
<1> DEFINE n == Len(seqs)
           t == Append(seqs, s)
<1>1. n \in Nat /\ t \in Seq(Seq(T)) /\ t # <<>> /\ Len(t) = n + 1 /\ t[n + 1] = s
      /\ \A i \in 1..n : t[i] = seqs[i]
  BY AppendProperties, LenProperties
<1>2. CASE seqs = <<>>
  <2>1. t = <<s>> /\ FlattenSeq(seqs) = <<>>
    BY <1>2 DEF FlattenSeq
  <2> QED
    BY <2>1, FlattenOne, ConcatEmptySeq
<1>3. CASE seqs # <<>>
  <2>1. PICK f : Flattens(f, seqs, n) /\ FlattenSeq(seqs) = f[n]
    BY <1>3, FlattenIs
  <2>2. PICK m : m = n + 1
    OBVIOUS
  <2>3. PICK g : Flattens(g, t, m) /\ FlattenSeq(t) = g[m]
    BY <1>1, <2>2, FlattenIs
  <2>4. n \in 1..n /\ m \in 1..m /\ n # 0 /\ m # 1 /\ m - 1 = n /\ m \in Nat /\ n <= m
    BY <1>1, <1>3, <2>2, EmptySeq
  <2> HIDE DEF n, t
  <2>5. SameTo(f, g, n)
    <3>1. SameTo(seqs, t, n)
      BY <1>1 DEF SameTo
    <3> QED
      BY <1>1, <2>1, <2>3, <2>4, <3>1, FlattensAgree
  <2>6. g[m] = Piece(g, t, m)
    BY <2>3, <2>4, FlattensStep
  <2>7. FlattenSeq(t) = FlattenSeq(seqs) \o s
    BY <1>1, <2>1, <2>2, <2>3, <2>4, <2>5, <2>6 DEF Piece, SameTo
  <2> QED
    BY <2>7 DEF t
<1> QED
  BY <1>2, <1>3

LEMMA FlattenConcat ==
    ASSUME NEW T, NEW s \in Seq(Seq(T)), NEW u \in Seq(Seq(T))
    PROVE  FlattenSeq(s \o u) = FlattenSeq(s) \o FlattenSeq(u)
<1> DEFINE P(t) == FlattenSeq(s \o t) = FlattenSeq(s) \o FlattenSeq(t)
           L == {Len(t) : t \in {t \in Seq(Seq(T)) : ~P(t)}}
<1> SUFFICES ASSUME ~P(u) PROVE FALSE
  OBVIOUS
<1> HIDE DEF P
<1>1. L \in SUBSET Nat /\ L # {}
  BY LenProperties
<1>2. PICK t \in Seq(Seq(T)) : ~P(t) /\ \A v \in Seq(Seq(T)) : ~P(v) => Len(t) <= Len(v)
  <2>1. PICK x \in L : \A y \in L : x <= y
    BY <1>1, Least
  <2> QED
    BY <2>1
<1>3. t # <<>>
  <2>1. FlattenSeq(<<>>) = <<>>
    BY DEF FlattenSeq
  <2>2. s \o <<>> = s
    BY ConcatEmptySeq
  <2>3. FlattenSeq(s) \o <<>> = FlattenSeq(s)
    BY FlattenType, ConcatEmptySeq
  <2> QED
    BY <1>2, <2>1, <2>2, <2>3 DEF P
<1>4. PICK v \in Seq(Seq(T)), e \in Seq(T) : t = Append(v, e)
  BY <1>3, SequenceEmptyOrAppend
<1>5. P(v)
  BY <1>2, <1>4, AppendProperties, LenProperties
<1>6. s \o t = Append(s \o v, e)
  <2>1. v = v /\ s \o v \in Seq(Seq(T)) /\ <<e>> \in Seq(Seq(T))
    BY ConcatProperties
  <2>2. t = v \o <<e>> /\ Append(s \o v, e) = (s \o v) \o <<e>>
    BY <1>4, <2>1, AppendIsConcat
  <2> QED
    BY <2>1, <2>2, ConcatAssociative
<1>7. FlattenSeq(s \o t) = FlattenSeq(s \o v) \o e
  BY <1>6, FlattenAppend, ConcatProperties
<1>8. FlattenSeq(t) = FlattenSeq(v) \o e
  BY <1>4, FlattenAppend
<1>9. FlattenSeq(s) \in Seq(T) /\ FlattenSeq(v) \in Seq(T)
  BY FlattenType
<1>10. FlattenSeq(s \o t) = FlattenSeq(s) \o FlattenSeq(t)
  <2>1. FlattenSeq(s \o v) = FlattenSeq(s) \o FlattenSeq(v)
    BY <1>5 DEF P
  <2>2. (FlattenSeq(s) \o FlattenSeq(v)) \o e = FlattenSeq(s) \o (FlattenSeq(v) \o e)
    BY <1>4, <1>9, ConcatAssociative
  <2> QED
    BY <1>7, <1>8, <2>1, <2>2
<1> QED
  BY <1>2, <1>10 DEF P

\* What is in the sequences, and nothing else.
LEMMA FlattenRange ==
    ASSUME NEW T, NEW u \in Seq(Seq(T)), NEW e
    PROVE  e \in Range(FlattenSeq(u)) <=> \E i \in 1..Len(u) : e \in Range(u[i])
<1> DEFINE P(t) == e \in Range(FlattenSeq(t)) <=> \E i \in 1..Len(t) : e \in Range(t[i])
           L == {Len(t) : t \in {t \in Seq(Seq(T)) : ~P(t)}}
<1> SUFFICES ASSUME ~P(u) PROVE FALSE
  OBVIOUS
<1> HIDE DEF P
<1>1. L \in SUBSET Nat /\ L # {}
  BY LenProperties
<1>2. PICK t \in Seq(Seq(T)) : ~P(t) /\ \A v \in Seq(Seq(T)) : ~P(v) => Len(t) <= Len(v)
  <2>1. PICK x \in L : \A y \in L : x <= y
    BY <1>1, Least
  <2> QED
    BY <2>1
<1>3. t # <<>>
  <2>1. FlattenSeq(<<>>) = <<>>
    BY DEF FlattenSeq
  <2>2. \A z : z \notin Range(<<>>)
    BY DEF Range
  <2>3. P(<<>>)
    <3>1. ~\E i \in 1..Len(<<>>) : TRUE
      OBVIOUS
    <3> QED
      BY <2>1, <2>2, <3>1 DEF P
  <2> QED
    BY <1>2, <2>3
<1>4. PICK v \in Seq(Seq(T)), s \in Seq(T) : t = Append(v, s)
  BY <1>3, SequenceEmptyOrAppend
<1>5. /\ P(v)
      /\ Len(v) \in Nat /\ Len(t) = Len(v) + 1
      /\ t[Len(v) + 1] = s /\ \A i \in 1..Len(v) : t[i] = v[i]
  BY <1>2, <1>4, AppendProperties, LenProperties
<1>6. PICK a, b : a = FlattenSeq(v) /\ b = FlattenSeq(t)
  OBVIOUS
<1>7. b = a \o s /\ a \in Seq(T)
  BY <1>4, <1>6, FlattenAppend, FlattenType
<1>8. e \in Range(b) <=> e \in Range(a) \/ e \in Range(s)
  <2>1. /\ Len(b) = Len(a) + Len(s)
        /\ \A i \in 1..(Len(a) + Len(s)) : b[i] = IF i <= Len(a) THEN a[i] ELSE s[i - Len(a)]
    BY <1>7, ConcatProperties
  <2>2. DOMAIN a = 1..Len(a) /\ DOMAIN s = 1..Len(s) /\ Len(a) \in Nat /\ Len(s) \in Nat
    BY <1>7
  <2>3. DOMAIN b = 1..(Len(a) + Len(s))
    BY <1>7, <2>1
  <2>4. ASSUME e \in Range(b) PROVE e \in Range(a) \/ e \in Range(s)
    <3>1. PICK i \in 1..(Len(a) + Len(s)) : e = b[i]
      BY <2>3, <2>4 DEF Range
    <3>2. CASE i <= Len(a)
      <4>1. i \in 1..Len(a) /\ e = a[i]
        BY <2>1, <2>2, <3>1, <3>2
      <4> QED
        BY <2>2, <4>1 DEF Range
    <3>3. CASE ~(i <= Len(a))
      <4>1. i - Len(a) \in 1..Len(s)
        BY <2>2, <3>3
      <4> QED
        BY <2>1, <2>2, <3>1, <3>3, <4>1 DEF Range
    <3> QED
      BY <3>2, <3>3
  <2>5. ASSUME e \in Range(a) PROVE e \in Range(b)
    <3>1. PICK i \in 1..Len(a) : e = a[i]
      BY <2>2, <2>5 DEF Range
    <3>2. i \in 1..(Len(a) + Len(s)) /\ i <= Len(a)
      BY <2>2
    <3> QED
      BY <2>1, <2>3, <3>1, <3>2 DEF Range
  <2>6. ASSUME e \in Range(s) PROVE e \in Range(b)
    <3>1. PICK i \in 1..Len(s) : e = s[i]
      BY <2>2, <2>6 DEF Range
    <3>2. PICK j : j = i + Len(a)
      OBVIOUS
    <3>3. j \in 1..(Len(a) + Len(s)) /\ ~(j <= Len(a)) /\ j - Len(a) = i
      BY <2>2, <3>2
    <3> QED
      BY <2>1, <2>3, <3>1, <3>3 DEF Range
  <2> QED
    BY <2>4, <2>5, <2>6
<1>9. (\E i \in 1..Len(t) : e \in Range(t[i]))
          <=> (\E i \in 1..Len(v) : e \in Range(v[i])) \/ e \in Range(s)
  <2>1. \A i : i \in 1..Len(t) <=> i \in 1..Len(v) \/ i = Len(v) + 1
    BY <1>5
  <2> QED
    BY <1>5, <2>1
<1>10. P(t)
  BY <1>5, <1>6, <1>8, <1>9 DEF P
<1> QED
  BY <1>2, <1>10

-----------------------------------------------------------------------------
(* What the operations move, and what they leave.                           *)

LEMMA ListedIs ==
    ASSUME NEW has, NEW up, NEW c, NEW x
    PROVE  x \in Data!Listed(has, up, c) <=>
               \E a \in up : a[1] = c /\ \E k \in has[a] : x = <<a, k>>
<1>1. x \in Data!Listed(has, up, c) <=> \E a \in {y \in up : y[1] = c} : x \in {a} \X has[a]
  BY Zenon DEF Data!Listed
<1>2. \A a : x \in {a} \X has[a] <=> \E k \in has[a] : x = <<a, k>>
  OBVIOUS
<1> QED
  BY <1>1, <1>2

LEMMA SeenIs ==
    ASSUME NEW has, NEW up, NEW c, NEW k
    PROVE  k \in Data!Seen(has, up, c) <=> \E a \in up : a[1] = c /\ k \in has[a]
<1>1. k \in Data!Seen(has, up, c) <=> \E x \in Data!Listed(has, up, c) : k = x[2]
  BY DEF Data!Seen
<1>2. ASSUME NEW x \in Data!Listed(has, up, c), k = x[2]
      PROVE  \E a \in up : a[1] = c /\ k \in has[a]
  BY <1>2, ListedIs
<1>3. ASSUME NEW a \in up, a[1] = c, k \in has[a]
      PROVE  \E x \in Data!Listed(has, up, c) : k = x[2]
  <2>1. PICK x : x = <<a, k>>
    OBVIOUS
  <2>2. x \in Data!Listed(has, up, c) /\ x[2] = k
    BY <1>3, <2>1, ListedIs
  <2> QED
    BY <2>2
<1> QED
  BY <1>1, <1>2, <1>3

\* What the tasks bring to a backend.
LEMMA CopiedIs ==
    ASSUME NEW has, NEW up, NEW tasks, NEW b \in DOMAIN has, NEW k
    PROVE  k \in Data!Copied(has, up, tasks)[b] <=>
               k \in has[b] \/ \E t \in tasks : k = t.key /\ b \in t.dsts /\ b \in up
<1>1. Data!Copied(has, up, tasks)[b] =
          has[b] \cup {t.key : t \in {u \in tasks : b \in u.dsts \cap up}}
  BY DEF Data!Copied
<1>2. k \in {t.key : t \in {u \in tasks : b \in u.dsts \cap up}} <=>
          \E t \in tasks : k = t.key /\ b \in t.dsts /\ b \in up
  OBVIOUS
<1> QED
  BY <1>1, <1>2

\* Tasks for pairs of a backend and a key, each to what dsts gives for the key.
AreTasks(tasks, pairs, dsts) ==
    /\ \A x \in pairs : x = <<x[1], x[2]>>
    /\ \A t \in tasks : \E x \in pairs : t.key = x[2] /\ t.dsts = dsts[x[2]]
    /\ \A x \in pairs : \E t \in tasks : t.key = x[2] /\ t.dsts = dsts[x[2]]

LEMMA TasksBring ==
    ASSUME NEW has, NEW up, NEW tasks, NEW pairs, NEW dsts, AreTasks(tasks, pairs, dsts),
           NEW b \in DOMAIN has, NEW k
    PROVE  k \in Data!Copied(has, up, tasks)[b] <=>
               \/ k \in has[b]
               \/ b \in up /\ b \in dsts[k] /\ \E a : <<a, k>> \in pairs
<1>1. (\E t \in tasks : k = t.key /\ b \in t.dsts /\ b \in up) <=>
         \E x \in pairs : k = x[2] /\ b \in dsts[x[2]] /\ b \in up
  BY DEF AreTasks
<1>2. (\E x \in pairs : k = x[2] /\ b \in dsts[x[2]] /\ b \in up) <=>
         b \in up /\ b \in dsts[k] /\ \E a : <<a, k>> \in pairs
  <2>1. ASSUME NEW x \in pairs, k = x[2] PROVE \E a : <<a, k>> \in pairs
    <3>1. x = <<x[1], k>>
      BY <2>1 DEF AreTasks
    <3> QED
      BY <3>1
  <2>2. ASSUME NEW a, <<a, k>> \in pairs PROVE \E x \in pairs : k = x[2]
    <3>1. <<a, k>>[2] = k
      OBVIOUS
    <3> QED
      BY <2>2, <3>1
  <2> QED
    BY <2>1, <2>2
<1> QED
  BY <1>1, <1>2, CopiedIs

\* Tasks that bring each key to its home.
AreHomeTasks(tasks, pairs, home) ==
    /\ \A x \in pairs : x = <<x[1], x[2]>>
    /\ \A x \in pairs : Data!Task(x, {home[x[2]]}) \in tasks
    /\ \A t \in tasks : \E x \in pairs : t = Data!Task(x, {home[x[2]]})

LEMMA HomeTasksBring ==
    ASSUME NEW has, NEW up, NEW tasks, NEW pairs, NEW home, AreHomeTasks(tasks, pairs, home),
           NEW b \in DOMAIN has, NEW k
    PROVE  k \in Data!Copied(has, up, tasks)[b] <=>
               \/ k \in has[b]
               \/ b \in up /\ b = home[k] /\ \E a : <<a, k>> \in pairs
<1>1. PICK dsts : dsts = [j \in {x[2] : x \in pairs} \cup {k} |-> {home[j]}]
  OBVIOUS
<1>2. \A x \in pairs : dsts[x[2]] = {home[x[2]]}
  BY <1>1
<1>3. \A x \in pairs : /\ Data!Task(x, {home[x[2]]}).key = x[2]
                       /\ Data!Task(x, {home[x[2]]}).dsts = dsts[x[2]]
  BY <1>2 DEF Data!Task
<1>4. AreTasks(tasks, pairs, dsts)
  BY <1>3 DEF AreTasks, AreHomeTasks
<1>5. dsts[k] = {home[k]}
  BY <1>1
<1>6. k \in Data!Copied(has, up, tasks)[b] <=>
          k \in has[b] \/ (b \in up /\ b \in dsts[k] /\ \E a : <<a, k>> \in pairs)
  BY <1>4, TasksBring
<1> QED
  BY <1>5, <1>6

LEMMA RebalanceIs ==
    ASSUME NEW has, NEW up, NEW ring, NEW c, NEW b \in DOMAIN has, NEW k
    PROVE  k \in Data!Rebalance(has, up, ring, c)[b] <=>
               \/ k \in has[b]
               \/ /\ b \in up /\ b = ring[c][k]
                  /\ \E a \in up : a[1] = c /\ k \in has[a] /\ a # b
<1>1. PICK pairs : pairs = {x \in Data!Listed(has, up, c) : ring[c][x[2]] # x[1]}
  OBVIOUS
<1>2. \A x \in pairs : x = <<x[1], x[2]>>
  BY <1>1, ListedIs
<1>3. PICK home : home = ring[c]
  OBVIOUS
<1>4. PICK tasks : tasks = {Data!Task(x, {home[x[2]]}) : x \in pairs}
  OBVIOUS
<1>5. Data!Rebalance(has, up, ring, c) = Data!Copied(has, up, tasks)
  BY <1>1, <1>3, <1>4 DEF Data!Rebalance
<1>6. AreHomeTasks(tasks, pairs, home)
  BY <1>2, <1>4 DEF AreHomeTasks
<1>7. k \in Data!Copied(has, up, tasks)[b] <=>
          k \in has[b] \/ (b \in up /\ b = home[k] /\ \E a : <<a, k>> \in pairs)
  BY <1>6, HomeTasksBring
<1>8. (b = home[k] /\ \E a : <<a, k>> \in pairs) <=>
         b = ring[c][k] /\ \E a \in up : a[1] = c /\ k \in has[a] /\ a # b
  <2>1. \A a : <<a, k>> \in pairs <=>
                   <<a, k>> \in Data!Listed(has, up, c) /\ ring[c][k] # a
    BY <1>1
  <2>2. \A a : <<a, k>> \in Data!Listed(has, up, c) <=> a \in up /\ a[1] = c /\ k \in has[a]
    BY ListedIs
  <2> QED
    BY <1>3, <2>1, <2>2
<1> QED
  BY <1>5, <1>7, <1>8

\* Rebalancing and cleaning up a circle leaves each of its keys where it belongs
\* (transfer/transfer.go runRebalance and runCleanup), for any backends, keys, rings
\* and outages: what is dropped away from home is there at the home, if that was up,
\* and a backend that is not gone through keeps what it has.
THEOREM CleanupIsSafeCorrect ==
    ASSUME NEW has, NEW up, NEW ring, Data!IsPlacement(has, up, ring)
    PROVE  Data!CleanupIsSafe(has, up, ring)
<1> SUFFICES ASSUME NEW c \in DOMAIN ring, NEW b \in DOMAIN has,
                    NEW visited \in SUBSET DOMAIN has
             PROVE  LET brought == {k \in Data!Seen(has, up, c) : ring[c][k] = b /\ b \in up}
                    IN  Data!Cleanup(Data!Rebalance(has, up, ring, c), visited, ring, c)[b] =
                            IF b[1] # c THEN has[b]
                            ELSE IF b \in visited
                                 THEN {k \in has[b] : ring[c][k] = b} \cup brought
                                 ELSE has[b] \cup brought
  BY DEF Data!CleanupIsSafe
<1> DEFINE brought == {k \in Data!Seen(has, up, c) : ring[c][k] = b /\ b \in up}
<1>1. PICK h : h = Data!Rebalance(has, up, ring, c)
  OBVIOUS
<1>2. DOMAIN h = DOMAIN has
  BY <1>1 DEF Data!Rebalance, Data!Copied
<1>3. PICK r : r = Data!Cleanup(h, visited, ring, c)
  OBVIOUS
<1>4. r[b] = IF b[1] = c /\ b \in visited THEN {k \in h[b] : ring[c][k] = b} ELSE h[b]
  BY <1>2, <1>3 DEF Data!Cleanup
<1>5. \A k : k \in h[b] <=>
               \/ k \in has[b]
               \/ /\ b \in up /\ b = ring[c][k]
                  /\ \E a \in up : a[1] = c /\ k \in has[a] /\ a # b
  BY <1>1, RebalanceIs
<1>6. \A k : k \in brought <=> /\ b \in up /\ b = ring[c][k]
                               /\ \E a \in up : a[1] = c /\ k \in has[a]
  BY SeenIs
<1> HIDE DEF brought
<1>7. \A k : k \in h[b] <=> k \in has[b] \/ k \in brought
  BY <1>5, <1>6
<1>8. CASE b[1] # c
  <2>1. ASSUME NEW k \in brought PROVE FALSE
    <3>1. PICK a \in up : b = ring[c][k] /\ a[1] = c /\ k \in has[a]
      BY <1>6, <2>1
    <3> QED
      BY <1>8, <3>1 DEF Data!IsPlacement
  <2>2. PICK s : s = h[b]
    OBVIOUS
  <2>3. \A k : k \in s <=> k \in has[b]
    BY <1>7, <2>1, <2>2
  <2>4. s = has[b]
    BY <2>3
  <2>5. r[b] = has[b]
    BY <1>4, <1>8, <2>2, <2>4
  <2> QED
    BY <1>1, <1>3, <1>8, <2>5
<1>9. CASE b[1] = c
  <2>1. PICK s, t : s = h[b] /\ t = has[b] \cup brought
    OBVIOUS
  <2>2. \A k : k \in s <=> k \in t
    BY <1>7, <2>1
  <2>3. s = t
    BY <2>2
  <2>4. PICK u, v : /\ u = {k \in t : ring[c][k] = b}
                    /\ v = {k \in has[b] : ring[c][k] = b} \cup brought
    OBVIOUS
  <2>5. \A k : k \in u <=> k \in v
    BY <1>6, <2>1, <2>4
  <2>6. u = v
    BY <2>5
  <2>7. r[b] = IF b \in visited THEN v ELSE t
    BY <1>4, <1>9, <2>1, <2>3, <2>4, <2>6
  <2>8. v = {k \in has[b] : ring[c][k] = b} \cup brought /\ t = has[b] \cup brought
    BY <2>1, <2>4
  <2>9. r[b] = IF b[1] # c THEN has[b]
               ELSE IF b \in visited THEN {k \in has[b] : ring[c][k] = b} \cup brought
               ELSE has[b] \cup brought
    BY <1>9, <2>7, <2>8
  <2> QED
    BY <1>1, <1>3, <2>9 DEF brought
<1> QED
  BY <1>8, <1>9 DEF brought

LEMMA RecoveryIs ==
    ASSUME NEW has, NEW up, NEW ring, NEW from, NEW to, NEW given, NEW b \in DOMAIN has, NEW k
    PROVE  k \in Data!Recovery(has, up, ring, from, to, given)[b] <=>
               \/ k \in has[b]
               \/ /\ b \in up /\ b = ring[to][k]
                  /\ given = {} \/ b \in given
                  /\ \E a \in up : a[1] = from /\ k \in has[a]
<1>1. PICK pairs : pairs = {x \in Data!Listed(has, up, from) :
                               given = {} \/ ring[to][x[2]] \in given}
  OBVIOUS
<1>2. \A x \in pairs : x = <<x[1], x[2]>>
  BY <1>1, ListedIs
<1>3. PICK home : home = ring[to]
  OBVIOUS
<1>4. PICK tasks : tasks = {Data!Task(x, {home[x[2]]}) : x \in pairs}
  OBVIOUS
<1>5. Data!Recovery(has, up, ring, from, to, given) = Data!Copied(has, up, tasks)
  BY <1>1, <1>3, <1>4 DEF Data!Recovery
<1>6. AreHomeTasks(tasks, pairs, home)
  BY <1>2, <1>4 DEF AreHomeTasks
<1>7. k \in Data!Copied(has, up, tasks)[b] <=>
          k \in has[b] \/ (b \in up /\ b = home[k] /\ \E a : <<a, k>> \in pairs)
  BY <1>6, HomeTasksBring
<1>8. (b = home[k] /\ \E a : <<a, k>> \in pairs) <=>
         /\ b = ring[to][k]
         /\ given = {} \/ b \in given
         /\ \E a \in up : a[1] = from /\ k \in has[a]
  <2>1. \A a : <<a, k>> \in pairs <=>
                   /\ <<a, k>> \in Data!Listed(has, up, from)
                   /\ given = {} \/ ring[to][k] \in given
    BY <1>1
  <2>2. \A a : <<a, k>> \in Data!Listed(has, up, from) <=> a \in up /\ a[1] = from /\ k \in has[a]
    BY ListedIs
  <2> QED
    BY <1>3, <2>1, <2>2
<1> QED
  BY <1>5, <1>7, <1>8

\* A recovery brings the given backends all that was seen in the other circle and
\* belongs to them (transfer/transfer.go runRecovery), and no backend anything else.
THEOREM RecoveryIsWholeCorrect ==
    ASSUME NEW has, NEW up, NEW ring
    PROVE  Data!RecoveryIsWhole(has, up, ring)
<1> SUFFICES ASSUME NEW from \in DOMAIN ring, NEW to \in DOMAIN ring,
                    NEW given \in SUBSET DOMAIN has, NEW b \in DOMAIN has
             PROVE  Data!Recovery(has, up, ring, from, to, given)[b] =
                        has[b] \cup {k \in Data!Seen(has, up, from) :
                                        /\ ring[to][k] = b /\ b \in up
                                        /\ given = {} \/ b \in given}
  BY DEF Data!RecoveryIsWhole
<1>1. PICK r : r = Data!Recovery(has, up, ring, from, to, given)[b]
  OBVIOUS
<1>2. \A k : k \in Data!Seen(has, up, from) <=> \E a \in up : a[1] = from /\ k \in has[a]
  BY SeenIs
<1>3. \A k : k \in r <=> \/ k \in has[b]
                        \/ /\ b \in up /\ b = ring[to][k]
                           /\ given = {} \/ b \in given
                           /\ \E a \in up : a[1] = from /\ k \in has[a]
  BY <1>1, RecoveryIs
<1>4. \A k : k \in r <=> k \in has[b] \/ k \in {j \in Data!Seen(has, up, from) :
                                        /\ ring[to][j] = b /\ b \in up
                                        /\ given = {} \/ b \in given}
  BY <1>2, <1>3
<1>5. PICK T : T = {j \in Data!Seen(has, up, from) : /\ ring[to][j] = b /\ b \in up
                                                     /\ given = {} \/ b \in given}
  OBVIOUS
<1>6. r = has[b] \cup T
  BY <1>4, <1>5
<1> QED
  BY <1>1, <1>5, <1>6

LEMMA ResyncFromIs ==
    ASSUME NEW has, NEW up, NEW ring, NEW c, NEW b \in DOMAIN has, NEW k
    PROVE  k \in Data!ResyncFrom(has, up, ring, c)[b] <=>
               \/ k \in has[b]
               \/ /\ b \in up
                  /\ \E d \in DOMAIN ring \ {c} : b = ring[d][k]
                  /\ \E a \in up : a[1] = c /\ k \in has[a]
<1>1. PICK pairs : pairs = Data!Listed(has, up, c)
  OBVIOUS
<1>2. \A x \in pairs : x = <<x[1], x[2]>>
  BY <1>1, ListedIs
<1>3. PICK dsts : dsts = [j \in {x[2] : x \in pairs} \cup {k} |-> {ring[d][j] : d \in DOMAIN ring \ {c}}]
  OBVIOUS
<1>4. PICK tasks : tasks = {Data!Task(x, {ring[d][x[2]] : d \in DOMAIN ring \ {c}}) : x \in pairs}
  OBVIOUS
<1>5. Data!ResyncFrom(has, up, ring, c) = Data!Copied(has, up, tasks)
  BY <1>1, <1>4 DEF Data!ResyncFrom
<1>6. AreTasks(tasks, pairs, dsts)
  <2>1. \A x \in pairs : dsts[x[2]] = {ring[d][x[2]] : d \in DOMAIN ring \ {c}}
    BY <1>3
  <2>2. \A x, e : Data!Task(x, e).key = x[2] /\ Data!Task(x, e).dsts = e
    BY DEF Data!Task
  <2>3. \A t \in tasks : \E x \in pairs : t = Data!Task(x, dsts[x[2]])
    BY <1>4, <2>1
  <2>4. \A x \in pairs : Data!Task(x, dsts[x[2]]) \in tasks
    BY <1>4, <2>1
  <2> QED
    BY <1>2, <2>2, <2>3, <2>4 DEF AreTasks
<1>7. k \in Data!Copied(has, up, tasks)[b] <=>
          k \in has[b] \/ (b \in up /\ b \in dsts[k] /\ \E a : <<a, k>> \in pairs)
  BY <1>6, TasksBring
<1>8. b \in dsts[k] <=> \E d \in DOMAIN ring \ {c} : b = ring[d][k]
  BY <1>3
<1>9. \A a : <<a, k>> \in pairs <=> a \in up /\ a[1] = c /\ k \in has[a]
  BY <1>1, ListedIs
<1> QED
  BY <1>5, <1>7, <1>8, <1>9

-----------------------------------------------------------------------------
(* A resync, turn by turn.                                                  *)

\* f[c] is what the backends have after the turns of the first c circles.
AfterTurn(f, has, up, ring, c) == IF c = 0 THEN has ELSE Data!ResyncFrom(f[c - 1], up, ring, c)
Turns(f, has, up, ring, n) == f = [c \in 0..n |-> AfterTurn(f, has, up, ring, c)]

LEMMA TurnIs ==
    ASSUME NEW f, NEW has, NEW up, NEW ring, NEW n, Turns(f, has, up, ring, n), NEW c \in 0..n
    PROVE  f[c] = AfterTurn(f, has, up, ring, c)
  BY DEF Turns

LEMMA TurnsExist ==
    ASSUME NEW has, NEW up, NEW ring, NEW n \in Nat
    PROVE  \E f : Turns(f, has, up, ring, n)
<1> DEFINE P(m) == \E f : Turns(f, has, up, ring, m)
           S == {m \in Nat : ~P(m)}
<1> SUFFICES ASSUME S # {} PROVE FALSE
  OBVIOUS
<1>1. PICK m \in S : \A k \in S : m <= k
  BY Least
<1>2. m # 0
  <2>1. Turns([c \in 0..0 |-> has], has, up, ring, 0)
    BY DEF Turns, AfterTurn
  <2> QED
    BY <2>1, Zenon
<1>3. m \in Nat \ {0} /\ m - 1 \in Nat /\ m - 1 \notin S
  <2> HIDE DEF P
  <2> QED
    BY <1>1, <1>2
<1>4. PICK f : Turns(f, has, up, ring, m - 1)
  <2>1. P(m - 1)
    BY <1>3
  <2> QED
    BY <2>1
<1> DEFINE g == [c \in 0..m |-> IF c < m THEN f[c] ELSE Data!ResyncFrom(f[m - 1], up, ring, m)]
<1>5. \A c \in 0..m : g[c] = IF c = 0 THEN has ELSE Data!ResyncFrom(g[c - 1], up, ring, c)
  <2> TAKE c \in 0..m
  <2>1. CASE c < m
    <3>1. PICK k : k = m - 1
      OBVIOUS
    <3>2. Turns(f, has, up, ring, k) /\ c \in 0..k
      BY <1>3, <1>4, <2>1, <3>1
    <3>3. f[c] = AfterTurn(f, has, up, ring, c)
      BY <3>2, TurnIs
    <3>4. f[c] = IF c = 0 THEN has ELSE Data!ResyncFrom(f[c - 1], up, ring, c)
      BY <3>3 DEF AfterTurn
    <3> QED
      BY <1>3, <2>1, <3>4
  <2>2. CASE c = m
    BY <1>3, <2>2
  <2> QED
    BY <1>3, <2>1, <2>2
<1>6. Turns(g, has, up, ring, m)
  BY <1>5 DEF Turns, AfterTurn
<1> QED
  BY <1>1, <1>6

LEMMA ResyncIs ==
    ASSUME NEW has, NEW up, NEW ring, Len(ring) \in Nat
    PROVE  \E f : Turns(f, has, up, ring, Len(ring)) /\ Data!Resync(has, up, ring) = f[Len(ring)]
<1>1. \E f : Turns(f, has, up, ring, Len(ring))
  BY TurnsExist
<1> QED
  BY <1>1 DEF Data!Resync, Turns, AfterTurn

\* What each turn adds to the one before it.
LEMMA TurnAdds ==
    ASSUME NEW f, NEW has, NEW up, NEW ring, NEW n \in Nat, Turns(f, has, up, ring, n),
           NEW c \in 1..n, DOMAIN f[c - 1] = DOMAIN has
    PROVE  /\ DOMAIN f[c] = DOMAIN has
           /\ \A b \in DOMAIN has : \A k :
                 k \in f[c][b] <=>
                     \/ k \in f[c - 1][b]
                     \/ /\ b \in up
                        /\ \E d \in DOMAIN ring \ {c} : b = ring[d][k]
                        /\ \E a \in up : a[1] = c /\ k \in f[c - 1][a]
<1>1. PICK h : h = f[c - 1]
  OBVIOUS
<1>2. f[c] = Data!ResyncFrom(h, up, ring, c)
  <2>1. f[c] = AfterTurn(f, has, up, ring, c)
    BY TurnIs
  <2> QED
    BY <1>1, <2>1 DEF AfterTurn
<1>3. DOMAIN f[c] = DOMAIN h
  BY <1>2 DEF Data!ResyncFrom, Data!Copied
<1> QED
  BY <1>1, <1>2, <1>3, ResyncFromIs

\* After c turns every backend has what it had, and besides only keys it is home to
\* and that some backend that is up had.
TurnSound(f, has, up, ring, c) ==
    /\ DOMAIN f[c] = DOMAIN has
    /\ \A b \in DOMAIN has :
          /\ has[b] \subseteq f[c][b]
          /\ \A k \in f[c][b] \ has[b] : /\ b \in up /\ b = ring[b[1]][k]
                                         /\ \E a \in up : k \in has[a]

LEMMA TurnsSound ==
    ASSUME NEW f, NEW has, NEW up, NEW ring, NEW n \in Nat, Turns(f, has, up, ring, n),
           Data!IsPlacement(has, up, ring), NEW c \in 0..n
    PROVE  TurnSound(f, has, up, ring, c)
<1> DEFINE S == {m \in 0..n : ~TurnSound(f, has, up, ring, m)}
<1> SUFFICES ASSUME S # {} PROVE FALSE
  OBVIOUS
<1>1. PICK m \in S : \A k \in S : m <= k
  <2>1. S \in SUBSET Nat
    OBVIOUS
  <2> QED
    BY <2>1, Least
<1>2. m # 0
  <2>1. f[0] = has
    <3>1. f[0] = AfterTurn(f, has, up, ring, 0)
      BY TurnIs
    <3> QED
      BY <3>1 DEF AfterTurn
  <2> QED
    BY <1>1, <2>1 DEF TurnSound
<1>3. m \in 1..n /\ m - 1 \in 0..n /\ m - 1 \notin S
  BY <1>1, <1>2
<1>4. TurnSound(f, has, up, ring, m - 1)
  BY <1>3
<1>5. PICK old, new : old = f[m - 1] /\ new = f[m]
  OBVIOUS
<1>6. /\ DOMAIN old = DOMAIN has
      /\ \A b \in DOMAIN has :
            /\ has[b] \subseteq old[b]
            /\ \A k \in old[b] \ has[b] : /\ b \in up /\ b = ring[b[1]][k]
                                          /\ \E a \in up : k \in has[a]
  BY <1>4, <1>5 DEF TurnSound
<1>7. /\ DOMAIN new = DOMAIN has
      /\ \A b \in DOMAIN has : \A k :
            k \in new[b] <=>
                \/ k \in old[b]
                \/ /\ b \in up
                   /\ \E d \in DOMAIN ring \ {m} : b = ring[d][k]
                   /\ \E a \in up : a[1] = m /\ k \in old[a]
  BY <1>3, <1>5, <1>6, TurnAdds
<1>8. up \subseteq DOMAIN has
  BY DEF Data!IsPlacement
<1>9. ASSUME NEW b \in DOMAIN has, NEW k \in new[b], k \notin old[b]
      PROVE  b \in up /\ b = ring[b[1]][k] /\ \E a \in up : k \in has[a]
  <2>1. PICK d \in DOMAIN ring : b \in up /\ b = ring[d][k]
    BY <1>7, <1>9
  <2>2. PICK a \in up : k \in old[a]
    BY <1>7, <1>9
  <2>3. PICK e \in up : k \in has[e]
    BY <1>6, <1>8, <2>2
  <2>4. ring[d][k][1] = d
    BY <1>8, <2>3 DEF Data!IsPlacement
  <2> QED
    BY <2>1, <2>3, <2>4
<1>10. TurnSound(f, has, up, ring, m)
  BY <1>5, <1>6, <1>7, <1>9 DEF TurnSound
<1> QED
  BY <1>1, <1>10

\* No turn takes anything away.
LEMMA TurnsGrow ==
    ASSUME NEW f, NEW has, NEW up, NEW ring, NEW n \in Nat, Turns(f, has, up, ring, n),
           Data!IsPlacement(has, up, ring),
           NEW c \in 0..n, NEW d \in c..n, NEW b \in DOMAIN has
    PROVE  f[c][b] \subseteq f[d][b]
<1> DEFINE S == {m \in c..n : ~(f[c][b] \subseteq f[m][b])}
<1> SUFFICES ASSUME S # {} PROVE FALSE
  OBVIOUS
<1>1. PICK m \in S : \A k \in S : m <= k
  <2>1. S \in SUBSET Nat
    OBVIOUS
  <2> QED
    BY <2>1, Least
<1>2. m # c
  BY <1>1
<1>3. m \in 1..n /\ m - 1 \in c..n /\ m - 1 \in 0..n /\ m - 1 \notin S
  BY <1>1, <1>2
<1>4. PICK old, new : old = f[m - 1] /\ new = f[m]
  OBVIOUS
<1>5. f[c][b] \subseteq old[b]
  BY <1>3, <1>4
<1>6. DOMAIN f[m - 1] = DOMAIN has
  BY <1>3, TurnsSound DEF TurnSound
<1>7. old[b] \subseteq new[b]
  BY <1>3, <1>4, <1>6, TurnAdds
<1> QED
  BY <1>1, <1>4, <1>5, <1>7

\* After a resync (transfer/transfer.go Resync and runResync) every circle answers for
\* all that was seen in the others, and for its own once a circle behind it had it,
\* for any number of circles and whatever is down: nothing is lost, and nothing comes
\* anywhere but to its home.
THEOREM ResyncIsWholeCorrect ==
    ASSUME NEW has, NEW up, NEW ring, Data!IsPlacement(has, up, ring)
    PROVE  Data!ResyncIsWhole(has, up, ring)
<1>1. PICK n : n = Len(ring)
  OBVIOUS
<1>2. n \in Nat /\ DOMAIN ring = 1..n /\ up \subseteq DOMAIN has
  BY <1>1 DEF Data!IsPlacement
<1>3. PICK f : Turns(f, has, up, ring, n) /\ Data!Resync(has, up, ring) = f[n]
  BY <1>1, <1>2, ResyncIs
<1>4. \A c \in 0..n : TurnSound(f, has, up, ring, c)
  BY <1>2, <1>3, TurnsSound
<1>5. \A c \in 0..n : \A d \in c..n : \A b \in DOMAIN has : f[c][b] \subseteq f[d][b]
  BY <1>2, <1>3, TurnsGrow
<1>6. f[0] = has
  <2>1. f[0] = AfterTurn(f, has, up, ring, 0)
    BY <1>2, <1>3, TurnIs
  <2> QED
    BY <2>1 DEF AfterTurn
<1>7. \* What a backend that is up has when its circle's turn comes, the others get.
      ASSUME NEW c \in 1..n, NEW d \in 1..n, c # d, NEW a \in up, a[1] = c,
             NEW k, k \in f[c - 1][a], ring[d][k] \in up
      PROVE  k \in f[c][ring[d][k]]
  <2>1. PICK b : b = ring[d][k]
    OBVIOUS
  <2>2. b \in DOMAIN has /\ b \in up
    BY <1>2, <1>7, <2>1
  <2>3. c - 1 \in 0..n
    BY <1>2
  <2>4. DOMAIN f[c - 1] = DOMAIN has
    BY <1>4, <2>3 DEF TurnSound
  <2>5. d \in DOMAIN ring \ {c}
    BY <1>2, <1>7
  <2>6. k \in f[c][b]
    BY <1>2, <1>3, <1>7, <2>1, <2>2, <2>4, <2>5, TurnAdds
  <2> QED
    BY <2>1, <2>6
<1>8. ASSUME NEW c \in 1..n, NEW d \in 1..n, NEW k \in Data!Seen(has, up, c),
             c # d, ring[d][k] \in up
      PROVE  /\ k \in f[n][ring[d][k]]
             /\ c < d /\ ring[c][k] \in up => k \in f[n][ring[c][k]]
  <2>1. PICK a \in up : a[1] = c /\ k \in has[a]
    BY SeenIs
  <2>2. PICK b, h : b = ring[d][k] /\ h = ring[c][k]
    OBVIOUS
  <2>3. b \in DOMAIN has /\ a \in DOMAIN has /\ ring[d][k][1] = d
    BY <1>2, <1>8, <2>1, <2>2 DEF Data!IsPlacement
  <2>4. 0 \in 0..n /\ c - 1 \in 0..n /\ c \in 0..n /\ n \in c..n
    BY <1>2
  <2>5. k \in f[c - 1][a]
    <3>1. c - 1 \in 0..n /\ 0 \in 0..n
      BY <1>2
    <3>2. has[a] \subseteq f[c - 1][a]
      BY <1>4, <2>3, <3>1 DEF TurnSound
    <3> QED
      BY <2>1, <3>2
  <2>6. k \in f[c][b]
    BY <1>7, <1>8, <2>1, <2>2, <2>5
  <2>7. k \in f[n][b]
    BY <1>5, <2>3, <2>4, <2>6
  <2>8. ASSUME c < d, h \in up PROVE k \in f[n][h]
    <3>1. d - 1 \in c..n /\ d \in 0..n /\ n \in d..n
      BY <1>2, <2>8
    <3>2. k \in f[d - 1][b]
      BY <1>5, <2>3, <2>4, <2>6, <3>1
    <3>3. k \in f[d][h]
      BY <1>7, <1>8, <2>2, <2>3, <2>8, <3>2
    <3>4. h \in DOMAIN has
      BY <1>2, <2>8
    <3> QED
      BY <1>5, <3>1, <3>3, <3>4
  <2> QED
    BY <2>2, <2>7, <2>8
<1>9. ASSUME NEW b \in DOMAIN has
      PROVE  /\ has[b] \subseteq f[n][b]
             /\ \A k \in f[n][b] \ has[b] :
                   /\ b \in up /\ b = ring[b[1]][k]
                   /\ \E c \in DOMAIN ring : k \in Data!Seen(has, up, c)
  <2>1. n \in 0..n
    BY <1>2
  <2>2. TurnSound(f, has, up, ring, n)
    BY <1>4, <2>1
  <2>3. ASSUME NEW k, NEW a \in up, k \in has[a]
        PROVE  \E c \in DOMAIN ring : k \in Data!Seen(has, up, c)
    <3>1. a[1] \in DOMAIN ring
      BY <1>2 DEF Data!IsPlacement
    <3> QED
      BY <2>3, <3>1, SeenIs
  <2> QED
    BY <2>2, <2>3 DEF TurnSound
<1> QED
  BY <1>2, <1>3, <1>8, <1>9 DEF Data!ResyncIsWhole

=============================================================================
