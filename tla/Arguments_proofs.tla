---------------------------- MODULE Arguments_proofs ----------------------------
(***************************************************************************)
(* Theorems about the two loops that cut strings into words, for strings   *)
(* of any length: what they have in args and current after n characters    *)
(* are the words of the first n characters, as Words has them.             *)
(***************************************************************************)
EXTENDS Arguments, Ranks_proofs

-----------------------------------------------------------------------------
(* Strings and their quotes.                                               *)

Characters == Said \union Configured

IsString(x) ==
  /\ x.text \in Seq(Characters)
  /\ x.loop \in {"message", "parameters"}
  /\ x.network \in {<<>>, <<Network>>}

LEMMA CharactersAre ==
  ASSUME NEW x, IsString(x)
  PROVE  /\ Len(x.text) \in Nat
         /\ \A i \in 1 .. Len(x.text) : x.text[i] \in Characters /\ x.text[i] # None
BY CharacterAssumption DEF IsString, Characters

\* The quote that is open after the i-th character if q was before it.
NextQuote(x, i, q) ==
  IF q = None /\ x.text[i] \in Marks(x) /\ ~Escaped(x, i) THEN x.text[i]
  ELSE IF q = x.text[i] /\ ~Escaped(x, i) THEN None
  ELSE q

WithinTo(x, n, q) == q = [i \in 0 .. n |-> IF i = 0 THEN None ELSE NextQuote(x, i, q[i - 1])]

LEMMA WithinExists ==
  ASSUME NEW x, NEW n \in Nat PROVE \E q : WithinTo(x, n, q)
<1> DEFINE T == {m \in Nat : ~\E q : WithinTo(x, m, q)}
<1>1. SUFFICES ASSUME T # {} PROVE FALSE
      OBVIOUS
<1>2. PICK m \in T : \A k \in T : m <= k
      BY <1>1, LeastOf
<1>3. m # 0
  <2>1. WithinTo(x, 0, [i \in 0 .. 0 |-> None])
        BY DEF WithinTo
  <2> QED BY <2>1
<1>4. PICK p \in Nat : p + 1 = m
      BY <1>3
<1>5. PICK q : WithinTo(x, p, q)
      BY <1>2, <1>4
<1> DEFINE r == [i \in 0 .. m |-> IF i = m THEN NextQuote(x, m, q[p]) ELSE q[i]]
<1>6. WithinTo(x, m, r)
  <2>1. ASSUME NEW i \in 0 .. m
        PROVE  r[i] = IF i = 0 THEN None ELSE NextQuote(x, i, r[i - 1])
    <3>1. CASE i = 0
          BY <1>3, <1>5, <3>1 DEF WithinTo
    <3>2. CASE i = m
      <4>1. i - 1 = p /\ p \in 0 .. m /\ p # m
            BY <1>4, <3>2
      <4>2. r[i - 1] = q[p]
            BY <4>1
      <4> QED BY <1>3, <3>2, <4>2
    <3>3. CASE i # 0 /\ i # m
      <4>1. i \in 0 .. p /\ i - 1 \in 0 .. m /\ i - 1 # m /\ i - 1 \in 0 .. p
            BY <1>4, <3>3
      <4>2. r[i] = q[i] /\ r[i - 1] = q[i - 1]
            BY <3>3, <4>1
      <4>3. q[i] = NextQuote(x, i, q[i - 1])
            BY <1>5, <3>3, <4>1 DEF WithinTo
      <4> QED BY <3>3, <4>2, <4>3
    <3> QED BY <3>1, <3>2, <3>3
  <2>2. r = [i \in 0 .. m |-> r[i]]
        OBVIOUS
  <2> HIDE DEF r
  <2> QED BY <2>1, <2>2 DEF WithinTo
<1> QED BY <1>2, <1>6

LEMMA WithinIsTo ==
  ASSUME NEW x, Len(x.text) \in Nat PROVE WithinTo(x, Len(x.text), Within(x))
<1>1. \E q : WithinTo(x, Len(x.text), q)
      BY WithinExists
<1>2. Within(x) = CHOOSE q : WithinTo(x, Len(x.text), q)
      BY DEF Within, WithinTo, NextQuote
<1> QED BY <1>1, <1>2

LEMMA WithinSteps ==
  ASSUME NEW x, IsString(x)
  PROVE  /\ Within(x)[0] = None
         /\ \A i \in 1 .. Len(x.text) : Within(x)[i] = NextQuote(x, i, Within(x)[i - 1])
<1>1. Len(x.text) \in Nat
      BY CharactersAre
<1>2. WithinTo(x, Len(x.text), Within(x))
      BY <1>1, WithinIsTo
<1>3. \A i \in 1 .. Len(x.text) : i \in 0 .. Len(x.text) /\ i # 0
      OBVIOUS
<1>4. 0 \in 0 .. Len(x.text)
      BY <1>1
<1> QED BY <1>2, <1>3, <1>4 DEF WithinTo

LEMMA EscapedFirst == ASSUME NEW x PROVE ~Escaped(x, 1)
<1>1. {j \in 1 .. 1 - 1 : \A k \in j .. 1 - 1 : x.text[k] = Backslash} = {}
      OBVIOUS
<1>2. Cardinality({}) = 0
      BY FS_EmptySet
<1>3. 0 % 2 # 1
      OBVIOUS
<1> QED BY <1>1, <1>2, <1>3 DEF Escaped

LEMMA Parity == \A n \in Nat : (n + 1) % 2 = 1 <=> ~(n % 2 = 1)
OBVIOUS

LEMMA EscapedNext ==
  ASSUME NEW x, IsString(x), NEW i \in 1 .. Len(x.text)
  PROVE  Escaped(x, i + 1) <=> x.text[i] = Backslash /\ ~Escaped(x, i)
<1> DEFINE Run(n) == {j \in 1 .. n - 1 : \A k \in j .. n - 1 : x.text[k] = Backslash}
<1>1. \A n : Escaped(x, n) <=> Cardinality(Run(n)) % 2 = 1
      BY DEF Escaped
<1>2. i \in Nat /\ (i + 1) - 1 = i /\ i \in 1 .. i
      OBVIOUS
<1>3. CASE x.text[i] # Backslash
  <2>1. \A j \in 1 .. i : i \in j .. i
        OBVIOUS
  <2>2. Run(i + 1) = {}
        BY <1>2, <1>3, <2>1
  <2>3. Cardinality({}) = 0
        BY FS_EmptySet
  <2>4. 0 % 2 # 1
        OBVIOUS
  <2> QED BY <1>1, <1>3, <2>2, <2>3, <2>4
<1>4. CASE x.text[i] = Backslash
  <2>1. \A j \in 1 .. i : j = i \/ j \in 1 .. i - 1
        OBVIOUS
  <2>2. \A j \in 1 .. i - 1 : \A k \in j .. i : k = i \/ k \in j .. i - 1
        OBVIOUS
  <2>3. \A k \in i .. i : k = i
        OBVIOUS
  <2>4. \A j \in 1 .. i - 1 : j \in 1 .. i /\ \A k \in j .. i - 1 : k \in j .. i
        OBVIOUS
  <2>5. {j \in 1 .. i : \A k \in j .. i : x.text[k] = Backslash} = Run(i) \union {i}
        BY <1>2, <1>4, <2>1, <2>2, <2>3, <2>4
  <2>6. Run(i + 1) = Run(i) \union {i}
        BY <1>2, <2>5
  <2>7. IsFiniteSet(Run(i)) /\ i \notin Run(i)
    <3>1. IsFiniteSet(1 .. i - 1) /\ Run(i) \subseteq 1 .. i - 1 /\ i \notin 1 .. i - 1
          BY FS_Interval
    <3> HIDE DEF Run
    <3> QED BY <3>1, FS_Subset
  <2> HIDE DEF Run
  <2>8. /\ Cardinality(Run(i)) \in Nat
        /\ Cardinality(Run(i) \union {i}) = Cardinality(Run(i)) + 1
        BY <2>7, FS_CardinalityType, FS_AddElement
  <2>9. (Cardinality(Run(i)) + 1) % 2 = 1 <=> ~(Cardinality(Run(i)) % 2 = 1)
        BY <2>8, Parity
  <2> QED BY <1>1, <1>4, <2>6, <2>8, <2>9
<1> QED BY <1>3, <1>4

-----------------------------------------------------------------------------
(* What a stretch of a string spells.                                      *)

Symbols == Characters \union {Socket, Network}

LEMMA MeaningShape ==
  ASSUME NEW x, IsString(x), NEW i \in 1 .. Len(x.text)
  PROVE  Meaning(x, i) = <<>> \/ \E c \in Symbols : Meaning(x, i) = <<c>>
<1>1. x.text[i] \in Symbols /\ Socket \in Symbols /\ Network \in Symbols
      BY CharactersAre DEF Symbols
<1>2. IsReplaced(x, i) => Replacing(x, i) = <<>> \/ \E c \in Symbols : Replacing(x, i) = <<c>>
      BY <1>1 DEF Replacing, IsString
<1> QED BY <1>1, <1>2 DEF Meaning

Letters(x, S) == {i \in S : Meaning(x, i) # <<>>}

LEMMA SpelledIs ==
  ASSUME NEW x, NEW S
  PROVE  Spelled(x, S) = [n \in 1 .. Cardinality(Letters(x, S)) |->
                            Meaning(x, InOrder(Letters(x, S))[n])[1]]
BY DEF Spelled, Letters

LEMMA LettersFinite ==
  ASSUME NEW x, NEW S \in SUBSET (1 .. Len(x.text)), Len(x.text) \in Nat
  PROVE  /\ IsFiniteSet(S) /\ S \in SUBSET Nat
         /\ IsFiniteSet(Letters(x, S)) /\ Letters(x, S) \in SUBSET Nat
         /\ Letters(x, S) \in SUBSET S
         /\ Cardinality(Letters(x, S)) \in Nat
<1>1. IsFiniteSet(1 .. Len(x.text)) /\ 1 .. Len(x.text) \subseteq Nat
  <2>1. 1 .. Len(x.text) \subseteq Nat
        OBVIOUS
  <2>2. IsFiniteSet(1 .. Len(x.text))
        BY FS_Interval
  <2> QED BY <2>1, <2>2
<1>2. Letters(x, S) \subseteq S
      BY DEF Letters
<1>3. IsFiniteSet(S)
      BY <1>1, FS_Subset
<1>4. IsFiniteSet(Letters(x, S))
      BY <1>2, <1>3, FS_Subset
<1>5. Cardinality(Letters(x, S)) \in Nat
      BY <1>4, FS_CardinalityType
<1> QED BY <1>1, <1>2, <1>3, <1>4, <1>5

LEMMA SpelledType ==
  ASSUME NEW x, IsString(x), NEW S \in SUBSET (1 .. Len(x.text))
  PROVE  /\ Spelled(x, S) \in [1 .. Cardinality(Letters(x, S)) -> Symbols]
         /\ Spelled(x, S) = <<>> <=> Letters(x, S) = {}
<1> DEFINE L == Letters(x, S)
<1>1. /\ IsFiniteSet(L) /\ L \in SUBSET Nat /\ L \in SUBSET S /\ Cardinality(L) \in Nat
      BY CharactersAre, LettersFinite
<1>2. ASSUME NEW n \in 1 .. Cardinality(L)
      PROVE  Meaning(x, InOrder(L)[n])[1] \in Symbols
  <2>1. InOrder(L)[n] \in L
        BY <1>1, InOrderMember
  <2>2. PICK i \in 1 .. Len(x.text) : i = InOrder(L)[n] /\ Meaning(x, i) # <<>>
        BY <1>1, <2>1 DEF Letters
  <2>3. PICK c \in Symbols : Meaning(x, i) = <<c>>
        BY <2>2, MeaningShape
  <2>4. <<c>>[1] = c
        OBVIOUS
  <2> QED BY <2>2, <2>3, <2>4
<1>3. Spelled(x, S) \in [1 .. Cardinality(L) -> Symbols]
      BY <1>2, SpelledIs
<1>4. Spelled(x, S) = <<>> <=> Cardinality(L) = 0
  <2>1. PICK f \in [1 .. Cardinality(L) -> Symbols] : f = Spelled(x, S)
        BY <1>3
  <2>2. f \in Seq(Symbols) /\ Len(f) = Cardinality(L)
        BY <1>1
  <2>3. f = <<>> <=> Len(f) = 0
        BY <2>2
  <2> QED BY <2>1, <2>2, <2>3
<1>5. Cardinality(L) = 0 <=> L = {}
      BY <1>1, FS_EmptySet
<1> QED BY <1>3, <1>4, <1>5

\* The next character adds what it means.
LEMMA SpelledNext ==
  ASSUME NEW x, IsString(x), NEW S \in SUBSET (1 .. Len(x.text)),
         NEW n \in 1 .. Len(x.text), \A i \in S : i < n
  PROVE  Spelled(x, S \union {n}) = Spelled(x, S) \o Meaning(x, n)
<1> DEFINE L == Letters(x, S) f == Spelled(x, S) c == Cardinality(L)
<1>1. /\ IsFiniteSet(L) /\ L \in SUBSET Nat /\ L \in SUBSET S /\ c \in Nat
      BY CharactersAre, LettersFinite
<1>2. f \in [1 .. c -> Symbols] /\ f \in Seq(Symbols)
  <2>1. f \in [1 .. c -> Symbols]
        BY SpelledType
  <2> QED BY <1>1, <2>1
<1>3. CASE Meaning(x, n) = <<>>
  <2>1. Letters(x, S \union {n}) = L
        BY <1>3 DEF Letters
  <2>2. Spelled(x, S \union {n}) = f
        BY <2>1, SpelledIs
  <2>3. f \o <<>> = f
        BY <1>2
  <2> QED BY <1>3, <2>2, <2>3
<1>4. ASSUME NEW y \in Symbols, Meaning(x, n) = <<y>>
      PROVE  Spelled(x, S \union {n}) = f \o Meaning(x, n)
  <2>1. <<y>> # <<>> /\ <<y>>[1] = y
        OBVIOUS
  <2>2. Letters(x, S \union {n}) = L \union {n}
        BY <1>4, <2>1 DEF Letters
  <2>3. \A i \in L : i < n
        BY <1>1
  <2>4. n \in Nat
        OBVIOUS
  <2>5. /\ DOMAIN InOrder(L \union {n}) = 1 .. c + 1
        /\ \A m \in 1 .. c : InOrder(L \union {n})[m] = InOrder(L)[m]
        /\ InOrder(L \union {n})[c + 1] = n
        BY <1>1, <2>3, <2>4, InOrderAdd
  <2>6. Cardinality(L \union {n}) = c + 1
    <3>1. n \notin L
          BY <1>1, <2>3, <2>4
    <3> QED BY <1>1, <3>1, FS_AddElement
  <2>7. Spelled(x, S \union {n}) =
          [m \in 1 .. c + 1 |-> Meaning(x, InOrder(L \union {n})[m])[1]]
        BY <2>2, <2>6, SpelledIs
  <2>8. f = [m \in 1 .. c |-> Meaning(x, InOrder(L)[m])[1]]
        BY SpelledIs
  <2> HIDE DEF L, f, c
  <2>9. ASSUME NEW m \in 1 .. c + 1
        PROVE  Meaning(x, InOrder(L \union {n})[m])[1] = IF m = c + 1 THEN y ELSE f[m]
    <3>1. CASE m = c + 1
          BY <1>4, <2>1, <2>5, <3>1
    <3>2. CASE m # c + 1
      <4>1. m \in 1 .. c
            BY <1>1, <3>2
      <4> QED BY <2>5, <2>8, <3>2, <4>1
    <3> QED BY <3>1, <3>2
  <2>10. Append(f, y) = [m \in 1 .. c + 1 |-> IF m = c + 1 THEN y ELSE f[m]]
         BY <1>1, <1>2, AppendIs
  <2>11. Append(f, y) = f \o <<y>>
         BY <1>2
  <2> QED BY <1>4, <2>7, <2>9, <2>10, <2>11
<1> QED BY <1>3, <1>4, MeaningShape

LEMMA SpelledNone == ASSUME NEW x PROVE Spelled(x, {}) = <<>>
<1>1. Letters(x, {}) = {}
      BY DEF Letters
<1>2. Cardinality({}) = 0
      BY FS_EmptySet
<1>3. 1 .. 0 = {}
      OBVIOUS
<1>4. Spelled(x, {}) = [n \in {} |-> Meaning(x, InOrder(Letters(x, {}))[n])[1]]
      BY <1>1, <1>2, <1>3, SpelledIs
<1> QED BY <1>4

-----------------------------------------------------------------------------
(* Words.                                                                  *)

LEMMA BreaksAre ==
  ASSUME NEW x, IsString(x)
  PROVE  /\ 0 \in Breaks(x) /\ Breaks(x) \in SUBSET Nat
         /\ \A b \in Breaks(x) : b <= Len(x.text)
         /\ \A i \in 1 .. Len(x.text) :
              i \in Breaks(x) <=> x.text[i] = Space /\ ~Escaped(x, i) /\ Within(x)[i - 1] = None
BY CharactersAre DEF Breaks

\* The words after the breaks of W.
WordsAt(x, W) == [n \in 1 .. Cardinality(W) |-> Spelled(x, Stretch(x, InOrder(W)[n]))]

LEMMA WordsNone == ASSUME NEW x PROVE WordsAt(x, {}) = <<>>
<1>1. Cardinality({}) = 0
      BY FS_EmptySet
<1>2. 1 .. 0 = {}
      OBVIOUS
<1>3. WordsAt(x, {}) = [n \in {} |-> Spelled(x, Stretch(x, InOrder({})[n]))]
      BY <1>1, <1>2 DEF WordsAt
<1> QED BY <1>3

LEMMA StretchIs ==
  ASSUME NEW x, IsString(x), NEW b \in Breaks(x), NEW n \in Nat, b <= n, n <= Len(x.text),
         \A j \in Breaks(x) : ~(b < j /\ j <= n),
         n = Len(x.text) \/ n + 1 \in Breaks(x)
  PROVE  Stretch(x, b) = b + 1 .. n
<1>1. /\ b \in Nat /\ Len(x.text) \in Nat /\ Breaks(x) \in SUBSET Nat
      /\ \A j \in Breaks(x) : j <= Len(x.text)
      BY BreaksAre, CharactersAre
<1>2. \A i \in b + 1 .. n : i \in b + 1 .. Len(x.text) /\ \A j \in Breaks(x) : j > b => i < j
      BY <1>1
<1>3. ASSUME NEW i \in b + 1 .. Len(x.text), \A j \in Breaks(x) : j > b => i < j
      PROVE  i \in b + 1 .. n
      BY <1>1, <1>3
<1> QED BY <1>2, <1>3 DEF Stretch

LEMMA StretchWithin ==
  ASSUME NEW x, NEW b \in Nat PROVE Stretch(x, b) \in SUBSET (1 .. Len(x.text))
<1>1. \A i \in b + 1 .. Len(x.text) : i \in 1 .. Len(x.text)
      OBVIOUS
<1> QED BY <1>1 DEF Stretch

LEMMA SpelledSeq ==
  ASSUME NEW x, IsString(x), NEW S \in SUBSET (1 .. Len(x.text))
  PROVE  Spelled(x, S) \in Seq(Symbols)
<1>1. Cardinality(Letters(x, S)) \in Nat
      BY CharactersAre, LettersFinite
<1>2. Spelled(x, S) \in [1 .. Cardinality(Letters(x, S)) -> Symbols]
      BY SpelledType
<1> QED BY <1>1, <1>2

LEMMA WordsType ==
  ASSUME NEW x, IsString(x), NEW W \in SUBSET Nat, IsFiniteSet(W)
  PROVE  WordsAt(x, W) \in [1 .. Cardinality(W) -> Seq(Symbols)]
<1>1. ASSUME NEW n \in 1 .. Cardinality(W)
      PROVE  Spelled(x, Stretch(x, InOrder(W)[n])) \in Seq(Symbols)
  <2>1. PICK b \in Nat : b = InOrder(W)[n]
        BY InOrderMember
  <2>2. Spelled(x, Stretch(x, b)) \in Seq(Symbols)
        BY StretchWithin, SpelledSeq
  <2> QED BY <2>1, <2>2
<1> QED BY <1>1 DEF WordsAt

LEMMA WordsNext ==
  ASSUME NEW x, IsString(x), NEW W \in SUBSET Nat, IsFiniteSet(W),
         NEW b \in Nat, \A w \in W : w < b
  PROVE  WordsAt(x, W \union {b}) = Append(WordsAt(x, W), Spelled(x, Stretch(x, b)))
<1> DEFINE c == Cardinality(W) f == WordsAt(x, W) y == Spelled(x, Stretch(x, b))
<1>1. c \in Nat /\ f \in [1 .. c -> Seq(Symbols)]
      BY FS_CardinalityType, WordsType
<1>2. y \in Seq(Symbols)
      BY StretchWithin, SpelledSeq
<1>3. /\ \A m \in 1 .. c : InOrder(W \union {b})[m] = InOrder(W)[m]
      /\ InOrder(W \union {b})[c + 1] = b
      BY InOrderAdd
<1>4. Cardinality(W \union {b}) = c + 1
  <2>1. b \notin W
        OBVIOUS
  <2> QED BY <2>1, FS_AddElement
<1>5. WordsAt(x, W \union {b}) =
        [m \in 1 .. c + 1 |-> Spelled(x, Stretch(x, InOrder(W \union {b})[m]))]
      BY <1>4 DEF WordsAt
<1>6. f = [m \in 1 .. c |-> Spelled(x, Stretch(x, InOrder(W)[m]))]
      BY DEF WordsAt
<1> HIDE DEF c, f
<1>7. ASSUME NEW m \in 1 .. c + 1
      PROVE  Spelled(x, Stretch(x, InOrder(W \union {b})[m])) = IF m = c + 1 THEN y ELSE f[m]
  <2>1. CASE m = c + 1
        BY <1>3, <2>1
  <2>2. CASE m # c + 1
    <3>1. m \in 1 .. c
          BY <1>1, <2>2
    <3> QED BY <1>3, <1>6, <2>2, <3>1
  <2> QED BY <2>1, <2>2
<1> HIDE DEF y
<1>8. Append(f, y) = [m \in 1 .. c + 1 |-> IF m = c + 1 THEN y ELSE f[m]]
      BY <1>1, <1>2, AppendIs
<1> QED BY <1>5, <1>7, <1>8 DEF f, y

\* The words that ended before the break b.
Finished(x, b) == {w \in Breaks(x) : w < b /\ Counts(x, Stretch(x, w))}

LastBreak(x, n, b) ==
  b \in Breaks(x) /\ b <= n /\ \A j \in Breaks(x) : ~(b < j /\ j <= n)

\* After n characters: a are the words that have ended, c is what the next one
\* has so far, and d whether that has quotes.
Follow(x, n, a, c, d) ==
  \E b \in Breaks(x) :
    /\ LastBreak(x, n, b)
    /\ a = WordsAt(x, Finished(x, b))
    /\ c = Spelled(x, b + 1 .. n)
    /\ d <=> \E i \in b + 1 .. n : IsMark(x, i)

LEMMA FinishedIs ==
  ASSUME NEW x, IsString(x), NEW b
  PROVE  Finished(x, b) \in SUBSET Nat /\ IsFiniteSet(Finished(x, b))
<1>1. Len(x.text) \in Nat
      BY CharactersAre
<1>2. IsFiniteSet(0 .. Len(x.text))
      BY <1>1, FS_Interval
<1>3. Finished(x, b) \subseteq 0 .. Len(x.text) /\ Finished(x, b) \subseteq Nat
      BY BreaksAre DEF Finished
<1> QED BY <1>2, <1>3, FS_Subset

LEMMA FollowFirst == ASSUME NEW x, IsString(x) PROVE Follow(x, 0, <<>>, <<>>, FALSE)
<1>1. 0 \in Breaks(x) /\ LastBreak(x, 0, 0)
      BY BreaksAre DEF LastBreak
<1>2. Finished(x, 0) = {}
      BY BreaksAre DEF Finished
<1>3. 0 + 1 .. 0 = {}
      OBVIOUS
<1> QED BY <1>1, <1>2, <1>3, WordsNone, SpelledNone DEF Follow

LEMMA FollowTypes ==
  ASSUME NEW x, IsString(x), NEW n \in 0 .. Len(x.text), NEW a, NEW c, NEW d, Follow(x, n, a, c, d)
  PROVE  a \in Seq(Seq(Symbols)) /\ c \in Seq(Symbols)
<1>1. PICK b \in Breaks(x) : /\ LastBreak(x, n, b)
                             /\ a = WordsAt(x, Finished(x, b))
                             /\ c = Spelled(x, b + 1 .. n)
      BY DEF Follow
<1>2. b \in Nat
      BY BreaksAre
<1>3. b + 1 .. n \in SUBSET (1 .. Len(x.text))
      BY <1>2, CharactersAre
<1>4. Cardinality(Finished(x, b)) \in Nat
      BY FinishedIs, FS_CardinalityType
<1>5. a \in [1 .. Cardinality(Finished(x, b)) -> Seq(Symbols)]
      BY <1>1, FinishedIs, WordsType
<1>6. a \in Seq(Seq(Symbols))
  <2> DEFINE T == Seq(Symbols) k == Cardinality(Finished(x, b))
  <2>1. k \in Nat /\ a \in [1 .. k -> T]
        BY <1>4, <1>5
  <2> HIDE DEF T, k
  <2>2. a \in Seq(T)
        BY <2>1
  <2> QED BY <2>2 DEF T
<1> QED BY <1>1, <1>3, <1>6, SpelledSeq

LEMMA FollowWithin ==
  ASSUME NEW x, IsString(x), NEW n \in Nat, n < Len(x.text), n + 1 \notin Breaks(x),
         NEW a, NEW c, NEW d, Follow(x, n, a, c, d)
  PROVE  Follow(x, n + 1, a, c \o Meaning(x, n + 1), d \/ IsMark(x, n + 1))
<1>1. PICK b \in Breaks(x) : /\ LastBreak(x, n, b)
                             /\ a = WordsAt(x, Finished(x, b))
                             /\ c = Spelled(x, b + 1 .. n)
                             /\ d <=> \E i \in b + 1 .. n : IsMark(x, i)
      BY DEF Follow
<1>2. b \in Nat /\ Breaks(x) \in SUBSET Nat /\ b <= n /\ Len(x.text) \in Nat
      BY <1>1, BreaksAre, CharactersAre DEF LastBreak
<1>3. LastBreak(x, n + 1, b)
  <2>1. \A j \in Breaks(x) : j <= n + 1 => j <= n
        BY <1>2
  <2> QED BY <1>1, <1>2, <2>1 DEF LastBreak
<1>4. b + 1 .. n + 1 = (b + 1 .. n) \union {n + 1}
      BY <1>2
<1>5. /\ b + 1 .. n \in SUBSET (1 .. Len(x.text)) /\ n + 1 \in 1 .. Len(x.text)
      /\ \A i \in b + 1 .. n : i < n + 1
      BY <1>2
<1>6. Spelled(x, b + 1 .. n + 1) = c \o Meaning(x, n + 1)
      BY <1>1, <1>4, <1>5, SpelledNext
<1>7. d \/ IsMark(x, n + 1) <=> \E i \in b + 1 .. n + 1 : IsMark(x, i)
      BY <1>1, <1>4
<1> QED BY <1>1, <1>3, <1>6, <1>7 DEF Follow

\* What messageReceived() does to args where a word ends.
Ended(a, c, d) == IF c # <<>> \/ d THEN Append(a, c) ELSE a

\* Where a word ends, with a break or with the string.
LEMMA FollowFinish ==
  ASSUME NEW x, IsString(x), NEW n \in Nat, n <= Len(x.text),
         n = Len(x.text) \/ n + 1 \in Breaks(x),
         NEW a, NEW c, NEW d, Follow(x, n, a, c, d)
  PROVE  WordsAt(x, Finished(x, n + 1)) = Ended(a, c, d)
<1>1. PICK b \in Breaks(x) : /\ LastBreak(x, n, b)
                             /\ a = WordsAt(x, Finished(x, b))
                             /\ c = Spelled(x, b + 1 .. n)
                             /\ d <=> \E i \in b + 1 .. n : IsMark(x, i)
      BY DEF Follow
<1>2. b \in Nat /\ Breaks(x) \in SUBSET Nat /\ b <= n /\ Len(x.text) \in Nat
      BY <1>1, BreaksAre, CharactersAre DEF LastBreak
<1>3. Stretch(x, b) = b + 1 .. n
      BY <1>1, <1>2, StretchIs DEF LastBreak
<1>4. c # <<>> <=> \E i \in b + 1 .. n : Meaning(x, i) # <<>>
  <2>1. b + 1 .. n \in SUBSET (1 .. Len(x.text))
        BY <1>2
  <2>2. c = <<>> <=> Letters(x, b + 1 .. n) = {}
        BY <1>1, <2>1, SpelledType
  <2> QED BY <2>2 DEF Letters
<1>5. Counts(x, Stretch(x, b)) <=> c # <<>> \/ d
      BY <1>1, <1>3, <1>4 DEF Counts
<1>6. \A w \in Breaks(x) : w < n + 1 <=> w < b \/ w = b
      BY <1>1, <1>2 DEF LastBreak
<1>7. CASE c # <<>> \/ d
  <2>1. Finished(x, n + 1) = Finished(x, b) \union {b}
        BY <1>5, <1>6, <1>7 DEF Finished
  <2>2. \A w \in Finished(x, b) : w < b
        BY DEF Finished
  <2>3. WordsAt(x, Finished(x, n + 1)) = Append(a, Spelled(x, Stretch(x, b)))
        BY <1>1, <1>2, <2>1, <2>2, FinishedIs, WordsNext
  <2> QED BY <1>1, <1>3, <1>7, <2>3 DEF Ended
<1>8. CASE ~(c # <<>> \/ d)
  <2>1. Finished(x, n + 1) = Finished(x, b)
        BY <1>5, <1>6, <1>8 DEF Finished
  <2> QED BY <1>1, <1>8, <2>1 DEF Ended
<1> QED BY <1>7, <1>8

LEMMA FollowBreak ==
  ASSUME NEW x, IsString(x), NEW n \in Nat, n < Len(x.text), n + 1 \in Breaks(x),
         NEW a, NEW c, NEW d, Follow(x, n, a, c, d), NEW d1, ~d1
  PROVE  Follow(x, n + 1, Ended(a, c, d), <<>>, d1)
<1>1. WordsAt(x, Finished(x, n + 1)) = Ended(a, c, d)
      BY CharactersAre, FollowFinish
<1>2. LastBreak(x, n + 1, n + 1)
      BY BreaksAre DEF LastBreak
<1>3. (n + 1) + 1 .. n + 1 = {}
      OBVIOUS
<1> QED BY <1>1, <1>2, <1>3, SpelledNone DEF Follow

LEMMA FollowEnd ==
  ASSUME NEW x, IsString(x), NEW a, NEW c, NEW d, Follow(x, Len(x.text), a, c, d)
  PROVE  Words(x) = Ended(a, c, d)
<1>1. Len(x.text) \in Nat /\ Breaks(x) \in SUBSET Nat /\ \A b \in Breaks(x) : b <= Len(x.text)
      BY CharactersAre, BreaksAre
<1>2. WordsAt(x, Finished(x, Len(x.text) + 1)) = Ended(a, c, d)
      BY <1>1, FollowFinish
<1>3. Finished(x, Len(x.text) + 1) = {b \in Breaks(x) : Counts(x, Stretch(x, b))}
      BY <1>1 DEF Finished
<1> QED BY <1>2, <1>3 DEF Words, WordsAt


-----------------------------------------------------------------------------
(* Messages.                                                               *)

\* What messageReceived() has after n characters: args, stringBuilder, whether a
\* quote is open, inEscape and hadQuotesThisArg.
Reads(x, n, a, c, q, e, d) ==
  /\ Follow(x, n, a, c, d)
  /\ q = Within(x)[n] /\ q \in {None, Double}
  /\ e <=> Escaped(x, n + 1)

\* One round of its loop, with the character ch.
Round(ch, a, c, q, e, d, a1, c1, q1, e1, d1) ==
  \/ e /\ ~e1 /\ a1 = a /\ c1 = c \o <<ch>> /\ q1 = q /\ (d1 <=> d)
  \/ ~e /\ ch = Backslash /\ e1 /\ a1 = a /\ c1 = c /\ q1 = q /\ (d1 <=> d)
  \/ /\ ~e /\ q = None /\ ch = Space /\ ~e1 /\ q1 = q
     /\ a1 = Ended(a, c, d) /\ c1 = <<>> /\ ~d1
  \/ /\ ~e /\ ch = Double /\ ~e1 /\ q1 = IF q = None THEN Double ELSE None
     /\ a1 = a /\ c1 = c /\ d1
  \/ /\ ~e /\ ch \notin {Backslash, Double} /\ (ch = Space => q # None) /\ ~e1
     /\ a1 = a /\ c1 = c \o <<ch>> /\ q1 = q /\ (d1 <=> d)

LEMMA FollowSame ==
  ASSUME NEW x, NEW n, NEW a, NEW c, NEW d, NEW d1, d <=> d1, Follow(x, n, a, c, d)
  PROVE  Follow(x, n, a, c, d1)
BY DEF Follow

LEMMA FollowAdds ==
  ASSUME NEW x, IsString(x), NEW n \in Nat, n < Len(x.text), n + 1 \notin Breaks(x),
         NEW a, NEW c, NEW d, Follow(x, n, a, c, d),
         NEW s, Meaning(x, n + 1) = s, NEW d1, d1 <=> d \/ IsMark(x, n + 1)
  PROVE  Follow(x, n + 1, a, c \o s, d1)
<1>1. Follow(x, n + 1, a, c \o s, d \/ IsMark(x, n + 1))
      BY FollowWithin
<1> QED BY <1>1, FollowSame, Zenon

LEMMA ReadsFirst ==
  ASSUME NEW x, IsString(x) PROVE Reads(x, 0, <<>>, <<>>, None, FALSE, FALSE)
<1>1. ~Escaped(x, 0 + 1)
      BY EscapedFirst
<1> QED BY <1>1, FollowFirst, WithinSteps DEF Reads

LEMMA ReadsNext ==
  ASSUME NEW x, IsString(x), x.loop = "message", NEW n \in Nat, n < Len(x.text),
         NEW a, NEW c, NEW q, NEW e, NEW d, Reads(x, n, a, c, q, e, d),
         NEW a1, NEW c1, NEW q1, NEW e1, NEW d1,
         Round(x.text[n + 1], a, c, q, e, d, a1, c1, q1, e1, d1)
  PROVE  Reads(x, n + 1, a1, c1, q1, e1, d1)
<1>1. PICK i \in 1 .. Len(x.text) : i = n + 1 /\ i - 1 = n
      OBVIOUS
<1>2. PICK ch \in Characters : ch = x.text[i] /\ ch # None
      BY CharactersAre
<1>3. /\ Follow(x, n, a, c, d) /\ q = Within(x)[i - 1] /\ q \in {None, Double}
      /\ e <=> Escaped(x, i)
      BY <1>1 DEF Reads
<1>4. Escaped(x, i + 1) <=> ch = Backslash /\ ~e
      BY <1>2, <1>3, EscapedNext
<1>5. Within(x)[i] = IF ch = Double /\ ~e THEN (IF q = None THEN Double ELSE None) ELSE q
  <2>1. Within(x)[i] = NextQuote(x, i, q)
        BY <1>3, WithinSteps
  <2>2. Marks(x) = {Double}
        BY DEF Marks
  <2> QED BY <1>2, <1>3, <2>1, <2>2 DEF NextQuote
<1>6. IsMark(x, i) <=> ch = Double /\ ~e
  <2>1. Double # None
        BY DEF Double, None
  <2> QED BY <1>3, <1>5, <2>1 DEF IsMark
<1>7. i \in Breaks(x) <=> ch = Space /\ ~e /\ q = None
      BY <1>2, <1>3, BreaksAre
<1>8. Meaning(x, i) = IF (ch = Double \/ ch = Backslash) /\ ~e THEN <<>> ELSE <<ch>>
      BY <1>2, <1>3, <1>6 DEF Meaning, IsReplaced
<1>9. c \o <<>> = c
  <2>1. c \in Seq(Symbols)
        BY <1>1, <1>3, FollowTypes
  <2> QED BY <2>1
<1>10. Space # Double /\ Space # Backslash /\ Double # Backslash
       BY DEF Space, Double, Backslash
<1>11. CASE e
  <2>1. ~e1 /\ a1 = a /\ c1 = c \o <<ch>> /\ q1 = q /\ (d1 <=> d)
        BY <1>1, <1>2, <1>11 DEF Round
  <2>2. /\ n + 1 \notin Breaks(x) /\ Meaning(x, n + 1) = <<ch>>
        /\ d1 <=> d \/ IsMark(x, n + 1)
        BY <1>1, <1>6, <1>7, <1>8, <1>11, <2>1
  <2>3. Follow(x, i, a1, c1, d1)
        BY <1>1, <1>3, <2>1, <2>2, FollowAdds
  <2> QED BY <1>1, <1>3, <1>4, <1>5, <1>11, <2>1, <2>3 DEF Reads
<1>12. CASE ~e /\ ch = Backslash
  <2>1. e1 /\ a1 = a /\ c1 = c /\ q1 = q /\ (d1 <=> d)
        BY <1>1, <1>2, <1>10, <1>12 DEF Round
  <2>2. /\ n + 1 \notin Breaks(x) /\ Meaning(x, n + 1) = <<>>
        /\ d1 <=> d \/ IsMark(x, n + 1)
        BY <1>1, <1>6, <1>7, <1>8, <1>10, <1>12, <2>1
  <2>3. Follow(x, n + 1, a, c \o <<>>, d1)
        BY <1>3, <2>2, FollowAdds
  <2>4. Follow(x, i, a1, c1, d1)
        BY <1>1, <1>9, <2>1, <2>3
  <2> QED BY <1>1, <1>3, <1>4, <1>5, <1>10, <1>12, <2>1, <2>4 DEF Reads
<1>13. CASE ~e /\ ch = Space /\ q = None
  <2>1. ~e1 /\ q1 = q /\ c1 = <<>> /\ ~d1 /\ a1 = Ended(a, c, d)
        BY <1>1, <1>2, <1>10, <1>13 DEF Round
  <2>2. n + 1 \in Breaks(x)
        BY <1>1, <1>7, <1>13
  <2>3. Follow(x, n + 1, Ended(a, c, d), <<>>, d1)
        BY <1>3, <2>1, <2>2, FollowBreak
  <2>4. Follow(x, i, a1, c1, d1)
        BY <1>1, <2>1, <2>3
  <2> QED BY <1>1, <1>3, <1>4, <1>5, <1>10, <1>13, <2>1, <2>4 DEF Reads
<1>14. CASE ~e /\ ch = Double
  <2>1. ~e1 /\ q1 = (IF q = None THEN Double ELSE None) /\ a1 = a /\ c1 = c /\ d1
        BY <1>1, <1>2, <1>10, <1>14 DEF Round
  <2>2. /\ n + 1 \notin Breaks(x) /\ Meaning(x, n + 1) = <<>>
        /\ d1 <=> d \/ IsMark(x, n + 1)
        BY <1>1, <1>6, <1>7, <1>8, <1>10, <1>14, <2>1
  <2>3. Follow(x, n + 1, a, c \o <<>>, d1)
        BY <1>3, <2>2, FollowAdds
  <2>4. Follow(x, i, a1, c1, d1)
        BY <1>1, <1>9, <2>1, <2>3
  <2> QED BY <1>1, <1>3, <1>4, <1>5, <1>10, <1>14, <2>1, <2>4 DEF Reads
<1>15. CASE ~e /\ ch \notin {Backslash, Double} /\ ~(ch = Space /\ q = None)
  <2>1. ~e1 /\ a1 = a /\ c1 = c \o <<ch>> /\ q1 = q /\ (d1 <=> d)
        BY <1>1, <1>2, <1>15 DEF Round
  <2>2. /\ n + 1 \notin Breaks(x) /\ Meaning(x, n + 1) = <<ch>>
        /\ d1 <=> d \/ IsMark(x, n + 1)
        BY <1>1, <1>6, <1>7, <1>8, <1>15, <2>1
  <2>3. Follow(x, i, a1, c1, d1)
        BY <1>1, <1>3, <2>1, <2>2, FollowAdds
  <2> QED BY <1>1, <1>3, <1>4, <1>5, <1>15, <2>1, <2>3 DEF Reads
<1> QED BY <1>11, <1>12, <1>13, <1>14, <1>15


-----------------------------------------------------------------------------
(* What holds of the string throughout.                                    *)

TextInv ==
  /\ loop \in {"message", "parameters"}
  /\ text \in Seq(Characters)
  /\ network \in {<<>>, <<Network>>}
  /\ at \in 1 .. Len(text) + 1
  /\ done => at = Len(text) + 1
  /\ Message => text # <<>> /\ text[1] # Space /\ text[Len(text)] # Space

LEMMA TextIsString == TextInv => IsString(Of(text)) /\ Of(text).text = text /\ Of(text).loop = loop
BY DEF TextInv, IsString, Of

LEMMA TextsAreSeq ==
  ASSUME NEW chars, NEW max \in Nat, NEW s \in Texts(chars, max) PROVE s \in Seq(chars)
BY DEF Texts

LEMMA SameText ==
  ASSUME TextInv, UNCHANGED <<text, network, loop>>,
         at' \in 1 .. Len(text) + 1, done' => at' = Len(text) + 1
  PROVE  TextInv'
BY DEF TextInv, Message

LEMMA TextInit == Init => TextInv
<1> SUFFICES ASSUME Init PROVE TextInv
    OBVIOUS
<1>1. \A s : s \in Seq(Said) \/ s \in Seq(Configured) => s \in Seq(Characters)
      BY DEF Characters
<1>2. text \in Seq(Characters)
  <2>1. CASE loop = "message"
        BY <1>1, <2>1, TextsAreSeq, BoundAssumption DEF Init, Payloads
  <2>2. CASE loop = "parameters"
        BY <1>1, <2>2, TextsAreSeq, BoundAssumption DEF Init
  <2> QED BY <2>1, <2>2 DEF Init
<1>3. at \in 1 .. Len(text) + 1
      BY <1>2 DEF Init
<1> QED BY <1>2, <1>3 DEF Init, TextInv, Payloads, Message

\* Only %s and %n take two characters, and only where there are two.
LEMMA Consumes ==
  ASSUME TextInv, SplitParameters
  PROVE  \E n \in {1, 2} : Consume(n) /\ at + n <= Len(text) + 1
<1>1. at \in Nat /\ Len(text) \in Nat /\ at <= Len(text)
      BY DEF TextInv, SplitParameters
<1>2. ASSUME Consume(1) PROVE \E n \in {1, 2} : Consume(n) /\ at + n <= Len(text) + 1
      BY <1>1, <1>2
<1>3. CASE Replacement
  <2> DEFINE next == IF at < Len(text) THEN text[at + 1] ELSE None
  <2>1. CASE next \in {"s", "n"}
    <3>1. at < Len(text)
          BY <2>1 DEF None
    <3>2. Consume(2)
          BY <1>3, <2>1 DEF Replacement, Replaced
    <3> QED BY <1>1, <3>1, <3>2
  <2>2. CASE next \notin {"s", "n"}
        BY <1>2, <1>3, <2>2 DEF Replacement
  <2> QED BY <2>1, <2>2
<1> QED BY <1>2, <1>3 DEF SplitParameters, CloseQuote, OpenQuote, Separate, Plain

LEMMA TextNext == TextInv /\ [Next]_vars => TextInv'
<1> SUFFICES ASSUME TextInv, [Next]_vars PROVE TextInv'
    OBVIOUS
<1>1. CASE SplitMessage
      BY <1>1, SameText DEF SplitMessage, Consume, TextInv
<1>2. CASE SplitParameters
  <2>1. PICK n \in {1, 2} : Consume(n) /\ at + n <= Len(text) + 1
        BY <1>2, Consumes
  <2>2. at <= Len(text) /\ ~done
        BY <1>2 DEF SplitParameters, TextInv
  <2> QED BY <2>1, <2>2, SameText DEF Consume, TextInv
<1>3. CASE End
      BY <1>3, SameText DEF End, TextInv
<1>4. CASE UNCHANGED vars
      BY <1>4, SameText DEF vars, TextInv
<1> QED BY <1>1, <1>2, <1>3, <1>4 DEF Next, Over

LEMMA TypeInit == Init => TypeOK
BY TextInit DEF Init, TypeOK, TextInv

LEMMA TrimmedNone == Trimmed(<<>>) = <<>>
BY DEF Trimmed

\* In messages only double quotes open, and whatever is open is a quote of the
\* loop; parameters have no escapes and nothing that is kept for messages.
LEMMA TypeNext == TextInv /\ TypeOK /\ [Next]_vars => TypeOK'
<1> SUFFICES ASSUME TextInv, TypeOK, [Next]_vars PROVE TypeOK'
    OBVIOUS
<1>1. TextInv'
      BY TextNext
<1>2. at' \in 1 .. Len(text') + 1 /\ loop' = loop
  <2>1. at' \in 1 .. Len(text') + 1
        BY <1>1 DEF TextInv
  <2>2. CASE SplitMessage
        BY <2>1, <2>2 DEF SplitMessage, Consume
  <2>3. CASE SplitParameters
        BY <2>1, <2>3, Consumes DEF Consume
  <2> QED BY <2>1, <2>2, <2>3 DEF Next, End, Over, vars
<1> DEFINE marks == Marks(Of(text)) \union {None}
<1>3. Marks(Of(text))' = Marks(Of(text))
      BY <1>2 DEF Marks, Of
<1>4. Marks(Of(text)) = IF Message THEN {Double} ELSE Quotes
      BY DEF Marks, Of, Message
<1>5. quote' \in marks
  <2>1. quote \in marks
        BY DEF TypeOK
  <2>2. CASE SplitMessage
        BY <1>4, <2>1, <2>2 DEF SplitMessage, Literal, Escape, Blank, Quote, Letter, Message
  <2>3. CASE SplitParameters
    <3>1. quote' \in {None, quote} \/ quote' \in Quotes
          BY <2>3 DEF SplitParameters, CloseQuote, OpenQuote, Separate, Replacement, Plain
    <3>2. marks = Quotes \union {None}
          BY <1>4, <2>3 DEF SplitParameters, Message
    <3> QED BY <2>1, <3>1, <3>2
  <2> QED BY <2>1, <2>2, <2>3 DEF Next, End, Over, vars
<1>6. (escaped \/ quoted \/ hasCommand \/ full # <<>> => Message)'
  <2>1. CASE SplitMessage
        BY <1>2, <2>1 DEF SplitMessage, Message
  <2>2. CASE SplitParameters
    <3>1. quoted' => quoted
          BY <2>2 DEF SplitParameters, CloseQuote, OpenQuote, Separate, Replacement, Plain,
                      Finish, Build, Replaced, word
    <3> QED BY <1>2, <2>2, <3>1 DEF SplitParameters, rest, TypeOK, Message
  <2>3. CASE End
        BY <1>2, <2>3, TrimmedNone DEF End, Finish, TypeOK, Message
  <2>4. CASE UNCHANGED vars
        BY <2>4 DEF vars, word, rest, TypeOK, Message
  <2> QED BY <2>1, <2>2, <2>3, <2>4 DEF Next, Over
<1>7. (done => current = <<>> /\ ~quoted)'
  <2>1. at <= Len(text) => ~done
        BY DEF TextInv
  <2>2. CASE SplitMessage \/ SplitParameters
    <3>1. ~done'
          BY <2>1, <2>2, Consumes DEF SplitMessage, SplitParameters, Consume
    <3> QED BY <3>1
  <2>3. CASE End
        BY <2>3 DEF End, Finish
  <2>4. CASE UNCHANGED vars
        BY <2>4 DEF vars, word, TypeOK
  <2> QED BY <2>2, <2>3, <2>4 DEF Next, Over
<1> QED BY <1>2, <1>3, <1>5, <1>6, <1>7 DEF TypeOK

\* No loop reads past the end of its string, and what is kept for a message
\* stays as it was in a plugin's parameters.
THEOREM TypeCorrect == Spec => []TypeOK
<1>1. Init => TextInv /\ TypeOK
      BY TextInit, TypeInit
<1>2. TextInv /\ TypeOK /\ [Next]_vars => (TextInv /\ TypeOK)'
      BY TextNext, TypeNext
<1> QED BY <1>1, <1>2, PTL DEF Spec

-----------------------------------------------------------------------------
(* The words of a message.                                                 *)

LEMMA RoundTaken ==
  ASSUME SplitMessage
  PROVE  Round(Char, args, current, quote, escaped, quoted, args', current', quote', escaped', quoted')
<1>1. CASE Literal
      BY <1>1 DEF Literal, Build, Round
<1>2. CASE Escape
      BY <1>2 DEF Escape, word, Round
<1>3. CASE Blank
      BY <1>3 DEF Blank, Finish, Ended, Round
<1>4. CASE Quote
      BY <1>4 DEF Quote, Round
<1>5. CASE Letter
      BY <1>5 DEF Letter, Build, Round
<1> QED BY <1>1, <1>2, <1>3, <1>4, <1>5 DEF SplitMessage

MessageInv ==
  Message => IF done THEN args = Words(Of(text))
             ELSE Reads(Of(text), at - 1, args, current, quote, escaped, quoted)

LEMMA MessageInit == Init => MessageInv
<1> SUFFICES ASSUME Init PROVE MessageInv
    OBVIOUS
<1>1. IsString(Of(text))
      BY TextInit, TextIsString
<1>2. at - 1 = 0 /\ ~done
      BY DEF Init
<1> QED BY <1>1, <1>2, ReadsFirst DEF Init, MessageInv

LEMMA MessageNext == TextInv /\ MessageInv /\ [Next]_vars => MessageInv'
<1> SUFFICES ASSUME TextInv, MessageInv, [Next]_vars, Message' PROVE MessageInv'
    BY DEF MessageInv
<1>1. PICK x : x = Of(text)
      OBVIOUS
<1>2. IsString(x) /\ x.text = text /\ x.loop = loop
      BY <1>1, TextIsString
<1>3. Of(text)' = x /\ Message
  <2>1. text' = text /\ loop' = loop /\ network' = network
        BY Consumes DEF Next, SplitMessage, End, Over, Consume, vars
  <2> QED BY <1>1, <2>1 DEF Of, Message
<1>4. CASE SplitMessage
  <2>1. PICK n \in Nat : n = at - 1 /\ at = n + 1 /\ n < Len(text) /\ at' = n + 2
        BY <1>4 DEF SplitMessage, Consume, TextInv
  <2>2. ~done /\ ~done' /\ Char = text[n + 1]
        BY <1>4, <2>1 DEF SplitMessage, Consume, TextInv, Char
  <2>3. Reads(x, n, args, current, quote, escaped, quoted)
        BY <1>1, <1>3, <2>1, <2>2 DEF MessageInv
  <2>4. Round(x.text[n + 1], args, current, quote, escaped, quoted,
              args', current', quote', escaped', quoted')
        BY <1>2, <1>4, <2>2, RoundTaken
  <2>5. n < Len(x.text) /\ x.loop = "message"
        BY <1>2, <1>3, <2>1 DEF Message
  <2>6. Reads(x, n + 1, args', current', quote', escaped', quoted')
        BY <1>2, <2>3, <2>4, <2>5, ReadsNext
  <2>7. at' - 1 = n + 1
        BY <2>1
  <2> QED BY <1>3, <2>2, <2>6, <2>7 DEF MessageInv
<1>5. CASE End
  <2>1. ~done /\ done' /\ args' = Ended(args, current, quoted)
        BY <1>5 DEF End, Finish, Ended
  <2>2. at - 1 = Len(x.text)
        BY <1>2, <1>5 DEF End, TextInv
  <2>3. Follow(x, Len(x.text), args, current, quoted)
        BY <1>1, <1>3, <2>1, <2>2 DEF MessageInv, Reads
  <2>4. Words(x) = Ended(args, current, quoted)
        BY <1>2, <2>3, FollowEnd
  <2> QED BY <1>3, <2>1, <2>4 DEF MessageInv
<1>6. CASE UNCHANGED vars
  <2>1. done' = done /\ args' = args /\ at' = at /\ current' = current /\ quote' = quote
        /\ escaped' = escaped /\ quoted' = quoted
        BY <1>6 DEF vars, word
  <2> QED BY <1>1, <1>3, <2>1 DEF MessageInv
<1>7. ~SplitParameters
      BY <1>3 DEF SplitParameters, Message
<1> QED BY <1>4, <1>5, <1>6, <1>7 DEF Next, Over

\* The command and the arguments of a message are its words, for a message of any
\* length with any nesting of quotes and escapes.
THEOREM MessagesAreCutRight == Spec => []MessageIsWords
<1>1. Init => TextInv /\ MessageInv
      BY TextInit, MessageInit
<1>2. TextInv /\ MessageInv /\ [Next]_vars => (TextInv /\ MessageInv)'
      BY TextNext, MessageNext
<1>3. MessageInv => MessageIsWords
      BY DEF MessageInv, MessageIsWords
<1> QED BY <1>1, <1>2, <1>3, PTL DEF Spec

-----------------------------------------------------------------------------
(* The rest of a message: its words are those of the message but the first. *)

\* The string without its first k characters.
After(k) == [i \in 1 .. Len(text) - k |-> text[k + i]]

\* Between the end of the first word and the second.
Skipping(f) ==
  /\ \A i \in f + 1 .. at - 1 : text[i] = Space
  /\ Tail(args) = <<>> /\ current = <<>> /\ quote = None /\ ~escaped /\ ~quoted

\* Of the k characters before the second word those after f are spaces; from
\* there on the loop does what it would do with the rest alone.
Rereading(f, k) ==
  /\ text[k + 1] # Space /\ \A i \in f + 1 .. k : text[i] = Space
  /\ Reads(Of(After(k)), at - 1 - k, Tail(args), current, quote, escaped, quoted)

RestInv ==
  Message =>
    \/ done /\ RestHasSameWords
    \/ /\ ~done /\ ~hasCommand /\ full = <<>> /\ args = <<>>
       /\ at > 1 /\ ~escaped => current # <<>> \/ quoted
    \/ /\ ~done /\ hasCommand /\ args # <<>>
       /\ \E f \in 1 .. at - 1 :
            /\ text[f] = Space /\ full = [i \in 1 .. at - 1 - f |-> text[f + i]]
            /\ Skipping(f) \/ \E k \in f .. at - 2 : Rereading(f, k)

LEMMA AfterIsString ==
  ASSUME TextInv, NEW k \in 0 .. Len(text)
  PROVE  /\ IsString(Of(After(k))) /\ Of(After(k)).loop = loop
         /\ Of(After(k)).text \in Seq(Characters)
         /\ Len(Of(After(k)).text) = Len(text) - k
         /\ \A i \in 1 .. Len(text) - k : Of(After(k)).text[i] = text[k + i]
<1>1. After(k) \in Seq(Characters) /\ Len(After(k)) = Len(text) - k
  <2>1. PICK m \in Nat : m = Len(text) - k
        BY DEF TextInv
  <2>2. \A i \in 1 .. m : text[k + i] \in Characters
        BY <2>1 DEF TextInv
  <2>3. After(k) \in [1 .. m -> Characters]
        BY <2>1, <2>2 DEF After
  <2> QED BY <2>1, <2>3
<1>2. \A i \in 1 .. Len(text) - k : After(k)[i] = text[k + i]
      BY DEF After
<1>3. Of(After(k)).text = After(k) /\ Of(After(k)).loop = loop /\ Of(After(k)).network = network
      BY DEF Of
<1> QED BY <1>1, <1>2, <1>3 DEF IsString, TextInv

\* What is known of args and current while a message is read.
LEMMA MessageTypes ==
  ASSUME TextInv, MessageInv, Message, ~done
  PROVE  args \in Seq(Seq(Symbols)) /\ current \in Seq(Symbols)
<1>1. Follow(Of(text), at - 1, args, current, quoted)
      BY DEF MessageInv, Reads
<1>2. at - 1 \in 0 .. Len(Of(text).text)
      BY TextIsString DEF TextInv
<1> QED BY <1>1, <1>2, TextIsString, FollowTypes

LEMMA TailAppend ==
  ASSUME NEW T, NEW s \in Seq(T), s # <<>>, NEW y \in T
  PROVE  Tail(Append(s, y)) = Append(Tail(s), y) /\ Append(s, y) # <<>>
OBVIOUS

LEMMA TailEnded ==
  ASSUME NEW a \in Seq(Seq(Symbols)), a # <<>>, NEW c \in Seq(Symbols), NEW d
  PROVE  Tail(Ended(a, c, d)) = Ended(Tail(a), c, d) /\ Ended(a, c, d) # <<>>
<1>1. Tail(Append(a, c)) = Append(Tail(a), c) /\ Append(a, c) # <<>>
      BY TailAppend
<1> QED BY <1>1 DEF Ended

\* The first word does not matter for what a round does.
LEMMA RoundTail ==
  ASSUME NEW ch, NEW a \in Seq(Seq(Symbols)), a # <<>>, NEW c \in Seq(Symbols),
         NEW q, NEW e, NEW d, NEW a1, NEW c1, NEW q1, NEW e1, NEW d1,
         Round(ch, a, c, q, e, d, a1, c1, q1, e1, d1)
  PROVE  a1 # <<>> /\ Round(ch, Tail(a), c, q, e, d, Tail(a1), c1, q1, e1, d1)
<1>1. Tail(Ended(a, c, d)) = Ended(Tail(a), c, d) /\ Ended(a, c, d) # <<>>
      BY TailEnded
<1>2. a1 = a \/ a1 = Ended(a, c, d)
      BY DEF Round
<1>3. CASE a1 = a
      BY <1>1, <1>3 DEF Round
<1>4. CASE a1 = Ended(a, c, d)
      BY <1>1, <1>4 DEF Round
<1> QED BY <1>2, <1>3, <1>4

\* A round at the n-th character of what is reread.
LEMMA RereadingNext ==
  ASSUME TextInv, MessageInv, SplitMessage, args # <<>>,
         NEW k \in Nat, k < at,
         Reads(Of(After(k)), at - 1 - k, Tail(args), current, quote, escaped, quoted)
  PROVE  /\ args' # <<>>
         /\ Reads(Of(After(k)), at - k, Tail(args'), current', quote', escaped', quoted')
<1>1. Message /\ ~done /\ at <= Len(text) /\ Len(text) \in Nat /\ at \in Nat
      BY DEF SplitMessage, Message, TextInv
<1>2. PICK n \in Nat : n = at - 1 - k /\ n + 1 = at - k /\ n + 1 \in 1 .. Len(text) - k
                       /\ k + (n + 1) = at
      BY <1>1
<1>3. PICK x : x = Of(After(k))
      OBVIOUS
<1>4. /\ IsString(x) /\ x.loop = "message" /\ n < Len(x.text) /\ x.text[n + 1] = Char
  <2>1. k \in 0 .. Len(text)
        BY <1>1
  <2>2. /\ IsString(x) /\ x.loop = loop /\ Len(x.text) = Len(text) - k
        /\ \A i \in 1 .. Len(text) - k : x.text[i] = text[k + i]
        BY <1>3, <2>1, AfterIsString
  <2>3. x.text[n + 1] = text[k + (n + 1)]
        BY <1>2, <2>2
  <2> QED BY <1>1, <1>2, <2>2, <2>3 DEF Message, Char
<1>5. args \in Seq(Seq(Symbols)) /\ current \in Seq(Symbols)
      BY <1>1, MessageTypes
<1>6. /\ args' # <<>>
      /\ Round(x.text[n + 1], Tail(args), current, quote, escaped, quoted,
               Tail(args'), current', quote', escaped', quoted')
      BY <1>4, <1>5, RoundTaken, RoundTail
<1>7. Reads(x, n, Tail(args), current, quote, escaped, quoted)
      BY <1>2, <1>3
<1>8. Reads(x, n + 1, Tail(args'), current', quote', escaped', quoted')
      BY <1>4, <1>6, <1>7, ReadsNext
<1> QED BY <1>2, <1>3, <1>6, <1>8

\* Only the first blank makes fullArgs begin; no other character does.
LEMMA TakeIs ==
  ASSUME SplitMessage
  PROVE  /\ full' = IF hasCommand THEN Append(full, Char) ELSE full
         /\ hasCommand' = (hasCommand \/ Blank)
<1>1. CASE Blank
      BY <1>1 DEF Blank, Take
<1>2. CASE ~Blank
      BY <1>2 DEF SplitMessage, Literal, Escape, Quote, Letter, Take
<1> QED BY <1>1, <1>2

LEMMA ReadsStart ==
  ASSUME NEW x, IsString(x), NEW e, ~e, NEW d, ~d
  PROVE  Reads(x, 0, <<>>, <<>>, None, e, d)
<1>1. Reads(x, 0, <<>>, <<>>, None, FALSE, FALSE)
      BY ReadsFirst
<1>2. Follow(x, 0, <<>>, <<>>, d)
      BY <1>1, FollowSame DEF Reads
<1> QED BY <1>1, <1>2 DEF Reads

LEMMA RestBegins ==
  ASSUME TextInv, RestInv, SplitMessage, ~hasCommand
  PROVE  RestInv'
<1>1. /\ Message /\ ~done /\ at \in Nat /\ at <= Len(text) /\ Len(text) \in Nat
      /\ Message' /\ ~done' /\ at' = at + 1 /\ text' = text
      BY DEF SplitMessage, Message, TextInv, Consume
<1>2. full = <<>> /\ args = <<>> /\ (at > 1 /\ ~escaped => current # <<>> \/ quoted)
      BY <1>1 DEF RestInv
<1>3. CASE Blank
  <2>1. at > 1 /\ text[at] = Space /\ ~escaped
        BY <1>1, <1>3 DEF Blank, TextInv, Char
  <2>2. /\ args' = <<current>> /\ current' = <<>> /\ ~quoted'
        /\ quote' = None /\ ~escaped' /\ hasCommand' /\ full' = <<>>
    <3>1. args' = Append(args, current)
          BY <1>2, <1>3, <2>1 DEF Blank, Finish
    <3>2. \A y : Append(<<>>, y) = <<y>>
          OBVIOUS
    <3> QED BY <1>2, <1>3, <3>1, <3>2 DEF Blank, Finish, Take
  <2>3. args' # <<>> /\ Tail(args') = <<>>
        BY <2>2
  <2>4. /\ at \in 1 .. at' - 1 /\ at + 1 .. at' - 1 = {}
        /\ 1 .. at' - 1 - at = {}
        BY <1>1, <2>1
  <2>5. full' = [i \in 1 .. at' - 1 - at |-> text'[at + i]]
        BY <2>2, <2>4
  <2>6. (\A i \in at + 1 .. at' - 1 : text'[i] = Space)
        BY <2>4
  <2>7. PICK f \in 1 .. at' - 1 : f = at
        BY <2>4
  <2>8. /\ text'[f] = Space /\ full' = [i \in 1 .. at' - 1 - f |-> text'[f + i]]
        /\ Skipping(f)'
        BY <1>1, <2>1, <2>2, <2>3, <2>5, <2>6, <2>7 DEF Skipping
  <2> QED BY <1>1, <2>2, <2>3, <2>8 DEF RestInv
<1>4. CASE ~Blank
  <2>1. full' = <<>> /\ ~hasCommand'
        BY <1>2, <1>4, TakeIs
  <2>2. args' = <<>> /\ (escaped' \/ quoted' \/ current' = current \o <<Char>>)
        BY <1>2, <1>4 DEF SplitMessage, Literal, Escape, Quote, Letter, Build, word
  <2>3. current \in Seq(Symbols) => current \o <<Char>> # <<>>
        OBVIOUS
  <2> QED BY <1>1, <2>1, <2>2, <2>3 DEF RestInv
<1> QED BY <1>3, <1>4

LEMMA RestGrows ==
  ASSUME TextInv, MessageInv, RestInv, SplitMessage, hasCommand
  PROVE  RestInv'
<1>1. /\ Message /\ ~done /\ at \in Nat /\ at <= Len(text) /\ Len(text) \in Nat
      /\ Message' /\ ~done' /\ at' = at + 1 /\ text' = text
      /\ text \in Seq(Characters)
      BY DEF SplitMessage, Message, TextInv, Consume
<1>2. args # <<>>
      BY <1>1 DEF RestInv
<1>3. PICK f \in 1 .. at - 1 :
        /\ text[f] = Space /\ full = [i \in 1 .. at - 1 - f |-> text[f + i]]
        /\ Skipping(f) \/ \E k \in f .. at - 2 : Rereading(f, k)
      BY <1>1 DEF RestInv
<1>4. hasCommand' /\ full' = Append(full, Char)
      BY TakeIs
<1>5. full' = [i \in 1 .. at' - 1 - f |-> text'[f + i]]
  <2>1. PICK m \in Nat : m = at - 1 - f /\ at' - 1 - f = m + 1 /\ f + (m + 1) = at
        BY <1>1
  <2>2. full \in [1 .. m -> Characters]
        BY <1>1, <1>3, <2>1
  <2>3. Append(full, Char) = [i \in 1 .. m + 1 |-> IF i = m + 1 THEN Char ELSE full[i]]
    <3>1. PICK ch \in Characters : ch = Char
          BY <1>1 DEF Char
    <3> QED BY <2>2, <3>1, AppendIs
  <2>4. ASSUME NEW i \in 1 .. m + 1
        PROVE  (IF i = m + 1 THEN Char ELSE full[i]) = text[f + i]
    <3>1. CASE i = m + 1
          BY <2>1, <3>1 DEF Char
    <3>2. CASE i # m + 1
      <4>1. i \in 1 .. at - 1 - f
            BY <2>1, <3>2
      <4> QED BY <1>3, <3>2, <4>1
    <3> QED BY <3>1, <3>2
  <2> QED BY <1>1, <1>4, <2>1, <2>3, <2>4
<1>6. f \in 1 .. at' - 1 /\ text'[f] = Space
      BY <1>1, <1>3
<1>7. \A k : Of(After(k))' = Of(After(k))
      BY DEF Of, After, SplitMessage, Consume
<1>8. CASE Skipping(f) /\ Char = Space
  <2>1. Blank
        BY <1>8 DEF SplitMessage, Literal, Escape, Quote, Letter, Skipping, Space, Backslash, Double
  <2>2. /\ args' = args /\ current' = <<>> /\ ~quoted' /\ quote' = None /\ ~escaped'
        BY <1>8, <2>1 DEF Blank, Finish, Skipping
  <2>3. \A i \in f + 1 .. at' - 1 : text'[i] = Space
        BY <1>1, <1>8 DEF Skipping, Char
  <2>4. Skipping(f)'
        BY <1>8, <2>2, <2>3 DEF Skipping
  <2> QED BY <1>1, <1>2, <1>4, <1>5, <1>6, <2>2, <2>4 DEF RestInv
<1>9. ASSUME NEW k \in f .. at - 1, text[k + 1] # Space,
             \A i \in f + 1 .. k : text[i] = Space,
             Reads(Of(After(k)), at - 1 - k, Tail(args), current, quote, escaped, quoted)
      PROVE  RestInv'
  <2>1. /\ args' # <<>>
        /\ Reads(Of(After(k)), at - k, Tail(args'), current', quote', escaped', quoted')
        BY <1>1, <1>2, <1>9, RereadingNext
  <2>2. at' - 1 - k = at - k /\ k \in f .. at' - 2
        BY <1>1
  <2>3. Rereading(f, k)'
        BY <1>1, <1>7, <1>9, <2>1, <2>2 DEF Rereading
  <2> QED BY <1>1, <1>4, <1>5, <1>6, <2>1, <2>2, <2>3 DEF RestInv
<1>10. CASE Skipping(f) /\ Char # Space
  <2>1. PICK k \in f .. at - 1 : k = at - 1 /\ k + 1 = at /\ at - 1 - k = 0
        BY <1>1
  <2>2. IsString(Of(After(k)))
        BY <1>1, <2>1, AfterIsString
  <2>3. Reads(Of(After(k)), 0, <<>>, <<>>, None, escaped, quoted)
        BY <1>10, <2>2, ReadsStart DEF Skipping
  <2>4. Reads(Of(After(k)), at - 1 - k, Tail(args), current, quote, escaped, quoted)
        BY <1>10, <2>1, <2>3 DEF Skipping
  <2>5. text[k + 1] # Space /\ \A i \in f + 1 .. k : text[i] = Space
        BY <1>10, <2>1 DEF Skipping, Char
  <2> QED BY <1>9, <2>4, <2>5
<1>11. ASSUME NEW k \in f .. at - 2, Rereading(f, k) PROVE RestInv'
  <2>1. k \in f .. at - 1
        BY <1>1
  <2> QED BY <1>9, <1>11, <2>1 DEF Rereading
<1> QED BY <1>3, <1>8, <1>10, <1>11

LEMMA MinIs ==
  ASSUME NEW S \in SUBSET Int, NEW m \in S, \A y \in S : m <= y PROVE Min(S) = m
<1>1. \A y \in S : (\A z \in S : y <= z) => y = m
      OBVIOUS
<1> QED BY <1>1 DEF Min

LEMMA MaxIs ==
  ASSUME NEW S \in SUBSET Int, NEW m \in S, \A y \in S : y <= m PROVE Max(S) = m
<1>1. \A y \in S : (\A z \in S : z <= y) => y = m
      OBVIOUS
<1> QED BY <1>1 DEF Max

LEMMA SubSeqIs ==
  ASSUME NEW T, NEW s \in Seq(T), NEW m \in 1 .. Len(s)
  PROVE  SubSeq(s, m, Len(s)) = [i \in 1 .. Len(s) - m + 1 |-> s[m - 1 + i]]
OBVIOUS

\* Trimming takes away just the spaces before the second word.
LEMMA TrimmedIs ==
  ASSUME TextInv, Message, NEW f \in Nat, NEW k \in f .. Len(text) - 1,
         text[k + 1] # Space, \A i \in f + 1 .. k : text[i] = Space,
         full = [i \in 1 .. Len(text) - f |-> text[f + i]]
  PROVE  Trimmed(full) = After(k)
<1>1. PICK m \in Nat : m = Len(text) - f
  <2>1. PICK l \in Nat : l = Len(text)
        BY DEF TextInv
  <2>2. \A j \in f .. l - 1 : l - f \in Nat
        OBVIOUS
  <2> QED BY <2>1, <2>2
<1>2. PICK p \in 1 .. m : p = k + 1 - f /\ p - 1 = k - f
      BY <1>1 DEF TextInv
<1>3. full \in [1 .. m -> Characters] /\ full \in Seq(Characters) /\ Len(full) = m
  <2>1. \A i \in 1 .. m : text[f + i] \in Characters
        BY <1>1 DEF TextInv
  <2>2. full \in [1 .. m -> Characters]
        BY <1>1, <2>1
  <2>3. \A g \in [1 .. m -> Characters] : g \in Seq(Characters) /\ Len(g) = m
        OBVIOUS
  <2> QED BY <2>2, <2>3
<1>4. \A i \in 1 .. m : full[i] = text[f + i]
      BY <1>1
<1> DEFINE letters == {i \in 1 .. Len(full) : full[i] # Space}
<1>5. p \in letters /\ m \in letters
  <2>1. f + p = k + 1 /\ f + m = Len(text) /\ m \in 1 .. m
        BY <1>1, <1>2
  <2> QED BY <1>2, <1>3, <1>4, <2>1 DEF TextInv
<1>6. \A i \in letters : p <= i /\ i <= m
  <2>1. ASSUME NEW i \in 1 .. m, i < p PROVE full[i] = Space
    <3>1. f + i \in f + 1 .. k
          BY <1>2, <2>1
    <3> QED BY <1>4, <3>1
  <2>2. ASSUME NEW i \in letters PROVE p <= i /\ i <= m
    <3>1. i \in 1 .. m /\ full[i] # Space
          BY <1>3
    <3>2. ~(i < p)
          BY <2>1, <3>1
    <3> QED BY <3>1, <3>2
  <2> QED BY <2>2
<1>7. letters \in SUBSET Int
      BY <1>3
<1>8. Min(letters) = p /\ Max(letters) = m
  <2> HIDE DEF letters
  <2> QED BY <1>5, <1>6, <1>7, MinIs, MaxIs
<1>9. Trimmed(full) = SubSeq(full, p, Len(full))
  <2>1. letters # {}
        BY <1>5
  <2> QED BY <1>3, <1>8, <2>1 DEF Trimmed
<1>10. SubSeq(full, p, Len(full)) = [i \in 1 .. m - p + 1 |-> full[p - 1 + i]]
       BY <1>3, SubSeqIs
<1>11. m - p + 1 = Len(text) - k
       BY <1>1, <1>2 DEF TextInv
<1>12. ASSUME NEW i \in 1 .. Len(text) - k PROVE full[p - 1 + i] = text[k + i]
  <2>1. i \in 1 .. m - p + 1
        BY <1>11, <1>12
  <2>2. p - 1 + i \in 1 .. m
        BY <2>1
  <2>3. f + (p - 1 + i) = k + i
        BY <1>2, <2>1
  <2> QED BY <1>4, <2>2, <2>3
<1>13. [i \in 1 .. m - p + 1 |-> full[p - 1 + i]] = After(k)
  <2>1. PICK d : d = 1 .. Len(text) - k /\ d = 1 .. m - p + 1
        BY <1>11
  <2>2. \A i \in d : full[p - 1 + i] = text[k + i]
        BY <1>12, <2>1
  <2>3. PICK u : u = [i \in d |-> full[p - 1 + i]]
        OBVIOUS
  <2>4. PICK v : v = [i \in d |-> text[k + i]]
        OBVIOUS
  <2>5. u = [i \in d |-> u[i]] /\ v = [i \in d |-> v[i]]
        BY <2>3, <2>4
  <2>6. \A i \in d : u[i] = v[i]
        BY <2>2, <2>3, <2>4
  <2>7. u = v
        BY <2>5, <2>6, Zenon
  <2> QED BY <2>1, <2>3, <2>4, <2>7 DEF After
<1> QED BY <1>9, <1>10, <1>13

LEMMA NoWords == ASSUME TextInv PROVE Words(Of(<<>>)) = <<>>
<1>1. PICK x : x = Of(<<>>)
      OBVIOUS
<1>2. IsString(x) /\ Len(x.text) = 0
      BY <1>1 DEF IsString, Of, TextInv
<1>3. Follow(x, Len(x.text), <<>>, <<>>, FALSE)
      BY <1>2, FollowFirst
<1>4. Words(x) = Ended(<<>>, <<>>, FALSE)
      BY <1>2, <1>3, FollowEnd
<1> QED BY <1>1, <1>4 DEF Ended

LEMMA RestEnds ==
  ASSUME TextInv, MessageInv, RestInv, End, Message
  PROVE  RestInv'
<1>1. /\ ~done /\ done' /\ at = Len(text) + 1 /\ Message' /\ full' = Trimmed(full)
      /\ args' = Ended(args, current, quoted)
      BY DEF End, Finish, Ended, TextInv, Message
<1>2. Of(full)' = Of(full')
      BY DEF Of, End
<1>3. Len(text) \in Nat /\ Len(text) # 0 /\ text[Len(text)] # Space
      BY DEF TextInv
<1>4. SUFFICES ASSUME args' # <<>> PROVE Words(Of(full')) = Tail(args')
      BY <1>1, <1>2 DEF RestInv, RestHasSameWords
<1>5. CASE ~hasCommand
  <2>1. full = <<>> /\ args = <<>>
        BY <1>1, <1>5 DEF RestInv
  <2>2. full' = <<>>
        BY <1>1, <2>1, TrimmedNone
  <2>3. args' = Append(<<>>, current)
        BY <1>1, <1>4, <2>1 DEF Ended
  <2>4. \A y : Tail(Append(<<>>, y)) = <<>>
        OBVIOUS
  <2> QED BY <2>2, <2>3, <2>4, NoWords
<1>6. CASE hasCommand
  <2>1. PICK f \in 1 .. at - 1 :
          /\ text[f] = Space /\ full = [i \in 1 .. at - 1 - f |-> text[f + i]]
          /\ Skipping(f) \/ \E k \in f .. at - 2 : Rereading(f, k)
        BY <1>1, <1>6 DEF RestInv
  <2>2. f \in Nat /\ at - 1 = Len(text) /\ at - 2 = Len(text) - 1
        BY <1>1, <1>3
  <2>3. args # <<>> /\ args \in Seq(Seq(Symbols)) /\ current \in Seq(Symbols)
        BY <1>1, <1>6, MessageTypes DEF RestInv
  <2>4. ~Skipping(f)
    <3>1. f # Len(text)
          BY <1>3, <2>1
    <3>2. Len(text) \in f + 1 .. at - 1
          BY <1>3, <2>1, <2>2, <3>1
    <3> QED BY <1>3, <3>2 DEF Skipping
  <2>5. PICK k \in f .. Len(text) - 1 : Rereading(f, k)
        BY <2>1, <2>2, <2>4
  <2>6. full' = After(k)
    <3>1. full = [i \in 1 .. Len(text) - f |-> text[f + i]]
          BY <2>1, <2>2
    <3>2. Trimmed(full) = After(k)
          BY <2>2, <2>5, <3>1, TrimmedIs DEF Rereading
    <3> QED BY <1>1, <3>2
  <2>7. PICK x : x = Of(After(k))
        OBVIOUS
  <2>8. IsString(x) /\ Len(x.text) = Len(text) - k
    <3>1. k \in 0 .. Len(text)
          BY <1>3, <2>2
    <3> QED BY <2>7, <3>1, AfterIsString
  <2>9. Follow(x, Len(x.text), Tail(args), current, quoted)
        BY <2>2, <2>5, <2>7, <2>8 DEF Rereading, Reads
  <2>10. Words(x) = Ended(Tail(args), current, quoted)
         BY <2>8, <2>9, FollowEnd
  <2>11. Tail(args') = Ended(Tail(args), current, quoted)
         BY <1>1, <2>3, TailEnded
  <2> QED BY <2>6, <2>7, <2>10, <2>11
<1> QED BY <1>5, <1>6

LEMMA RestNext == TextInv /\ MessageInv /\ RestInv /\ [Next]_vars => RestInv'
<1> SUFFICES ASSUME TextInv, MessageInv, RestInv, [Next]_vars, Message' PROVE RestInv'
    BY DEF RestInv
<1>1. Message
  <2>1. loop' = loop
        BY Consumes DEF Next, SplitMessage, Consume, End, Over, vars
  <2> QED BY <2>1 DEF Message
<1>2. CASE SplitMessage
      BY <1>2, RestBegins, RestGrows
<1>3. CASE End
      BY <1>1, <1>3, RestEnds
<1>4. CASE UNCHANGED vars
  <2>1. /\ text' = text /\ at' = at /\ args' = args /\ current' = current /\ quoted' = quoted
        /\ quote' = quote /\ escaped' = escaped /\ hasCommand' = hasCommand /\ full' = full
        /\ network' = network /\ loop' = loop /\ done' = done
        BY <1>4 DEF vars, word, rest
  <2>2. \A k : Of(After(k))' = Of(After(k))
        BY <2>1 DEF Of, After
  <2>3. /\ \A f, k : Rereading(f, k)' <=> Rereading(f, k)
        /\ \A f : Skipping(f)' <=> Skipping(f)
        BY <2>1, <2>2 DEF Rereading, Skipping
  <2>4. RestHasSameWords' <=> RestHasSameWords
        BY <2>1 DEF RestHasSameWords, Message, Of
  <2> QED BY <1>1, <2>1, <2>3, <2>4 DEF RestInv
<1>5. ~SplitParameters
      BY <1>1 DEF SplitParameters, Message
<1> QED BY <1>2, <1>3, <1>4, <1>5 DEF Next, Over

\* fullArgs has just the arguments as its words, whatever was cut off and trimmed.
THEOREM RestIsCutAlike == Spec => []RestHasSameWords
<1>1. Init => TextInv /\ MessageInv /\ RestInv
  <2>1. Init => RestInv
        BY DEF Init, RestInv
  <2> QED BY <2>1, TextInit, MessageInit
<1>2. TextInv /\ MessageInv /\ RestInv /\ [Next]_vars => (TextInv /\ MessageInv /\ RestInv)'
      BY TextNext, MessageNext, RestNext
<1>3. RestInv => RestHasSameWords
      BY DEF RestInv, RestHasSameWords
<1> QED BY <1>1, <1>2, <1>3, PTL DEF Spec

-----------------------------------------------------------------------------
(* The words of parameters.                                                *)

\* What start_plugin() has after n characters: args, current_arg and the quote
\* that is open.  A word with quotes goes to args with the closing one, before
\* the space that ends it.
Splits(x, n, a, c, q) ==
  /\ q = Within(x)[n] /\ q \in Quotes \union {None} /\ ~IsReplaced(x, n)
  /\ \/ Follow(x, n, a, c, q # None)
     \/ /\ q = None /\ c = <<>> /\ (n < Len(x.text) => x.text[n + 1] = Space)
        /\ \E b, s : Follow(x, n, b, s, TRUE) /\ a = Append(b, s)

\* Parameters whose quotes end words, with nothing to be taken literally.
IsSimple(x) == x.loop = "parameters" /\ QuotesEndWords(x) /\ ~HasLiterals(x)

ParametersInv ==
  LET x == Of(text)
  IN IsSimple(x) =>
       IF done THEN args = Words(x) ELSE Splits(x, at - 1, args, current, quote)

LEMMA NothingEscaped ==
  ASSUME NEW x, IsString(x), IsSimple(x), NEW i \in 1 .. Len(x.text)
  PROVE  x.text[i] # Backslash /\ ~Escaped(x, i)
<1>1. \A k \in 1 .. Len(x.text) : x.text[k] # Backslash
      BY DEF IsSimple, HasLiterals
<1>2. CASE i = 1
      BY <1>1, <1>2, EscapedFirst
<1>3. CASE i # 1
  <2>1. PICK k \in 1 .. Len(x.text) : k + 1 = i
    <3>1. i - 1 \in 1 .. Len(x.text) /\ (i - 1) + 1 = i
          BY <1>3, CharactersAre
    <3> QED BY <3>1
  <2> QED BY <1>1, <2>1, EscapedNext
<1> QED BY <1>2, <1>3

\* Without %% every % before an s or an n is replaced.
LEMMA ReplacedIs ==
  ASSUME NEW x, IsString(x), IsSimple(x), NEW i \in 0 .. Len(x.text)
  PROVE  IsReplaced(x, i) <=>
           /\ i \in 1 .. Len(x.text) - 1 /\ Within(x)[i] = None
           /\ x.text[i] = "%" /\ x.text[i + 1] \in {"s", "n"}
<1> DEFINE Run == {j \in 1 .. i - 1 : \A k \in j .. i - 1 : IsPercent(x, k)}
<1>1. CASE i \in 1 .. Len(x.text) - 1 /\ x.text[i] = "%"
  <2>1. i \in 1 .. Len(x.text) /\ Len(x.text) \in Nat
        BY <1>1, CharactersAre
  <2>2. IsPercent(x, i) /\ x.text[i + 1] # "%"
        BY <1>1, <2>1, NothingEscaped DEF IsPercent, IsSimple, HasLiterals
  <2>3. ASSUME NEW j \in Run PROVE FALSE
    <3>1. i - 1 \in j .. i - 1 /\ i - 1 \in 1 .. Len(x.text) - 1 /\ (i - 1) + 1 = i
          BY <2>1
    <3>2. x.text[i - 1] = "%"
          BY <3>1, <2>3 DEF IsPercent
    <3> QED BY <1>1, <3>1, <3>2 DEF IsSimple, HasLiterals
  <2>4. Run = {}
        BY <2>3
  <2>5. Cardinality({}) = 0 /\ 0 % 2 = 0
        BY FS_EmptySet
  <2>6. Cardinality(Run) % 2 = 0
        BY <2>4, <2>5
  <2> HIDE DEF Run
  <2>7. IsReplaced(x, i) <=> /\ x.loop = "parameters" /\ i \in 1 .. Len(x.text) - 1
                             /\ Within(x)[i] = None
                             /\ IsPercent(x, i) /\ x.text[i + 1] \in {"s", "n", "%"}
                             /\ Cardinality(Run) % 2 = 0
        BY DEF IsReplaced, Run
  <2> QED BY <1>1, <2>2, <2>6, <2>7 DEF IsSimple
<1>2. CASE ~(i \in 1 .. Len(x.text) - 1 /\ x.text[i] = "%")
      BY <1>2 DEF IsReplaced, IsPercent
<1> QED BY <1>1, <1>2

LEMMA ParametersAt ==
  ASSUME NEW x, IsString(x), IsSimple(x), NEW i \in 1 .. Len(x.text),
         NEW q, q = Within(x)[i - 1]
  PROVE  /\ Within(x)[i] = IF q = None /\ x.text[i] \in Quotes THEN x.text[i]
                           ELSE IF q = x.text[i] THEN None ELSE q
         /\ IsMark(x, i) <=> Within(x)[i] # q
         /\ i \in Breaks(x) <=> x.text[i] = Space /\ q = None
<1>1. ~Escaped(x, i) /\ Marks(x) = Quotes
      BY NothingEscaped DEF IsSimple, Marks
<1>2. Within(x)[i] = NextQuote(x, i, q)
      BY WithinSteps
<1> QED BY <1>1, <1>2, BreaksAre DEF NextQuote, IsMark

LEMMA SplitsFirst ==
  ASSUME NEW x, IsString(x) PROVE Splits(x, 0, <<>>, <<>>, None)
<1>1. Follow(x, 0, <<>>, <<>>, None # None)
      BY FollowFirst, FollowSame
<1>2. ~IsReplaced(x, 0)
      BY DEF IsReplaced
<1> QED BY <1>1, <1>2, WithinSteps DEF Splits

LEMMA SplitsClose ==
  ASSUME NEW x, IsString(x), IsSimple(x), NEW n \in Nat, n < Len(x.text),
         NEW a, NEW c, NEW q, Splits(x, n, a, c, q), q # None, x.text[n + 1] = q
  PROVE  Splits(x, n + 1, Append(a, c), <<>>, None)
<1>1. PICK i \in 1 .. Len(x.text) : i = n + 1 /\ i - 1 = n
      OBVIOUS
<1>2. q = Within(x)[i - 1] /\ Follow(x, n, a, c, q # None)
      BY <1>1 DEF Splits
<1>3. Within(x)[i] = None /\ IsMark(x, i) /\ i \notin Breaks(x)
      BY <1>1, <1>2, ParametersAt
<1>4. ~IsReplaced(x, i)
  <2>1. x.text[i] \in Quotes
        BY <1>1 DEF Splits
  <2> QED BY <2>1 DEF IsReplaced, IsPercent, Quotes, Single, Double
<1>5. Meaning(x, i) = <<>>
      BY <1>3, <1>4 DEF Meaning
<1>6. Follow(x, n + 1, a, c \o <<>>, TRUE)
      BY <1>1, <1>2, <1>3, <1>5, FollowAdds
<1>7. Follow(x, i, a, c, TRUE)
  <2>1. n \in 0 .. Len(x.text)
        BY <1>1
  <2>2. c \in Seq(Symbols)
        BY <1>2, <2>1, FollowTypes
  <2>3. c \o <<>> = c
        BY <2>2
  <2> QED BY <1>1, <1>6, <2>3
<1>8. i < Len(x.text) => x.text[i + 1] = Space
  <2>1. i < Len(x.text) => i \in 1 .. Len(x.text) - 1
        BY CharactersAre
  <2> QED BY <1>3, <2>1 DEF IsSimple, QuotesEndWords
<1> QED BY <1>1, <1>3, <1>4, <1>7, <1>8 DEF Splits

\* After a word that quotes have ended there is a space or nothing.
LEMMA SplitsOpen ==
  ASSUME NEW x, IsString(x), NEW n \in Nat, n < Len(x.text),
         NEW a, NEW c, NEW q, Splits(x, n, a, c, q), x.text[n + 1] # Space
  PROVE  Follow(x, n, a, c, q # None)
BY DEF Splits

\* A character that adds s to the word and may open a quote.
LEMMA SplitsAdds ==
  ASSUME NEW x, IsString(x), IsSimple(x), NEW n \in Nat, n < Len(x.text),
         NEW a, NEW c, NEW q, Follow(x, n, a, c, q # None), n + 1 \notin Breaks(x),
         NEW s, Meaning(x, n + 1) = s, NEW q1, q1 = Within(x)[n + 1], q1 \in Quotes \union {None},
         q1 # None <=> q # None \/ IsMark(x, n + 1), ~IsReplaced(x, n + 1)
  PROVE  Splits(x, n + 1, a, c \o s, q1)
<1>1. Follow(x, n + 1, a, c \o s, q1 # None)
      BY FollowAdds
<1> QED BY <1>1 DEF Splits

LEMMA SplitsQuote ==
  ASSUME NEW x, IsString(x), IsSimple(x), NEW n \in Nat, n < Len(x.text),
         NEW a, NEW c, Splits(x, n, a, c, None), x.text[n + 1] \in Quotes
  PROVE  Splits(x, n + 1, a, c, x.text[n + 1])
<1>1. PICK i \in 1 .. Len(x.text) : i = n + 1 /\ i - 1 = n
      OBVIOUS
<1>2. x.text[i] # None /\ x.text[i] # Space /\ x.text[i] # "%"
      BY <1>1 DEF Quotes, Single, Double, None, Space
<1>3. None = Within(x)[i - 1]
      BY <1>1 DEF Splits
<1>4. Within(x)[i] = x.text[i] /\ IsMark(x, i) /\ i \notin Breaks(x)
      BY <1>1, <1>2, <1>3, ParametersAt
<1>5. Meaning(x, i) = <<>> /\ ~IsReplaced(x, i)
      BY <1>2, <1>4 DEF Meaning, IsReplaced, IsPercent
<1>6. Follow(x, n, a, c, None # None)
      BY <1>1, <1>2, SplitsOpen
<1>7. Splits(x, n + 1, a, c \o <<>>, x.text[i])
      BY <1>1, <1>2, <1>4, <1>5, <1>6, SplitsAdds
<1>8. c \o <<>> = c
  <2>1. n \in 0 .. Len(x.text)
        BY <1>1
  <2>2. c \in Seq(Symbols)
        BY <1>6, <2>1, FollowTypes
  <2> QED BY <2>2
<1> QED BY <1>1, <1>7, <1>8

LEMMA SplitsSeparate ==
  ASSUME NEW x, IsString(x), IsSimple(x), NEW n \in Nat, n < Len(x.text),
         NEW a, NEW c, Splits(x, n, a, c, None), x.text[n + 1] = Space
  PROVE  Splits(x, n + 1, Ended(a, c, FALSE), <<>>, None)
<1>1. PICK i \in 1 .. Len(x.text) : i = n + 1 /\ i - 1 = n
      OBVIOUS
<1>2. Space # None /\ Space \notin Quotes /\ Space # "%"
      BY DEF Quotes, Single, Double, None, Space
<1>3. None = Within(x)[i - 1]
      BY <1>1 DEF Splits
<1>4. Within(x)[i] = None /\ i \in Breaks(x)
      BY <1>1, <1>2, <1>3, ParametersAt
<1>5. ~IsReplaced(x, i)
      BY <1>1, <1>2 DEF IsReplaced, IsPercent
<1>6. Follow(x, n + 1, Ended(a, c, FALSE), <<>>, None # None)
  <2>1. CASE Follow(x, n, a, c, None # None)
    <3>1. Follow(x, n, a, c, FALSE)
          BY <2>1, FollowSame
    <3>2. ~(None # None)
          OBVIOUS
    <3> QED BY <1>1, <1>4, <3>1, <3>2, FollowBreak
  <2>2. ASSUME c = <<>>, NEW b, NEW s, Follow(x, n, b, s, TRUE), a = Append(b, s)
        PROVE  Follow(x, n + 1, Ended(a, c, FALSE), <<>>, None # None)
    <3>1. Ended(a, c, FALSE) = Ended(b, s, TRUE)
          BY <2>2 DEF Ended
    <3>2. ~(None # None)
          OBVIOUS
    <3>3. Follow(x, n + 1, Ended(b, s, TRUE), <<>>, None # None)
          BY <1>1, <1>4, <2>2, <3>2, FollowBreak
    <3> QED BY <3>1, <3>3
  <2> QED BY <2>1, <2>2 DEF Splits
<1> QED BY <1>1, <1>4, <1>5, <1>6 DEF Splits

\* %s and %n.
LEMMA SplitsReplace ==
  ASSUME NEW x, IsString(x), IsSimple(x), NEW n \in Nat, n + 1 < Len(x.text),
         NEW a, NEW c, Splits(x, n, a, c, None), x.text[n + 1] = "%", x.text[n + 2] \in {"s", "n"}
  PROVE  Splits(x, n + 2, a, c \o (IF x.text[n + 2] = "s" THEN <<Socket>> ELSE x.network), None)
<1> DEFINE s == IF x.text[n + 2] = "s" THEN <<Socket>> ELSE x.network
<1>1. PICK i \in 1 .. Len(x.text) - 1 : i = n + 1 /\ i - 1 = n /\ i + 1 = n + 2
      OBVIOUS
<1>2. PICK j \in 1 .. Len(x.text) : j = i + 1 /\ j - 1 = i
      BY <1>1
<1>3. /\ i \in 1 .. Len(x.text) /\ i \in Nat /\ i < Len(x.text) /\ n \in 0 .. Len(x.text)
      /\ i \in 0 .. Len(x.text) /\ n < Len(x.text)
      BY <1>1, CharactersAre
<1>4. /\ "%" # None /\ "%" \notin Quotes /\ "%" # Space
      /\ \A ch \in {"s", "n"} : ch # None /\ ch \notin Quotes /\ ch # Space /\ ch # "%"
      BY DEF Quotes, Single, Double, None, Space
<1>5. x.text[i] = "%" /\ x.text[j] \in {"s", "n"} /\ s = IF x.text[j] = "s" THEN <<Socket>> ELSE x.network
      BY <1>1, <1>2
<1>6. None = Within(x)[i - 1] /\ Follow(x, n, a, c, None # None)
      BY <1>1, <1>3, <1>4, <1>5, SplitsOpen DEF Splits
<1>7. Within(x)[i] = None /\ ~IsMark(x, i) /\ i \notin Breaks(x)
  <2>1. Within(x)[i] = IF x.text[i] \in Quotes THEN x.text[i]
                       ELSE IF None = x.text[i] THEN None ELSE None
        BY <1>3, <1>6, ParametersAt
  <2>2. Within(x)[i] = None
        BY <1>4, <1>5, <2>1
  <2>3. ~IsMark(x, i) /\ i \notin Breaks(x)
        BY <1>3, <1>4, <1>5, <1>6, <2>2, ParametersAt
  <2> QED BY <2>2, <2>3
<1>8. Within(x)[j] = None /\ ~IsMark(x, j) /\ j \notin Breaks(x)
  <2>1. None = Within(x)[j - 1]
        BY <1>2, <1>7
  <2>2. Within(x)[j] = IF x.text[j] \in Quotes THEN x.text[j]
                       ELSE IF None = x.text[j] THEN None ELSE None
        BY <2>1, ParametersAt
  <2>3. Within(x)[j] = None
        BY <1>4, <1>5, <2>2
  <2>4. ~IsMark(x, j) /\ j \notin Breaks(x)
        BY <1>4, <1>5, <2>1, <2>3, ParametersAt
  <2> QED BY <2>3, <2>4
<1>9. IsReplaced(x, i) /\ ~IsReplaced(x, j)
      BY <1>1, <1>2, <1>3, <1>4, <1>5, <1>7, ReplacedIs
<1>10. Meaning(x, i) = s /\ Meaning(x, j) = <<>>
  <2>1. ~IsReplaced(x, i - 1)
        BY <1>1 DEF Splits
  <2>2. Meaning(x, i) = IF x.text[i + 1] = "s" THEN <<Socket>> ELSE x.network
    <3>1. x.text[i] # Backslash /\ x.text[i + 1] = x.text[j]
          BY <1>2, <1>3, NothingEscaped
    <3>2. Meaning(x, i) = Replacing(x, i)
          BY <1>7, <1>9, <2>1, <3>1 DEF Meaning
    <3> QED BY <1>5, <3>1, <3>2 DEF Replacing
  <2>3. IsReplaced(x, j - 1)
        BY <1>2, <1>9
  <2>4. Meaning(x, j) = <<>>
    <3>1. x.text[j] # Backslash
          BY <1>2, NothingEscaped
    <3> QED BY <1>8, <1>9, <2>3, <3>1 DEF Meaning
  <2> QED BY <1>1, <2>2, <2>4
<1> HIDE DEF s
<1>11. Follow(x, n + 1, a, c \o s, None # None)
       BY <1>1, <1>3, <1>6, <1>7, <1>10, FollowAdds
<1>12. Follow(x, i, a, c \o s, None # None)
       BY <1>1, <1>11
<1>13. Follow(x, i + 1, a, (c \o s) \o <<>>, None # None)
       BY <1>2, <1>3, <1>8, <1>10, <1>12, FollowAdds
<1>14. (c \o s) \o <<>> = c \o s
  <2>1. c \o s \in Seq(Symbols)
        BY <1>3, <1>12, FollowTypes
  <2> QED BY <2>1
<1>15. Follow(x, j, a, c \o s, None # None)
       BY <1>2, <1>13, <1>14
<1>16. Splits(x, j, a, c \o s, None)
       BY <1>8, <1>9, <1>15 DEF Splits
<1> QED BY <1>1, <1>2, <1>16 DEF s

\* Any other character.
LEMMA SplitsPlain ==
  ASSUME NEW x, IsString(x), IsSimple(x), NEW n \in Nat, n < Len(x.text),
         NEW a, NEW c, NEW q, Splits(x, n, a, c, q),
         IF q = None
         THEN /\ x.text[n + 1] \notin Quotes \union {Space}
              /\ ~(x.text[n + 1] = "%" /\ n + 1 < Len(x.text) /\ x.text[n + 2] \in {"s", "n"})
         ELSE x.text[n + 1] # q
  PROVE  Splits(x, n + 1, a, c \o <<x.text[n + 1]>>, q)
<1>1. PICK i \in 1 .. Len(x.text) : i = n + 1 /\ i - 1 = n /\ i + 1 = n + 2
      OBVIOUS
<1>2. q = Within(x)[i - 1] /\ q \in Quotes \union {None} /\ ~IsReplaced(x, i - 1)
      BY <1>1 DEF Splits
<1>3. Follow(x, n, a, c, q # None)
      BY <1>1, SplitsOpen DEF Splits
<1>4. x.text[i] # None
      BY CharactersAre
<1>5. Within(x)[i] = q
  <2>1. Within(x)[i] = IF q = None /\ x.text[i] \in Quotes THEN x.text[i]
                       ELSE IF q = x.text[i] THEN None ELSE q
        BY <1>2, ParametersAt
  <2>2. IF q = None THEN x.text[i] \notin Quotes ELSE x.text[i] # q
        BY <1>1
  <2> QED BY <1>4, <2>1, <2>2
<1>6. ~IsMark(x, i) /\ i \notin Breaks(x)
      BY <1>1, <1>2, <1>5, ParametersAt
<1>7. ~IsReplaced(x, i)
  <2>1. i \in 1 .. Len(x.text) - 1 => n + 1 < Len(x.text)
        BY <1>1, CharactersAre
  <2>2. i \in 0 .. Len(x.text)
        OBVIOUS
  <2> QED BY <1>1, <1>5, <2>1, <2>2, ReplacedIs
<1>8. Meaning(x, i) = <<x.text[i]>>
  <2>1. x.text[i] # Backslash
        BY NothingEscaped
  <2> QED BY <1>2, <1>6, <1>7, <2>1 DEF Meaning
<1> QED BY <1>1, <1>2, <1>3, <1>5, <1>6, <1>7, <1>8, SplitsAdds

LEMMA ParametersRound ==
  ASSUME TextInv, SplitParameters, NEW x, x = Of(text), IsSimple(x),
         Splits(x, at - 1, args, current, quote)
  PROVE  Splits(x, at' - 1, args', current', quote')
<1>1. IsString(x) /\ x.loop = "parameters" /\ x.text = text /\ x.network = network
      BY TextIsString DEF SplitParameters, Of
<1>2. PICK n \in Nat : n = at - 1 /\ n + 1 = at /\ n < Len(x.text) /\ n + 2 = at + 1
      BY <1>1 DEF TextInv, SplitParameters
<1>3. Splits(x, n, args, current, quote) /\ x.text[n + 1] = Char
      BY <1>1, <1>2 DEF Char
<1>4. /\ Consume(1) => at' - 1 = n + 1
      /\ Consume(2) => at' - 1 = n + 2
      BY <1>2 DEF Consume
<1>5. CASE CloseQuote
  <2>1. quote # None /\ Char = quote
        BY <1>5 DEF CloseQuote
  <2>2. /\ args' = Append(args, current) /\ current' = <<>> /\ quote' = None
        /\ at' - 1 = n + 1
        BY <1>4, <1>5 DEF CloseQuote, Finish
  <2>3. Splits(x, n + 1, Append(args, current), <<>>, None)
        BY <1>1, <1>2, <1>3, <2>1, SplitsClose
  <2> QED BY <2>2, <2>3
<1>6. CASE OpenQuote
  <2>1. /\ quote = None /\ Char \in Quotes /\ quote' = Char /\ at' - 1 = n + 1
        /\ args' = args /\ current' = current
        BY <1>4, <1>6 DEF OpenQuote, word
  <2>2. Splits(x, n, args, current, None) /\ x.text[n + 1] \in Quotes
        BY <1>3, <2>1
  <2>3. Splits(x, n + 1, args, current, x.text[n + 1])
        BY <1>1, <1>2, <2>2, SplitsQuote
  <2> QED BY <1>3, <2>1, <2>3
<1>7. CASE Separate
  <2>1. /\ quote = None /\ Char = Space /\ quote' = None /\ at' - 1 = n + 1
        /\ args' = Ended(args, current, FALSE) /\ current' = <<>>
        BY <1>4, <1>7 DEF Separate, Finish, Ended
  <2>2. Splits(x, n, args, current, None) /\ x.text[n + 1] = Space
        BY <1>3, <2>1
  <2>3. Splits(x, n + 1, Ended(args, current, FALSE), <<>>, None)
        BY <1>1, <1>2, <2>2, SplitsSeparate
  <2> QED BY <2>1, <2>3
<1>8. CASE Replacement
  <2> DEFINE next == IF at < Len(text) THEN text[at + 1] ELSE None
  <2>1. quote = None /\ Char = "%" /\ quote' = None
        BY <1>8 DEF Replacement
  <2>2. Splits(x, n, args, current, None) /\ x.text[n + 1] = "%"
        BY <1>3, <2>1
  <2>3. CASE next \in {"s", "n"}
    <3>1. at < Len(text)
          BY <2>3 DEF None
    <3>2. n + 1 < Len(x.text) /\ x.text[n + 2] = next
          BY <1>1, <1>2, <3>1
    <3> DEFINE s == IF x.text[n + 2] = "s" THEN <<Socket>> ELSE x.network
    <3>3. Build(s) /\ Consume(2)
          BY <1>1, <1>8, <2>3, <3>2 DEF Replacement, Replaced
    <3>4. args' = args /\ current' = current \o s /\ at' - 1 = n + 2
          BY <1>4, <3>3 DEF Build
    <3>5. x.text[n + 2] \in {"s", "n"}
          BY <2>3, <3>2
    <3>6. Splits(x, n + 2, args, current \o s, None)
          BY <1>1, <2>2, <3>2, <3>5, SplitsReplace
    <3> QED BY <2>1, <3>4, <3>6
  <2>4. CASE next \notin {"s", "n"}
    <3>1. Build(<<Char>>) /\ Consume(1)
          BY <1>8, <2>4 DEF Replacement
    <3>2. args' = args /\ current' = current \o <<Char>> /\ at' - 1 = n + 1
          BY <1>4, <3>1 DEF Build
    <3>3. n + 1 < Len(x.text) => x.text[n + 2] \notin {"s", "n"}
          BY <1>1, <1>2, <2>4
    <3>4. x.text[n + 1] \notin Quotes \union {Space}
          BY <2>2 DEF Quotes, Single, Double, Space
    <3>5. Splits(x, n + 1, args, current \o <<x.text[n + 1]>>, None)
          BY <1>1, <1>2, <2>2, <3>3, <3>4, SplitsPlain
    <3> QED BY <1>3, <2>1, <3>2, <3>5
  <2> QED BY <2>3, <2>4
<1>9. CASE Plain
  <2>1. /\ IF quote = None THEN Char \notin Quotes \union {Space, "%"} ELSE Char # quote
        /\ args' = args /\ current' = current \o <<Char>> /\ quote' = quote /\ at' - 1 = n + 1
        BY <1>4, <1>9 DEF Plain, Build
  <2>2. Splits(x, n + 1, args, current \o <<x.text[n + 1]>>, quote)
        BY <1>1, <1>2, <1>3, <2>1, SplitsPlain
  <2> QED BY <1>3, <2>1, <2>2
<1> QED BY <1>5, <1>6, <1>7, <1>8, <1>9 DEF SplitParameters

LEMMA ParametersEnd ==
  ASSUME TextInv, TypeOK, End, NEW x, x = Of(text), IsSimple(x),
         Splits(x, at - 1, args, current, quote)
  PROVE  args' = Words(x)
<1>1. IsString(x) /\ x.text = text
      BY TextIsString
<1>2. at - 1 = Len(x.text)
      BY <1>1 DEF TextInv, End
<1>0. ~Message
      BY DEF IsSimple, Of, Message
<1>3. ~quoted /\ args' = Ended(args, current, FALSE)
      BY <1>0 DEF TypeOK, End, Finish, Ended
<1>4. Splits(x, Len(x.text), args, current, quote) /\ quote = None
      BY <1>2 DEF Splits, IsSimple, QuotesEndWords
<1>5. CASE Follow(x, Len(x.text), args, current, quote # None)
  <2>1. Follow(x, Len(x.text), args, current, FALSE)
        BY <1>4, <1>5, FollowSame
  <2> QED BY <1>1, <1>3, <2>1, FollowEnd
<1>6. ASSUME current = <<>>, NEW b, NEW s, Follow(x, Len(x.text), b, s, TRUE), args = Append(b, s)
      PROVE  args' = Words(x)
  <2>1. Words(x) = Ended(b, s, TRUE)
        BY <1>1, <1>6, FollowEnd
  <2> QED BY <1>3, <1>6, <2>1 DEF Ended
<1> QED BY <1>4, <1>5, <1>6 DEF Splits

LEMMA ParametersInit == Init => ParametersInv
<1> SUFFICES ASSUME Init PROVE ParametersInv
    OBVIOUS
<1>1. IsString(Of(text))
      BY TextInit, TextIsString
<1>2. at - 1 = 0 /\ ~done
      BY DEF Init
<1> QED BY <1>1, <1>2, SplitsFirst DEF Init, ParametersInv

LEMMA ParametersNext == TextInv /\ TypeOK /\ ParametersInv /\ [Next]_vars => ParametersInv'
<1> SUFFICES ASSUME TextInv, TypeOK, ParametersInv, [Next]_vars PROVE ParametersInv'
    OBVIOUS
<1>1. PICK x : x = Of(text)
      OBVIOUS
<1>2. Of(text)' = x /\ loop' = loop
  <2>1. text' = text /\ loop' = loop /\ network' = network
        BY Consumes DEF Next, SplitMessage, End, Over, Consume, vars
  <2> QED BY <1>1, <2>1 DEF Of
<1>3. SUFFICES ASSUME IsSimple(x)
               PROVE  IF done' THEN args' = Words(x)
                      ELSE Splits(x, at' - 1, args', current', quote')
      BY <1>2 DEF ParametersInv
<1>4. IF done THEN args = Words(x) ELSE Splits(x, at - 1, args, current, quote)
      BY <1>1, <1>3 DEF ParametersInv
<1>5. CASE SplitParameters
  <2>1. ~done /\ ~done'
        BY <1>5, Consumes DEF SplitParameters, TextInv, Consume
  <2> QED BY <1>1, <1>3, <1>4, <1>5, <2>1, ParametersRound
<1>6. CASE End
  <2>1. ~done /\ done'
        BY <1>6 DEF End
  <2> QED BY <1>1, <1>3, <1>4, <1>6, <2>1, ParametersEnd
<1>7. CASE UNCHANGED vars
      BY <1>4, <1>7 DEF vars, word
<1>8. ~SplitMessage
      BY <1>1, <1>3 DEF SplitMessage, IsSimple, Of
<1> QED BY <1>5, <1>6, <1>7, <1>8 DEF Next, Over

\* The arguments of a plugin are the words of its parameters if quotes end where
\* words do and nothing is to be taken literally, with %s and %n replaced outside
\* quotes.
THEOREM ParametersAreCutRight == Spec => []ParametersAreWords
<1>1. Init => TextInv /\ TypeOK /\ ParametersInv
      BY TextInit, TypeInit, ParametersInit
<1>2. TextInv /\ TypeOK /\ ParametersInv /\ [Next]_vars => (TextInv /\ TypeOK /\ ParametersInv)'
      BY TextNext, TypeNext, ParametersNext
<1>3. TextInv /\ ParametersInv => ParametersAreWords
  <2>1. TextInv /\ ~Message => Of(text).loop = "parameters"
        BY DEF TextInv, Message, Of
  <2> QED BY <2>1 DEF ParametersInv, ParametersAreWords, IsSimple
<1> QED BY <1>1, <1>2, <1>3, PTL DEF Spec

================================================================================
