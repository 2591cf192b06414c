------------------------------ MODULE Ranks_proofs ------------------------------
(***************************************************************************)
(* Lemmas about sets of numbers in ascending order, about sequences that   *)
(* grow, and the least number of a set, by which induction is done here,   *)
(* also for functions that are defined by recursion.                       *)
(***************************************************************************)
EXTENDS Ranks, FiniteSetTheorems, SequenceTheorems, WellFoundedInduction, TLAPS

LEMMA LeastOf ==
  ASSUME NEW T \in SUBSET Nat, T # {} PROVE \E n \in T : \A k \in T : n <= k
<1>1. PICK n \in T : \A k \in T : ~(<<k, n>> \in OpToRel(<, Nat))
      BY NatLessThanWellFounded, WFMin, Zenon
<1>2. \A k \in T : ~(k < n)
      BY <1>1, Zenon DEF OpToRel
<1> QED BY <1>2

\* How many elements of S are below i.
Rank(S, i) == Cardinality({j \in S : j < i})

LEMMA RankIs ==
  ASSUME NEW S \in SUBSET Nat, IsFiniteSet(S), NEW i \in S
  PROVE  /\ Rank(S, i) \in 0 .. Cardinality(S) - 1
         /\ \A k \in S : i < k => Rank(S, i) < Rank(S, k)
<1> DEFINE Below(k) == {j \in S : j < k}
<1>1. \A k \in S : IsFiniteSet(Below(k)) /\ Cardinality(Below(k)) \in Nat
      BY FS_Subset, FS_CardinalityType
<1>2. ASSUME NEW U \in SUBSET S, IsFiniteSet(U), NEW T \in SUBSET U, i \in U, i \notin T
      PROVE  Cardinality(T) < Cardinality(U)
  <2>1. /\ Cardinality(T) <= Cardinality(U) /\ (Cardinality(U) = Cardinality(T) => U = T)
        /\ IsFiniteSet(T)
        BY <1>2, FS_Subset
  <2>2. Cardinality(T) \in Nat /\ Cardinality(U) \in Nat
        BY <1>2, <2>1, FS_CardinalityType
  <2> QED BY <1>2, <2>1, <2>2
<1>3. Cardinality(Below(i)) < Cardinality(S)
  <2>1. Below(i) \in SUBSET S /\ i \notin Below(i) /\ S \in SUBSET S
        OBVIOUS
  <2> HIDE DEF Below
  <2> QED BY <1>2, <2>1
<1>4. ASSUME NEW k \in S, i < k PROVE Cardinality(Below(i)) < Cardinality(Below(k))
  <2>1. \A j \in S : j < i => j < k
        BY <1>4
  <2>2. Below(k) \in SUBSET S /\ Below(i) \in SUBSET Below(k)
        BY <2>1
  <2>3. i \notin Below(i) /\ i \in Below(k)
        BY <1>4
  <2>4. IsFiniteSet(Below(k))
        BY <1>1
  <2> HIDE DEF Below
  <2> QED BY <1>2, <2>2, <2>3, <2>4
<1>5. Cardinality(S) \in Nat
      BY FS_CardinalityType
<1> QED BY <1>1, <1>3, <1>4, <1>5 DEF Rank

\* InOrder hands out elements of S.
LEMMA InOrderMember ==
  ASSUME NEW S \in SUBSET Nat, IsFiniteSet(S), NEW m \in 1 .. Cardinality(S)
  PROVE  InOrder(S)[m] \in S
<1> DEFINE c == Cardinality(S)
           T == 0 .. c - 1
           rank == [i \in S |-> Rank(S, i)]
<1>1. c \in Nat
      BY FS_CardinalityType
<1>2. rank \in [S -> T]
      BY RankIs
<1>3. \A i, k \in S : i # k => rank[i] # rank[k]
  <2>1. ASSUME NEW i \in S, NEW k \in S, i < k PROVE rank[i] # rank[k]
        BY <2>1, RankIs
  <2>2. \A i, k \in S : i # k => i < k \/ k < i
        OBVIOUS
  <2> QED BY <2>1, <2>2
<1>4. IsFiniteSet(T) /\ Cardinality(T) = c
  <2>1. PICK b \in Int : b = c - 1
        BY <1>1
  <2>2. IsFiniteSet(0 .. b) /\ Cardinality(0 .. b) = IF 0 > b THEN 0 ELSE b - 0 + 1
        BY FS_Interval
  <2> QED BY <1>1, <2>1, <2>2
<1>5. rank \in Injection(S, T)
  <2> HIDE DEF rank, T
  <2> QED BY <1>2, <1>3 DEF Injection, IsInjective
<1>6. rank \in Surjection(S, T)
      BY <1>4, <1>5, FS_Injection
<1>7. m - 1 \in T
      BY <1>1
<1>8. \E i \in S : rank[i] = m - 1
  <2> HIDE DEF rank, T
  <2> QED BY <1>6, <1>7 DEF Surjection
<1>9. PICK i \in S : Rank(S, i) = m - 1
      BY <1>8
<1> QED BY <1>9 DEF InOrder, Rank

\* A number above all of S comes last.
LEMMA InOrderAdd ==
  ASSUME NEW S \in SUBSET Nat, IsFiniteSet(S), NEW s \in Nat, \A i \in S : i < s
  PROVE  /\ DOMAIN InOrder(S) = 1 .. Cardinality(S)
         /\ DOMAIN InOrder(S \union {s}) = 1 .. Cardinality(S) + 1
         /\ \A m \in 1 .. Cardinality(S) : InOrder(S \union {s})[m] = InOrder(S)[m]
         /\ InOrder(S \union {s})[Cardinality(S) + 1] = s
<1> DEFINE c == Cardinality(S)
           U == S \union {s}
           At(V, m) == {i \in V : Cardinality({j \in V : j < i}) = m - 1}
<1>1. c \in Nat /\ s \notin S /\ Cardinality(U) = c + 1
      BY FS_CardinalityType, FS_AddElement
<1>2. \A i \in S : {j \in U : j < i} = {j \in S : j < i}
      OBVIOUS
<1>3. {j \in U : j < s} = S
  <2>1. ~(s < s) /\ \A j \in S : j < s
        OBVIOUS
  <2> QED BY <2>1
<1>4. ASSUME NEW m \in 1 .. c PROVE At(U, m) = At(S, m)
  <2>1. c # m - 1
        BY <1>1
  <2> QED BY <1>2, <1>3, <2>1
<1>5. At(U, c + 1) = {s}
  <2>1. \A i \in S : Cardinality({j \in S : j < i}) # (c + 1) - 1
        BY <1>1, RankIs DEF Rank
  <2>2. (c + 1) - 1 = c
        BY <1>1
  <2> QED BY <1>2, <1>3, <2>1, <2>2, ZenonT(40)
<1>6. \A V : InOrder(V) = [m \in 1 .. Cardinality(V) |-> CHOOSE i \in At(V, m) : TRUE]
      BY DEF InOrder
<1>7. \A m \in 1 .. c : m \in 1 .. c + 1
      BY <1>1
<1>8. c + 1 \in 1 .. c + 1
      BY <1>1
<1> HIDE DEF At, U, c
<1>9. ASSUME NEW m \in 1 .. c PROVE InOrder(U)[m] = InOrder(S)[m]
  <2>1. InOrder(S)[m] = CHOOSE i \in At(S, m) : TRUE
        BY <1>6 DEF c
  <2>2. InOrder(U)[m] = CHOOSE i \in At(U, m) : TRUE
        BY <1>1, <1>6, <1>7
  <2> QED BY <1>4, <2>1, <2>2
<1>10. InOrder(U)[c + 1] = s
      BY <1>1, <1>5, <1>6, <1>8
<1>11. DOMAIN InOrder(S) = 1 .. c /\ DOMAIN InOrder(U) = 1 .. c + 1
      BY <1>1, <1>6 DEF c
<1> QED BY <1>9, <1>10, <1>11 DEF U, c

LEMMA AppendIs ==
  ASSUME NEW T, NEW c \in Nat, NEW g \in [1 .. c -> T], NEW x \in T
  PROVE  Append(g, x) = [m \in 1 .. c + 1 |-> IF m = c + 1 THEN x ELSE g[m]]
<1>1. g \in Seq(T) /\ Len(g) = c
      OBVIOUS
<1>2. /\ Append(g, x) \in Seq(T) /\ Len(Append(g, x)) = c + 1
      /\ \A m \in 1 .. c : Append(g, x)[m] = g[m]
      /\ Append(g, x)[c + 1] = x
      BY <1>1
<1>3. Append(g, x) = [m \in 1 .. c + 1 |-> Append(g, x)[m]]
  <2>1. PICK h : h = Append(g, x)
        OBVIOUS
  <2>2. h \in Seq(T) /\ Len(h) = c + 1
        BY <1>2, <2>1
  <2>3. h \in [1 .. c + 1 -> T]
        BY <2>2, LenProperties
  <2> QED BY <2>1, <2>3
<1>4. \A m \in 1 .. c + 1 : m = c + 1 \/ m \in 1 .. c
      OBVIOUS
<1> QED BY <1>2, <1>3, <1>4

LEMMA InOrderDomain ==
  ASSUME NEW S PROVE DOMAIN InOrder(S) = 1 .. Cardinality(S)
BY DEF InOrder

-----------------------------------------------------------------------------
(* Functions on the natural numbers that are defined by recursion.         *)

\* g begins with a, and its next value up to the n-th is h of the number and
\* value before.
Unfolds(g, a, h, n) ==
  /\ g \in [0 .. n -> Nat] /\ g[0] = a
  /\ \A k \in 0 .. n - 1 : g[k + 1] = h[<<k, g[k]>>]

LEMMA RecursionTo ==
  ASSUME NEW a \in Nat, NEW h \in [Nat \X Nat -> Nat], NEW n \in Nat
  PROVE  \E g : Unfolds(g, a, h, n)
<1> DEFINE T == {m \in Nat : ~\E g : Unfolds(g, a, h, m)}
<1>1. SUFFICES ASSUME T # {} PROVE FALSE
      OBVIOUS
<1>2. PICK m \in T : \A k \in T : m <= k
      BY <1>1, LeastOf
<1>3. m # 0
  <2>1. Unfolds([k \in 0 .. 0 |-> a], a, h, 0)
        BY DEF Unfolds
  <2> QED BY <2>1
<1>4. PICK p \in Nat : m = p + 1
      BY <1>3
<1>5. PICK g : Unfolds(g, a, h, p)
      BY <1>2, <1>4
<1> DEFINE f == [k \in 0 .. p + 1 |-> IF k = p + 1 THEN h[<<p, g[p]>>] ELSE g[k]]
<1>6. g \in [0 .. p -> Nat] /\ g[0] = a /\ \A k \in 0 .. p - 1 : g[k + 1] = h[<<k, g[k]>>]
      BY <1>5 DEF Unfolds
<1>7. h[<<p, g[p]>>] \in Nat
      BY <1>6
<1>8. f \in [0 .. p + 1 -> Nat] /\ f[0] = a
      BY <1>6, <1>7
<1>9. ASSUME NEW k \in 0 .. p PROVE f[k + 1] = h[<<k, f[k]>>]
  <2>1. f[k] = g[k]
        OBVIOUS
  <2>2. CASE k = p
    <3>1. f[p + 1] = h[<<p, g[p]>>]
          OBVIOUS
    <3> HIDE DEF f
    <3> QED BY <2>1, <2>2, <3>1
  <2>3. CASE k # p
    <3>1. k \in 0 .. p - 1 /\ k + 1 # p + 1 /\ k + 1 \in 0 .. p + 1
          BY <2>3
    <3> QED BY <1>6, <2>1, <3>1
  <2> QED BY <2>2, <2>3
<1>10. Unfolds(f, a, h, m)
  <2>1. m - 1 = p
        BY <1>4
  <2> HIDE DEF f
  <2> QED BY <1>4, <1>8, <1>9, <2>1 DEF Unfolds
<1> QED BY <1>2, <1>10

LEMMA RecursionOnce ==
  ASSUME NEW a \in Nat, NEW h \in [Nat \X Nat -> Nat], NEW n \in Nat, NEW m \in Nat,
         NEW f, NEW g, Unfolds(f, a, h, n), Unfolds(g, a, h, m),
         NEW i \in Nat, i <= n, i <= m
  PROVE  f[i] = g[i]
<1> DEFINE T == {k \in Nat : k <= n /\ k <= m /\ f[k] # g[k]}
<1>1. SUFFICES ASSUME T # {} PROVE FALSE
      OBVIOUS
<1>2. PICK k \in T : \A j \in T : k <= j
      BY <1>1, LeastOf
<1>3. k # 0
      BY DEF Unfolds
<1>4. PICK p \in Nat : k = p + 1 /\ p \in 0 .. n - 1 /\ p \in 0 .. m - 1 /\ ~(k <= p)
                       /\ p <= n /\ p <= m
      BY <1>3
<1>5. f[p] = g[p]
      BY <1>2, <1>4
<1>6. f[p + 1] = h[<<p, f[p]>>] /\ g[p + 1] = h[<<p, g[p]>>]
      BY <1>4 DEF Unfolds
<1> QED BY <1>2, <1>4, <1>5, <1>6

LEMMA RecursionExists ==
  ASSUME NEW a \in Nat, NEW h \in [Nat \X Nat -> Nat]
  PROVE  \E f \in [Nat -> Nat] : f[0] = a /\ \A n \in Nat : f[n + 1] = h[<<n, f[n]>>]
<1> DEFINE G(n) == CHOOSE g : Unfolds(g, a, h, n)
           f == [n \in Nat |-> G(n)[n]]
<1>1. \A n \in Nat : Unfolds(G(n), a, h, n)
      BY RecursionTo
<1> HIDE DEF G
<1>2. f \in [Nat -> Nat] /\ f[0] = a
      BY <1>1 DEF Unfolds
<1>3. ASSUME NEW n \in Nat PROVE f[n + 1] = h[<<n, f[n]>>]
  <2>1. n + 1 \in Nat /\ n \in 0 .. (n + 1) - 1 /\ n <= n /\ n <= n + 1
        OBVIOUS
  <2>2. G(n + 1)[n + 1] = h[<<n, G(n + 1)[n]>>]
        BY <1>1, <2>1 DEF Unfolds
  <2>3. G(n + 1)[n] = G(n)[n]
        BY <1>1, <2>1, RecursionOnce
  <2> QED BY <2>1, <2>2, <2>3
<1> HIDE DEF f
<1> QED BY <1>2, <1>3
================================================================================
