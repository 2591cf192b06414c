--------------------------- MODULE PluginSocket_proofs ---------------------------
(***************************************************************************)
(* Theorems about the sockets of plugins, for any plugins, packets and     *)
(* bounds: the types, and that the poll() loop keeps what PluginChannel    *)
(* promises.  First lemmas about bytes: what a plugin that sends packets   *)
(* writes, and what is left of that when poll() has handled some of them.  *)
(***************************************************************************)
EXTENDS PluginSocket, FiniteSetTheorems, SequenceTheorems, TLAPS

-----------------------------------------------------------------------------
(* Sequences.                                                              *)

LEMMA ConcatFacts ==
  ASSUME NEW S, NEW s \in Seq(S), NEW t \in Seq(S)
  PROVE  /\ s \o t \in Seq(S) /\ Len(s \o t) = Len(s) + Len(t)
         /\ \A j \in 1 .. Len(s) + Len(t) :
              (s \o t)[j] = IF j <= Len(s) THEN s[j] ELSE t[j - Len(s)]
OBVIOUS

LEMMA TakeFacts ==
  ASSUME NEW S, NEW s \in Seq(S), NEW n \in 0 .. Len(s)
  PROVE  /\ Take(s, n) \in Seq(S) /\ Len(Take(s, n)) = n
         /\ \A j \in 1 .. n : Take(s, n)[j] = s[j]
BY DEF Take

LEMMA DropFacts ==
  ASSUME NEW S, NEW s \in Seq(S), NEW n \in 0 .. Len(s)
  PROVE  /\ Drop(s, n) \in Seq(S) /\ Len(Drop(s, n)) = Len(s) - n
         /\ \A j \in 1 .. Len(s) - n : Drop(s, n)[j] = s[n + j]
BY DEF Drop

LEMMA TakeThenDrop ==
  ASSUME NEW S, NEW s \in Seq(S), NEW n \in 0 .. Len(s)
  PROVE  Take(s, n) \o Drop(s, n) = s
<1> DEFINE a == Take(s, n) b == Drop(s, n)
<1>1. a \in Seq(S) /\ Len(a) = n /\ \A j \in 1 .. n : a[j] = s[j]
      BY TakeFacts
<1>2. b \in Seq(S) /\ Len(b) = Len(s) - n /\ \A j \in 1 .. Len(s) - n : b[j] = s[n + j]
      BY DropFacts
<1> HIDE DEF a, b
<1>3. /\ a \o b \in Seq(S) /\ Len(a \o b) = Len(a) + Len(b)
      /\ \A j \in 1 .. Len(a) + Len(b) :
           (a \o b)[j] = IF j <= Len(a) THEN a[j] ELSE b[j - Len(a)]
      BY <1>1, <1>2, ConcatFacts
<1>4. ASSUME NEW j \in 1 .. Len(s) PROVE (a \o b)[j] = s[j]
  <2>1. (a \o b)[j] = IF j <= n THEN a[j] ELSE b[j - n]
        BY <1>1, <1>2, <1>3
  <2>2. CASE j <= n
        BY <1>1, <2>1, <2>2
  <2>3. CASE ~(j <= n)
    <3>1. j - n \in 1 .. Len(s) - n /\ n + (j - n) = j
          BY <2>3
    <3> QED BY <1>2, <2>1, <2>3, <3>1
  <2> QED BY <2>2, <2>3
<1>5. Len(a \o b) = Len(s)
      BY <1>1, <1>2, <1>3
<1>6. a \o b = s
      BY <1>3, <1>4, <1>5, SeqEqual
<1> QED BY <1>6 DEF a, b

LEMMA DropOfDrop ==
  ASSUME NEW S, NEW s \in Seq(S), NEW m \in 0 .. Len(s), NEW n \in 0 .. Len(s) - m
  PROVE  Drop(Drop(s, m), n) = Drop(s, m + n)
<1>0. PICK k : k = m + n
      OBVIOUS
<1> DEFINE a == Drop(s, m) b == Drop(a, n) c == Drop(s, k)
<1>1. k \in 0 .. Len(s)
      BY <1>0
<1>2. a \in Seq(S) /\ Len(a) = Len(s) - m /\ \A j \in 1 .. Len(s) - m : a[j] = s[m + j]
      BY DropFacts
<1> HIDE DEF a
<1>3. n \in 0 .. Len(a)
      BY <1>2
<1>4. b \in Seq(S) /\ Len(b) = Len(a) - n /\ \A j \in 1 .. Len(a) - n : b[j] = a[n + j]
      BY DropFacts, <1>2, <1>3, SMTT(30)
<1>5. /\ c \in Seq(S) /\ Len(c) = Len(s) - k
      /\ \A j \in 1 .. Len(s) - k : c[j] = s[k + j]
      BY DropFacts, <1>1
<1> HIDE DEF b, c
<1>6. Len(b) = Len(c)
      BY <1>0, <1>1, <1>2, <1>4, <1>5
<1>7. ASSUME NEW j \in 1 .. Len(b) PROVE b[j] = c[j]
  <2>1. b[j] = a[n + j]
        BY <1>2, <1>4
  <2>2. n + j \in 1 .. Len(s) - m /\ m + (n + j) = k + j
        BY <1>0, <1>2, <1>4
  <2>3. a[n + j] = s[k + j]
        BY <1>2, <2>2
  <2> QED BY <1>5, <1>6, <2>1, <2>3
<1>8. b = c
      BY <1>4, <1>5, <1>6, <1>7, SeqEqual
<1> QED BY <1>0, <1>8 DEF a, b, c

LEMMA DropOfConcat ==
  ASSUME NEW S, NEW s \in Seq(S), NEW t \in Seq(S), NEW n \in 0 .. Len(s)
  PROVE  Drop(s \o t, n) = Drop(s, n) \o t
<1> DEFINE st == s \o t b == Drop(s, n) d == Drop(st, n)
<1>1. /\ st \in Seq(S) /\ Len(st) = Len(s) + Len(t)
      /\ \A j \in 1 .. Len(s) + Len(t) : st[j] = IF j <= Len(s) THEN s[j] ELSE t[j - Len(s)]
      BY ConcatFacts
<1>2. b \in Seq(S) /\ Len(b) = Len(s) - n /\ \A j \in 1 .. Len(s) - n : b[j] = s[n + j]
      BY DropFacts
<1> HIDE DEF st
<1>3. n \in 0 .. Len(st)
      BY <1>1
<1>4. d \in Seq(S) /\ Len(d) = Len(st) - n /\ \A j \in 1 .. Len(st) - n : d[j] = st[n + j]
      BY DropFacts, <1>1, <1>3, ZenonT(40)
<1> HIDE DEF b, d
<1>5. /\ b \o t \in Seq(S) /\ Len(b \o t) = Len(b) + Len(t)
      /\ \A j \in 1 .. Len(b) + Len(t) :
           (b \o t)[j] = IF j <= Len(b) THEN b[j] ELSE t[j - Len(b)]
      BY <1>2, ConcatFacts
<1>6. Len(b \o t) = Len(d)
      BY <1>1, <1>2, <1>4, <1>5
<1>7. ASSUME NEW j \in 1 .. Len(d) PROVE d[j] = (b \o t)[j]
  <2>1. d[j] = st[n + j] /\ n + j \in 1 .. Len(s) + Len(t)
        BY <1>1, <1>4
  <2>2. CASE j <= Len(b)
    <3>1. n + j <= Len(s) /\ j \in 1 .. Len(s) - n
          BY <1>2, <2>2
    <3>2. d[j] = s[n + j]
          BY <1>1, <2>1, <3>1
    <3>3. (b \o t)[j] = b[j] /\ b[j] = s[n + j]
          BY <1>2, <1>5, <1>6, <2>2, <3>1
    <3> QED BY <3>2, <3>3
  <2>3. CASE ~(j <= Len(b))
    <3>1. ~(n + j <= Len(s)) /\ n + j - Len(s) = j - Len(b)
          BY <1>2, <2>3
    <3>2. d[j] = t[n + j - Len(s)]
          BY <1>1, <2>1, <3>1
    <3>3. (b \o t)[j] = t[j - Len(b)]
          BY <1>5, <1>6, <2>3
    <3> QED BY <3>1, <3>2, <3>3
  <2> QED BY <2>2, <2>3
<1>8. d = b \o t
      BY <1>4, <1>5, <1>6, <1>7, SeqEqual
<1> QED BY <1>8 DEF b, d, st

-----------------------------------------------------------------------------
(* What a plugin sends.                                                    *)

\* W is what a plugin writes if its packets are those of s: the i-th lies
\* behind the first at[i] bytes.
Layout(W, at, s) ==
  /\ W \in Seq(Byte) /\ at \in [Nat -> Nat]
  /\ at[1] = 0 /\ at[Len(s) + 1] = Len(W)
  /\ \A i \in 1 .. Len(s) :
       /\ at[i + 1] = at[i] + Len(Packet(s[i], i)) /\ at[i + 1] <= Len(W)
       /\ \A j \in 1 .. Len(Packet(s[i], i)) : W[at[i] + j] = Packet(s[i], i)[j]

\* How many of them are behind poll(), when r packets were answered and w is
\* the size that was read, 0 if none was: all to the end of a JSON, or to its
\* beginning.
Consumed(at, s, r, w) ==
  IF w # 0 THEN at[r + 1] + Len(Announcement(s[r + 1]))
  ELSE IF r = 0 THEN 0 ELSE at[r + 1] - 1

\* bytes are what is left.
IsRest(bytes, s, r, w) ==
  /\ r \in 0 .. Len(s)
  /\ w # 0 => r < Len(s) /\ s[r + 1] \notin {"unsized", "empty"} /\ w = BodySize
  /\ \E W, at : /\ Layout(W, at, s)
                /\ bytes = Drop(W, Consumed(at, s, r, w))

LEMMA SizeShape ==
  \/ /\ Base > 3
     /\ Size(BodySize) = <<Digit(3)>>
  \/ /\ Base \in {2, 3}
     /\ \E a, b \in 0 .. Base - 1 : a * Base + b = 3 /\ Size(BodySize) = <<Digit(a), Digit(b)>>
<1>1. CASE Base > 3
      BY <1>1, BoundAssumption DEF Size, BodySize
<1>2. CASE Base = 2
  <2>1. Size(BodySize) = <<Digit(1), Digit(1)>>
    <3>1. 3 \div 2 = 1 /\ 3 % 2 = 1 /\ ~(3 < 2)
          OBVIOUS
    <3> QED BY <1>2, <3>1 DEF Size, BodySize
  <2> QED BY <1>2, <2>1
<1>3. CASE Base = 3
  <2>1. Size(BodySize) = <<Digit(1), Digit(0)>>
    <3>1. 3 \div 3 = 1 /\ 3 % 3 = 0 /\ ~(3 < 3)
          OBVIOUS
    <3> QED BY <1>3, <3>1 DEF Size, BodySize
  <2> QED BY <1>3, <2>1
<1> QED BY <1>1, <1>2, <1>3, BoundAssumption

\* What stands before a JSON: no digit, the digit 0, or digits that read as its
\* size.
LEMMA AnnouncementShape ==
  ASSUME NEW k
  PROVE  /\ Announcement(k) \in Seq({Digit(d) : d \in 0 .. Base - 1})
         /\ Len(Announcement(k)) \in 0 .. 2
         /\ k = "unsized" => Announcement(k) = <<>>
         /\ k # "unsized" => Len(Announcement(k)) > 0
         /\ k = "empty" => Announcement(k) = <<Digit(0)>>
         /\ k \notin {"unsized", "empty"} =>
              \/ Announcement(k) = <<Digit(3)>>
              \/ \E a, b \in 0 .. Base - 1 :
                   a * Base + b = 3 /\ Announcement(k) = <<Digit(a), Digit(b)>>
<1>1. CASE k = "unsized"
      BY <1>1, EmptySeq DEF Announcement
<1>2. CASE k = "empty"
      BY <1>2, BoundAssumption DEF Announcement
<1>3. CASE k \notin {"unsized", "empty"}
  <2>1. Announcement(k) = Size(BodySize)
        BY <1>3 DEF Announcement
  <2>2. CASE Base > 3 /\ Size(BodySize) = <<Digit(3)>>
    <3>1. 3 \in 0 .. Base - 1
          BY <2>2, BoundAssumption
    <3> QED BY <1>3, <2>1, <2>2, <3>1
  <2>3. ASSUME NEW a \in 0 .. Base - 1, NEW b \in 0 .. Base - 1,
               a * Base + b = 3, Size(BodySize) = <<Digit(a), Digit(b)>>
        PROVE  /\ Announcement(k) \in Seq({Digit(d) : d \in 0 .. Base - 1})
               /\ Len(Announcement(k)) = 2
               /\ \E x, y \in 0 .. Base - 1 :
                    x * Base + y = 3 /\ Announcement(k) = <<Digit(x), Digit(y)>>
        BY <2>1, <2>3
  <2>4. CASE \E a, b \in 0 .. Base - 1 :
               a * Base + b = 3 /\ Size(BodySize) = <<Digit(a), Digit(b)>>
    <3>1. PICK a, b \in 0 .. Base - 1 :
               a * Base + b = 3 /\ Size(BodySize) = <<Digit(a), Digit(b)>>
          BY <2>4
    <3>2. /\ Announcement(k) \in Seq({Digit(d) : d \in 0 .. Base - 1})
          /\ Len(Announcement(k)) = 2
          /\ \E x, y \in 0 .. Base - 1 :
               x * Base + y = 3 /\ Announcement(k) = <<Digit(x), Digit(y)>>
          BY <2>3, <3>1
    <3> HIDE DEF Digit
    <3> QED BY <1>3, <3>2
  <2> QED BY <2>2, <2>4, SizeShape
<1> QED BY <1>1, <1>2, <1>3

LEMMA PacketShape ==
  ASSUME NEW k, NEW i \in Nat
  PROVE  LET a == Len(Announcement(k))
             P == Packet(k, i)
         IN /\ P \in Seq(Byte) /\ Len(P) = a + 4
            /\ \A j \in 1 .. a : P[j] = Announcement(k)[j]
            /\ P[a + 1] = Brace /\ P[a + 2] = Text(i) /\ P[a + 3] = Digit(1) /\ P[a + 4] = Newline
<1> DEFINE A == Announcement(k)
<1> DEFINE T == Body(i) \o <<Newline>>
<1>1. A \in Seq(Byte) /\ Len(A) \in 0 .. 2
  <2>1. {Digit(d) : d \in 0 .. Base - 1} \subseteq Byte
        BY DEF Byte, Digit
  <2> QED BY <2>1, AnnouncementShape, SeqMonotonic
<1>3. /\ Body(i) \in Seq(Byte) /\ Len(Body(i)) = 3 /\ <<Newline>> \in Seq(Byte)
      /\ Body(i)[1] = Brace /\ Body(i)[2] = Text(i) /\ Body(i)[3] = Digit(1)
  <2>1. Digit(1) \in Byte
        BY BoundAssumption DEF Byte, Digit
  <2>2. Text(i) \in Byte
        BY DEF Byte, Text
  <2>3. Brace \in Byte /\ Newline \in Byte
        BY DEF Byte
  <2> QED BY <2>1, <2>2, <2>3 DEF Body
<1>4. Packet(k, i) = A \o (Body(i) \o <<Newline>>)
      BY <1>1, <1>3, ConcatAssociative DEF Packet
<1>2. /\ T \in Seq(Byte) /\ Len(T) = 4
      /\ T[1] = Brace /\ T[2] = Text(i) /\ T[3] = Digit(1) /\ T[4] = Newline
  <2> DEFINE B == Body(i) N == <<Newline>>
  <2>1. /\ B \in Seq(Byte) /\ Len(B) = 3 /\ B[1] = Brace /\ B[2] = Text(i) /\ B[3] = Digit(1)
        /\ N \in Seq(Byte) /\ Len(N) = 1 /\ N[1] = Newline
        BY <1>3
  <2> HIDE DEF B, N
  <2>2. /\ B \o N \in Seq(Byte) /\ Len(B \o N) = Len(B) + Len(N)
        /\ \A j \in 1 .. Len(B) + Len(N) : (B \o N)[j] = IF j <= Len(B) THEN B[j] ELSE N[j - Len(B)]
        BY <2>1, ConcatFacts
  <2>3. /\ B \o N \in Seq(Byte) /\ Len(B \o N) = 4
        /\ (B \o N)[1] = Brace /\ (B \o N)[2] = Text(i) /\ (B \o N)[3] = Digit(1) /\ (B \o N)[4] = Newline
        BY <2>1, <2>2
  <2> QED BY <2>3 DEF B, N
<1> HIDE DEF A, T
<1>5. /\ A \o T \in Seq(Byte) /\ Len(A \o T) = Len(A) + Len(T)
      /\ \A j \in 1 .. Len(A) + Len(T) : (A \o T)[j] = IF j <= Len(A) THEN A[j] ELSE T[j - Len(A)]
      BY <1>1, <1>2, ConcatFacts
<1>6. /\ (A \o T)[Len(A) + 1] = T[1] /\ (A \o T)[Len(A) + 2] = T[2]
      /\ (A \o T)[Len(A) + 3] = T[3] /\ (A \o T)[Len(A) + 4] = T[4]
      BY <1>1, <1>2, <1>5
<1>7. \A j \in 1 .. Len(A) : (A \o T)[j] = A[j]
      BY <1>1, <1>2, <1>5
<1> QED BY <1>2, <1>4, <1>5, <1>6, <1>7 DEF A, T

LEMMA LayoutTypes ==
  ASSUME NEW s \in Seq(Kind), NEW W, NEW at, Layout(W, at, s)
  PROVE  /\ Len(s) \in Nat /\ W \in Seq(Byte) /\ Len(W) \in Nat
         /\ at \in [Nat -> Nat] /\ at[1] = 0 /\ at[Len(s) + 1] = Len(W)
<1>1. W \in Seq(Byte) /\ at \in [Nat -> Nat] /\ at[1] = 0 /\ at[Len(s) + 1] = Len(W)
      BY DEF Layout
<1>2. Len(W) \in Nat /\ Len(s) \in Nat
      BY <1>1, LenProperties
<1> QED BY <1>1, <1>2

LEMMA LayoutOfPacket ==
  ASSUME NEW s \in Seq(Kind), NEW W, NEW at, Layout(W, at, s), NEW i \in 1 .. Len(s)
  PROVE  LET a == Len(Announcement(s[i]))
         IN /\ a \in 0 .. 2 /\ at[i] \in Nat /\ at[i + 1] = at[i] + a + 4 /\ at[i + 1] <= Len(W)
            /\ \A j \in 1 .. a : W[at[i] + j] = Announcement(s[i])[j]
            /\ W[at[i] + a + 1] = Brace /\ W[at[i] + a + 2] = Text(i)
            /\ W[at[i] + a + 3] = Digit(1) /\ W[at[i] + a + 4] = Newline
<1> DEFINE A == Announcement(s[i]) P == Packet(s[i], i) a == Len(A)
<1>1. i \in Nat
      BY LayoutTypes
<1>2. /\ Len(P) = a + 4 /\ a \in 0 .. 2
      /\ \A j \in 1 .. a : P[j] = A[j]
      /\ P[a + 1] = Brace /\ P[a + 2] = Text(i) /\ P[a + 3] = Digit(1) /\ P[a + 4] = Newline
      BY <1>1, PacketShape, AnnouncementShape
<1>3. /\ at[i + 1] = at[i] + Len(P) /\ at[i + 1] <= Len(W)
      /\ \A j \in 1 .. Len(P) : W[at[i] + j] = P[j]
      BY DEF Layout
<1>4. at[i] \in Nat
      BY <1>1, LayoutTypes
<1> HIDE DEF A, P
<1>5. \A j \in 1 .. a + 4 : W[at[i] + j] = P[j]
      BY <1>2, <1>3
<1> HIDE DEF a
<1>6. /\ W[at[i] + (a + 1)] = Brace /\ W[at[i] + (a + 2)] = Text(i)
      /\ W[at[i] + (a + 3)] = Digit(1) /\ W[at[i] + (a + 4)] = Newline
  <2>1. a + 1 \in 1 .. a + 4 /\ a + 2 \in 1 .. a + 4 /\ a + 3 \in 1 .. a + 4 /\ a + 4 \in 1 .. a + 4
        BY <1>2
  <2> QED BY <1>2, <1>5, <2>1
<1>7. \A j \in 1 .. a : W[at[i] + j] = A[j]
      BY <1>2, <1>5
<1>8. at[i] + (a + 1) = at[i] + a + 1 /\ at[i] + (a + 2) = at[i] + a + 2
      /\ at[i] + (a + 3) = at[i] + a + 3 /\ at[i] + (a + 4) = at[i] + a + 4
  <2> DEFINE x == at[i]
  <2>1. x \in Nat /\ a \in Nat
        BY <1>2, <1>4
  <2> HIDE DEF x
  <2>2. x + (a + 1) = x + a + 1 /\ x + (a + 2) = x + a + 2 /\ x + (a + 3) = x + a + 3 /\ x + (a + 4) = x + a + 4
        BY <2>1
  <2> QED BY <2>2 DEF x
<1>9. at[i + 1] = at[i] + a + 4
  <2>1. PICK x : x = at[i]
        OBVIOUS
  <2>2. at[i + 1] = x + (a + 4)
        BY <1>2, <1>3, <2>1
  <2>3. x + (a + 4) = x + a + 4
        BY <1>2, <1>4, <2>1
  <2> QED BY <2>1, <2>2, <2>3
<1> QED BY <1>2, <1>3, <1>4, <1>6, <1>7, <1>8, <1>9 DEF a, A

LEMMA ConsumedBounds ==
  ASSUME NEW s \in Seq(Kind), NEW W, NEW at, Layout(W, at, s),
         NEW r \in 0 .. Len(s), NEW w, w # 0 => r < Len(s)
  PROVE  /\ Consumed(at, s, r, w) \in 0 .. Len(W)
         /\ at[r + 1] \in 0 .. Len(W)
         /\ r > 0 => at[r + 1] > 0 /\ W[at[r + 1]] = Newline
<1>1. /\ Len(s) \in Nat /\ Len(W) \in Nat /\ at \in [Nat -> Nat]
      /\ at[1] = 0 /\ at[Len(s) + 1] = Len(W)
      BY LayoutTypes
<1>2. r \in Nat /\ r + 1 \in Nat
      BY <1>1
<1>3. at[r + 1] \in Nat
      BY <1>1, <1>2
<1>4. r > 0 => at[r + 1] > 0 /\ W[at[r + 1]] = Newline /\ at[r + 1] <= Len(W)
  <2> SUFFICES ASSUME r > 0
               PROVE  at[r + 1] > 0 /\ W[at[r + 1]] = Newline /\ at[r + 1] <= Len(W)
      OBVIOUS
  <2>1. r \in 1 .. Len(s)
        BY <1>1, <1>2
  <2> DEFINE a == Len(Announcement(s[r]))
  <2>2. /\ a \in 0 .. 2 /\ at[r] \in Nat /\ at[r + 1] = at[r] + a + 4 /\ at[r + 1] <= Len(W)
        /\ W[at[r] + a + 4] = Newline
        BY <2>1, LayoutOfPacket
  <2> HIDE DEF a
  <2> QED BY <2>2
<1>5. at[r + 1] \in 0 .. Len(W)
  <2>1. CASE r = 0
        BY <1>1, <2>1
  <2>2. CASE r > 0
        BY <1>1, <1>3, <1>4, <2>2
  <2> QED BY <1>2, <2>1, <2>2
<1>6. CASE w # 0
  <2>1. r + 1 \in 1 .. Len(s)
        BY <1>1, <1>2, <1>6
  <2> DEFINE a == Len(Announcement(s[r + 1]))
  <2>2. a \in 0 .. 2 /\ at[r + 1 + 1] = at[r + 1] + a + 4 /\ at[r + 1 + 1] <= Len(W)
        BY <2>1, LayoutOfPacket
  <2>3. Consumed(at, s, r, w) = at[r + 1] + a
        BY <1>6 DEF Consumed
  <2> DEFINE x == at[r + 1] y == at[r + 1 + 1] L == Len(W) c == Consumed(at, s, r, w)
  <2>4. x \in Nat /\ L \in Nat /\ y = x + a + 4 /\ y <= L /\ c = x + a /\ a \in 0 .. 2
        BY <1>1, <1>3, <2>2, <2>3
  <2> HIDE DEF a, x, y, L, c
  <2>5. c \in 0 .. L
        BY <2>4
  <2>6. Consumed(at, s, r, w) \in 0 .. Len(W)
        BY <2>5 DEF c, L
  <2> QED BY <1>4, <1>5, <2>6
<1>7. CASE w = 0
  <2>1. Consumed(at, s, r, w) = IF r = 0 THEN 0 ELSE at[r + 1] - 1
        BY <1>7 DEF Consumed
  <2> DEFINE x == at[r + 1] L == Len(W) c == Consumed(at, s, r, w)
  <2>2. /\ x \in Nat /\ L \in Nat /\ c = IF r = 0 THEN 0 ELSE x - 1
        /\ r \in Nat /\ r > 0 => x > 0 /\ x <= L
        BY <1>1, <1>2, <1>3, <1>4, <2>1
  <2> HIDE DEF x, L, c
  <2>3. c \in 0 .. L
        BY <2>2
  <2>4. Consumed(at, s, r, w) \in 0 .. Len(W)
        BY <2>3 DEF c, L
  <2> QED BY <1>4, <1>5, <2>4
<1> QED BY <1>6, <1>7

\* At first nothing is sent, and nothing is left.
LEMMA RestOfNothing == IsRest(<<>>, <<>>, 0, 0)
<1> DEFINE at == [i \in Nat |-> 0]
<1>1. Layout(<<>>, at, <<>>)
      BY DEF Layout
<1>2. Consumed(at, <<>>, 0, 0) = 0
      BY DEF Consumed
<1>3. Drop(<<>>, 0) = <<>>
      BY DEF Drop
<1> QED BY <1>1, <1>2, <1>3 DEF IsRest

\* What is sent next comes last.
LEMMA RestAfterSend ==
  ASSUME NEW s \in Seq(Kind), NEW k \in Kind, NEW r, NEW w, NEW bytes,
         IsRest(bytes, s, r, w)
  PROVE  IsRest(bytes \o Packet(k, Len(s) + 1), Append(s, k), r, w)
<1> DEFINE n == Len(s) t == Append(s, k) P == Packet(k, n + 1)
<1>1. PICK W, at : Layout(W, at, s) /\ bytes = Drop(W, Consumed(at, s, r, w))
      BY DEF IsRest
<1>2. /\ r \in 0 .. n
      /\ w # 0 => r < n /\ s[r + 1] \notin {"unsized", "empty"} /\ w = BodySize
      BY DEF IsRest
<1>3. /\ n \in Nat /\ t \in Seq(Kind) /\ Len(t) = n + 1 /\ t[n + 1] = k
      /\ \A i \in 1 .. n : t[i] = s[i]
      OBVIOUS
<1>4. P \in Seq(Byte) /\ Len(P) \in Nat
      BY <1>3, PacketShape
<1>5. /\ W \in Seq(Byte) /\ Len(W) \in Nat /\ at \in [Nat -> Nat]
      /\ at[1] = 0 /\ at[n + 1] = Len(W)
      BY <1>1 DEF Layout
<1>6. /\ W \o P \in Seq(Byte) /\ Len(W \o P) = Len(W) + Len(P)
      /\ \A j \in 1 .. Len(W) + Len(P) : (W \o P)[j] = IF j <= Len(W) THEN W[j] ELSE P[j - Len(W)]
      BY <1>4, <1>5, ConcatFacts
<1> DEFINE L == Len(W) p == Len(P)
<1> DEFINE to == [at EXCEPT ![n + 2] = L + p]
<1>7. /\ to \in [Nat -> Nat] /\ to[n + 2] = L + p
      /\ \A i \in Nat : i # n + 2 => to[i] = at[i]
  <2>2. L \in Nat /\ p \in Nat /\ n \in Nat
        BY <1>3, <1>4, <1>5
  <2> HIDE DEF L, p, n
  <2>1. L + p \in Nat /\ n + 2 \in Nat
        BY <2>2
  <2> QED BY <1>5, <2>1
<1> HIDE DEF to
<1>8. ASSUME NEW i \in 1 .. n + 1
      PROVE  /\ to[i + 1] = to[i] + Len(Packet(t[i], i)) /\ to[i + 1] <= Len(W \o P)
             /\ \A j \in 1 .. Len(Packet(t[i], i)) : (W \o P)[to[i] + j] = Packet(t[i], i)[j]
  <2>0. i \in Nat /\ i # n + 2 /\ i + 1 \in Nat
        BY <1>3
  <2>1. CASE i # n + 1
    <3>0. i \in 1 .. n /\ i + 1 # n + 2
          BY <1>3, <2>1
    <3> DEFINE Q == Packet(s[i], i) q == Len(Q) x == at[i] y == at[i + 1]
    <3>1. y = x + q /\ y <= L /\ \A j \in 1 .. q : W[x + j] = Q[j]
          BY <1>1, <3>0 DEF Layout
    <3>2. q \in Nat
          BY <2>0, PacketShape, AnnouncementShape
    <3>3. to[i] = x /\ to[i + 1] = y /\ x \in Nat /\ Packet(t[i], i) = Q
          BY <1>3, <1>5, <1>7, <2>0, <3>0
    <3>6. L \in Nat /\ p \in Nat /\ Len(W \o P) = L + p
          BY <1>4, <1>5, <1>6
    <3>7. \A j \in 1 .. L : (W \o P)[j] = W[j]
          BY <1>4, <1>5, <1>6
    <3> HIDE DEF Q, q, x, y, L, p
    <3>4. ASSUME NEW j \in 1 .. q PROVE (W \o P)[x + j] = Q[j]
      <4>1. x + j \in 1 .. L
            BY <3>1, <3>2, <3>3, <3>6
      <4> QED BY <3>1, <3>7, <4>1
    <3>5. y <= L + p
          BY <3>1, <3>2, <3>3, <3>6
    <3> QED BY <3>1, <3>3, <3>4, <3>5, <3>6 DEF q
  <2>2. CASE i = n + 1
    <3>1. to[i] = L
          BY <1>5, <1>7, <2>0, <2>2
    <3>2. to[i + 1] = L + p
      <4>1. i + 1 = n + 2
            BY <1>3, <2>2
      <4> QED BY <1>7, <4>1
    <3>3. Packet(t[i], i) = P
          BY <1>3, <2>2
    <3>4. ASSUME NEW j \in 1 .. p PROVE (W \o P)[L + j] = P[j]
      <4> DEFINE both == W \o P
      <4>1. L \in Nat /\ p \in Nat
            BY <1>4, <1>5
      <4>2. \A m \in 1 .. L + p : both[m] = IF m <= L THEN W[m] ELSE P[m - L]
            BY <1>6
      <4> HIDE DEF L, p, both, P
      <4> DEFINE m == L + j
      <4>3. m \in 1 .. L + p /\ ~(m <= L) /\ m - L = j
            BY <4>1
      <4> HIDE DEF m
      <4>4. both[m] = P[m - L]
            BY <4>2, <4>3
      <4>5. both[m] = P[j]
            BY <4>3, <4>4
      <4> QED BY <4>5 DEF m, both
    <3>5. Len(W \o P) = L + p /\ L + p <= L + p
          BY <1>4, <1>5, <1>6
    <3> HIDE DEF P
    <3> QED BY <3>1, <3>2, <3>3, <3>4, <3>5
  <2> QED BY <2>1, <2>2
<1>9. Layout(W \o P, to, t)
  <2>1. to[1] = 0
        BY <1>3, <1>5, <1>7
  <2>2. to[Len(t) + 1] = Len(W \o P)
    <3>1. Len(t) + 1 = n + 2
          BY <1>3
    <3> QED BY <1>6, <1>7, <3>1
  <2>3. Len(t) = n + 1
        BY <1>3
  <2> HIDE DEF t, P, n, L, p
  <2> QED BY <1>6, <1>7, <1>8, <2>1, <2>2, <2>3 DEF Layout
<1>10. Consumed(to, t, r, w) = Consumed(at, s, r, w)
  <2>1. r \in Nat /\ r + 1 \in Nat /\ r + 1 # n + 2
        BY <1>2, <1>3
  <2>2. to[r + 1] = at[r + 1]
        BY <1>7, <2>1
  <2>3. w # 0 => t[r + 1] = s[r + 1]
    <3>1. w # 0 => r + 1 \in 1 .. n
          BY <1>2, <1>3
    <3> QED BY <1>3, <3>1
  <2> HIDE DEF t
  <2> QED BY <2>2, <2>3 DEF Consumed
<1>11. bytes \o P = Drop(W \o P, Consumed(at, s, r, w))
       BY <1>1, <1>2, <1>4, <1>5, ConsumedBounds, DropOfConcat
<1>12. /\ r \in 0 .. Len(t)
       /\ w # 0 => r < Len(t) /\ t[r + 1] \notin {"unsized", "empty"} /\ w = BodySize
       BY <1>2, <1>3
<1> HIDE DEF P, t
<1>13. IsRest(bytes \o P, t, r, w)
       BY <1>9, <1>10, <1>11, <1>12 DEF IsRest
<1> QED BY <1>13 DEF P, t

LEMMA RestBytes ==
  ASSUME NEW W \in Seq(Byte), NEW c \in 0 .. Len(W), NEW a \in Seq(Byte), NEW b \in Seq(Byte),
         a \o b = Drop(W, c), NEW j \in 1 .. Len(a)
  PROVE  a[j] = W[c + j] /\ c + j \in 1 .. Len(W)
<1> DEFINE d == Drop(W, c) l == Len(W) n == Len(a)
<1>1. Len(d) = l - c /\ \A i \in 1 .. l - c : d[i] = W[c + i]
      BY DropFacts
<1>2. Len(a \o b) = n + Len(b) /\ (a \o b)[j] = a[j]
      BY ConcatFacts
<1>3. n \in Nat /\ l \in Nat /\ Len(b) \in Nat
      BY LenProperties
<1>4. n + Len(b) = l - c /\ d[j] = a[j]
      BY <1>1, <1>2
<1> HIDE DEF d, l, n
<1>5. j \in 1 .. l - c /\ c + j \in 1 .. l
      BY <1>3, <1>4 DEF n, l
<1> QED BY <1>1, <1>4, <1>5 DEF l

LEMMA MinIs ==
  ASSUME NEW S, S \subseteq Int, NEW m \in S, \A i \in S : m <= i
  PROVE  Min(S) = m
<1>1. \A x \in S : (\A y \in S : x <= y) => x = m
  <2> SUFFICES ASSUME NEW x \in S, \A y \in S : x <= y PROVE x = m
      OBVIOUS
  <2>1. x <= m /\ m <= x /\ x \in Int /\ m \in Int
        OBVIOUS
  <2> QED BY <2>1
<1>2. \E x \in S : \A y \in S : x <= y
      OBVIOUS
<1>3. PICK x : x = Min(S) /\ x \in S /\ \A y \in S : x <= y
      BY <1>2, Zenon DEF Min
<1> QED BY <1>1, <1>3

LEMMA FirstBraceIs ==
  ASSUME NEW a \in Seq(Byte), NEW m \in 1 .. Len(a), a[m] = Brace,
         \A j \in 1 .. m - 1 : a[j] # Brace
  PROVE  FirstBrace(a) = m
<1> DEFINE I == {i \in 1 .. Len(a) : a[i] = Brace}
<1>1. m \in I /\ \A i \in I : m <= i
      OBVIOUS
<1>2. FirstBrace(a) = IF I # {} THEN Min(I) ELSE 0
      BY DEF FirstBrace, SelectInSeq
<1>3. \A i \in I : i \in Int
      OBVIOUS
<1> HIDE DEF I
<1>4. Min(I) = m
      BY <1>1, <1>3, MinIs
<1> QED BY <1>1, <1>2, <1>4

LEMMA NumberIs ==
  ASSUME NEW a, NEW m \in Int, NEW n \in Int, m <= n, Announced(a) = m .. n
  PROVE  Number(a) = (IF m = n THEN 0 ELSE a[m][2] * Base) + a[n][2]
<1>1. Min(m .. n) = m
      BY DEF Min
<1>2. Max(m .. n) = n
      BY DEF Max
<1> QED BY <1>1, <1>2 DEF Number

Digits == {Digit(d) : d \in 0 .. Base - 1}

\* As far as it goes, a begins with o newlines, p digits and a brace.
Opening(a, o, p) ==
  \A j \in 1 .. Len(a) :
    /\ j <= o => a[j] = Newline
    /\ j > o /\ j <= o + p => a[j] \in Digits
    /\ j = o + p + 1 => a[j] = Brace

LEMMA BraceFound ==
  ASSUME NEW a \in Seq(Byte), HasBrace(a),
         NEW o \in {0, 1}, NEW p \in Nat, Opening(a, o, p)
  PROVE  /\ o + p + 1 \in 1 .. Len(a) /\ FirstBrace(a) = o + p + 1
         /\ Announced(a) = o + 1 .. o + p
<1> DEFINE m == o + p + 1 l == Len(a)
<1>1. l \in Nat /\ o \in Nat /\ m \in Nat /\ m > 0
      BY LenProperties
<1>2. Brace # Newline /\ Brace \notin Digits
      BY DEF Brace, Newline, Digit, Digits
<1>3. ASSUME NEW j \in 1 .. l, j < m
      PROVE  /\ j <= o => a[j] = Newline
             /\ j > o => a[j] \in Digits
  <2>1. CASE j <= o
        BY <1>1, <2>1 DEF Opening
  <2>2. CASE j > o
    <3>1. j <= o + p
          BY <1>1, <1>3, <2>2
    <3> QED BY <1>1, <2>2, <3>1 DEF Opening
  <2> QED BY <1>1, <2>1, <2>2
<1>4. ASSUME NEW j \in 1 .. l, j < m PROVE a[j] # Brace
  <2>1. j <= o \/ j > o
        BY <1>1
  <2> QED BY <1>2, <1>3, <1>4, <2>1
<1>5. PICK q \in 1 .. l : a[q] = Brace
  <2>1. DOMAIN a = 1 .. l
        OBVIOUS
  <2> HIDE DEF l
  <2> QED BY <2>1 DEF HasBrace
<1>6. ~(q < m)
      BY <1>4, <1>5
<1>7. m \in 1 .. l
      BY <1>1, <1>5, <1>6
<1>8. a[m] = Brace
      BY <1>7 DEF Opening
<1> HIDE DEF m
<1>9. \A j \in 1 .. m - 1 : a[j] # Brace
  <2> SUFFICES ASSUME NEW j \in 1 .. m - 1 PROVE a[j] # Brace
      OBVIOUS
  <2>1. j \in 1 .. l /\ j < m
        BY <1>1, <1>7
  <2> QED BY <1>4, <2>1
<1>10. FirstBrace(a) = m
       BY <1>7, <1>8, <1>9, FirstBraceIs
<1>11. ASSUME NEW j \in 1 .. m - 1 PROVE IsDigit(a[j]) <=> j > o
  <2>1. j \in 1 .. l /\ j < m
        BY <1>1, <1>7
  <2>2. CASE j <= o
    <3>1. a[j] = Newline /\ ~(j > o)
          BY <1>1, <1>3, <2>1, <2>2
    <3> QED BY <3>1 DEF IsDigit, Newline
  <2>3. CASE j > o
    <3>1. PICK d : a[j] = Digit(d)
          BY <1>3, <2>1, <2>3 DEF Digits
    <3> QED BY <2>3, <3>1 DEF IsDigit, Digit
  <2> QED BY <1>1, <2>2, <2>3
<1>12. Announced(a) = {j \in 1 .. m - 1 : IsDigit(a[j])}
       BY <1>10 DEF Announced
<1>13. Announced(a) = {j \in 1 .. m - 1 : j > o}
       BY <1>11, <1>12
<1>14. m - 1 = o + p
       BY <1>1 DEF m
<1>15. {j \in 1 .. o + p : j > o} = o + 1 .. o + p
       BY <1>1
<1> QED BY <1>7, <1>10, <1>13, <1>14, <1>15 DEF m

\* The newline that ended the packet before is still in readahead.
Newlines(r) == IF r = 0 THEN 0 ELSE 1

\* A brace in readahead is that of the next packet, behind its announcement and
\* the newline of the packet before it, if any.
LEMMA RestAtBrace ==
  ASSUME NEW s \in Seq(Kind), NEW r, NEW a \in Seq(Byte), NEW b \in Seq(Byte),
         IsRest(a \o b, s, r, 0), HasBrace(a)
  PROVE  LET A == Announcement(s[r + 1])
             o == Newlines(r)
             m == FirstBrace(a)
         IN /\ r \in Nat /\ r < Len(s)
            /\ m = o + Len(A) + 1 /\ m \in 1 .. Len(a)
            /\ Announced(a) = o + 1 .. o + Len(A)
            /\ \A j \in 1 .. Len(A) : a[o + j] = A[j]
            /\ s[r + 1] \notin {"unsized", "empty"} => IsRest(Drop(a, m - 1) \o b, s, r, BodySize)
<1>1. PICK W, at : Layout(W, at, s) /\ a \o b = Drop(W, Consumed(at, s, r, 0))
      BY DEF IsRest
<1> DEFINE c == Consumed(at, s, r, 0) x == at[r + 1] L == Len(W) n == Len(s) l == Len(a)
<1> DEFINE o == Newlines(r)
<1>2. r \in 0 .. n /\ n \in Nat /\ W \in Seq(Byte) /\ L \in Nat /\ at[1] = 0 /\ at[n + 1] = L
      BY <1>1, LayoutTypes DEF IsRest
<1>3. c \in 0 .. L /\ x \in 0 .. L /\ (r > 0 => x > 0 /\ W[x] = Newline)
      BY <1>1, <1>2, ConsumedBounds
<1>4. c = (IF r = 0 THEN 0 ELSE x - 1) /\ (r = 0 => x = 0)
      BY <1>2 DEF Consumed
<1>5. ASSUME NEW j \in 1 .. l PROVE a[j] = W[c + j] /\ c + j \in 1 .. L
  <2>1. a \o b = Drop(W, c)
        BY <1>1
  <2> HIDE DEF c
  <2> QED BY <1>2, <1>3, <2>1, RestBytes
<1>6. (o = 0 /\ r = 0) \/ (o = 1 /\ r > 0)
      BY <1>2 DEF Newlines
<1>7. PICK q \in 1 .. l : a[q] = Brace
  <2>1. DOMAIN a = 1 .. l
        OBVIOUS
  <2> HIDE DEF l
  <2> QED BY <2>1 DEF HasBrace
<1>8. l \in Nat
      BY LenProperties
<1>9. r = n => x = L
      BY <1>2
<1> HIDE DEF c, x, L, o, l, n
<1>10. c + o = x /\ c \in Nat /\ x \in Nat /\ o \in {0, 1}
       BY <1>2, <1>3, <1>4, <1>6
<1>11. ASSUME NEW j \in 1 .. l, j <= o PROVE a[j] = Newline
  <2>1. j = 1 /\ o = 1 /\ r > 0 /\ c + j = x
        BY <1>6, <1>8, <1>10, <1>11
  <2>2. W[c + j] = Newline
        BY <1>3, <2>1
  <2> QED BY <1>5, <2>2
<1>12. r < n
  <2> SUFFICES ASSUME r = n PROVE FALSE
      BY <1>2
  <2>1. c + q \in 1 .. L
        BY <1>5, <1>7
  <2>2. q <= o
        BY <1>7, <1>8, <1>9, <1>10, <2>1
  <2>3. a[q] = Newline
        BY <1>7, <1>11, <2>2
  <2>4. Brace # Newline
        BY DEF Brace, Newline
  <2> QED BY <1>7, <2>3, <2>4
<1>13. r + 1 \in 1 .. n
       BY <1>2, <1>12
<1> DEFINE A == Announcement(s[r + 1]) p == Len(A)
<1>14. /\ p \in 0 .. 2 /\ W[x + p + 1] = Brace
       /\ \A j \in 1 .. p : W[x + j] = A[j]
  <2>1. PICK i : i = r + 1
        OBVIOUS
  <2>2. i \in 1 .. Len(s)
        BY <1>13, <2>1 DEF n
  <2>3. /\ Len(Announcement(s[i])) \in 0 .. 2
        /\ W[at[i] + Len(Announcement(s[i])) + 1] = Brace
        /\ \A j \in 1 .. Len(Announcement(s[i])) : W[at[i] + j] = Announcement(s[i])[j]
        BY <1>1, <2>2, LayoutOfPacket
  <2> QED BY <2>1, <2>3 DEF x
<1>15. \A j \in 1 .. p : A[j] \in Digits
  <2>1. A \in Seq(Digits)
        BY AnnouncementShape DEF Digits
  <2> HIDE DEF A
  <2> QED BY <2>1, ElementOfSeq
<1> HIDE DEF A, p
<1>16. ASSUME NEW j \in 1 .. l, j > o, j <= o + p PROVE a[j] = A[j - o]
  <2> DEFINE i == j - o
  <2>1. c + j = x + i /\ i \in 1 .. p
        BY <1>8, <1>10, <1>14, <1>16
  <2> HIDE DEF i
  <2>2. W[c + j] = A[i]
        BY <1>14, <2>1
  <2> QED BY <1>5, <2>2 DEF i
<1>17. ASSUME NEW j \in 1 .. l, j = o + p + 1 PROVE a[j] = Brace
  <2>1. c + j = x + p + 1
        BY <1>8, <1>10, <1>14, <1>17
  <2> QED BY <1>5, <1>14, <2>1
<1>18. /\ o + p + 1 \in 1 .. Len(a) /\ FirstBrace(a) = o + p + 1
       /\ Announced(a) = o + 1 .. o + p
  <2>1. o \in {0, 1} /\ p \in Nat
        BY <1>10, <1>14
  <2>2. ASSUME NEW j \in 1 .. l, j > o, j <= o + p
        PROVE  a[j] \in Digits
    <3>1. j - o \in 1 .. p
          BY <1>8, <1>10, <1>14, <2>2
    <3>2. a[j] = A[j - o]
          BY <1>16, <2>2
    <3> QED BY <1>15, <3>1, <3>2
  <2>3. Opening(a, o, p)
        BY <1>11, <1>17, <2>2 DEF l, Opening
  <2> QED BY <2>1, <2>3, BraceFound
<1> DEFINE m == FirstBrace(a)
<1>19. m \in 1 .. l /\ m = o + p + 1
       BY <1>18 DEF l
<1> HIDE DEF m
<1>20. m - 1 = o + p /\ m - 1 \in 0 .. l /\ m - 1 \in Nat
       BY <1>8, <1>10, <1>14, <1>19
<1>21. ASSUME NEW j \in 1 .. p PROVE a[o + j] = A[j]
  <2> DEFINE i == o + j
  <2>1. i \in 1 .. l /\ i > o /\ i <= o + p /\ i - o = j
        BY <1>8, <1>10, <1>14, <1>19
  <2> HIDE DEF i
  <2>2. a[i] = A[i - o]
        BY <1>16, <2>1
  <2>3. a[i] = A[j]
        BY <2>1, <2>2
  <2> QED BY <2>3 DEF i
<1>22. ASSUME s[r + 1] \notin {"unsized", "empty"}
       PROVE  IsRest(Drop(a, m - 1) \o b, s, r, BodySize)
  <2>2. Drop(a, m - 1) \o b = Drop(a \o b, m - 1)
        BY <1>20, DropOfConcat DEF l
  <2>3. m - 1 \in 0 .. L - c
    <3>1. c + m \in 1 .. L
          BY <1>5, <1>19
    <3> QED BY <1>2, <1>10, <1>20, <1>19, <3>1, SMTT(30)
  <2>4. Drop(Drop(W, c), m - 1) = Drop(W, c + (m - 1))
        BY <1>2, <1>3, <2>3, DropOfDrop DEF L
  <2>5. Consumed(at, s, r, BodySize) = c + (m - 1)
    <3>1. Consumed(at, s, r, BodySize) = x + p
          BY DEF Consumed, BodySize, x, p, A
    <3>2. x + p = c + (m - 1)
          BY <1>10, <1>14, <1>20
    <3> QED BY <3>1, <3>2
  <2>6. Drop(a, m - 1) \o b = Drop(W, Consumed(at, s, r, BodySize))
        BY <1>1, <2>2, <2>4, <2>5 DEF c
  <2>7. r \in 0 .. Len(s) /\ r < Len(s)
        BY <1>2, <1>12 DEF n
  <2> QED BY <1>1, <1>22, <2>6, <2>7 DEF IsRest, BodySize
<1>23. r \in Nat
       BY <1>2
<1> QED BY <1>12, <1>18, <1>19, <1>22, <1>23, <1>21 DEF p, A, n, o, m, l

\* A packet that is complete is the next one.
LEMMA RestAtPacket ==
  ASSUME NEW s \in Seq(Kind), NEW r, NEW w, w # 0,
         NEW a \in Seq(Byte), NEW b \in Seq(Byte), IsRest(a \o b, s, r, w), w <= Len(a)
  PROVE  /\ r \in Nat /\ r + 1 \in 1 .. Len(s) /\ w = BodySize
         /\ Take(a, w) = Body(r + 1)
         /\ IsRest(Drop(a, w) \o b, s, r + 1, 0)
<1>1. PICK W, at : Layout(W, at, s) /\ a \o b = Drop(W, Consumed(at, s, r, w))
      BY DEF IsRest
<1> DEFINE c == Consumed(at, s, r, w) x == at[r + 1] y == at[r + 1 + 1] L == Len(W) n == Len(s)
<1>2. /\ r \in 0 .. n /\ r < n /\ w = 3 /\ n \in Nat /\ W \in Seq(Byte) /\ L \in Nat
      BY <1>1, LayoutTypes DEF IsRest, BodySize
<1>3. c \in 0 .. L
      BY <1>1, <1>2, ConsumedBounds
<1>4. \A j \in 1 .. Len(a) : a[j] = W[c + j] /\ c + j \in 1 .. L
      BY <1>1, <1>2, <1>3, RestBytes
<1>5. r + 1 \in 1 .. n /\ r \in Nat
      BY <1>2
<1> DEFINE p == Len(Announcement(s[r + 1]))
<1>6. /\ p \in 0 .. 2 /\ x \in Nat /\ y = x + p + 4 /\ y <= L
      /\ W[x + p + 1] = Brace /\ W[x + p + 2] = Text(r + 1) /\ W[x + p + 3] = Digit(1)
      BY <1>1, <1>5, LayoutOfPacket
<1>7. c = x + p
      BY <1>2 DEF Consumed
<1> HIDE DEF c, x, y, L, p, n
<1>8. 1 \in 1 .. Len(a) /\ 2 \in 1 .. Len(a) /\ 3 \in 1 .. Len(a)
      BY <1>2
<1>9. a[1] = Brace /\ a[2] = Text(r + 1) /\ a[3] = Digit(1)
      BY <1>4, <1>6, <1>7, <1>8
<1>10. Take(a, 3) = Body(r + 1)
  <2>1. 3 \in 0 .. Len(a)
        BY <1>8
  <2> DEFINE t == Take(a, 3) u == Body(r + 1)
  <2>2. t \in Seq(Byte) /\ Len(t) = 3 /\ \A j \in 1 .. 3 : t[j] = a[j]
        BY <2>1, TakeFacts
  <2>3. u[1] = Brace /\ u[2] = Text(r + 1) /\ u[3] = Digit(1) /\ Len(u) = 3
        BY DEF Body
  <2>4. u \in Seq(Byte)
    <3>1. Brace \in Byte /\ Text(r + 1) \in Byte /\ Digit(1) \in Byte
          BY <1>5, BoundAssumption DEF Byte, Text, Digit
    <3> QED BY <3>1 DEF Body
  <2> HIDE DEF t, u
  <2>5. \A j \in 1 .. 3 : t[j] = u[j]
        BY <1>9, <2>2, <2>3
  <2>6. t = u
        BY <2>2, <2>3, <2>4, <2>5, SeqEqual
  <2> QED BY <2>6 DEF t, u
<1>11. IsRest(Drop(a, 3) \o b, s, r + 1, 0)
  <2>1. Drop(a, 3) \o b = Drop(a \o b, 3)
    <3>1. 3 \in 0 .. Len(a)
          BY <1>8
    <3> QED BY <3>1, DropOfConcat
  <2>2. 3 \in 0 .. L - c
        BY <1>2, <1>3, <1>6, <1>7
  <2>3. Drop(Drop(W, c), 3) = Drop(W, c + 3)
        BY <1>2, <1>3, <2>2, DropOfDrop DEF L
  <2>4. Consumed(at, s, r + 1, 0) = c + 3
    <3>1. Consumed(at, s, r + 1, 0) = y - 1
          BY <1>5 DEF Consumed, y
    <3> QED BY <1>6, <1>7, <3>1
  <2>5. Drop(a, 3) \o b = Drop(W, Consumed(at, s, r + 1, 0))
        BY <1>1, <2>1, <2>3, <2>4 DEF c
  <2>6. r + 1 \in 0 .. Len(s)
        BY <1>5 DEF n
  <2> QED BY <1>1, <2>5, <2>6 DEF IsRest
<1> QED BY <1>2, <1>5, <1>10, <1>11 DEF n, BodySize

\* What the announcement of the next packet says.
LEMMA NumberAtBrace ==
  ASSUME NEW s \in Seq(Kind), NEW r, NEW a \in Seq(Byte), NEW b \in Seq(Byte),
         IsRest(a \o b, s, r, 0), HasBrace(a)
  PROVE  /\ Announced(a) = {} => s[r + 1] = "unsized"
         /\ Announced(a) # {} /\ Number(a) > 0 =>
              s[r + 1] \notin {"unsized", "empty"} /\ Number(a) = BodySize
<1> DEFINE k == s[r + 1] A == Announcement(k) o == Newlines(r) p == Len(A)
<1>1. /\ Announced(a) = o + 1 .. o + p
      /\ \A j \in 1 .. p : a[o + j] = A[j]
      BY RestAtBrace
<1>2. /\ p \in 0 .. 2
      /\ k = "unsized" => p = 0
      /\ k # "unsized" => p > 0
  <2>1. k = "unsized" => A = <<>>
        BY AnnouncementShape
  <2>2. p \in 0 .. 2 /\ (k # "unsized" => p > 0)
        BY AnnouncementShape
  <2> HIDE DEF A, k
  <2> QED BY <2>1, <2>2
<1>3. o \in {0, 1}
      BY DEF Newlines
<1>4. k = "empty" => p = 1 /\ A[1] = Digit(0)
  <2> SUFFICES ASSUME k = "empty" PROVE p = 1 /\ A[1] = Digit(0)
      OBVIOUS
  <2>1. A = <<Digit(0)>>
        BY AnnouncementShape
  <2> HIDE DEF A, k
  <2> QED BY <2>1
<1>5. k \notin {"unsized", "empty"} =>
        \/ p = 1 /\ A[1] = Digit(3)
        \/ \E d, e \in 0 .. Base - 1 : d * Base + e = 3 /\ p = 2 /\ A[1] = Digit(d) /\ A[2] = Digit(e)
  <2> SUFFICES ASSUME k \notin {"unsized", "empty"}
               PROVE  \/ p = 1 /\ A[1] = Digit(3)
                      \/ \E d, e \in 0 .. Base - 1 :
                           d * Base + e = 3 /\ p = 2 /\ A[1] = Digit(d) /\ A[2] = Digit(e)
      OBVIOUS
  <2>1. \/ A = <<Digit(3)>>
        \/ \E d, e \in 0 .. Base - 1 : d * Base + e = 3 /\ A = <<Digit(d), Digit(e)>>
        BY AnnouncementShape
  <2> HIDE DEF A, k, Digit
  <2>2. CASE A = <<Digit(3)>>
        BY <2>2
  <2>3. ASSUME NEW d \in 0 .. Base - 1, NEW e \in 0 .. Base - 1,
               d * Base + e = 3, A = <<Digit(d), Digit(e)>>
        PROVE  p = 2 /\ A[1] = Digit(d) /\ A[2] = Digit(e)
        BY <2>3
  <2> HIDE DEF p
  <2> QED BY <2>1, <2>2, <2>3
<1> HIDE DEF A, o, p, k
<1>6. p = 0 <=> Announced(a) = {}
  <2>1. CASE p = 0
        BY <1>1, <1>3, <2>1
  <2>2. CASE p > 0
    <3>1. o + 1 \in o + 1 .. o + p
          BY <1>2, <1>3, <2>2
    <3> QED BY <1>1, <2>2, <3>1
  <2> QED BY <1>2, <2>1, <2>2
<1>7. ASSUME p > 0
      PROVE  Number(a) = (IF p = 1 THEN 0 ELSE A[1][2] * Base) + A[p][2]
  <2>1. o + 1 \in Int /\ o + p \in Int /\ o + 1 <= o + p /\ (o + 1 = o + p <=> p = 1)
        BY <1>2, <1>3, <1>7
  <2>2. Number(a) = (IF o + 1 = o + p THEN 0 ELSE a[o + 1][2] * Base) + a[o + p][2]
        BY <1>1, <2>1, NumberIs
  <2>3. 1 \in 1 .. p /\ p \in 1 .. p
        BY <1>2, <1>7
  <2>4. a[o + 1] = A[1] /\ a[o + p] = A[p]
        BY <1>1, <2>3
  <2> QED BY <2>1, <2>2, <2>4
<1>8. CASE k = "unsized"
      BY <1>2, <1>6, <1>8 DEF k
<1>9. CASE k = "empty"
  <2>1. A[1][2] = 0
        BY <1>4, <1>9 DEF Digit
  <2>2. Number(a) = 0
        BY <1>4, <1>7, <1>9, <2>1
  <2>3. ~(Number(a) > 0)
        BY <2>2
  <2> QED BY <1>4, <1>6, <1>9, <2>3
<1>10. CASE k \notin {"unsized", "empty"}
  <2>1. ASSUME p = 1, A[1] = Digit(3) PROVE Number(a) = 3
    <3>1. A[1][2] = 3
          BY <2>1 DEF Digit
    <3> QED BY <1>7, <2>1, <3>1
  <2>2. ASSUME NEW d \in 0 .. Base - 1, NEW e \in 0 .. Base - 1,
               d * Base + e = 3, p = 2, A[1] = Digit(d), A[2] = Digit(e)
        PROVE  Number(a) = 3
    <3>1. A[1][2] = d /\ A[2][2] = e
          BY <2>2 DEF Digit
    <3> QED BY <1>7, <2>2, <3>1
  <2>3. Number(a) = 3 /\ p # 0
        BY <1>5, <1>10, <2>1, <2>2
  <2> QED BY <1>6, <1>10, <2>3 DEF BodySize, k
<1> QED BY <1>8, <1>9, <1>10

-----------------------------------------------------------------------------
(* Messages.                                                               *)

Replies(messages) == Channel!Replies(messages)

\* PluginChannel counts with the Cardinality of its own instance of FiniteSets.
LEMMA RepliesCounts ==
  ASSUME NEW s
  PROVE  Replies(s) = Cardinality({j \in DOMAIN s : Channel!IsReply(s[j])})
<1>1. \A S : Channel!Cardinality(S) = Cardinality(S)
      BY DEF Channel!Cardinality, Cardinality
<1> QED BY <1>1 DEF Replies, Channel!Replies

LEMMA RepliesOfNothing == Replies(<<>>) = 0
<1>1. {j \in DOMAIN <<>> : Channel!IsReply(<<>>[j])} = {}
      OBVIOUS
<1> QED BY <1>1, FS_EmptySet, RepliesCounts

LEMMA RepliesOfAppend ==
  ASSUME NEW s \in Seq(Message), NEW m \in Message
  PROVE  /\ Replies(s) \in Nat
         /\ Replies(Append(s, m)) = Replies(s) + (IF Channel!IsReply(m) THEN 1 ELSE 0)
<1> DEFINE n == Len(s) t == Append(s, m)
           I == {j \in 1 .. n : Channel!IsReply(s[j])}
           J == {j \in 1 .. n + 1 : Channel!IsReply(t[j])}
<1>1. n \in Nat /\ Len(t) = n + 1 /\ t[n + 1] = m /\ \A j \in 1 .. n : t[j] = s[j]
      OBVIOUS
<1>2. Replies(s) = Cardinality(I)
  <2>1. DOMAIN s = 1 .. n
        OBVIOUS
  <2> QED BY <2>1, RepliesCounts
<1>3. Replies(t) = Cardinality(J)
  <2>1. DOMAIN t = 1 .. n + 1
        OBVIOUS
  <2> HIDE DEF t
  <2> QED BY <2>1, RepliesCounts
<1> HIDE DEF n, t
<1>4. IsFiniteSet(I) /\ Cardinality(I) \in Nat
  <2>1. IsFiniteSet(1 .. n)
        BY <1>1, FS_Interval
  <2>2. I \subseteq 1 .. n
        OBVIOUS
  <2> QED BY <2>1, <2>2, FS_Subset, FS_CardinalityType
<1>5. J = IF Channel!IsReply(m) THEN I \union {n + 1} ELSE I
      BY <1>1
<1>6. n + 1 \notin I
      BY <1>1
<1>7. Cardinality(I \union {n + 1}) = Cardinality(I) + 1
      BY <1>4, <1>6, FS_AddElement
<1> HIDE DEF I, J
<1>8. Cardinality(J) = Cardinality(I) + (IF Channel!IsReply(m) THEN 1 ELSE 0)
      BY <1>4, <1>5, <1>7
<1> QED BY <1>2, <1>3, <1>4, <1>8 DEF t

LEMMA MessageTypes ==
  ASSUME NEW i \in Nat, NEW ok \in BOOLEAN
  PROVE  /\ Channel!Reply(i, ok) \in Message /\ Channel!IsReply(Channel!Reply(i, ok))
         /\ Channel!Event(i) \in Message /\ ~Channel!IsReply(Channel!Event(i))
BY DEF Message, Channel!Reply, Channel!Event, Channel!IsReply

\* One more message in writebuffer.
LEMMA SaidAppend ==
  ASSUME NEW r \in Seq(Message), NEW w \in Seq(Message), NEW m \in Message
  PROVE  /\ r \o w \in Seq(Message)
         /\ r \o Append(w, m) = Append(r \o w, m)
         /\ Replies(r \o w) \in Nat
         /\ Replies(r \o Append(w, m)) = Replies(r \o w) + (IF Channel!IsReply(m) THEN 1 ELSE 0)
<1>1. r \o w \in Seq(Message)
      OBVIOUS
<1>2. r \o Append(w, m) = Append(r \o w, m)
  <2>1. <<m>> \in Seq(Message)
        OBVIOUS
  <2>2. Append(w, m) = w \o <<m>> /\ Append(r \o w, m) = (r \o w) \o <<m>>
        BY <1>1, AppendIsConcat
  <2> QED BY <2>1, <2>2, ConcatAssociative
<1> QED BY <1>1, <1>2, RepliesOfAppend

-----------------------------------------------------------------------------
(* The invariant.                                                          *)

\* TypeOK, but for what the buffers hold; and nothing is left to be removed when
\* poll() is over.
Shape ==
  /\ connected \subseteq Plugin
  /\ info \in [Plugin -> SocketInfo] /\ copy \in SocketInfo
  /\ pc \in {"run", "visit", "read", "parse", "write", "aborted"}
  /\ IF pc \in {"run", "visit"} THEN cur = NoPlugin ELSE cur \in connected \ todo
  /\ todo \subseteq connected /\ toRemove \subseteq connected \ todo
  /\ sent \in [Plugin -> Seq(Kind)]
  /\ wire \in [Plugin -> Seq(Byte)]
  /\ peer \in [Plugin -> {"open", "eof", "hup"}]
  /\ received \in [Plugin -> Seq(Message)]
  /\ raised \in 0 .. MaxEvents
  /\ pc = "run" => toRemove = {}

\* For one plugin: the buffers hold what is meant for it, nothing is there for
\* one that is not connected, and what is in readahead and behind it in the
\* socket are exactly the bytes that follow the packets that were answered.
Own(p) ==
  /\ info[p].writebuffer \in Seq(MessageTo(p))
  /\ View(p).writebuffer \in Seq(MessageTo(p))
  /\ received[p] \in Seq(MessageTo(p))
  /\ p \notin connected =>
       info[p] = Fresh /\ sent[p] = <<>> /\ wire[p] = <<>> /\ received[p] = <<>>
  /\ IsRest(View(p).readahead \o wire[p], sent[p], Replied(p), View(p).waitingSize)

IInv == Shape /\ \A p \in Plugin : Own(p)

LEMMA FreshType == Fresh \in SocketInfo
<1>1. <<>> \in Seq(Byte) /\ <<>> \in Seq(Message)
      BY EmptySeq
<1> QED BY <1>1 DEF Fresh, SocketInfo

LEMMA InvImpliesTypes == IInv => TypeOK
BY DEF IInv, Shape, Own, TypeOK

LEMMA InitInv == Init => IInv
<1> SUFFICES ASSUME Init PROVE IInv
    OBVIOUS
<1>1. \A S : <<>> \in Seq(S)
      BY EmptySeq
<1>2. Shape
  <2>1. {} \subseteq Plugin /\ 0 \in 0 .. MaxEvents
        BY BoundAssumption
  <2> QED BY <1>1, <2>1, FreshType DEF Init, Shape
<1>3. ASSUME NEW p \in Plugin PROVE Own(p)
  <2>1. View(p) = Fresh /\ info[p] = Fresh
        BY DEF Init, View
  <2>2. sent[p] = <<>> /\ wire[p] = <<>> /\ received[p] = <<>>
        BY DEF Init
  <2>3. <<>> \o <<>> = <<>>
        OBVIOUS
  <2>4. Replied(p) = 0
        BY <2>1, <2>2, <2>3, RepliesOfNothing DEF Replied, Replies, Fresh
  <2>5. /\ Fresh.writebuffer = <<>> /\ Fresh.readahead = <<>> /\ Fresh.waitingSize = 0
        BY DEF Fresh
  <2> HIDE DEF Fresh
  <2> QED BY <1>1, <2>1, <2>2, <2>3, <2>4, <2>5, RestOfNothing DEF Own
<1> QED BY <1>2, <1>3 DEF IInv

LEMMA ViewType ==
  ASSUME IInv, NEW p \in Plugin
  PROVE  /\ View(p) \in SocketInfo
         /\ View(p).readahead \in Seq(Byte) /\ View(p).writebuffer \in Seq(Message)
         /\ sent[p] \in Seq(Kind) /\ wire[p] \in Seq(Byte) /\ received[p] \in Seq(Message)
BY DEF IInv, Shape, View, SocketInfo

\* What could be in the buffers of a plugin before may be there later.
LEMMA MessagesStay ==
  ASSUME NEW p, raised \in Nat, raised' \in Nat, raised <= raised',
         DOMAIN sent[p] \subseteq DOMAIN sent'[p]
  PROVE  MessageTo(p) \subseteq MessageTo(p)'
<1>1. 1 .. raised \subseteq 1 .. raised'
      OBVIOUS
<1> QED BY <1>1 DEF MessageTo

\* A plugin whose socket no step is about.
LEMMA StillOwn ==
  ASSUME NEW p, Own(p), View(p)' = View(p), info'[p] \in {info[p], View(p)},
         sent'[p] = sent[p], wire'[p] = wire[p], received'[p] = received[p],
         p \in connected \/ info'[p] = info[p], p \in connected => p \in connected',
         raised \in Nat, raised' \in Nat, raised <= raised'
  PROVE  Own(p)'
<1>1. MessageTo(p) \subseteq MessageTo(p)'
      BY MessagesStay
<1>2. \A s \in Seq(MessageTo(p)) : s \in Seq(MessageTo(p)')
      BY <1>1, SeqMonotonic
<1>3. Replied(p)' = Replied(p)
      BY DEF Replied
<1>4. /\ info[p].writebuffer \in Seq(MessageTo(p)') /\ View(p).writebuffer \in Seq(MessageTo(p)')
      /\ received[p] \in Seq(MessageTo(p)')
      BY <1>2 DEF Own
<1>5. IsRest(View(p).readahead \o wire[p], sent[p], Replied(p), View(p).waitingSize)'
      BY <1>3 DEF Own
<1>6. (p \notin connected =>
        info[p] = Fresh /\ sent[p] = <<>> /\ wire[p] = <<>> /\ received[p] = <<>>)'
      BY DEF Own
<1> QED BY <1>4, <1>5, <1>6 DEF Own

\* A message more for a plugin whose socket poll() is not at: Dispatch.
LEMMA EventBuffered ==
  ASSUME NEW p, NEW w \in Seq(MessageTo(p)),
         raised \in Nat, raised' = raised + 1, sent'[p] = sent[p]
  PROVE  Append(w, Channel!Event(raised + 1)) \in Seq(MessageTo(p)')
<1>1. MessageTo(p) \subseteq MessageTo(p)'
      BY MessagesStay
<1>2. w \in Seq(MessageTo(p)')
      BY <1>1, SeqMonotonic
<1>3. Channel!Event(raised + 1) \in MessageTo(p)'
      BY DEF MessageTo
<1> QED BY <1>2, <1>3, AppendProperties

LEMMA DispatchedOwn ==
  ASSUME IInv, NEW p \in connected, p # cur, p # cur', p \in connected',
         info'[p] = [info[p] EXCEPT !.writebuffer = Append(@, Channel!Event(raised + 1))],
         sent'[p] = sent[p], wire'[p] = wire[p], received'[p] = received[p], raised' = raised + 1
  PROVE  Own(p)'
<1> DEFINE i == info[p] e == Channel!Event(raised + 1)
<1>1. /\ p \in Plugin /\ i \in SocketInfo /\ i.writebuffer \in Seq(Message)
      /\ received[p] \in Seq(Message) /\ raised \in Nat /\ Own(p)
      BY DEF IInv, Shape, SocketInfo
<1>2. View(p) = i /\ View(p)' = info'[p]
      BY DEF View
<1>3. /\ info'[p].writebuffer = Append(i.writebuffer, e)
      /\ info'[p].readahead = i.readahead /\ info'[p].waitingSize = i.waitingSize
      BY <1>1 DEF SocketInfo
<1>4. Append(i.writebuffer, e) \in Seq(MessageTo(p)')
      BY <1>1, EventBuffered DEF Own
<1>5. Replied(p)' = Replied(p)
  <2>1. e \in Message /\ ~Channel!IsReply(e)
    <3>1. raised + 1 \in Nat
          BY <1>1
    <3> QED BY <3>1, MessageTypes
  <2> HIDE DEF e, i
  <2>2. Replies(received[p] \o Append(i.writebuffer, e)) = Replies(received[p] \o i.writebuffer)
        BY <1>1, <2>1, SaidAppend
  <2> QED BY <1>2, <1>3, <2>2 DEF Replied, Replies
<1>6. received[p] \in Seq(MessageTo(p)')
  <2>1. MessageTo(p) \subseteq MessageTo(p)'
        BY <1>1, MessagesStay
  <2> QED BY <1>1, <2>1, SeqMonotonic DEF Own
<1>7. IsRest(View(p).readahead \o wire[p], sent[p], Replied(p), View(p).waitingSize)'
  <2>1. IsRest(i.readahead \o wire[p], sent[p], Replied(p), i.waitingSize)
        BY <1>1, <1>2 DEF Own
  <2> QED BY <1>2, <1>3, <1>5, <2>1
<1> HIDE DEF i, e
<1> QED BY <1>2, <1>3, <1>4, <1>6, <1>7 DEF Own

-----------------------------------------------------------------------------
(* What PluginChannel sees.                                                *)

Greeted == {p \in connected : View(p).greeted}
Subscribed == {p \in connected : View(p).subscribed}
Said == [p \in Plugin |-> received[p] \o View(p).writebuffer]

\* A step of PluginChannel, or one it does not see.
ChannelStep == (pc # "aborted" /\ Channel!Next) \/ UNCHANGED Channel!vars

LEMMA SameSight ==
  ASSUME IInv, connected' = connected,
         \A p \in Plugin : /\ View(p)'.greeted = View(p).greeted
                           /\ View(p)'.subscribed = View(p).subscribed
                           /\ received'[p] \o View(p)'.writebuffer = received[p] \o View(p).writebuffer
  PROVE  Greeted' = Greeted /\ Subscribed' = Subscribed /\ Said' = Said
<1>1. connected \subseteq Plugin
      BY DEF IInv, Shape
<1>2. Greeted' = Greeted
      BY <1>1 DEF Greeted
<1>3. Subscribed' = Subscribed
      BY <1>1 DEF Subscribed
<1>4. Said' = Said
      BY DEF Said
<1> QED BY <1>2, <1>3, <1>4

LEMMA Quiet ==
  ASSUME IInv, connected' = connected, sent' = sent, raised' = raised,
         pc' = "aborted" <=> pc = "aborted",
         \A p \in Plugin : /\ View(p)'.greeted = View(p).greeted
                           /\ View(p)'.subscribed = View(p).subscribed
                           /\ received'[p] \o View(p)'.writebuffer = received[p] \o View(p).writebuffer
  PROVE  UNCHANGED Channel!vars
<1>1. Greeted' = Greeted /\ Subscribed' = Subscribed /\ Said' = Said
      BY SameSight
<1>2. (pc = "aborted")' = (pc = "aborted")
      OBVIOUS
<1> QED BY <1>1, <1>2 DEF Channel!vars, Greeted, Subscribed, Said

\* The steps that move the loop and change nothing a plugin could notice.
LEMMA Idle ==
  ASSUME IInv, Shape', UNCHANGED <<connected, info, sent, wire, received, raised>>,
         \A p \in Plugin : View(p)' = View(p)
  PROVE  /\ IInv'
         /\ (pc' = "aborted" <=> pc = "aborted") => UNCHANGED Channel!vars
<1>1. raised \in Nat
      BY DEF IInv, Shape
<1>2. ASSUME NEW p \in Plugin PROVE Own(p)'
      BY <1>1, <1>2, StillOwn DEF IInv
<1>3. IInv'
      BY <1>2 DEF IInv
<1>4. ASSUME pc' = "aborted" <=> pc = "aborted" PROVE UNCHANGED Channel!vars
      BY <1>4, Quiet
<1> QED BY <1>3, <1>4

LEMMA PollStep == ASSUME IInv, Poll PROVE IInv' /\ ChannelStep
<1>1. Shape'
      BY DEF IInv, Shape, Poll, table, kernel
<1>2. UNCHANGED <<connected, info, sent, wire, received, raised>>
      BY DEF Poll, table, kernel
<1>3. \A p \in Plugin : View(p)' = View(p)
      BY DEF Poll, table, View
<1>4. pc' # "aborted" /\ pc # "aborted"
      BY DEF Poll
<1> QED BY <1>1, <1>2, <1>3, <1>4, Idle DEF ChannelStep

LEMMA VisitGoneStep == ASSUME IInv, NEW p \in Plugin, VisitGone(p) PROVE IInv' /\ ChannelStep
<1>1. Shape'
      BY DEF IInv, Shape, VisitGone, table, kernel
<1>2. UNCHANGED <<connected, info, sent, wire, received, raised>>
      BY DEF VisitGone, table, kernel
<1>3. \A q \in Plugin : View(q)' = View(q)
      BY DEF VisitGone, table, View
<1>4. pc' # "aborted" /\ pc # "aborted"
      BY DEF VisitGone
<1> QED BY <1>1, <1>2, <1>3, <1>4, Idle DEF ChannelStep

LEMMA VisitStep == ASSUME IInv, NEW p \in Plugin, Visit(p) PROVE IInv' /\ ChannelStep
<1>1. Shape'
      BY DEF IInv, Shape, Visit, table, kernel
<1>2. UNCHANGED <<connected, info, sent, wire, received, raised>>
      BY DEF Visit, table, kernel
<1>3. \A q \in Plugin : View(q)' = View(q)
      BY NoPluginAssumption DEF IInv, Shape, Visit, table, View
<1>4. pc' # "aborted" /\ pc # "aborted"
      BY DEF Visit
<1> QED BY <1>1, <1>2, <1>3, <1>4, Idle DEF ChannelStep

LEMMA ParseDoneStep == ASSUME IInv, ParseDone PROVE IInv' /\ ChannelStep
<1>1. Shape'
      BY DEF IInv, Shape, ParseDone, table, kernel
<1>2. UNCHANGED <<connected, info, sent, wire, received, raised>>
      BY DEF ParseDone, table, kernel
<1>3. \A q \in Plugin : View(q)' = View(q)
      BY DEF ParseDone, table, View
<1>4. pc' # "aborted" /\ pc # "aborted"
      BY DEF ParseDone
<1> QED BY <1>1, <1>2, <1>3, <1>4, Idle DEF ChannelStep

LEMMA HangUpStep == ASSUME IInv, NEW p \in Plugin, HangUp(p) PROVE IInv' /\ ChannelStep
<1>1. Shape'
      BY DEF IInv, Shape, HangUp, table, loop
<1>2. UNCHANGED <<connected, info, sent, wire, received, raised>>
      BY DEF HangUp, table
<1>3. \A q \in Plugin : View(q)' = View(q)
      BY DEF HangUp, table, loop, View
<1>4. pc' # "aborted" /\ pc # "aborted"
      BY DEF HangUp, loop
<1> QED BY <1>1, <1>2, <1>3, <1>4, Idle DEF ChannelStep

LEMMA StutterStep == ASSUME IInv, UNCHANGED vars PROVE IInv' /\ ChannelStep
<1>1. Shape'
      BY DEF IInv, Shape, vars, table, loop, kernel
<1>2. UNCHANGED <<connected, info, sent, wire, received, raised>>
      BY DEF vars, table, kernel
<1>3. \A q \in Plugin : View(q)' = View(q)
      BY DEF vars, table, loop, View
<1>4. pc' = pc
      BY DEF vars, loop
<1> QED BY <1>1, <1>2, <1>3, <1>4, Idle DEF ChannelStep

\* The thread ends at a packet that is next in turn.
LEMMA StopsAtNext ==
  ASSUME IInv, pc = "parse", pc' = "aborted",
         UNCHANGED <<table, copy, cur, todo, toRemove, kernel, raised>>,
         Replied(cur) + 1 <= Len(sent[cur]), sent[cur][Replied(cur) + 1] \in {"malformed", "unsized"}
  PROVE  IInv' /\ ChannelStep
<1>1. Shape'
      BY DEF IInv, Shape, table, kernel
<1>2. UNCHANGED <<connected, info, sent, wire, received, raised>>
      BY DEF table, kernel
<1>3. \A p \in Plugin : View(p)' = View(p)
      BY DEF table, View
<1>4. IInv'
      BY <1>1, <1>2, <1>3, Idle
<1>5. cur \in connected /\ cur \in Plugin
      BY DEF IInv, Shape
<1>6. Greeted' = Greeted /\ Subscribed' = Subscribed /\ Said' = Said
      BY <1>2, <1>3, SameSight
<1>7. Channel!Replies(Said[cur]) = Replied(cur)
      BY <1>5 DEF Said, Replied
<1>8. Channel!Stop(cur)
      BY <1>2, <1>5, <1>6, <1>7 DEF Channel!Stop, Greeted, Subscribed, Said
<1>9. pc # "aborted"
      OBVIOUS
<1> QED BY <1>4, <1>5, <1>8, <1>9 DEF ChannelStep, Channel!Next

\* What the invariant says of the socket being visited.
LEMMA AtCurrent ==
  ASSUME IInv, pc \in {"read", "parse", "write"}
  PROVE  /\ cur \in connected /\ cur \in Plugin /\ View(cur) = copy /\ copy \in SocketInfo
         /\ copy.readahead \in Seq(Byte) /\ copy.writebuffer \in Seq(Message)
         /\ sent[cur] \in Seq(Kind) /\ wire[cur] \in Seq(Byte) /\ received[cur] \in Seq(Message)
         /\ IsRest(copy.readahead \o wire[cur], sent[cur], Replied(cur), copy.waitingSize)
         /\ Own(cur)
<1>1. cur \in connected /\ cur \in Plugin /\ View(cur) = copy /\ copy \in SocketInfo
      BY DEF IInv, Shape, View
<1>2. Own(cur)
      BY <1>1 DEF IInv
<1>3. copy.readahead \in Seq(Byte) /\ copy.writebuffer \in Seq(Message)
      BY <1>1 DEF SocketInfo
<1>4. sent[cur] \in Seq(Kind) /\ wire[cur] \in Seq(Byte) /\ received[cur] \in Seq(Message)
      BY <1>1 DEF IInv, Shape
<1> QED BY <1>1, <1>2, <1>3, <1>4 DEF Own

LEMMA ParseNoSizeStep == ASSUME IInv, ParseNoSize PROVE IInv' /\ ChannelStep
<1>1. /\ pc = "parse" /\ copy.waitingSize = 0 /\ HasBrace(copy.readahead)
      /\ Announced(copy.readahead) = {}
      /\ pc' = "aborted" /\ UNCHANGED <<table, copy, cur, todo, toRemove, kernel, raised>>
      BY DEF ParseNoSize
<1> DEFINE a == copy.readahead s == sent[cur] r == Replied(cur)
<1>2. a \in Seq(Byte) /\ wire[cur] \in Seq(Byte) /\ s \in Seq(Kind) /\ IsRest(a \o wire[cur], s, r, 0)
      BY <1>1, AtCurrent
<1>3. HasBrace(a) /\ Announced(a) = {}
      BY <1>1
<1> HIDE DEF a, s, r
<1>4. s[r + 1] = "unsized"
      BY <1>2, <1>3, NumberAtBrace
<1>5. r \in Nat /\ r < Len(s)
      BY <1>2, <1>3, RestAtBrace
<1>6. r + 1 <= Len(s)
      BY <1>2, <1>5
<1> QED BY <1>1, <1>4, <1>6, StopsAtNext DEF s, r

\* The complete packet is the next one.
LEMMA CompleteIsNext ==
  ASSUME IInv, Complete
  PROVE  LET n == Replied(cur) + 1
             a == copy.readahead
             w == copy.waitingSize
         IN /\ n \in 1 .. Len(sent[cur]) /\ w = BodySize
            /\ Take(a, w) = Body(n)
            /\ Drop(a, w) \in Seq(Byte)
            /\ IsRest(Drop(a, w) \o wire[cur], sent[cur], n, 0)
            /\ sent[cur][n] \notin {"unsized", "empty"}
<1> DEFINE a == copy.readahead s == sent[cur] r == Replied(cur) w == copy.waitingSize b == wire[cur]
<1>1. a \in Seq(Byte) /\ b \in Seq(Byte) /\ s \in Seq(Kind) /\ IsRest(a \o b, s, r, w)
      BY AtCurrent DEF Complete
<1>2. w # 0 /\ Len(a) >= w /\ w \in {0, BodySize}
      BY DEF Complete, IInv, Shape, SocketInfo
<1> HIDE DEF a, s, r, w, b
<1>3. w = 3 /\ w \in 0 .. Len(a) /\ w <= Len(a)
      BY <1>1, <1>2 DEF BodySize
<1>4. /\ r \in Nat /\ r + 1 \in 1 .. Len(s) /\ w = BodySize
      /\ Take(a, w) = Body(r + 1)
      /\ IsRest(Drop(a, w) \o b, s, r + 1, 0)
      BY <1>1, <1>2, <1>3, RestAtPacket
<1>5. Drop(a, w) \in Seq(Byte)
      BY <1>1, <1>3, DropFacts
<1>6. s[r + 1] \notin {"unsized", "empty"}
      BY <1>1, <1>2 DEF IsRest
<1> QED BY <1>4, <1>5, <1>6 DEF a, s, r, w, b

LEMMA RequestIsNext ==
  ASSUME IInv, Complete, NEW i \in DOMAIN sent[cur], IsRequest(i)
  PROVE  i = Replied(cur) + 1
<1>1. Body(i) = Body(Replied(cur) + 1)
      BY CompleteIsNext DEF IsRequest
<1> QED BY <1>1 DEF Body, Text

LEMMA HandleMalformedStep == ASSUME IInv, HandleMalformed PROVE IInv' /\ ChannelStep
<1>1. /\ pc = "parse" /\ pc' = "aborted" /\ Complete /\ \A i \in DOMAIN sent[cur] : ~IsRequest(i)
      /\ UNCHANGED <<table, copy, cur, todo, toRemove, kernel, raised>>
      BY DEF HandleMalformed, Complete
<1> DEFINE n == Replied(cur) + 1
<1>2. n \in 1 .. Len(sent[cur]) /\ Take(copy.readahead, copy.waitingSize) = Body(n)
      BY <1>1, CompleteIsNext
<1>3. sent[cur] \in Seq(Kind)
      BY <1>1, AtCurrent
<1>4. n \in DOMAIN sent[cur] /\ n <= Len(sent[cur])
      BY <1>2, <1>3
<1>5. sent[cur][n] = "malformed"
      BY <1>1, <1>2, <1>4 DEF IsRequest
<1> QED BY <1>1, <1>4, <1>5, StopsAtNext

LEMMA Moved ==
  ASSUME NEW S, NEW a \in Seq(S), NEW b \in Seq(S), NEW n \in 0 .. Len(b)
  PROVE  /\ a \o Take(b, n) \in Seq(S) /\ Drop(b, n) \in Seq(S)
         /\ (a \o Take(b, n)) \o Drop(b, n) = a \o b
<1> DEFINE x == Take(b, n) y == Drop(b, n)
<1>1. x \in Seq(S) /\ y \in Seq(S)
      BY TakeFacts, DropFacts
<1>2. x \o y = b
      BY TakeThenDrop
<1> HIDE DEF x, y
<1>3. a \o x \in Seq(S)
      BY <1>1, ConcatProperties
<1>4. \A s, u, v \in Seq(S) : (s \o u) \o v = s \o (u \o v)
      BY ConcatAssociative, SMTT(30)
<1>5. (a \o x) \o y = a \o (x \o y)
      BY <1>1, <1>4, Zenon
<1> QED BY <1>1, <1>2, <1>3, <1>5 DEF x, y

\* The plugins whose sockets poll() is not at.
LEMMA OthersStill ==
  ASSUME IInv, connected' = connected, raised' = raised, cur' \in {cur, NoPlugin},
         NEW p \in Plugin, p # cur,
         info'[p] = info[p], sent'[p] = sent[p], wire'[p] = wire[p], received'[p] = received[p]
  PROVE  Own(p)' /\ View(p) = info[p] /\ View(p)' = info[p]
<1>1. View(p) = info[p] /\ View(p)' = info[p]
      BY NoPluginAssumption DEF View
<1>2. raised \in Nat /\ Own(p)
      BY DEF IInv, Shape
<1> QED BY <1>1, <1>2, StillOwn

\* A step that changes readahead, waitingSize and the bytes in the socket.
LEMMA CopyStep ==
  ASSUME IInv, pc \in {"read", "parse"}, pc' # "aborted", Shape',
         UNCHANGED <<table, cur, sent, received, raised>>,
         \A p \in Plugin : p # cur => wire'[p] = wire[p],
         copy'.greeted = copy.greeted, copy'.subscribed = copy.subscribed,
         copy'.writebuffer = copy.writebuffer,
         IsRest(copy'.readahead \o wire'[cur], sent[cur], Replied(cur), copy'.waitingSize)
  PROVE  IInv' /\ ChannelStep
<1>1. /\ connected' = connected /\ info' = info /\ cur' = cur /\ sent' = sent /\ received' = received
      /\ raised' = raised
      BY DEF table
<1>2. /\ cur \in connected /\ cur \in Plugin /\ View(cur) = copy /\ Own(cur)
      BY AtCurrent
<1>3. View(cur)' = copy'
      BY <1>1 DEF View
<1>4. Replied(cur)' = Replied(cur)
      BY <1>1, <1>2, <1>3 DEF Replied
<1>5. MessageTo(cur)' = MessageTo(cur)
      BY <1>1 DEF MessageTo
<1>6. Own(cur)'
      BY <1>1, <1>2, <1>3, <1>4, <1>5 DEF Own
<1>7. ASSUME NEW p \in Plugin, p # cur PROVE Own(p)' /\ View(p)' = View(p)
      BY <1>1, <1>7, OthersStill
<1>8. IInv'
      BY <1>6, <1>7 DEF IInv
<1>9. \A p \in Plugin : /\ View(p)'.greeted = View(p).greeted
                        /\ View(p)'.subscribed = View(p).subscribed
                        /\ received'[p] \o View(p)'.writebuffer = received[p] \o View(p).writebuffer
      BY <1>1, <1>2, <1>3, <1>7
<1>10. pc' = "aborted" <=> pc = "aborted"
       OBVIOUS
<1> QED BY <1>1, <1>8, <1>9, <1>10, Quiet DEF ChannelStep

LEMMA ParseSizeStep == ASSUME IInv, ParseSize PROVE IInv' /\ ChannelStep
<1> DEFINE a == copy.readahead s == sent[cur] r == Replied(cur) b == wire[cur]
           m == FirstBrace(a) N == Number(a)
<1>1. /\ pc = "parse" /\ copy.waitingSize = 0 /\ HasBrace(a) /\ Announced(a) # {} /\ N > 0
      /\ copy' = [copy EXCEPT !.waitingSize = N, !.readahead = Drop(@, m - 1)]
      /\ UNCHANGED <<table, cur, todo, toRemove, pc, kernel, raised>>
      BY DEF ParseSize
<1>2. /\ a \in Seq(Byte) /\ b \in Seq(Byte) /\ s \in Seq(Kind) /\ IsRest(a \o b, s, r, 0)
      /\ copy \in SocketInfo
      BY <1>1, AtCurrent
<1> HIDE DEF s, r, b
<1>3. s[r + 1] \notin {"unsized", "empty"} /\ N = BodySize
      BY <1>1, <1>2, NumberAtBrace
<1>4. m \in 1 .. Len(a)
      BY <1>1, <1>2, RestAtBrace
<1>5. IsRest(Drop(a, m - 1) \o b, s, r, BodySize)
      BY <1>1, <1>2, <1>3, RestAtBrace
<1>6. m - 1 \in 0 .. Len(a)
      BY <1>2, <1>4
<1>7. Drop(a, m - 1) \in Seq(Byte)
      BY <1>2, <1>6, DropFacts
<1> HIDE DEF m, N
<1>8. /\ copy' \in SocketInfo
      /\ copy'.greeted = copy.greeted /\ copy'.subscribed = copy.subscribed
      /\ copy'.writebuffer = copy.writebuffer
      /\ copy'.readahead = Drop(a, m - 1) /\ copy'.waitingSize = BodySize
      BY <1>1, <1>2, <1>3, <1>7 DEF SocketInfo
<1> HIDE DEF a
<1>9. Shape'
      BY <1>1, <1>8 DEF IInv, Shape, table, kernel
<1>10. wire' = wire /\ sent' = sent /\ received' = received
       BY <1>1 DEF kernel
<1>11. IsRest(copy'.readahead \o wire'[cur], sent[cur], Replied(cur), copy'.waitingSize)
       BY <1>5, <1>8, <1>10 DEF b, s, r
<1> QED BY <1>1, <1>8, <1>9, <1>10, <1>11, CopyStep

LEMMA ReadStep == ASSUME IInv, NEW n \in Nat, Read(n) PROVE IInv' /\ ChannelStep
<1> DEFINE a == copy.readahead b == wire[cur]
<1>1. /\ pc = "read" /\ n \in (IF b = <<>> THEN {0} ELSE 1 .. Len(b))
      /\ copy' = [copy EXCEPT !.readahead = @ \o Take(b, n)]
      /\ wire' = [wire EXCEPT ![cur] = Drop(@, n)]
      /\ toRemove' = toRemove \/ toRemove' = toRemove \union {cur}
      /\ pc' \in {"parse", "write"}
      /\ UNCHANGED <<table, cur, todo, sent, peer, received, raised>>
      BY DEF Read
<1>2. /\ a \in Seq(Byte) /\ b \in Seq(Byte) /\ copy \in SocketInfo /\ cur \in connected /\ cur \in Plugin
      /\ IsRest(a \o b, sent[cur], Replied(cur), copy.waitingSize)
      BY <1>1, AtCurrent
<1>3. n \in 0 .. Len(b)
      BY <1>1, <1>2
<1>4. /\ a \o Take(b, n) \in Seq(Byte) /\ Drop(b, n) \in Seq(Byte)
      /\ (a \o Take(b, n)) \o Drop(b, n) = a \o b
      BY <1>2, <1>3, Moved, ZenonT(40)
<1>5. /\ copy' \in SocketInfo
      /\ copy'.greeted = copy.greeted /\ copy'.subscribed = copy.subscribed
      /\ copy'.writebuffer = copy.writebuffer /\ copy'.waitingSize = copy.waitingSize
      /\ copy'.readahead = a \o Take(b, n)
      BY <1>1, <1>2, <1>4 DEF SocketInfo
<1>6. wire \in [Plugin -> Seq(Byte)]
      BY DEF IInv, Shape
<1>7. /\ wire' \in [Plugin -> Seq(Byte)] /\ wire'[cur] = Drop(b, n)
      /\ \A p \in Plugin : p # cur => wire'[p] = wire[p]
      BY <1>1, <1>2, <1>4, <1>6
<1>8. IsRest(copy'.readahead \o wire'[cur], sent[cur], Replied(cur), copy'.waitingSize)
      BY <1>2, <1>4, <1>5, <1>7
<1> HIDE DEF a, b
<1>9. Shape'
       BY <1>1, <1>2, <1>5, <1>7 DEF IInv, Shape, table
<1> QED BY <1>1, <1>5, <1>7, <1>8, <1>9, CopyStep

LEMMA WriteFailsStep == ASSUME IInv, WriteFails PROVE IInv' /\ ChannelStep
<1>1. PICK p : p = cur
      OBVIOUS
<1>2. /\ pc = "write" /\ toRemove' = toRemove \union {p} /\ info' = [info EXCEPT ![p] = copy]
      /\ copy' = Fresh /\ cur' = NoPlugin /\ pc' = "visit"
      /\ UNCHANGED <<connected, todo, kernel, raised>>
      BY <1>1 DEF WriteFails, Store
<1>3. p \in connected /\ p \in Plugin /\ View(p) = copy /\ copy \in SocketInfo /\ Own(p)
      BY <1>1, <1>2, AtCurrent
<1>4. /\ info' \in [Plugin -> SocketInfo] /\ info'[p] = copy
      /\ \A q \in Plugin : q # p => info'[q] = info[q]
      BY <1>2, <1>3 DEF IInv, Shape
<1>5. Shape'
      BY <1>1, <1>2, <1>3, <1>4, FreshType DEF IInv, Shape, kernel
<1>6. /\ sent' = sent /\ wire' = wire /\ received' = received /\ raised' = raised
      /\ connected' = connected /\ raised \in Nat
      BY <1>2 DEF kernel, IInv, Shape
<1>7. View(p)' = View(p)
      BY <1>2, <1>3, <1>4, NoPluginAssumption DEF View
<1>8. Own(p)'
      BY <1>3, <1>4, <1>6, <1>7, StillOwn
<1>9. ASSUME NEW q \in Plugin, q # p PROVE Own(q)' /\ View(q)' = View(q)
      BY <1>1, <1>2, <1>4, <1>6, <1>9, OthersStill
<1>10. IInv'
       BY <1>5, <1>8, <1>9 DEF IInv
<1>11. \A q \in Plugin : View(q)' = View(q)
       BY <1>7, <1>9
<1>12. pc' = "aborted" <=> pc = "aborted"
       BY <1>2
<1> QED BY <1>6, <1>10, <1>11, <1>12, Quiet DEF ChannelStep

LEMMA WriteStep == ASSUME IInv, NEW n \in Nat, Write(n) PROVE IInv' /\ ChannelStep
<1>1. PICK p : p = cur
      OBVIOUS
<1> DEFINE r == received[p] w == copy.writebuffer M == MessageTo(p)
           i == [copy EXCEPT !.writebuffer = Drop(@, n)]
<1>2. /\ pc = "write" /\ n \in 0 .. Len(w)
      /\ received' = [received EXCEPT ![p] = @ \o Take(w, n)]
      /\ info' = [info EXCEPT ![p] = i]
      /\ copy' = Fresh /\ cur' = NoPlugin /\ pc' = "visit"
      /\ UNCHANGED <<connected, todo, toRemove, sent, wire, peer, raised>>
      BY <1>1 DEF Write, Store
<1>3. /\ p \in connected /\ p \in Plugin /\ View(p) = copy /\ copy \in SocketInfo /\ Own(p)
      /\ w \in Seq(Message) /\ r \in Seq(Message)
      BY <1>1, <1>2, AtCurrent
<1>4. r \in Seq(M) /\ w \in Seq(M)
      BY <1>3 DEF Own
<1>5. /\ r \o Take(w, n) \in Seq(Message) /\ Drop(w, n) \in Seq(Message)
      /\ (r \o Take(w, n)) \o Drop(w, n) = r \o w
      BY <1>2, <1>3, Moved, ZenonT(40)
<1>6. r \o Take(w, n) \in Seq(M) /\ Drop(w, n) \in Seq(M)
      BY <1>2, <1>4, Moved
<1>7. /\ i \in SocketInfo /\ i.writebuffer = Drop(w, n) /\ i.readahead = copy.readahead
      /\ i.waitingSize = copy.waitingSize /\ i.greeted = copy.greeted /\ i.subscribed = copy.subscribed
      BY <1>3, <1>5 DEF SocketInfo
<1> HIDE DEF i, w, r, M
<1>8. /\ info' \in [Plugin -> SocketInfo] /\ info'[p] = i
      /\ \A q \in Plugin : q # p => info'[q] = info[q]
      BY <1>2, <1>3, <1>7 DEF IInv, Shape
<1>9. /\ received' \in [Plugin -> Seq(Message)] /\ received'[p] = r \o Take(w, n)
      /\ \A q \in Plugin : q # p => received'[q] = received[q]
      BY <1>2, <1>3, <1>5 DEF IInv, Shape, r
<1>10. Shape'
       BY <1>2, <1>3, <1>8, <1>9, FreshType DEF IInv, Shape
<1>11. View(p)' = i
       BY <1>2, <1>3, <1>8, NoPluginAssumption DEF View
<1>12. received'[p] \o View(p)'.writebuffer = received[p] \o View(p).writebuffer
       BY <1>3, <1>5, <1>7, <1>9, <1>11 DEF r, w
<1>13. Replied(p)' = Replied(p)
       BY <1>12 DEF Replied
<1>14. MessageTo(p)' = M
       BY <1>2 DEF MessageTo, M
<1>15. Own(p)'
  <2>1. p \in connected'
        BY <1>2, <1>3
  <2>2. IsRest(View(p).readahead \o wire[p], sent[p], Replied(p), View(p).waitingSize)'
        BY <1>2, <1>3, <1>7, <1>11, <1>13 DEF Own
  <2> QED BY <1>6, <1>7, <1>8, <1>9, <1>11, <1>14, <2>1, <2>2 DEF Own
<1>16. ASSUME NEW q \in Plugin, q # p PROVE Own(q)' /\ View(q)' = View(q)
       BY <1>1, <1>2, <1>8, <1>9, <1>16, OthersStill
<1>17. IInv'
       BY <1>10, <1>15, <1>16 DEF IInv
<1>18. \A q \in Plugin : /\ View(q)'.greeted = View(q).greeted
                         /\ View(q)'.subscribed = View(q).subscribed
                         /\ received'[q] \o View(q)'.writebuffer = received[q] \o View(q).writebuffer
       BY <1>3, <1>7, <1>9, <1>11, <1>12, <1>16
<1>19. pc' = "aborted" <=> pc = "aborted"
       BY <1>2
<1> QED BY <1>2, <1>17, <1>18, <1>19, Quiet DEF ChannelStep

LEMMA NewConnectionStep ==
  ASSUME IInv, NEW p \in Plugin, NewConnection(p) PROVE IInv' /\ ChannelStep
<1>1. /\ pc = "run" /\ p \notin connected /\ connected' = connected \union {p}
      /\ info' = [info EXCEPT ![p] = Fresh] /\ UNCHANGED <<loop, kernel, raised>>
      BY DEF NewConnection
<1>2. info[p] = Fresh /\ info' = info
      BY <1>1 DEF IInv, Shape, Own
<1>3. /\ sent' = sent /\ wire' = wire /\ received' = received /\ raised' = raised /\ raised \in Nat
      /\ cur = NoPlugin /\ cur' = cur /\ pc' = pc
      BY <1>1 DEF IInv, Shape, loop, kernel
<1>4. \A q \in Plugin : View(q)' = View(q)
      BY <1>1, <1>2 DEF View, loop
<1>5. Shape'
      BY <1>1, <1>2 DEF IInv, Shape, loop, kernel
<1>6. ASSUME NEW q \in Plugin PROVE Own(q)'
  <2>1. Own(q) /\ View(q)' = View(q) /\ info'[q] = info[q] /\ (q \in connected => q \in connected')
        BY <1>1, <1>2, <1>4 DEF IInv
  <2> QED BY <1>3, <2>1, StillOwn
<1>7. View(p) = Fresh
      BY <1>2, <1>3, NoPluginAssumption DEF View
<1>8. Greeted' = Greeted /\ Subscribed' = Subscribed /\ Said' = Said
  <2>1. connected \subseteq Plugin /\ ~Fresh.greeted /\ ~Fresh.subscribed
        BY DEF IInv, Shape, Fresh
  <2>2. Greeted' = Greeted
        BY <1>1, <1>4, <1>7, <2>1 DEF Greeted
  <2>3. Subscribed' = Subscribed
        BY <1>1, <1>4, <1>7, <2>1 DEF Subscribed
  <2>4. Said' = Said
        BY <1>3, <1>4 DEF Said
  <2> QED BY <2>2, <2>3, <2>4
<1>9. Channel!Join(p)
      BY <1>1, <1>3, <1>8 DEF Channel!Join, Greeted, Subscribed, Said
<1>10. pc # "aborted"
       BY <1>1
<1> QED BY <1>5, <1>6, <1>9, <1>10 DEF IInv, ChannelStep, Channel!Next

LEMMA SendStep ==
  ASSUME IInv, NEW p \in Plugin, NEW k \in Kind, Send(p, k) PROVE IInv' /\ ChannelStep
<1> DEFINE s == sent[p] P == Packet(k, Len(s) + 1) v == View(p) b == wire[p]
<1>1. /\ p \in connected /\ pc \in {"run", "read"}
      /\ sent' = [sent EXCEPT ![p] = Append(@, k)]
      /\ wire' = [wire EXCEPT ![p] = @ \o P]
      /\ UNCHANGED <<table, loop, peer, received, raised>>
      BY DEF Send
<1>2. /\ s \in Seq(Kind) /\ b \in Seq(Byte) /\ v.readahead \in Seq(Byte) /\ Own(p) /\ raised \in Nat
      BY ViewType DEF IInv, Shape
<1>3. P \in Seq(Byte)
  <2>1. Len(s) + 1 \in Nat
        BY <1>2
  <2> QED BY <2>1, PacketShape
<1>4. /\ connected' = connected /\ info' = info /\ received' = received /\ raised' = raised
      /\ pc' = pc /\ cur' = cur /\ copy' = copy
      BY <1>1 DEF table, loop
<1>5. \A q \in Plugin : View(q)' = View(q)
      BY <1>4 DEF View
<1> HIDE DEF v, P
<1>6. /\ sent' \in [Plugin -> Seq(Kind)] /\ sent'[p] = Append(s, k)
      /\ \A q \in Plugin : q # p => sent'[q] = sent[q]
  <2>1. Append(s, k) \in Seq(Kind)
        BY <1>2, AppendProperties
  <2>2. sent \in [Plugin -> Seq(Kind)]
        BY DEF IInv, Shape
  <2> QED BY <1>1, <2>1, <2>2
<1>7. /\ wire' \in [Plugin -> Seq(Byte)] /\ wire'[p] = b \o P
      /\ \A q \in Plugin : q # p => wire'[q] = wire[q]
  <2>1. b \o P \in Seq(Byte)
        BY <1>2, <1>3, ConcatProperties
  <2>2. wire \in [Plugin -> Seq(Byte)]
        BY DEF IInv, Shape
  <2> QED BY <1>1, <2>1, <2>2
<1>8. Shape'
      BY <1>1, <1>4, <1>6, <1>7 DEF IInv, Shape, table, loop
<1>9. Replied(p)' = Replied(p)
      BY <1>4, <1>5 DEF Replied
<1>10. IsRest((v.readahead \o b) \o P, Append(s, k), Replied(p), v.waitingSize)
  <2>1. IsRest(v.readahead \o b, s, Replied(p), v.waitingSize)
        BY <1>2 DEF Own, v
  <2> HIDE DEF s, b
  <2> QED BY <1>2, <2>1, RestAfterSend DEF P
<1>11. (v.readahead \o b) \o P = v.readahead \o (b \o P)
  <2>1. \A x, y, z \in Seq(Byte) : (x \o y) \o z = x \o (y \o z)
        BY ConcatAssociative
  <2> QED BY <1>2, <1>3, <2>1, Zenon
<1>12. Own(p)'
  <2>1. MessageTo(p) \subseteq MessageTo(p)'
    <3>1. DOMAIN sent[p] \subseteq DOMAIN sent'[p]
          BY <1>2, <1>6
    <3> QED BY <1>2, <1>4, <3>1, MessagesStay
  <2>2. /\ info[p].writebuffer \in Seq(MessageTo(p)') /\ View(p).writebuffer \in Seq(MessageTo(p)')
        /\ received[p] \in Seq(MessageTo(p)')
        BY <1>2, <2>1, SeqMonotonic DEF Own
  <2>3. IsRest(View(p).readahead \o wire[p], sent[p], Replied(p), View(p).waitingSize)'
        BY <1>5, <1>6, <1>7, <1>9, <1>10, <1>11 DEF v
  <2> QED BY <1>1, <1>4, <1>5, <2>2, <2>3 DEF Own
<1>13. ASSUME NEW q \in Plugin, q # p PROVE Own(q)'
  <2>1. Own(q) /\ View(q)' = View(q) /\ info'[q] = info[q] /\ sent'[q] = sent[q] /\ wire'[q] = wire[q]
        BY <1>4, <1>5, <1>6, <1>7, <1>13 DEF IInv
  <2> QED BY <1>2, <1>4, <2>1, StillOwn
<1>14. Greeted' = Greeted /\ Subscribed' = Subscribed /\ Said' = Said
       BY <1>4, <1>5, SameSight
<1>15. Channel!Request(p, k)
       BY <1>1, <1>4, <1>14 DEF Channel!Request, Greeted, Subscribed, Said
<1>16. pc # "aborted"
       BY <1>1
<1> QED BY <1>8, <1>12, <1>13, <1>15, <1>16 DEF IInv, ChannelStep, Channel!Next

LEMMA EraseStep == ASSUME IInv, Erase PROVE IInv' /\ ChannelStep
<1>1. /\ pc = "visit" /\ todo = {} /\ connected' = connected \ toRemove
      /\ info' = [p \in Plugin |-> IF p \in toRemove THEN Fresh ELSE info[p]]
      /\ Forget(toRemove) /\ toRemove' = {} /\ pc' = "run"
      /\ UNCHANGED <<copy, cur, todo, raised>>
      BY DEF Erase
<1>2. /\ sent' = [p \in Plugin |-> IF p \in toRemove THEN <<>> ELSE sent[p]]
      /\ wire' = [p \in Plugin |-> IF p \in toRemove THEN <<>> ELSE wire[p]]
      /\ peer' = [p \in Plugin |-> IF p \in toRemove THEN "open" ELSE peer[p]]
      /\ received' = [p \in Plugin |-> IF p \in toRemove THEN <<>> ELSE received[p]]
      BY <1>1 DEF Forget
<1>3. toRemove \subseteq connected /\ connected \subseteq Plugin /\ cur = NoPlugin /\ raised \in Nat
      BY <1>1 DEF IInv, Shape
<1>4. \A p \in Plugin : View(p) = info[p] /\ View(p)' = info'[p]
      BY <1>1, <1>3, NoPluginAssumption DEF View
<1>5. \A S : <<>> \in Seq(S)
      BY EmptySeq
<1>6. Shape'
  <2>1. info' \in [Plugin -> SocketInfo]
        BY <1>1, FreshType DEF IInv, Shape
  <2>2. sent' \in [Plugin -> Seq(Kind)]
        BY <1>2, <1>5 DEF IInv, Shape
  <2>3. wire' \in [Plugin -> Seq(Byte)]
        BY <1>2, <1>5 DEF IInv, Shape
  <2>4. received' \in [Plugin -> Seq(Message)]
        BY <1>2, <1>5 DEF IInv, Shape
  <2>5. peer' \in [Plugin -> {"open", "eof", "hup"}]
        BY <1>2 DEF IInv, Shape
  <2> QED BY <1>1, <1>3, <2>1, <2>2, <2>3, <2>4, <2>5 DEF IInv, Shape
<1>7. ASSUME NEW p \in toRemove PROVE Own(p)'
  <2>1. /\ p \in Plugin /\ info'[p] = Fresh /\ View(p)' = Fresh
        /\ sent'[p] = <<>> /\ wire'[p] = <<>> /\ received'[p] = <<>>
        BY <1>1, <1>2, <1>3, <1>4
  <2>2. Fresh.writebuffer = <<>> /\ Fresh.readahead = <<>> /\ Fresh.waitingSize = 0
        BY DEF Fresh
  <2> HIDE DEF Fresh
  <2>3. <<>> \o <<>> = <<>>
        OBVIOUS
  <2>4. Replied(p)' = 0
        BY <2>1, <2>2, <2>3, RepliesOfNothing DEF Replied, Replies
  <2> QED BY <1>5, <2>1, <2>2, <2>3, <2>4, RestOfNothing DEF Own
<1>8. ASSUME NEW p \in Plugin, p \notin toRemove PROVE Own(p)'
  <2>1. /\ Own(p) /\ View(p)' = View(p) /\ info'[p] = info[p] /\ (p \in connected => p \in connected')
        /\ sent'[p] = sent[p] /\ wire'[p] = wire[p] /\ received'[p] = received[p] /\ raised' = raised
        BY <1>1, <1>2, <1>4, <1>8 DEF IInv
  <2> QED BY <1>3, <2>1, StillOwn
<1>9. IInv'
      BY <1>6, <1>7, <1>8 DEF IInv
<1>10. /\ Greeted' = Greeted \ toRemove
       /\ Subscribed' = Subscribed \ toRemove
       /\ Said' = [p \in Plugin |-> IF p \in toRemove THEN <<>> ELSE Said[p]]
  <2>1. Greeted' = Greeted \ toRemove
        BY <1>1, <1>3, <1>4 DEF Greeted
  <2>2. Subscribed' = Subscribed \ toRemove
        BY <1>1, <1>3, <1>4 DEF Subscribed
  <2>3. ASSUME NEW p \in Plugin
        PROVE  received'[p] \o View(p)'.writebuffer
                 = IF p \in toRemove THEN <<>> ELSE received[p] \o View(p).writebuffer
    <3>1. CASE p \in toRemove
      <4>1. View(p)'.writebuffer = <<>> /\ received'[p] = <<>>
            BY <1>1, <1>2, <1>4, <3>1 DEF Fresh
      <4> QED BY <3>1, <4>1
    <3>2. CASE p \notin toRemove
          BY <1>1, <1>2, <1>4, <3>2
    <3> QED BY <3>1, <3>2
  <2>4. Said' = [p \in Plugin |-> IF p \in toRemove THEN <<>> ELSE Said[p]]
        BY <2>3 DEF Said
  <2> QED BY <2>1, <2>2, <2>4
<1>11. CASE toRemove = {}
  <2>1. \A p \in Plugin : View(p)' = View(p) /\ received'[p] = received[p] /\ sent'[p] = sent[p]
        BY <1>1, <1>2, <1>4, <1>11
  <2>2. sent' = sent
        BY <2>1, <1>6 DEF IInv, Shape
  <2>3. connected' = connected
        BY <1>1, <1>11
  <2> QED BY <1>1, <1>9, <2>1, <2>2, <2>3, Quiet DEF ChannelStep
<1>12. CASE toRemove # {}
  <2>1. PICK S : S = toRemove
        OBVIOUS
  <2>2. Channel!Leave(S)
        BY <1>1, <1>2, <1>3, <1>10, <1>12, <2>1 DEF Channel!Leave, Greeted, Subscribed, Said
  <2>3. S \in SUBSET Plugin /\ pc # "aborted"
        BY <1>1, <1>3, <2>1
  <2>4. Channel!Next
        BY <2>2, <2>3 DEF Channel!Next
  <2> QED BY <1>9, <2>3, <2>4 DEF ChannelStep
<1> QED BY <1>11, <1>12

\* Dispatch tells every subscriber but one that poll() is at.
LEMMA DispatchTold ==
  ASSUME IInv, Dispatch, raised' = raised + 1, connected' = connected, cur' = cur,
         sent' = sent, wire' = wire, received' = received,
         NEW p \in Plugin, p # cur
  PROVE  /\ Own(p)'
         /\ View(p)'.greeted = View(p).greeted /\ View(p)'.subscribed = View(p).subscribed
         /\ Said'[p] = IF p \in Subscribed THEN Append(Said[p], Channel!Event(raised + 1)) ELSE Said[p]
<1> DEFINE i == info[p] e == Channel!Event(raised + 1)
<1>1. /\ i \in SocketInfo /\ raised \in Nat /\ Own(p) /\ received[p] \in Seq(Message)
      /\ i.writebuffer \in Seq(Message)
      BY DEF IInv, Shape, SocketInfo
<1>2. View(p) = i /\ View(p)' = info'[p]
      BY DEF View
<1>3. Said[p] = received[p] \o i.writebuffer /\ Said'[p] = received[p] \o info'[p].writebuffer
      BY <1>2 DEF Said
<1>4. CASE p \in connected /\ i.subscribed
  <2>1. info'[p] = [i EXCEPT !.writebuffer = Append(@, e)]
        BY <1>4 DEF Dispatch
  <2>2. Own(p)'
        BY <1>4, <2>1, DispatchedOwn
  <2>3. /\ info'[p].greeted = i.greeted /\ info'[p].subscribed = i.subscribed
        /\ info'[p].writebuffer = Append(i.writebuffer, e)
        BY <1>1, <2>1 DEF SocketInfo
  <2>4. e \in Message
    <3>1. raised + 1 \in Nat
          BY <1>1
    <3> QED BY <3>1, MessageTypes
  <2> HIDE DEF e
  <2>5. received[p] \o Append(i.writebuffer, e) = Append(received[p] \o i.writebuffer, e)
        BY <1>1, <2>4, SaidAppend
  <2>6. p \in Subscribed
        BY <1>2, <1>4 DEF Subscribed
  <2> QED BY <1>2, <1>3, <2>2, <2>3, <2>5, <2>6 DEF e
<1>5. CASE ~(p \in connected /\ i.subscribed)
  <2>1. info'[p] = i
        BY <1>5 DEF Dispatch
  <2>2. Own(p)'
        BY <1>1, <1>2, <2>1, StillOwn
  <2>3. p \notin Subscribed
        BY <1>2, <1>5 DEF Subscribed
  <2> QED BY <1>2, <1>3, <2>1, <2>2, <2>3
<1> QED BY <1>4, <1>5

LEMMA DispatchType ==
  ASSUME IInv, Dispatch PROVE info' \in [Plugin -> SocketInfo]
<1>1. info \in [Plugin -> SocketInfo] /\ raised \in Nat
      BY DEF IInv, Shape
<1>2. Channel!Event(raised + 1) \in Message
  <2>1. raised + 1 \in Nat
        BY <1>1
  <2> QED BY <2>1, MessageTypes
<1> DEFINE e == Channel!Event(raised + 1)
<1>3. ASSUME NEW p \in Plugin PROVE [info[p] EXCEPT !.writebuffer = Append(@, e)] \in SocketInfo
  <2> HIDE DEF e
  <2>1. info[p] \in SocketInfo /\ info[p].writebuffer \in Seq(Message)
        BY <1>1 DEF SocketInfo
  <2>2. Append(info[p].writebuffer, e) \in Seq(Message)
        BY <1>2, <2>1, AppendProperties DEF e
  <2> QED BY <2>1, <2>2 DEF SocketInfo
<1> QED BY <1>1, <1>3 DEF Dispatch

LEMMA IrcEventStep == ASSUME IInv, IrcEvent PROVE IInv' /\ ChannelStep
<1>1. /\ pc = "run" /\ raised < MaxEvents /\ raised' = raised + 1 /\ Dispatch
      /\ UNCHANGED <<connected, loop, kernel>>
      BY DEF IrcEvent
<1>2. /\ connected' = connected /\ sent' = sent /\ wire' = wire /\ received' = received
      /\ cur' = cur /\ cur = NoPlugin /\ pc' = pc /\ connected \subseteq Plugin
      BY <1>1 DEF IInv, Shape, loop, kernel
<1>3. info' \in [Plugin -> SocketInfo]
      BY <1>1, DispatchType
<1>4. raised' \in 0 .. MaxEvents
      BY <1>1, BoundAssumption DEF IInv, Shape
<1>5. Shape'
      BY <1>1, <1>3, <1>4 DEF IInv, Shape, loop, kernel
<1>6. ASSUME NEW p \in Plugin
      PROVE  /\ Own(p)'
             /\ View(p)'.greeted = View(p).greeted /\ View(p)'.subscribed = View(p).subscribed
             /\ Said'[p] = IF p \in Subscribed THEN Append(Said[p], Channel!Event(raised + 1)) ELSE Said[p]
      BY <1>1, <1>2, NoPluginAssumption, DispatchTold
<1>7. Greeted' = Greeted
      BY <1>2, <1>6 DEF Greeted
<1>8. Subscribed' = Subscribed
      BY <1>2, <1>6 DEF Subscribed
<1>9. Said' = [p \in Plugin |-> IF p \in Subscribed \ {}
                                THEN Append(Said[p], Channel!Event(raised + 1)) ELSE Said[p]]
  <2>1. Said' = [p \in Plugin |-> Said'[p]]
        BY DEF Said
  <2> QED BY <1>6, <2>1
<1>10. Channel!Happen
       BY <1>1, <1>2, <1>7, <1>8, <1>9 DEF Channel!Happen, Channel!Told, Greeted, Subscribed, Said
<1>11. pc # "aborted"
       BY <1>1
<1> QED BY <1>5, <1>6, <1>10, <1>11 DEF IInv, ChannelStep, Channel!Next

\* What handling the next request does to the copy.
LEMMA HandledCopy ==
  ASSUME IInv, Complete, NEW i \in DOMAIN sent[cur], IsRequest(i), NEW ok \in BOOLEAN,
         copy' = Handled(i, ok)
  PROVE  /\ copy' \in SocketInfo
         /\ copy'.readahead = Drop(copy.readahead, copy.waitingSize) /\ copy'.waitingSize = 0
         /\ copy'.greeted <=> copy.greeted \/ sent[cur][i] = "handshake"
         /\ copy'.subscribed <=> copy.subscribed \/ sent[cur][i] = "subscribe"
         /\ copy'.writebuffer = Append(copy.writebuffer, Channel!Reply(i, ok))
         /\ Channel!Reply(i, ok) \in Message /\ Channel!IsReply(Channel!Reply(i, ok))
         /\ i \in Nat
<1> DEFINE m == Channel!Reply(i, ok) a == Drop(copy.readahead, copy.waitingSize) w == copy.writebuffer
           g == copy.greeted \/ sent[cur][i] = "handshake"
           s == copy.subscribed \/ sent[cur][i] = "subscribe"
<1>1. copy \in SocketInfo /\ w \in Seq(Message) /\ sent[cur] \in Seq(Kind)
      BY AtCurrent DEF Complete
<1>2. a \in Seq(Byte)
      BY CompleteIsNext
<1>3. i \in Nat
      BY <1>1
<1>4. m \in Message /\ Channel!IsReply(m)
      BY <1>3, MessageTypes
<1>5. copy' = [copy EXCEPT !.readahead = a, !.waitingSize = 0, !.greeted = g, !.subscribed = s,
                           !.writebuffer = Append(w, m)]
      BY DEF Handled
<1>6. g \in BOOLEAN /\ s \in BOOLEAN
      BY <1>1 DEF SocketInfo
<1> HIDE DEF m, a, w, g, s
<1>7. Append(w, m) \in Seq(Message)
      BY <1>1, <1>4, AppendProperties
<1>8. /\ copy' \in SocketInfo
      /\ copy'.readahead = a /\ copy'.waitingSize = 0 /\ copy'.greeted = g /\ copy'.subscribed = s
      /\ copy'.writebuffer = Append(w, m)
      BY <1>1, <1>2, <1>5, <1>6, <1>7 DEF SocketInfo
<1> QED BY <1>3, <1>4, <1>8 DEF m, a, w, g, s

LEMMA AnsweredOwn ==
  ASSUME IInv, Complete, NEW i \in DOMAIN sent[cur], IsRequest(i), NEW ok \in BOOLEAN,
         copy' = Handled(i, ok), cur' = cur, connected' = connected,
         sent' = sent, wire' = wire, received' = received,
         raised' \in Nat, raised <= raised', info'[cur].writebuffer \in Seq(MessageTo(cur)')
  PROVE  /\ Own(cur)' /\ View(cur)' = copy'
         /\ Said'[cur] = Append(Said[cur], Channel!Reply(i, ok))
<1> DEFINE m == Channel!Reply(i, ok) w == copy.writebuffer r == received[cur]
<1>1. /\ cur \in connected /\ cur \in Plugin /\ View(cur) = copy /\ Own(cur) /\ raised \in Nat
      /\ w \in Seq(Message) /\ r \in Seq(Message)
      BY AtCurrent DEF Complete, IInv, Shape
<1>2. View(cur)' = copy'
      BY DEF View
<1>3. /\ copy'.readahead = Drop(copy.readahead, copy.waitingSize) /\ copy'.waitingSize = 0
      /\ copy'.writebuffer = Append(w, m) /\ m \in Message /\ Channel!IsReply(m)
      BY HandledCopy
<1>4. i = Replied(cur) + 1
      BY RequestIsNext
<1>5. IsRest(copy'.readahead \o wire[cur], sent[cur], i, copy'.waitingSize)
      BY <1>3, <1>4, CompleteIsNext
<1>6. MessageTo(cur) \subseteq MessageTo(cur)' /\ m \in MessageTo(cur)'
  <2>1. MessageTo(cur) \subseteq MessageTo(cur)'
        BY <1>1, MessagesStay
  <2>2. m \in MessageTo(cur)
        BY DEF MessageTo
  <2> QED BY <2>1, <2>2
<1>7. r \in Seq(MessageTo(cur)') /\ w \in Seq(MessageTo(cur)')
      BY <1>1, <1>6, SeqMonotonic DEF Own
<1> HIDE DEF m, w, r
<1>8. Append(w, m) \in Seq(MessageTo(cur)')
      BY <1>6, <1>7, AppendProperties
<1>9. r \o Append(w, m) = Append(r \o w, m) /\ Replies(r \o Append(w, m)) = Replies(r \o w) + 1
      BY <1>1, <1>3, SaidAppend
<1>10. Replied(cur)' = i
  <2>1. Replied(cur) = Replies(r \o w)
        BY <1>1 DEF Replied, Replies, r, w
  <2>2. Replied(cur)' = Replies(r \o Append(w, m))
        BY <1>2, <1>3 DEF Replied, Replies, r
  <2> QED BY <1>4, <1>9, <2>1, <2>2
<1>11. IsRest(View(cur).readahead \o wire[cur], sent[cur], Replied(cur), View(cur).waitingSize)'
       BY <1>2, <1>5, <1>10
<1>12. Own(cur)'
  <2>1. /\ View(cur)'.writebuffer \in Seq(MessageTo(cur)') /\ received'[cur] \in Seq(MessageTo(cur)')
        /\ cur' \in connected'
        BY <1>1, <1>2, <1>3, <1>7, <1>8 DEF r
  <2> QED BY <1>11, <2>1 DEF Own
<1>13. Said'[cur] = Append(Said[cur], m)
       BY <1>1, <1>2, <1>3, <1>9 DEF Said, r, w
<1> QED BY <1>2, <1>12, <1>13 DEF m

\* What PluginChannel knows of the plugin that is answered.
LEMMA AnsweredSight ==
  ASSUME IInv, pc = "parse"
  PROVE  Channel!Replies(Said[cur]) = Replied(cur) /\ (cur \in Greeted) = copy.greeted
<1>1. /\ cur \in connected /\ cur \in Plugin /\ View(cur) = copy /\ copy \in SocketInfo
      BY AtCurrent
<1>2. Channel!Replies(Said[cur]) = Replied(cur)
      BY <1>1 DEF Said, Replied
<1>3. copy.greeted \in BOOLEAN
      BY <1>1 DEF SocketInfo
<1>4. cur \in Greeted <=> copy.greeted
      BY <1>1 DEF Greeted
<1>5. (cur \in Greeted) = copy.greeted
      BY <1>3, <1>4
<1> QED BY <1>2, <1>5

LEMMA HandleStep ==
  ASSUME IInv, NEW i, NEW ok \in BOOLEAN, Handle(i, ok) PROVE IInv' /\ ChannelStep
<1>1. PICK p : p = cur
      OBVIOUS
<1>2. /\ Complete /\ pc = "parse" /\ i \in DOMAIN sent[p] /\ IsRequest(i)
      /\ ok \in Channel!Outcome(sent[p][i], copy.greeted)
      /\ copy' = Handled(i, ok)
      /\ UNCHANGED <<table, cur, todo, toRemove, pc, kernel, raised>>
      BY <1>1 DEF Handle, Complete
<1>3. /\ connected' = connected /\ info' = info /\ sent' = sent /\ wire' = wire /\ received' = received
      /\ raised' = raised /\ cur' = cur /\ pc' = pc /\ peer' = peer /\ toRemove' = toRemove /\ todo' = todo
      /\ raised \in Nat
      BY <1>2 DEF IInv, Shape, table, kernel
<1>4. p \in connected /\ p \in Plugin /\ View(p) = copy /\ Own(p) /\ sent[p] \in Seq(Kind)
      BY <1>1, <1>2, AtCurrent
<1>5. /\ copy' \in SocketInfo
      /\ copy'.greeted <=> copy.greeted \/ sent[p][i] = "handshake"
      /\ copy'.subscribed <=> copy.subscribed \/ sent[p][i] = "subscribe"
      BY <1>1, <1>2, HandledCopy
<1>6. Shape'
      BY <1>3, <1>5 DEF IInv, Shape
<1>7. MessageTo(p)' = MessageTo(p)
      BY <1>3 DEF MessageTo
<1>8. Own(p)' /\ View(p)' = copy' /\ Said'[p] = Append(Said[p], Channel!Reply(i, ok))
  <2>1. info'[p].writebuffer \in Seq(MessageTo(p)')
        BY <1>3, <1>4, <1>7 DEF Own
  <2> QED BY <1>1, <1>2, <1>3, <2>1, AnsweredOwn
<1>9. ASSUME NEW q \in Plugin, q # p PROVE Own(q)' /\ View(q)' = View(q)
      BY <1>1, <1>3, <1>9, OthersStill
<1>10. IInv'
       BY <1>6, <1>8, <1>9 DEF IInv
<1>11. connected \subseteq Plugin
       BY DEF IInv, Shape
<1>12. Greeted' = IF sent[p][i] = "handshake" THEN Greeted \union {p} ELSE Greeted
       BY <1>3, <1>4, <1>5, <1>8, <1>9, <1>11 DEF Greeted
<1>13. Subscribed' = IF sent[p][i] = "subscribe" THEN Subscribed \union {p} ELSE Subscribed
       BY <1>3, <1>4, <1>5, <1>8, <1>9, <1>11 DEF Subscribed
<1>14. Said' = [Said EXCEPT ![p] = Append(@, Channel!Reply(i, ok))]
  <2>1. \A q \in Plugin : q # p => Said'[q] = Said[q]
        BY <1>3, <1>9 DEF Said
  <2>2. Said' = [q \in Plugin |-> Said'[q]] /\ Said = [q \in Plugin |-> Said[q]]
        BY DEF Said
  <2> QED BY <1>8, <2>1, <2>2
<1>15. i = Channel!Replies(Said[p]) + 1 /\ (p \in Greeted) = copy.greeted
       BY <1>1, <1>2, RequestIsNext, AnsweredSight
<1>16. i <= Len(sent[p])
       BY <1>2, <1>4
<1>17. Channel!Answer(p)
       BY <1>2, <1>3, <1>4, <1>12, <1>13, <1>14, <1>15, <1>16
       DEF Channel!Answer, Greeted, Subscribed, Said
<1>18. pc # "aborted"
       BY <1>2
<1> QED BY <1>4, <1>10, <1>17, <1>18 DEF ChannelStep, Channel!Next

LEMMA HandleMessageStep ==
  ASSUME IInv, NEW i, HandleMessage(i) PROVE IInv' /\ ChannelStep
<1>1. PICK p : p = cur
      OBVIOUS
<1>2. /\ Complete /\ pc = "parse" /\ i \in DOMAIN sent[p] /\ IsRequest(i)
      /\ sent[p][i] = "message" /\ raised < MaxEvents /\ raised' = raised + 1 /\ Dispatch
      /\ copy' = Handled(i, TRUE)
      /\ UNCHANGED <<connected, cur, todo, toRemove, pc, kernel>>
      BY <1>1 DEF HandleMessage, Complete
<1>3. /\ connected' = connected /\ sent' = sent /\ wire' = wire /\ received' = received
      /\ cur' = cur /\ pc' = pc /\ peer' = peer /\ toRemove' = toRemove /\ todo' = todo
      /\ raised \in Nat
      BY <1>2 DEF IInv, Shape, kernel
<1>4. p \in connected /\ p \in Plugin /\ View(p) = copy /\ Own(p) /\ sent[p] \in Seq(Kind)
      BY <1>1, <1>2, AtCurrent
<1>5. /\ copy' \in SocketInfo
      /\ copy'.greeted <=> copy.greeted \/ sent[p][i] = "handshake"
      /\ copy'.subscribed <=> copy.subscribed \/ sent[p][i] = "subscribe"
      BY <1>1, <1>2, HandledCopy
<1>6. Shape'
  <2>1. info' \in [Plugin -> SocketInfo]
        BY <1>2, DispatchType
  <2>2. raised' \in 0 .. MaxEvents
        BY <1>2, BoundAssumption DEF IInv, Shape
  <2> QED BY <1>3, <1>5, <2>1, <2>2 DEF IInv, Shape
<1>7. Own(p)' /\ View(p)' = copy' /\ Said'[p] = Append(Said[p], Channel!Reply(i, TRUE))
  <2>1. info'[p].writebuffer \in Seq(MessageTo(p)')
    <3>1. info[p] \in SocketInfo /\ info[p].writebuffer \in Seq(MessageTo(p))
          BY <1>4 DEF Own, IInv, Shape
    <3>2. Append(info[p].writebuffer, Channel!Event(raised + 1)) \in Seq(MessageTo(p)')
          BY <1>2, <1>3, <3>1, EventBuffered
    <3>3. info[p].writebuffer \in Seq(MessageTo(p)')
      <4>1. MessageTo(p) \subseteq MessageTo(p)'
            BY <1>2, <1>3, MessagesStay
      <4> QED BY <3>1, <4>1, SeqMonotonic
    <3>4. info'[p].writebuffer \in {info[p].writebuffer, Append(info[p].writebuffer, Channel!Event(raised + 1))}
          BY <1>2, <1>4, <3>1 DEF Dispatch, SocketInfo
    <3> QED BY <3>2, <3>3, <3>4
  <2>2. raised' \in Nat /\ raised <= raised'
        BY <1>2, <1>3
  <2> QED BY <1>1, <1>2, <1>3, <2>1, <2>2, AnsweredOwn
<1>8. ASSUME NEW q \in Plugin, q # p
      PROVE  /\ Own(q)'
             /\ View(q)'.greeted = View(q).greeted /\ View(q)'.subscribed = View(q).subscribed
             /\ Said'[q] = IF q \in Subscribed THEN Append(Said[q], Channel!Event(raised + 1)) ELSE Said[q]
      BY <1>1, <1>2, <1>3, <1>8, DispatchTold
<1>9. IInv'
      BY <1>6, <1>7, <1>8 DEF IInv
<1>10. connected \subseteq Plugin
       BY DEF IInv, Shape
<1>11. Greeted' = IF sent[p][i] = "handshake" THEN Greeted \union {p} ELSE Greeted
       BY <1>3, <1>4, <1>5, <1>7, <1>8, <1>10 DEF Greeted
<1>12. Subscribed' = IF sent[p][i] = "subscribe" THEN Subscribed \union {p} ELSE Subscribed
       BY <1>3, <1>4, <1>5, <1>7, <1>8, <1>10 DEF Subscribed
<1>13. Said' = [[q \in Plugin |-> IF q \in Subscribed \ {p}
                                  THEN Append(Said[q], Channel!Event(raised + 1)) ELSE Said[q]]
                 EXCEPT ![p] = Append(@, Channel!Reply(i, TRUE))]
  <2>1. Said' = [q \in Plugin |-> Said'[q]]
        BY DEF Said
  <2> QED BY <1>7, <1>8, <2>1
<1>14. i = Channel!Replies(Said[p]) + 1 /\ (p \in Greeted) = copy.greeted
       BY <1>1, <1>2, RequestIsNext, AnsweredSight
<1>15. i <= Len(sent[p])
       BY <1>2, <1>4
<1>16. TRUE \in Channel!Outcome(sent[p][i], p \in Greeted)
       BY <1>2 DEF Channel!Outcome, Channel!MessageOutcome
<1>17. Channel!Answer(p)
       BY <1>2, <1>3, <1>4, <1>11, <1>12, <1>13, <1>14, <1>15, <1>16
       DEF Channel!Answer, Channel!Told, Greeted, Subscribed, Said
<1>18. pc # "aborted"
       BY <1>2
<1> QED BY <1>4, <1>9, <1>17, <1>18 DEF ChannelStep, Channel!Next

-----------------------------------------------------------------------------
(* The theorems.                                                           *)

LEMMA NextStep == ASSUME IInv, [Next]_vars PROVE IInv' /\ ChannelStep
<1>1. CASE Thread
  <2>1. CASE Poll
        BY <2>1, PollStep
  <2>2. CASE Erase
        BY <2>2, EraseStep
  <2>3. CASE WriteFails
        BY <2>3, WriteFailsStep
  <2>4. CASE ParseSize
        BY <2>4, ParseSizeStep
  <2>5. CASE ParseNoSize
        BY <2>5, ParseNoSizeStep
  <2>6. CASE ParseDone
        BY <2>6, ParseDoneStep
  <2>7. CASE HandleMalformed
        BY <2>7, HandleMalformedStep
  <2>8. CASE \E p \in Plugin : VisitGone(p) \/ Visit(p)
        BY <2>8, VisitGoneStep, VisitStep
  <2>9. CASE pc = "read" /\ \E n \in 0 .. Len(wire[cur]) : Read(n)
        BY <2>9, ReadStep
  <2>10. CASE \E n \in 0 .. Len(copy.writebuffer) : Write(n)
        BY <2>10, WriteStep
  <2>11. CASE \E i \in 1 .. MaxRequests : HandleMessage(i) \/ \E ok \in BOOLEAN : Handle(i, ok)
        BY <2>11, HandleMessageStep, HandleStep
  <2> QED BY <1>1, <2>1, <2>2, <2>3, <2>4, <2>5, <2>6, <2>7, <2>8, <2>9, <2>10, <2>11 DEF Thread
<1>2. CASE Environment
  <2>1. CASE IrcEvent
        BY <2>1, IrcEventStep
  <2>2. CASE \E p \in Plugin : NewConnection(p) \/ HangUp(p) \/ \E k \in Kind : Send(p, k)
        BY <2>2, NewConnectionStep, HangUpStep, SendStep
  <2> QED BY <1>2, <2>1, <2>2 DEF Environment
<1>3. CASE Terminated
      BY <1>3, StutterStep DEF Terminated
<1>4. CASE UNCHANGED vars
      BY <1>4, StutterStep
<1> QED BY <1>1, <1>2, <1>3, <1>4 DEF Next

\* What a plugin sent is, at every step of poll(), what was handled of it, then
\* what is read ahead, then what is on its way; and what it is told answers just
\* what was handled.
THEOREM SocketInvariant == Spec => []IInv
<1>1. IInv /\ [Next]_vars => IInv'
      BY NextStep
<1> QED BY <1>1, InitInv, PTL DEF Spec

\* Whatever plugins send and however it is cut, sockets_, the copy poll() works
\* on and the buffers keep their types; a buffer holds answers to packets sent on
\* this very connection and events that happened, nothing of the plugin that
\* had the descriptor before.
THEOREM TypeCorrect == Spec => []TypeOK
BY SocketInvariant, InvImpliesTypes, PTL

\* When poll() takes a packet to be complete, it has before it the whole JSON of
\* the packet whose turn it is, and nothing of another: no packet is ever cut at
\* the wrong place, however the bytes came and whatever was answered before.
THEOREM PacketsAreCutRight ==
  Spec => [](Complete => /\ Replied(cur) + 1 \in 1 .. Len(sent[cur])
                         /\ Take(copy.readahead, copy.waitingSize) = Body(Replied(cur) + 1))
<1>1. IInv => (Complete => /\ Replied(cur) + 1 \in 1 .. Len(sent[cur])
                           /\ Take(copy.readahead, copy.waitingSize) = Body(Replied(cur) + 1))
      BY CompleteIsNext
<1> QED BY <1>1, SocketInvariant, PTL

\* The poll() loop is a refinement of PluginChannel: a plugin is told the answers
\* to its requests in the order it sent them, each once, and every event that
\* somebody else caused; and only a packet that is no request, when its turn
\* comes, ends the program.
THEOREM ImplementsChannelCorrect == Spec => ImplementsChannel
<1>1. Init => Channel!Init
  <2> SUFFICES ASSUME Init PROVE Channel!Init
      OBVIOUS
  <2>1. \A p \in Plugin : View(p) = Fresh /\ received[p] = <<>>
        BY DEF Init, View
  <2>2. Fresh.writebuffer = <<>>
        BY DEF Fresh
  <2>3. Said = [p \in Plugin |-> <<>>]
    <3>1. \A p \in Plugin : received[p] \o View(p).writebuffer = <<>>
          BY <2>1, <2>2
    <3> QED BY <3>1 DEF Said
  <2>4. Greeted = {} /\ Subscribed = {}
        BY DEF Init, Greeted, Subscribed
  <2>5. connected = {} /\ sent = [p \in Plugin |-> <<>>] /\ raised = 0 /\ pc # "aborted"
        BY DEF Init
  <2> QED BY <2>3, <2>4, <2>5 DEF Channel!Init, Greeted, Subscribed, Said
<1>2. IInv /\ [Next]_vars => [~(pc = "aborted") /\ Channel!Next]_(Channel!vars)
      BY NextStep DEF ChannelStep
<1> QED BY <1>1, <1>2, SocketInvariant, PTL DEF Spec, ImplementsChannel, Channel!Spec

================================================================================
