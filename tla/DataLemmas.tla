----------------------------- MODULE DataLemmas -----------------------------
(***************************************************************************)
(* What the proofs use of the natural numbers and of sequences.            *)
(***************************************************************************)
EXTENDS Integers, SequencesExt, SequenceTheorems, WellFoundedInduction, TLAPS

\* The place in a ring of c slots that is k slots after its start, less than twice
\* round.
LEMMA Remainder ==
  ASSUME NEW c \in Nat \ {0}, NEW k \in Nat, k < 2 * c
  PROVE  k % c = IF k < c THEN k ELSE k - c
<1> DEFINE d == k \div c
<1>1. /\ k = c * d + (k % c)
      /\ k % c \in 0 .. c - 1
      /\ d \in Int
  <2>1. k % c \in 0 .. c - 1
    OBVIOUS
  <2>2. k = c * d + (k % c)
    OBVIOUS
  <2>3. d \in Int
    OBVIOUS
  <2> QED BY <2>1, <2>2, <2>3
<1>2. d = 0 \/ d = 1
  <2>1. d < 2
    <3>1. SUFFICES ASSUME d >= 2 PROVE FALSE
      BY <1>1
    <3>2. c * d >= c * 2
      BY <1>1, <3>1
    <3> QED BY <1>1, <3>2
  <2>2. d > -1
    <3>1. SUFFICES ASSUME d <= -1 PROVE FALSE
      BY <1>1
    <3>2. c * d <= c * (-1)
      BY <1>1, <3>1
    <3> QED BY <1>1, <3>2
  <2> QED BY <1>1, <2>1, <2>2
<1>3. CASE d = 0
  BY <1>1, <1>3
<1>4. CASE d = 1
  BY <1>1, <1>4
<1> QED BY <1>2, <1>3, <1>4

\* The least number of a set.
LEMMA Least ==
  ASSUME NEW S \in SUBSET Nat, S # {}
  PROVE  \E n \in S : \A m \in S : n <= m
<1> DEFINE Less == {p \in Nat \X Nat : p[1] < p[2]}
<1>1. \E n \in S : \A m \in S : ~(<<m, n>> \in Less)
  <2>1. IsWellFoundedOn(Less, Nat)
    BY NatLessThanWellFounded DEF OpToRel
  <2> HIDE DEF Less
  <2> QED BY <2>1, WFMin
<1>2. ASSUME NEW m \in Nat, NEW n \in Nat, ~(<<m, n>> \in Less) PROVE n <= m
  <2>1. ~(m < n)
    BY <1>2
  <2> QED BY <2>1
<1> HIDE DEF Less
<1> QED BY <1>1, <1>2
\* Division with remainder has one result.
LEMMA RemainderIs ==
  ASSUME NEW c \in Nat \ {0}, NEW k \in Int, NEW q \in Int, NEW r \in 0 .. c - 1,
         k = c * q + r
  PROVE  k % c = r
<1> DEFINE d == k \div c
           s == k % c
<1>1. k = c * d + s /\ s \in 0 .. c - 1 /\ d \in Int
  <2>1. s \in 0 .. c - 1
    OBVIOUS
  <2>2. k = c * d + s
    OBVIOUS
  <2>3. d \in Int
    OBVIOUS
  <2> QED BY <2>1, <2>2, <2>3
<1> HIDE DEF d, s
<1>2. c * q + r = c * d + s
  BY <1>1
<1>3. ~(d >= q + 1)
  <2>1. SUFFICES ASSUME d >= q + 1 PROVE FALSE
    OBVIOUS
  <2>2. c * d >= c * (q + 1)
    BY <1>1, <2>1
  <2>3. c * (q + 1) = c * q + c
    BY <1>1
  <2> QED BY <1>1, <1>2, <2>2, <2>3
<1>4. ~(q >= d + 1)
  <2>1. SUFFICES ASSUME q >= d + 1 PROVE FALSE
    OBVIOUS
  <2>2. c * q >= c * (d + 1)
    BY <1>1, <2>1
  <2>3. c * (d + 1) = c * d + c
    BY <1>1
  <2> QED BY <1>1, <1>2, <2>2, <2>3
<1>5. d = q
  BY <1>1, <1>3, <1>4
<1> QED BY <1>1, <1>2, <1>5 DEF s

\* A remainder is one of the first numbers.
LEMMA RemainderRange ==
  ASSUME NEW c \in Nat \ {0}, NEW k \in Nat
  PROVE  k % c \in 0 .. c - 1 /\ k % c \in Nat
         /\ \E d \in Int : k = c * d + (k % c)
<1>1. k % c \in 0 .. c - 1
  OBVIOUS
<1> DEFINE d == k \div c
<1>2. k = c * d + (k % c) /\ d \in Int
  OBVIOUS
<1>3. k % c \in Nat
  BY <1>1
<1> HIDE DEF d
<1> QED BY <1>1, <1>2, <1>3

\* A remainder by twice a number has the remainder by the number itself.
LEMMA RemainderOfDouble ==
  ASSUME NEW c \in Nat \ {0}, NEW k \in Nat
  PROVE  k % c = IF k % (2 * c) < c THEN k % (2 * c) ELSE (k % (2 * c)) - c
<1> DEFINE r == k % (2 * c)
<1>1. 2 * c \in Nat \ {0}
  OBVIOUS
<1>2. r \in 0 .. 2 * c - 1 /\ \E d \in Int : k = (2 * c) * d + r
  BY <1>1, RemainderRange
<1>3. PICK d \in Int : k = (2 * c) * d + r
  BY <1>2
<1> HIDE DEF r
<1>4. k = c * (2 * d) + r /\ k = c * (2 * d + 1) + (r - c)
  BY <1>2, <1>3
<1> DEFINE p == 2 * d
           q == 2 * d + 1
           s == r - c
<1>5. CASE r < c
  <2>1. r \in 0 .. c - 1 /\ p \in Int /\ k \in Int /\ k = c * p + r
    BY <1>2, <1>3, <1>4, <1>5
  <2> HIDE DEF p
  <2>2. k % c = r
    BY <2>1, RemainderIs
  <2> QED BY <1>5, <2>2 DEF r
<1>6. CASE ~(r < c)
  <2>1. s \in 0 .. c - 1 /\ q \in Int /\ k \in Int /\ k = c * q + s
    BY <1>2, <1>3, <1>4, <1>6
  <2> HIDE DEF q, s
  <2>2. k % c = s
    BY <2>1, RemainderIs
  <2> QED BY <1>6, <2>2 DEF r, s
<1> QED BY <1>5, <1>6

\* Among c numbers in a row, one has the remainder f.
LEMMA RemainderMet ==
  ASSUME NEW c \in Nat \ {0}, NEW k \in Nat, NEW f \in 0 .. c - 1
  PROVE  \E i \in 0 .. c - 1 : (k + i) % c = f
<1> DEFINE r == k % c
<1>1. r \in 0 .. c - 1
  BY RemainderRange
<1>2. PICK d \in Int : k = c * d + r
  BY RemainderRange
<1> HIDE DEF r
<1>3. CASE f >= r
  <2>1. f - r \in 0 .. c - 1 /\ k + (f - r) = c * d + f /\ k + (f - r) \in Int
    BY <1>1, <1>2, <1>3
  <2>2. (k + (f - r)) % c = f
    BY <1>2, <2>1, RemainderIs
  <2> QED BY <2>1, <2>2
<1>4. CASE f < r
  <2>1. f - r + c \in 0 .. c - 1 /\ k + (f - r + c) = c * (d + 1) + f
        /\ k + (f - r + c) \in Int /\ d + 1 \in Int
    BY <1>1, <1>2, <1>4
  <2>2. (k + (f - r + c)) % c = f
    BY <2>1, RemainderIs
  <2> QED BY <2>1, <2>2
<1>5. f \in Int /\ r \in Int
  BY <1>1
<1> QED BY <1>3, <1>4, <1>5

-----------------------------------------------------------------------------
(* FlattenSeq, by induction on the number of sequences                     *)

\* f gives the concatenation of the first n sequences of s.
Flattens(f, s, n) ==
  f = [i \in 1 .. n |-> IF i = 1 THEN s[i] ELSE f[i - 1] \o s[i]]

\* There is at most one such function: f gives the first n steps of any that goes further.
LEMMA FlattensUnique ==
  ASSUME NEW f, NEW g, NEW s, NEW n \in Nat, NEW m \in Nat, n <= m,
         Flattens(f, s, n), Flattens(g, s, m)
  PROVE  \A i \in 1 .. n : f[i] = g[i]
<1> DEFINE B == {i \in 1 .. n : f[i] # g[i]}
<1>1. SUFFICES ASSUME B # {} PROVE FALSE
  OBVIOUS
<1>2. B \in SUBSET Nat
  OBVIOUS
<1>3. PICK k \in B : \A j \in B : k <= j
  <2> HIDE DEF B
  <2> QED BY <1>1, <1>2, Least
<1>4. k \in 1 .. n /\ k \in 1 .. m
  OBVIOUS
<1>5. k = 1 \/ f[k - 1] = g[k - 1]
  <2>1. ASSUME k # 1 PROVE k - 1 \in 1 .. n /\ ~(k <= k - 1)
    BY <1>4, <2>1
  <2> QED BY <2>1, <1>3
<1>6. f[k] = IF k = 1 THEN s[k] ELSE f[k - 1] \o s[k]
  BY <1>4 DEF Flattens
<1>7. g[k] = IF k = 1 THEN s[k] ELSE g[k - 1] \o s[k]
  BY <1>4 DEF Flattens
<1> QED BY <1>3, <1>5, <1>6, <1>7

\* There is one for every number of steps.
LEMMA FlattensExists ==
  ASSUME NEW s, NEW n \in Nat
  PROVE  \E f : Flattens(f, s, n)
<1> DEFINE B == {i \in Nat : ~ \E f : Flattens(f, s, i)}
<1>1. SUFFICES ASSUME B # {} PROVE FALSE
  OBVIOUS
<1>2. PICK k \in B : \A j \in B : k <= j
  <2>1. B \in SUBSET Nat
    OBVIOUS
  <2> HIDE DEF B
  <2> QED BY <1>1, <2>1, Least
<1>3. k \in Nat
  OBVIOUS
<1>4. k # 0
  <2>1. Flattens(<<>>, s, 0)
    BY DEF Flattens
  <2> QED BY <2>1
<1>5. k - 1 \in Nat /\ ~(k <= k - 1)
  BY <1>3, <1>4
<1>6. k - 1 \notin B
  BY <1>2, <1>5
<1>7. PICK f : Flattens(f, s, k - 1)
  BY <1>5, <1>6
<1>8. Flattens([i \in 1 .. k |-> IF i < k THEN f[i] ELSE IF k = 1 THEN s[k] ELSE f[k - 1] \o s[k]],
               s, k)
  <2> DEFINE g == [i \in 1 .. k |-> IF i < k THEN f[i]
                                    ELSE IF k = 1 THEN s[k] ELSE f[k - 1] \o s[k]]
  <2>1. ASSUME NEW i \in 1 .. k
        PROVE  g[i] = IF i = 1 THEN s[i] ELSE g[i - 1] \o s[i]
    <3>1. CASE i < k
      <4>1. i \in 1 .. k - 1
        BY <1>3, <3>1
      <4>2. f[i] = IF i = 1 THEN s[i] ELSE f[i - 1] \o s[i]
        BY <1>7, <4>1 DEF Flattens
      <4>3. i = 1 \/ g[i - 1] = f[i - 1]
        BY <1>3, <3>1
      <4> QED BY <3>1, <4>2, <4>3
    <3>2. CASE i = k
      BY <1>3, <3>2
    <3> QED BY <1>3, <3>1, <3>2
  <2>2. g = [i \in 1 .. k |-> IF i = 1 THEN s[i] ELSE g[i - 1] \o s[i]]
    BY <2>1
  <2> QED BY <2>2 DEF Flattens
<1> QED BY <1>8

\* Hence the recursive function in FlattenSeq is any such function.
LEMMA FlattenIs ==
  ASSUME NEW s, NEW f, Len(s) \in Nat \ {0}, Flattens(f, s, Len(s))
  PROVE  FlattenSeq(s) = f[Len(s)]
<1> DEFINE g == CHOOSE g : g = [i \in 1 .. Len(s) |-> IF i = 1 THEN s[i] ELSE g[i - 1] \o s[i]]
<1>1. f = [i \in 1 .. Len(s) |-> IF i = 1 THEN s[i] ELSE f[i - 1] \o s[i]]
  BY DEF Flattens
<1>2. g = [i \in 1 .. Len(s) |-> IF i = 1 THEN s[i] ELSE g[i - 1] \o s[i]]
  BY <1>1
<1>3. Flattens(g, s, Len(s))
  <2> HIDE DEF g
  <2> QED BY <1>2 DEF Flattens
<1>4. FlattenSeq(s) = g[Len(s)]
  BY DEF FlattenSeq
<1> QED 
  <2> HIDE DEF g
  <2> QED BY <1>3, <1>4, FlattensUnique

\* Nothing flattens to nothing.
LEMMA FlattenEmpty == FlattenSeq(<<>>) = <<>>
BY DEF FlattenSeq

\* What is appended comes last.
LEMMA FlattenAppend ==
  ASSUME NEW S, NEW s \in Seq(Seq(S)), NEW x \in Seq(S)
  PROVE  FlattenSeq(Append(s, x)) = FlattenSeq(s) \o x
<1> DEFINE t == Append(s, x)
           n == Len(s)
<1>1. /\ n \in Nat /\ Len(t) = n + 1 /\ t[n + 1] = x
      /\ \A i \in 1 .. n : t[i] = s[i]
      /\ \A i \in 1 .. n : s[i] \in Seq(S)
  BY AppendProperties, LenProperties, ElementOfSeq
<1>2. n = 0 => s = <<>>
  BY EmptySeq
<1> HIDE DEF t, n
<1>3. PICK f : Flattens(f, t, n + 1)
  <2>1. n + 1 \in Nat
    BY <1>1
  <2> QED BY <2>1, FlattensExists
<1>4. FlattenSeq(t) = f[n + 1]
  BY <1>1, <1>3, FlattenIs
<1>5. f[n + 1] = IF n + 1 = 1 THEN t[n + 1] ELSE f[n] \o t[n + 1]
  <2>1. n + 1 \in 1 .. n + 1 /\ (n + 1) - 1 = n
    BY <1>1
  <2>2. f[n + 1] = IF n + 1 = 1 THEN t[n + 1] ELSE f[(n + 1) - 1] \o t[n + 1]
    BY <1>3, <2>1 DEF Flattens
  <2> QED BY <2>1, <2>2
<1>6. CASE n = 0
  <2>1. FlattenSeq(s) \o x = x
    BY <1>2, <1>6, FlattenEmpty, ConcatEmptySeq
  <2> QED BY <1>1, <1>4, <1>5, <1>6, <2>1 DEF t
<1>7. CASE n # 0
  <2>1. PICK g : Flattens(g, s, n)
    BY <1>1, FlattensExists
  <2>2. FlattenSeq(s) = g[n]
    BY <1>1, <1>7, <2>1, FlattenIs DEF n
  <2>3. Flattens(g, t, n)
    <3>1. \A i \in 1 .. n : (IF i = 1 THEN s[i] ELSE g[i - 1] \o s[i])
                            = (IF i = 1 THEN t[i] ELSE g[i - 1] \o t[i])
      BY <1>1
    <3> QED BY <2>1, <3>1 DEF Flattens
  <2>4. n \in 1 .. n /\ n <= n + 1 /\ n + 1 \in Nat
    BY <1>1, <1>7
  <2>5. g[n] = f[n]
    BY <1>1, <1>3, <2>3, <2>4, FlattensUnique
  <2> QED BY <1>1, <1>4, <1>5, <1>7, <2>2, <2>5 DEF t
<1> QED BY <1>6, <1>7

\* The elements of the pieces are the elements of the whole.
LEMMA FlattenType ==
  ASSUME NEW S, NEW s \in Seq(Seq(S))
  PROVE  FlattenSeq(s) \in Seq(S)
<1> DEFINE P(n) == \A t \in Seq(Seq(S)) : Len(t) = n => FlattenSeq(t) \in Seq(S)
           B == {n \in Nat : ~ P(n)}
<1>1. SUFFICES B = {}
  BY LenProperties
<1>2. SUFFICES ASSUME B # {} PROVE FALSE
  OBVIOUS
<1>3. PICK n \in B : \A j \in B : n <= j
  <2>1. B \in SUBSET Nat
    OBVIOUS
  <2> HIDE DEF B
  <2> QED BY <1>2, <2>1, Least
<1>4. PICK t \in Seq(Seq(S)) : Len(t) = n /\ FlattenSeq(t) \notin Seq(S)
  OBVIOUS
<1>5. t # <<>>
  BY <1>4, FlattenEmpty, EmptySeq
<1>6. PICK h \in Seq(Seq(S)), x \in Seq(S) : t = Append(h, x)
  BY <1>5, SequenceEmptyOrAppend
<1>7. Len(h) \in Nat /\ n = Len(h) + 1
  BY <1>4, <1>6, AppendProperties, LenProperties
<1>8. Len(h) \notin B
  <2>1. ~(n <= Len(h))
    BY <1>7
  <2> QED BY <1>3, <2>1
<1>9. FlattenSeq(h) \in Seq(S)
  BY <1>7, <1>8
<1> QED
  BY <1>4, <1>6, <1>9, FlattenAppend, ConcatProperties

Associates(S) == \A u, v, w \in Seq(S) : (u \o v) \o w = u \o (v \o w)

\* Concatenation is associative.
LEMMA ConcatAssociates == ASSUME NEW S PROVE Associates(S)
BY ConcatAssociative DEF Associates

\* The first piece comes first.
LEMMA FlattenHead ==
  ASSUME NEW S, NEW s \in Seq(Seq(S)), s # <<>>
  PROVE  FlattenSeq(s) = Head(s) \o FlattenSeq(Tail(s))
<1> DEFINE P(n) == \A t \in Seq(Seq(S)) :
                     t # <<>> /\ Len(t) = n => FlattenSeq(t) = Head(t) \o FlattenSeq(Tail(t))
           B == {n \in Nat : ~ P(n)}
<1>0. Associates(S)
  BY ConcatAssociates
<1>1. SUFFICES B = {}
  BY LenProperties
<1>2. SUFFICES ASSUME B # {} PROVE FALSE
  OBVIOUS
<1>3. PICK n \in B : \A j \in B : n <= j
  <2>1. B \in SUBSET Nat
    OBVIOUS
  <2> HIDE DEF B
  <2> QED BY <1>2, <2>1, Least
<1>4. PICK t \in Seq(Seq(S)) :
        t # <<>> /\ Len(t) = n /\ FlattenSeq(t) # Head(t) \o FlattenSeq(Tail(t))
  OBVIOUS
<1>6. PICK h \in Seq(Seq(S)), x \in Seq(S) : t = Append(h, x)
  BY <1>4, SequenceEmptyOrAppend
<1>7. Len(h) \in Nat /\ n = Len(h) + 1
  BY <1>4, <1>6, AppendProperties, LenProperties
<1>8. FlattenSeq(t) = FlattenSeq(h) \o x
  BY <1>6, FlattenAppend
<1>9. CASE h = <<>>
  <2>1. Head(t) = x /\ Tail(t) = <<>>
    BY <1>6, <1>9, HeadTailAppend
  <2>2. FlattenSeq(h) \o x = x /\ x \o FlattenSeq(Tail(t)) = x
    BY <1>6, <1>9, <2>1, FlattenEmpty, ConcatEmptySeq
  <2> QED BY <1>4, <1>8, <2>1, <2>2
<1>10. CASE h # <<>>
  <2>1. Head(t) = Head(h) /\ Tail(t) = Append(Tail(h), x)
    BY <1>6, <1>10, HeadTailAppend
  <2>2. Head(h) \in Seq(S) /\ Tail(h) \in Seq(Seq(S))
    BY <1>10, HeadTailProperties
  <2>3. Len(h) \notin B
    <3>1. ~(n <= Len(h))
      BY <1>7
    <3> QED BY <1>3, <3>1
  <2>4. FlattenSeq(h) = Head(h) \o FlattenSeq(Tail(h))
    BY <1>7, <1>10, <2>3
  <2>5. FlattenSeq(Tail(t)) = FlattenSeq(Tail(h)) \o x
    BY <2>1, <2>2, FlattenAppend
  <2>6. FlattenSeq(Tail(h)) \in Seq(S)
    BY <2>2, FlattenType
  <2>7. (Head(h) \o FlattenSeq(Tail(h))) \o x = Head(h) \o (FlattenSeq(Tail(h)) \o x)
    <3> DEFINE y == FlattenSeq(Tail(h))
               z == Head(h)
    <3>1. y \in Seq(S) /\ z \in Seq(S)
      BY <2>2, <2>6
    <3> HIDE DEF y, z
    <3>2. (z \o y) \o x = z \o (y \o x)
      BY <1>0, <1>6, <3>1 DEF Associates
    <3> QED BY <3>2 DEF y, z
  <2> QED BY <1>4, <1>8, <2>1, <2>4, <2>5, <2>7
<1> QED BY <1>9, <1>10
=============================================================================
