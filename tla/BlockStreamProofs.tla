-------------------------- MODULE BlockStreamProofs --------------------------
(***************************************************************************)
(* Whatever data_pack writes and data_unpack asks for, the blocks are      *)
(* reached while they are allocated and given back once, and what comes    *)
(* out of them is the stream of bytes that went in (BlockStream).          *)
(***************************************************************************)
EXTENDS BlockStream, DataLemmas

-----------------------------------------------------------------------------
(* Functions on 1 .. n as sequences                                        *)

\* s is a sequence of n elements.
Is(s, n) == s = [i \in 1 .. n |-> s[i]]

\* It has n of them, in the sense of the library too.
LEMMA AsSeq ==
  ASSUME NEW s, NEW n \in Nat, Is(s, n)
  PROVE  Len(s) = n /\ DOMAIN s = 1 .. n /\ s \in Seq({s[i] : i \in 1 .. n})
<1> DEFINE S == {s[i] : i \in 1 .. n}
<1>1. s \in [1 .. n -> S]
  BY DEF Is
<1>2. s \in Seq(S)
  BY <1>1, SeqDef
<1>3. Len(s) \in Nat /\ DOMAIN s = 1 .. Len(s) /\ DOMAIN s = 1 .. n
  BY <1>1, <1>2, LenProperties
<1>4. PICK m \in Nat : m = Len(s)
  BY <1>3
<1>5. 1 .. m = 1 .. n
  BY <1>3, <1>4
<1>6. ~(m < n) /\ ~(n < m)
  <2>1. m < n => n \in 1 .. n /\ n \notin 1 .. m
    OBVIOUS
  <2>2. n < m => m \in 1 .. m /\ m \notin 1 .. n
    OBVIOUS
  <2> QED BY <1>5, <2>1, <2>2
<1>7. m = n
  BY <1>6
<1> QED BY <1>2, <1>3, <1>4, <1>7

\* Two of them are the same if their elements are.
LEMMA SameIs ==
  ASSUME NEW s, NEW t, NEW n \in Nat, Is(s, n), Is(t, n), \A i \in 1 .. n : s[i] = t[i]
  PROVE  s = t
BY DEF Is

\* The empty one.
LEMMA EmptyIs ==
  /\ Is(<<>>, 0) /\ Len(<<>>) = 0
  /\ \A s : Is(s, 0) => s = <<>>
<1>1. Is(<<>>, 0)
  BY DEF Is
<1>2. Len(<<>>) = 0
  BY EmptySeq
<1>3. ASSUME NEW s, Is(s, 0) PROVE s = <<>>
  BY <1>3 DEF Is
<1> QED BY <1>1, <1>2, <1>3

\* A piece of one.
LEMMA CutIs ==
  ASSUME NEW s, NEW a \in Nat, NEW k \in Nat
  PROVE  /\ Is(SubSeq(s, a + 1, a + k), k)
         /\ Len(SubSeq(s, a + 1, a + k)) = k
         /\ \A i \in 1 .. k : SubSeq(s, a + 1, a + k)[i] = s[a + i]
<1> DEFINE t == SubSeq(s, a + 1, a + k)
           S == {s[i] : i \in a + 1 .. a + k}
<1>1. \A i \in a + 1 .. a + k : s[i] \in S
  OBVIOUS
<1>2. a + 1 \in Int /\ a + k \in Int
  OBVIOUS
<1>3. /\ t \in Seq(S)
      /\ Len(t) = IF a + 1 <= a + k THEN (a + k) - (a + 1) + 1 ELSE 0
      /\ \A i \in 1 .. (a + k) - (a + 1) + 1 : t[i] = s[(a + 1) + i - 1]
  <2> HIDE DEF S
  <2> QED BY <1>1, <1>2, SubSeqProperties
<1>4. Len(t) = k
  BY <1>3
<1>5. DOMAIN t = 1 .. k /\ t \in [1 .. k -> S]
  BY <1>3, <1>4, LenProperties
<1>6. Is(t, k)
  BY <1>5 DEF Is
<1>7. ASSUME NEW i \in 1 .. k PROVE t[i] = s[a + i]
  <2>1. i \in 1 .. (a + k) - (a + 1) + 1 /\ (a + 1) + i - 1 = a + i
    OBVIOUS
  <2> HIDE DEF t
  <2> QED BY <1>3, <2>1
<1> QED BY <1>4, <1>6, <1>7

\* u is s, of m elements, and t, of n, one after the other.
Joins(u, s, m, t, n) ==
  /\ Is(u, m + n) /\ Len(u) = m + n
  /\ \A i \in 1 .. m + n : u[i] = IF i <= m THEN s[i] ELSE t[i - m]

\* Concatenation does that.
LEMMA ConcatIs ==
  ASSUME NEW s, NEW m \in Nat, Is(s, m), NEW t, NEW n \in Nat, Is(t, n)
  PROVE  Joins(s \o t, s, m, t, n)
<1> DEFINE S == {s[i] : i \in 1 .. m}
           T == {t[i] : i \in 1 .. n}
           U == S \union T
<1>1. s \in Seq(S) /\ t \in Seq(T) /\ Len(s) = m /\ Len(t) = n
  BY AsSeq
<1>2. s \in Seq(U) /\ t \in Seq(U)
  <2>1. S \subseteq U /\ T \subseteq U
    OBVIOUS
  <2> HIDE DEF S, T, U
  <2> QED BY <1>1, <2>1, SeqMonotonic
<1> HIDE DEF S, T, U
<1> DEFINE u == s \o t
<1>3. u \in Seq(U) /\ Len(u) = m + n
      /\ \A i \in 1 .. m + n : u[i] = IF i <= m THEN s[i] ELSE t[i - m]
  BY <1>1, <1>2, ConcatProperties
<1>4. DOMAIN u = 1 .. m + n /\ u \in [1 .. m + n -> U]
  BY <1>3, LenProperties
<1> HIDE DEF u
<1>5. Is(u, m + n)
  BY <1>4 DEF Is
<1> QED BY <1>3, <1>5 DEF u, Joins

\* One more element.
LEMMA AppendIs ==
  ASSUME NEW s, NEW n \in Nat, Is(s, n), NEW e
  PROVE  /\ Is(Append(s, e), n + 1) /\ Len(Append(s, e)) = n + 1
         /\ Append(s, e)[n + 1] = e
         /\ \A i \in 1 .. n : Append(s, e)[i] = s[i]
<1> DEFINE S == {s[i] : i \in 1 .. n}
           U == S \union {e}
<1>1. s \in Seq(S) /\ Len(s) = n
  BY AsSeq
<1>2. s \in Seq(U) /\ e \in U
  <2>1. S \subseteq U /\ e \in U
    OBVIOUS
  <2> HIDE DEF S, U
  <2> QED BY <1>1, <2>1, SeqMonotonic
<1> HIDE DEF S, U
<1> DEFINE u == Append(s, e)
<1>3. u \in Seq(U) /\ Len(u) = n + 1 /\ u[n + 1] = e /\ \A i \in 1 .. n : u[i] = s[i]
  BY <1>1, <1>2, AppendProperties
<1>4. DOMAIN u = 1 .. n + 1 /\ u \in [1 .. n + 1 -> U]
  BY <1>3, LenProperties
<1> HIDE DEF u
<1>5. Is(u, n + 1)
  BY <1>4 DEF Is
<1> QED BY <1>3, <1>5 DEF u

\* A piece taken from another piece.
LEMMA CutOfCut ==
  ASSUME NEW s, NEW a \in Nat, NEW b \in Nat, NEW j \in Nat, NEW k \in Nat, b + k <= j
  PROVE  SubSeq(SubSeq(s, a + 1, a + j), b + 1, b + k) = SubSeq(s, (a + b) + 1, (a + b) + k)
<1> DEFINE t == SubSeq(s, a + 1, a + j)
           u == SubSeq(t, b + 1, b + k)
           v == SubSeq(s, (a + b) + 1, (a + b) + k)
<1>1. \A i \in 1 .. j : t[i] = s[a + i]
  BY CutIs
<1> HIDE DEF t
<1>2. Is(u, k) /\ \A i \in 1 .. k : u[i] = t[b + i]
  BY CutIs
<1>3. a + b \in Nat
  OBVIOUS
<1>4. Is(v, k) /\ \A i \in 1 .. k : v[i] = s[(a + b) + i]
  BY <1>3, CutIs
<1> HIDE DEF u, v
<1>5. ASSUME NEW i \in 1 .. k PROVE u[i] = v[i]
  <2>1. b + i \in 1 .. j /\ a + (b + i) = (a + b) + i
    OBVIOUS
  <2> QED BY <1>1, <1>2, <1>4, <2>1
<1>6. u = v
  BY <1>2, <1>4, <1>5, SameIs
<1> QED BY <1>6 DEF t, u, v

\* k bytes are the same behind the first a of s and behind the first b of t.
SameFrom(s, a, t, b, k) == \A i \in 1 .. k : s[a + i] = t[b + i]

\* The same bytes in two places.
LEMMA SameCut ==
  ASSUME NEW s, NEW t, NEW a \in Nat, NEW b \in Nat, NEW k \in Nat,
         SameFrom(s, a, t, b, k)
  PROVE  SubSeq(s, a + 1, a + k) = SubSeq(t, b + 1, b + k)
<1> DEFINE u == SubSeq(s, a + 1, a + k)
           v == SubSeq(t, b + 1, b + k)
<1>1. Is(u, k) /\ \A i \in 1 .. k : u[i] = s[a + i]
  BY CutIs
<1>2. Is(v, k) /\ \A i \in 1 .. k : v[i] = t[b + i]
  BY CutIs
<1> HIDE DEF u, v
<1>3. \A i \in 1 .. k : u[i] = v[i]
  BY <1>1, <1>2 DEF SameFrom
<1>4. u = v
  BY <1>1, <1>2, <1>3, SameIs
<1> QED BY <1>4 DEF u, v

\* The lesser of two numbers.
LEMMA MinOfTwo ==
  ASSUME NEW x \in Nat, NEW y \in Nat
  PROVE  Min({x, y}) = IF x <= y THEN x ELSE y
<1> DEFINE m == IF x <= y THEN x ELSE y
<1>1. m \in {x, y} /\ \A z \in {x, y} : z >= m
  OBVIOUS
<1>2. \A z \in {x, y} : (\A w \in {x, y} : w >= z) => z = m
  OBVIOUS
<1> HIDE DEF m
<1>3. Min({x, y}) = m
  BY <1>1, <1>2 DEF Min
<1> QED BY <1>3 DEF m

-----------------------------------------------------------------------------
(* Where the blocks end                                                    *)

EndFacts ==
  /\ \A n \in Nat : End(n) \in Nat
  /\ End(0) = 0 /\ End(1) = BLOCK_SIZE
  /\ \A n \in Nat \ {0} : End(n) = End(n - 1) + BLOCK_SIZE
  /\ \A m, n \in Nat : m <= n => End(m) <= End(n)
  /\ \A m, n \in Nat : m < n => End(m) + BLOCK_SIZE <= End(n)

\* Each block ends BLOCK_SIZE bytes after the one before.
LEMMA EndIs == EndFacts
<1> USE SizeAssumption
<1>1. ASSUME NEW n \in Nat PROVE End(n) \in Nat
  BY DEF End
<1>2. End(0) = 0 /\ End(1) = BLOCK_SIZE
  BY DEF End
<1>3. ASSUME NEW n \in Nat \ {0} PROVE End(n) = End(n - 1) + BLOCK_SIZE
  <2>1. n * BLOCK_SIZE = (n - 1) * BLOCK_SIZE + BLOCK_SIZE
    OBVIOUS
  <2> QED BY <2>1 DEF End
<1>4. ASSUME NEW m \in Nat, NEW n \in Nat, m <= n PROVE End(m) <= End(n)
  <2>1. m * BLOCK_SIZE <= n * BLOCK_SIZE
    BY <1>4
  <2> QED BY <2>1 DEF End
<1>5. ASSUME NEW m \in Nat, NEW n \in Nat, m < n PROVE End(m) + BLOCK_SIZE <= End(n)
  <2>1. m + 1 \in Nat /\ m + 1 <= n /\ (m + 1) - 1 = m /\ m + 1 # 0
    BY <1>5
  <2>2. End(m + 1) = End(m) + BLOCK_SIZE
    BY <1>3, <2>1
  <2> QED BY <1>4, <2>1, <2>2
<1> QED BY <1>1, <1>2, <1>3, <1>4, <1>5 DEF EndFacts

\* Every place in the chain is a place in one of its blocks.
LEMMA PlaceOf ==
  ASSUME NEW n \in Nat, NEW i \in 1 .. End(n)
  PROVE  \E b \in 1 .. n : \E k \in 1 .. BLOCK_SIZE : i = End(b - 1) + k
<1> USE SizeAssumption
<1>0. EndFacts
  BY EndIs
<1> DEFINE B == {b \in Nat : i <= End(b)}
<1>1. n \in B
  OBVIOUS
<1>2. PICK b \in B : \A c \in B : b <= c
  <2>1. B \in SUBSET Nat /\ B # {}
    BY <1>1
  <2> HIDE DEF B
  <2> QED BY <2>1, Least
<1>3. b \in Nat /\ i <= End(b) /\ b <= n /\ b # 0
  BY <1>0, <1>1, <1>2 DEF EndFacts
<1>4. b - 1 \in Nat /\ ~(b <= b - 1)
  BY <1>3
<1>5. ~(i <= End(b - 1))
  BY <1>2, <1>4
<1>6. End(b) = End(b - 1) + BLOCK_SIZE /\ End(b - 1) \in Nat
  BY <1>0, <1>3, <1>4 DEF EndFacts
<1>7. i - End(b - 1) \in 1 .. BLOCK_SIZE /\ i = End(b - 1) + (i - End(b - 1)) /\ b \in 1 .. n
  BY <1>3, <1>5, <1>6
<1> QED BY <1>7

-----------------------------------------------------------------------------
(* The blocks and their contents                                           *)

\* bs are n blocks.
Blocks(bs, n) ==
  /\ Is(bs, n) /\ Len(bs) = n /\ DOMAIN bs = 1 .. n
  /\ \A b \in 1 .. n : bs[b] = [next |-> bs[b].next, buffer |-> bs[b].buffer]
  /\ \A b \in 1 .. n : Is(bs[b].buffer, BLOCK_SIZE)

\* All their bytes.
Flat(bs) == FlattenSeq([b \in DOMAIN bs |-> bs[b].buffer])

\* All bytes up to the end of a block, from the start of the first.
LEMMA FlatUpTo ==
  ASSUME NEW s, NEW f, NEW n \in Nat \ {0}, Flattens(f, s, n),
         \A b \in 1 .. n : Is(s[b], BLOCK_SIZE)
  PROVE  \A b \in 1 .. n :
           /\ Is(f[b], End(b))
           /\ \A c \in 1 .. b : \A k \in 1 .. BLOCK_SIZE : f[b][End(c - 1) + k] = s[c][k]
<1> USE SizeAssumption
<1>0. EndFacts
  BY EndIs
<1> DEFINE Holds(b) ==
             /\ Is(f[b], End(b))
             /\ \A c \in 1 .. b : \A k \in 1 .. BLOCK_SIZE : f[b][End(c - 1) + k] = s[c][k]
           B == {b \in 1 .. n : ~Holds(b)}
<1>1. SUFFICES ASSUME B # {} PROVE FALSE
  OBVIOUS
<1>2. PICK b \in B : \A c \in B : b <= c
  <2>1. B \in SUBSET Nat
    OBVIOUS
  <2> HIDE DEF B
  <2> QED BY <1>1, <2>1, Least
<1>3. b \in 1 .. n /\ ~Holds(b) /\ b \in Nat \ {0}
  OBVIOUS
<1>4. f[b] = IF b = 1 THEN s[b] ELSE f[b - 1] \o s[b]
  BY <1>3 DEF Flattens
<1>5. CASE b = 1
  <2>1. End(1) = BLOCK_SIZE /\ End(1 - 1) = 0
    BY <1>0 DEF EndFacts
  <2>2. Is(f[b], End(b))
    BY <1>4, <1>5, <1>3, <2>1
  <2>3. ASSUME NEW c \in 1 .. b, NEW k \in 1 .. BLOCK_SIZE
        PROVE  f[b][End(c - 1) + k] = s[c][k]
    <3>1. c = 1 /\ End(c - 1) + k = k
      BY <1>5, <2>1
    <3> QED BY <1>4, <1>5, <3>1
  <2> QED BY <1>3, <2>2, <2>3
<1>6. CASE b # 1
  <2>1. b - 1 \in 1 .. n /\ ~(b <= b - 1) /\ b - 1 \in Nat
    BY <1>3, <1>6
  <2>2. Holds(b - 1)
    BY <1>2, <2>1
  <2>3. End(b - 1) \in Nat /\ BLOCK_SIZE \in Nat /\ End(b) = End(b - 1) + BLOCK_SIZE
    BY <1>0, <1>3, <2>1 DEF EndFacts
  <2> DEFINE p == f[b - 1]
             e == End(b - 1)
             u == p \o s[b]
  <2>4. Is(p, e) /\ Is(s[b], BLOCK_SIZE) /\ f[b] = u /\ e \in Nat
    BY <1>3, <1>4, <1>6, <2>2, <2>3
  <2>5. \A c \in 1 .. b - 1 : \A k \in 1 .. BLOCK_SIZE : p[End(c - 1) + k] = s[c][k]
    BY <2>2
  <2> HIDE DEF p, e, Holds
  <2>6. /\ Is(u, e + BLOCK_SIZE)
        /\ \A i \in 1 .. e + BLOCK_SIZE : u[i] = IF i <= e THEN p[i] ELSE s[b][i - e]
    <3> DEFINE t == s[b]
    <3>1. Is(t, BLOCK_SIZE) /\ BLOCK_SIZE \in Nat
      BY <2>4
    <3> HIDE DEF t
    <3>2. Joins(p \o t, p, e, t, BLOCK_SIZE)
      BY <2>4, <3>1, ConcatIs
    <3> QED BY <3>2 DEF t, u, Joins
  <2> HIDE DEF u
  <2>7. ASSUME NEW c \in 1 .. b, NEW k \in 1 .. BLOCK_SIZE
        PROVE  u[End(c - 1) + k] = s[c][k]
    <3>1. CASE c = b
      <4>1. End(c - 1) + k = e + k /\ e + k \in 1 .. e + BLOCK_SIZE /\ ~(e + k <= e)
            /\ (e + k) - e = k
        BY <2>4, <3>1 DEF e
      <4> QED BY <2>6, <3>1, <4>1
    <3>2. CASE c # b
      <4>1. c \in 1 .. b - 1 /\ c - 1 \in Nat /\ c - 1 < b - 1
        BY <1>3, <3>2
      <4>2. End(c - 1) \in Nat /\ End(c - 1) + BLOCK_SIZE <= e
        BY <1>0, <2>1, <4>1 DEF EndFacts, e
      <4>3. End(c - 1) + k \in 1 .. e + BLOCK_SIZE /\ End(c - 1) + k <= e
        BY <2>4, <4>2
      <4> QED BY <2>5, <2>6, <4>1, <4>3
    <3> QED BY <3>1, <3>2
  <2>8. Holds(b)
    BY <2>3, <2>4, <2>6, <2>7 DEF Holds, e
  <2> QED BY <1>3, <2>8
<1> QED BY <1>5, <1>6

\* Where each byte is in the whole.
LEMMA FlatIs ==
  ASSUME NEW bs, NEW n \in Nat \ {0}, Blocks(bs, n)
  PROVE  /\ Is(Flat(bs), End(n))
         /\ \A b \in 1 .. n : \A k \in 1 .. BLOCK_SIZE :
              Flat(bs)[End(b - 1) + k] = bs[b].buffer[k]
<1> DEFINE s == [b \in 1 .. n |-> bs[b].buffer]
<1>1. Is(s, n)
  BY DEF Is
<1>2. Len(s) = n
  <2> HIDE DEF s
  <2> QED BY <1>1, AsSeq
<1>3. \A b \in 1 .. n : s[b] = bs[b].buffer /\ Is(s[b], BLOCK_SIZE)
  BY DEF Blocks
<1>4. Flat(bs) = FlattenSeq(s)
  BY DEF Flat, Blocks
<1> HIDE DEF s
<1>5. PICK f : Flattens(f, s, n)
  BY FlattensExists
<1>6. FlattenSeq(s) = f[n]
  BY <1>2, <1>5, FlattenIs
<1>7. n \in 1 .. n
  OBVIOUS
<1>8. /\ Is(f[n], End(n))
      /\ \A c \in 1 .. n : \A k \in 1 .. BLOCK_SIZE : f[n][End(c - 1) + k] = s[c][k]
  BY <1>3, <1>5, <1>7, FlatUpTo
<1> QED BY <1>3, <1>4, <1>6, <1>8

\* In r block b has the m bytes of d in its buffer from p on.
Overwrites(r, n, b, p, d, m) ==
  /\ Blocks(r, n)
  /\ \A c \in 1 .. n : r[c].next = blocks[c].next
  /\ \A c \in 1 .. n : c # b => r[c].buffer = blocks[c].buffer
  /\ \A i \in 1 .. BLOCK_SIZE :
       r[b].buffer[i] = IF i \in p + 1 .. p + m THEN d[i - p] ELSE blocks[b].buffer[i]

\* Overwritten does that.
LEMMA OverwrittenIs ==
  ASSUME NEW n \in Nat, Blocks(blocks, n), NEW b \in 1 .. n, NEW p \in Nat,
         NEW d, NEW m \in Nat, Is(d, m), NEW r, r = Overwritten(b, p, d)
  PROVE  Overwrites(r, n, b, p, d, m)
<1> DEFINE old == blocks[b].buffer
           new == [i \in 1 .. BLOCK_SIZE |-> IF i \in p + 1 .. p + m THEN d[i - p] ELSE old[i]]
<1>1. Len(d) = m
  BY AsSeq
<1>2. r = [blocks EXCEPT ![b].buffer = new]
  BY <1>1 DEF Overwritten
<1>3. Is(new, BLOCK_SIZE)
  BY DEF Is
<1>4. \A i \in 1 .. BLOCK_SIZE : new[i] = IF i \in p + 1 .. p + m THEN d[i - p] ELSE old[i]
  OBVIOUS
<1> HIDE DEF new, old
<1>5. /\ blocks = [c \in 1 .. n |-> blocks[c]] /\ DOMAIN blocks = 1 .. n
      /\ \A c \in 1 .. n : blocks[c] = [next |-> blocks[c].next, buffer |-> blocks[c].buffer]
      /\ \A c \in 1 .. n : Is(blocks[c].buffer, BLOCK_SIZE)
  BY DEF Blocks, Is
<1>6. r = [c \in 1 .. n |-> r[c]] /\ \A c \in 1 .. n : c # b => r[c] = blocks[c]
  BY <1>2, <1>5
<1>7. r[b] = [next |-> blocks[b].next, buffer |-> new]
  BY <1>2, <1>5
<1>8. Is(r, n)
  BY <1>6 DEF Is
<1>9. Len(r) = n /\ DOMAIN r = 1 .. n
  BY <1>8, AsSeq
<1>10. \A c \in 1 .. n : r[c] = [next |-> r[c].next, buffer |-> r[c].buffer]
  BY <1>5, <1>6, <1>7
<1>11. \A c \in 1 .. n : Is(r[c].buffer, BLOCK_SIZE)
  BY <1>3, <1>5, <1>6, <1>7
<1>12. Blocks(r, n)
  BY <1>8, <1>9, <1>10, <1>11 DEF Blocks
<1>13. \A c \in 1 .. n : r[c].next = blocks[c].next
  BY <1>6, <1>7
<1>14. \A c \in 1 .. n : c # b => r[c].buffer = blocks[c].buffer
  BY <1>6
<1>15. r[b].buffer = new
  BY <1>7
<1> QED BY <1>4, <1>12, <1>13, <1>14, <1>15 DEF old, Overwrites

\* In r there is one block more, to which the last one is linked.
Links(r, n) ==
  /\ Blocks(r, n + 1)
  /\ r[n].next = n + 1 /\ r[n + 1].next = Null
  /\ \A c \in 1 .. n - 1 : r[c].next = blocks[c].next
  /\ \A c \in 1 .. n : r[c].buffer = blocks[c].buffer

\* NewBlock does that.
LEMMA LinkedIs ==
  ASSUME NEW n \in Nat \ {0}, Blocks(blocks, n)
  PROVE  Links(Append([blocks EXCEPT ![n].next = n + 1], [next |-> Null, buffer |-> Junk]), n)
<1> DEFINE x == n + 1
           old == [blocks EXCEPT ![n].next = x]
           e == [next |-> Null, buffer |-> Junk]
           r == Append(old, e)
<1>1. /\ blocks = [c \in 1 .. n |-> blocks[c]] /\ DOMAIN blocks = 1 .. n
      /\ \A c \in 1 .. n : blocks[c] = [next |-> blocks[c].next, buffer |-> blocks[c].buffer]
      /\ \A c \in 1 .. n : Is(blocks[c].buffer, BLOCK_SIZE)
  BY DEF Blocks, Is
<1>2. n \in 1 .. n
  OBVIOUS
<1>3. old = [c \in 1 .. n |-> old[c]] /\ \A c \in 1 .. n : c # n => old[c] = blocks[c]
  BY <1>1
<1>4. old[n] = [next |-> x, buffer |-> blocks[n].buffer]
  BY <1>1, <1>2
<1>5. Is(old, n)
  BY <1>3 DEF Is
<1>6. Is(e.buffer, BLOCK_SIZE) /\ e.next = Null /\ e = [next |-> e.next, buffer |-> e.buffer]
  BY DEF Is, Junk
<1> HIDE DEF old, e, x
<1>7. Is(r, n + 1) /\ r[n + 1] = e /\ \A i \in 1 .. n : r[i] = old[i]
  BY <1>5, AppendIs
<1> HIDE DEF r
<1>8. Len(r) = n + 1 /\ DOMAIN r = 1 .. n + 1
  <2>1. n + 1 \in Nat
    OBVIOUS
  <2> QED BY <1>7, <2>1, AsSeq
<1>9. \A c \in 1 .. n + 1 : c \in 1 .. n - 1 \/ c = n \/ c = n + 1
  OBVIOUS
<1>10. \A c \in 1 .. n - 1 : c \in 1 .. n /\ c # n
  OBVIOUS
<1>11. r[n] = [next |-> x, buffer |-> blocks[n].buffer]
  BY <1>2, <1>4, <1>7
<1>12. \A c \in 1 .. n - 1 : r[c] = blocks[c]
  BY <1>3, <1>7, <1>10
<1>13. ASSUME NEW c \in 1 .. n + 1
       PROVE  r[c] = [next |-> r[c].next, buffer |-> r[c].buffer] /\ Is(r[c].buffer, BLOCK_SIZE)
  <2>1. CASE c \in 1 .. n - 1
    BY <1>1, <1>10, <1>12, <2>1
  <2>2. CASE c = n
    BY <1>1, <1>2, <1>11, <2>2
  <2>3. CASE c = n + 1
    BY <1>6, <1>7, <2>3
  <2> QED BY <1>9, <2>1, <2>2, <2>3
<1>14. Blocks(r, n + 1)
  BY <1>7, <1>8, <1>13 DEF Blocks
<1>15. r[n].next = x /\ r[n + 1].next = Null
  <2>1. r[n].next = x
    BY <1>11
  <2>2. r[n + 1].next = e.next
    BY <1>7
  <2> QED BY <1>6, <2>1, <2>2
<1>16. \A c \in 1 .. n : r[c].buffer = blocks[c].buffer
  <2>1. \A c \in 1 .. n : c \in 1 .. n - 1 \/ c = n
    OBVIOUS
  <2>2. r[n].buffer = blocks[n].buffer
    BY <1>11
  <2>3. \A c \in 1 .. n - 1 : r[c].buffer = blocks[c].buffer
    BY <1>12
  <2> QED BY <2>1, <2>2, <2>3
<1>17. \A c \in 1 .. n - 1 : r[c].next = blocks[c].next
  BY <1>12
<1> QED BY <1>14, <1>15, <1>16, <1>17 DEF r, old, e, x, Links

-----------------------------------------------------------------------------
(* The invariant, of n blocks                                              *)

Types(n) ==
  /\ n \in Nat \ {0} /\ Blocks(blocks, n)
  /\ wb = [head |-> wb.head, len |-> wb.len, current |-> wb.current, ptr |-> wb.ptr]
  /\ wb.len \in Nat /\ wb.ptr \in 0 .. BLOCK_SIZE /\ wb.current \in 0 .. n
  /\ rb = [current |-> rb.current, len |-> rb.len, ptr |-> rb.ptr]
  /\ rb.len \in Nat /\ rb.ptr \in 0 .. BLOCK_SIZE /\ rb.current \in 0 .. n
  /\ pc \in {"write", "push", "packed", "read", "copy", "loop", "closed"}
  /\ Len(left) \in Nat /\ Is(left, Len(left))
  /\ sz \in Nat

\* The blocks of n from b on.
After(n, b) == {x \in 1 .. n : b # Null /\ x >= b}

Chain(n) ==
  /\ \A b \in 1 .. n : blocks[b].next = IF b < n THEN b + 1 ELSE Null
  /\ live = IF Writing \/ pc = "packed" THEN 1 .. n
            ELSE IF Reading THEN After(n, rb.current) ELSE {}

\* The length of the whole, as it is stored.
Stored(t) == <<<<"size", t>>, 1, HEADER>>

Writer(n) ==
  pc # "closed" =>
    /\ wb.head = 1 /\ HEADER <= Total /\ Total \in Nat
    /\ End(n - 1) <= Total /\ Total <= End(n)
    /\ Writing => wb.current = n /\ Total = End(n - 1) + wb.ptr
    /\ ~Writing => blocks[1].buffer[1] = Stored(Total)

Calls ==
  /\ Reading => ReaderAt
  /\ pc \in {"copy", "loop"} => sz <= rb.len
  /\ pc = "copy" => got = <<>>
  /\ pc = "push" => left # <<>>

Inv(n) == Types(n) /\ Chain(n) /\ Writer(n) /\ Calls
Ind == \E n \in Nat \ {0} : Inv(n)

\* It is the invariant that the runs check.
LEMMA IndIs == BInv <=> Ind
<1> USE SizeAssumption
<1>1. \A d : Data(d, HEADER)[1] = <<d, 1, HEADER>>
  BY DEF Data
<1>2. ASSUME BInv PROVE Ind
  <2>1. PICK n \in Nat \ {0} : n = Len(blocks)
    BY <1>2 DEF BInv, BTypeOK
  <2>2. /\ blocks = [b \in 1 .. n |-> [next |-> blocks[b].next, buffer |-> blocks[b].buffer]]
        /\ \A b \in DOMAIN blocks :
             blocks[b].buffer = [k \in 1 .. BLOCK_SIZE |-> blocks[b].buffer[k]]
    BY <1>2, <2>1 DEF BInv, BTypeOK
  <2>3. DOMAIN blocks = 1 .. n
        /\ \A b \in 1 .. n : blocks[b] = [next |-> blocks[b].next, buffer |-> blocks[b].buffer]
    BY <2>2
  <2>4. Is(blocks, n)
    BY <2>2, <2>3 DEF Is
  <2>5. Blocks(blocks, n)
    BY <2>1, <2>2, <2>3, <2>4 DEF Blocks, Is
  <2>6. Types(n)
    BY <1>2, <2>3, <2>5 DEF BInv, BTypeOK, Types, Is, Null
  <2>7. Chain(n)
    BY <1>2, <2>1, <2>3 DEF BInv, LiveIsChain, Chain, From, After, Writing, Reading
  <2>8. Writer(n)
    <3>1. ASSUME pc # "closed" PROVE WriterAt
      BY <1>2, <3>1 DEF BInv
    <3>2. ASSUME pc # "closed" PROVE Total \in Nat
      <4>1. wb.len \in Nat /\ Total \in Int
        BY <2>6 DEF Types, Total
      <4> QED BY <3>1, <3>2, <4>1 DEF WriterAt
    <3> QED BY <1>1, <2>1, <3>1, <3>2 DEF WriterAt, Writer, Stored
  <2>9. Calls
    BY <1>2 DEF BInv, Calls
  <2> QED BY <2>6, <2>7, <2>8, <2>9 DEF Inv, Ind
<1>3. ASSUME Ind PROVE BInv
  <2>1. PICK n \in Nat \ {0} : Inv(n)
    BY <1>3 DEF Ind
  <2>2. Len(blocks) = n /\ DOMAIN blocks = 1 .. n
    BY <2>1 DEF Inv, Types, Blocks
  <2>3. BTypeOK
    <3>1. blocks = [b \in 1 .. n |-> [next |-> blocks[b].next, buffer |-> blocks[b].buffer]]
          /\ \A b \in 1 .. n :
               blocks[b].buffer = [k \in 1 .. BLOCK_SIZE |-> blocks[b].buffer[k]]
      <4>1. /\ blocks = [b \in 1 .. n |-> blocks[b]]
            /\ \A b \in 1 .. n : blocks[b] = [next |-> blocks[b].next, buffer |-> blocks[b].buffer]
            /\ \A b \in 1 .. n :
                 blocks[b].buffer = [k \in 1 .. BLOCK_SIZE |-> blocks[b].buffer[k]]
        BY <2>1 DEF Inv, Types, Blocks, Is
      <4> QED BY <4>1
    <3>2. live \subseteq 1 .. n
      BY <2>1 DEF Inv, Chain, After
    <3>3. wb.current \in (1 .. n) \union {Null} /\ rb.current \in (1 .. n) \union {Null}
      BY <2>1 DEF Inv, Types, Null
    <3>4. Len(left) \in Nat /\ left = [k \in 1 .. Len(left) |-> left[k]]
      BY <2>1 DEF Inv, Types, Is
    <3> QED BY <2>1, <2>2, <3>1, <3>2, <3>3, <3>4 DEF Inv, Types, BTypeOK
  <2>4. LiveIsChain
    BY <2>1, <2>2 DEF Inv, Types, LiveIsChain, Chain, From, After, Writing, Reading
  <2>5. ASSUME pc # "closed" PROVE WriterAt
    BY <1>1, <2>1, <2>2, <2>5 DEF Inv, Writer, WriterAt, Stored
  <2> QED BY <2>1, <2>3, <2>4, <2>5 DEF BInv, Inv, Calls
<1> QED BY <1>2, <1>3

\* It holds in the beginning, of one block.
LEMMA Starts == BInit => Ind
<1> USE SizeAssumption
<1> SUFFICES ASSUME BInit PROVE Inv(1)
  BY DEF Ind
<1> DEFINE d == Data(<<"size", 0>>, HEADER)
           j == SubSeq(Junk, HEADER + 1, BLOCK_SIZE)
           e == [next |-> Null, buffer |-> d \o j]
<1>1. Is(d, HEADER)
  BY DEF Is, Data
<1>2. Is(j, BLOCK_SIZE - HEADER)
  <2>1. HEADER \in Nat /\ BLOCK_SIZE - HEADER \in Nat /\ HEADER + (BLOCK_SIZE - HEADER) = BLOCK_SIZE
    OBVIOUS
  <2> DEFINE k == BLOCK_SIZE - HEADER
  <2>2. k \in Nat /\ HEADER + k = BLOCK_SIZE
    BY <2>1
  <2> HIDE DEF k
  <2>3. Is(SubSeq(Junk, HEADER + 1, HEADER + k), k)
    BY <2>2, CutIs
  <2> QED BY <2>2, <2>3 DEF k
<1>3. Is(d \o j, BLOCK_SIZE)
  <2> DEFINE k == BLOCK_SIZE - HEADER
  <2>1. k \in Nat /\ HEADER + k = BLOCK_SIZE /\ Is(j, k)
    BY <1>2
  <2> HIDE DEF k, d, j
  <2>2. Joins(d \o j, d, HEADER, j, k)
    BY <1>1, <2>1, ConcatIs
  <2> QED BY <2>1, <2>2 DEF Joins
<1> HIDE DEF d, j
<1>4. Is(e.buffer, BLOCK_SIZE) /\ e.next = Null /\ e = [next |-> e.next, buffer |-> e.buffer]
  BY <1>3
<1>5. blocks = <<e>>
  BY DEF BInit, e, d, j
<1> HIDE DEF e
<1>6. blocks[1] = e /\ Is(blocks, 1)
  BY <1>5 DEF Is
<1>7. Blocks(blocks, 1)
  <2>1. Len(blocks) = 1 /\ DOMAIN blocks = 1 .. 1
    BY <1>6, AsSeq
  <2>2. \A b \in 1 .. 1 : b = 1
    OBVIOUS
  <2> QED BY <1>4, <1>6, <2>1, <2>2 DEF Blocks
<1>8. Types(1)
  <2>1. Len(<<>>) = 0 /\ Is(<<>>, 0)
    BY EmptyIs
  <2>2. left = <<>> /\ wb = [head |-> 1, len |-> HEADER, current |-> 1, ptr |-> HEADER]
        /\ rb = [current |-> Null, len |-> 0, ptr |-> 0] /\ pc = "write" /\ sz = 0
    BY DEF BInit
  <2>3. Len(left) \in Nat /\ Is(left, Len(left))
    BY <2>1, <2>2
  <2> QED BY <1>7, <2>2, <2>3 DEF Types, Null
<1>9. Chain(1)
  <2>1. \A b \in 1 .. 1 : b = 1
    OBVIOUS
  <2>2. live = {1} /\ pc = "write" /\ {1} = 1 .. 1
    BY DEF BInit
  <2> QED BY <1>4, <1>6, <2>1, <2>2 DEF Chain, Writing
<1>10. Writer(1)
  <2>1. End(0) = 0 /\ End(1) = BLOCK_SIZE /\ 1 - 1 = 0
    BY EndIs DEF EndFacts
  <2> QED BY <2>1 DEF Writer, BInit, Total, Writing
<1>11. Calls
  BY DEF Calls, BInit, Reading
<1> QED BY <1>8, <1>9, <1>10, <1>11 DEF Inv

-----------------------------------------------------------------------------
(* Every step of the writer keeps it                                       *)

\* wb_push is called.
LEMMA PushKeeps ==
  ASSUME NEW n, Inv(n), PushAny
  PROVE  Inv(n)'
<1>0. Types(n) /\ Chain(n) /\ Writer(n) /\ Calls
  BY DEF Inv
<1>1. /\ pc = "write" /\ pc' = "push" /\ left' # <<>>
      /\ Len(left') \in Nat /\ Is(left', Len(left'))
      /\ UNCHANGED <<blocks, live, wb, rb, sz, got>>
  BY DEF PushAny, Push, chain, Is
<1>2. Types(n)'
  BY <1>0, <1>1 DEF Types
<1>3. Chain(n)'
  BY <1>0, <1>1 DEF Chain, Writing
<1>4. Writer(n)'
  BY <1>0, <1>1 DEF Writer, Writing, Total
<1>5. Calls'
  BY <1>1 DEF Calls, Reading
<1> QED BY <1>2, <1>3, <1>4, <1>5 DEF Inv

\* Another block is linked to the last.
LEMMA NewBlockKeeps ==
  ASSUME NEW n, Inv(n), NewBlock
  PROVE  Inv(n + 1)'
<1> USE SizeAssumption
<1>0. Types(n) /\ Chain(n) /\ Writer(n) /\ Calls
  BY DEF Inv
<1>1. n \in Nat \ {0} /\ Blocks(blocks, n) /\ Len(blocks) = n
  BY <1>0 DEF Types, Blocks
<1>2. pc = "push" /\ wb.ptr = BLOCK_SIZE /\ UNCHANGED <<rb, pc, left, sz, got>>
  BY DEF NewBlock
<1>3. wb.current = n /\ Total = End(n - 1) + BLOCK_SIZE /\ Total = wb.len /\ wb.head = 1
      /\ HEADER <= Total /\ Total \in Nat
  BY <1>0, <1>2 DEF Writer, Writing, Total
<1>4. /\ blocks' = Append([blocks EXCEPT ![n].next = n + 1], [next |-> Null, buffer |-> Junk])
      /\ live' = live \union {n + 1}
      /\ wb' = [wb EXCEPT !.current = n + 1, !.ptr = 0]
  BY <1>1, <1>3 DEF NewBlock
<1>5. wb' = [head |-> wb.head, len |-> wb.len, current |-> n + 1, ptr |-> 0]
  BY <1>0, <1>4 DEF Types
<1>6. /\ Blocks(blocks', n + 1)
      /\ blocks'[n].next = n + 1 /\ blocks'[n + 1].next = Null
      /\ \A c \in 1 .. n - 1 : blocks'[c].next = blocks[c].next
  <2>1. Links(blocks', n)
    BY <1>1, <1>4, LinkedIs
  <2> QED BY <2>1 DEF Links
<1>7. n + 1 \in Nat \ {0} /\ (n + 1) - 1 = n
  BY <1>1
<1>8. Types(n + 1)'
  <2>1. rb.current \in 0 .. n + 1 /\ n + 1 \in 0 .. n + 1 /\ 0 \in 0 .. BLOCK_SIZE
    BY <1>0, <1>1 DEF Types
  <2> QED BY <1>0, <1>2, <1>5, <1>6, <1>7, <2>1 DEF Types
<1>9. Chain(n + 1)'
  <2>1. ASSUME NEW b \in 1 .. n + 1
        PROVE  blocks'[b].next = IF b < n + 1 THEN b + 1 ELSE Null
    <3>1. CASE b \in 1 .. n - 1
      <4>1. blocks[b].next = b + 1
        BY <1>0, <1>1, <3>1 DEF Chain
      <4> QED BY <1>1, <1>6, <3>1, <4>1
    <3>2. CASE b = n
      BY <1>1, <1>6, <3>2
    <3>3. CASE b = n + 1
      BY <1>1, <1>6, <3>3
    <3> QED BY <1>1, <3>1, <3>2, <3>3
  <2>2. live = 1 .. n
    BY <1>0, <1>2 DEF Chain, Writing
  <2>3. (1 .. n) \union {n + 1} = 1 .. n + 1
    BY <1>1
  <2> QED BY <1>2, <1>4, <2>1, <2>2, <2>3 DEF Chain, Writing
<1>10. Writer(n + 1)'
  <2>1. End(n) = End(n - 1) + BLOCK_SIZE /\ End(n) \in Nat /\ End(n + 1) = End(n) + BLOCK_SIZE
    <3>1. EndFacts
      BY EndIs
    <3>2. n \in Nat \ {0} /\ n \in Nat /\ n + 1 \in Nat \ {0} /\ (n + 1) - 1 = n
      BY <1>1
    <3>3. End(n + 1) = End((n + 1) - 1) + BLOCK_SIZE
      BY <3>1, <3>2 DEF EndFacts
    <3> QED BY <3>1, <3>2, <3>3 DEF EndFacts
  <2>2. Total' = Total /\ wb'.head = 1 /\ wb'.current = n + 1 /\ wb'.ptr = 0
    BY <1>2, <1>3, <1>5 DEF Total, Writing
  <2>3. End(n) <= Total /\ Total <= End(n + 1) /\ Total = End(n) + 0
    BY <1>3, <2>1
  <2> QED BY <1>2, <1>3, <1>7, <2>2, <2>3 DEF Writer, Writing
<1>11. Calls'
  BY <1>0, <1>2 DEF Calls, Reading
<1> QED BY <1>8, <1>9, <1>10, <1>11 DEF Inv

\* How much of what is pushed goes into the block.
Fits(k) ==
  /\ k \in Nat /\ k <= Len(left) /\ wb.ptr + k <= BLOCK_SIZE
  /\ blocks' = Overwritten(wb.current, wb.ptr, SubSeq(left, 1, k))
  /\ wb' = [wb EXCEPT !.ptr = wb.ptr + k, !.len = wb.len + k]
  /\ left' = SubSeq(left, k + 1, Len(left))
  /\ pc' = IF k = Len(left) THEN "write" ELSE "push"
  /\ pc = "push"
  /\ UNCHANGED <<live, rb, sz, got>>

\* CopyIn takes the lesser of what there is and what there is room for.
LEMMA CopyInFits ==
  ASSUME NEW n, Types(n), CopyIn
  PROVE  \E k \in Nat : Fits(k)
<1> USE SizeAssumption
<1> DEFINE l == Len(left)
           r == BLOCK_SIZE - wb.ptr
           k == Min({l, r})
<1>1. l \in Nat /\ r \in Nat /\ wb.ptr \in Nat
  BY DEF Types
<1>2. k = IF l <= r THEN l ELSE r
  <2> HIDE DEF l, r
  <2> QED BY <1>1, MinOfTwo
<1>3. k \in Nat /\ k <= l /\ wb.ptr + k <= BLOCK_SIZE
  BY <1>1, <1>2
<1>4. /\ blocks' = Overwritten(wb.current, wb.ptr, SubSeq(left, 1, k))
      /\ wb' = [wb EXCEPT !.ptr = @ + k, !.len = @ + k]
      /\ left' = SubSeq(left, k + 1, Len(left))
      /\ pc' = IF k = Len(left) THEN "write" ELSE "push"
      /\ pc = "push"
      /\ UNCHANGED <<live, rb, sz, got>>
  BY DEF CopyIn
<1> HIDE DEF k
<1>5. wb' = [wb EXCEPT !.ptr = wb.ptr + k, !.len = wb.len + k]
  BY <1>4
<1>6. Fits(k)
  BY <1>3, <1>4, <1>5 DEF Fits
<1> QED BY <1>3, <1>6

\* Some of what is pushed is copied.
LEMMA CopyInKeeps ==
  ASSUME NEW n, Inv(n), CopyIn
  PROVE  Inv(n)'
<1> USE SizeAssumption
<1>0. Types(n) /\ Chain(n) /\ Writer(n) /\ Calls
  BY DEF Inv
<1>1. n \in Nat \ {0} /\ Blocks(blocks, n) /\ n \in 1 .. n /\ 1 \in 1 .. n
  BY <1>0 DEF Types
<1>2. PICK k \in Nat : Fits(k)
  BY <1>0, CopyInFits
<1>3. pc = "push" /\ pc' \in {"write", "push"} /\ UNCHANGED <<live, rb, sz, got>>
  BY <1>2 DEF Fits
<1>4. wb.current = n /\ wb.len = End(n - 1) + wb.ptr /\ wb.head = 1 /\ HEADER <= wb.len
      /\ End(n - 1) <= wb.len
  BY <1>0, <1>3 DEF Writer, Writing, Total
<1>5. wb.ptr \in Nat /\ wb.len \in Nat /\ wb.ptr + k <= BLOCK_SIZE
  BY <1>0, <1>2 DEF Types, Fits
<1>6. wb' = [head |-> wb.head, len |-> wb.len + k, current |-> wb.current, ptr |-> wb.ptr + k]
  <2>1. wb' = [wb EXCEPT !.ptr = wb.ptr + k, !.len = wb.len + k]
    BY <1>2 DEF Fits
  <2>2. wb = [head |-> wb.head, len |-> wb.len, current |-> wb.current, ptr |-> wb.ptr]
    BY <1>0 DEF Types
  <2> QED BY <2>1, <2>2
<1>7. Is(SubSeq(left, 1, k), k)
  <2>1. Is(SubSeq(left, 0 + 1, 0 + k), k)
    BY CutIs
  <2> QED BY <2>1
<1>8. /\ Blocks(blocks', n)
      /\ \A c \in 1 .. n : blocks'[c].next = blocks[c].next
  <2>1. blocks' = Overwritten(n, wb.ptr, SubSeq(left, 1, k))
    BY <1>2, <1>4 DEF Fits
  <2> DEFINE d == SubSeq(left, 1, k)
  <2> HIDE DEF d
  <2>2. blocks' = Overwritten(n, wb.ptr, d) /\ Is(d, k)
    BY <1>7, <2>1 DEF d
  <2>3. Overwrites(blocks', n, n, wb.ptr, d, k)
    BY <1>1, <1>5, <2>2, OverwrittenIs
  <2> QED BY <2>3 DEF Overwrites
<1>9. /\ Len(left') \in Nat /\ Is(left', Len(left'))
      /\ pc' = "push" => left' # <<>>
  <2>1. PICK l \in Nat : l = Len(left)
    BY <1>0 DEF Types
  <2>2. k <= l /\ left' = SubSeq(left, k + 1, l) /\ pc' = IF k = l THEN "write" ELSE "push"
    BY <1>2, <2>1 DEF Fits
  <2>3. PICK j \in Nat : k + j = l
    <3>1. l - k \in Nat /\ k + (l - k) = l
      BY <2>2
    <3> QED BY <3>1
  <2>4. left' = SubSeq(left, k + 1, k + j)
    BY <2>2, <2>3
  <2>5. Is(left', j) /\ Len(left') = j
    BY <2>4, CutIs
  <2>6. pc' = "push" => j # 0
    BY <2>2, <2>3
  <2> QED BY <2>5, <2>6, EmptyIs
<1>10. Types(n)'
  <2>1. wb.len + k \in Nat /\ wb.ptr + k \in 0 .. BLOCK_SIZE
    BY <1>5
  <2> QED BY <1>0, <1>3, <1>6, <1>8, <1>9, <2>1 DEF Types
<1>11. Chain(n)'
  BY <1>0, <1>3, <1>8 DEF Chain, Writing
<1>12. Writer(n)'
  <2>1. Total' = wb.len + k /\ wb'.head = 1 /\ wb'.current = n /\ wb'.ptr = wb.ptr + k
        /\ Writing' /\ pc' # "closed"
    BY <1>3, <1>4, <1>6 DEF Total, Writing
  <2>2. End(n) = End(n - 1) + BLOCK_SIZE /\ End(n - 1) \in Nat
    <3>1. n - 1 \in Nat
      BY <1>1
    <3> QED BY <1>1, <3>1, EndIs DEF EndFacts
  <2>3. /\ HEADER <= wb.len + k /\ wb.len + k \in Nat
        /\ End(n - 1) <= wb.len + k /\ wb.len + k <= End(n)
        /\ wb.len + k = End(n - 1) + (wb.ptr + k)
    BY <1>4, <1>5, <2>2
  <2> QED BY <2>1, <2>3 DEF Writer
<1>13. Calls'
  BY <1>3, <1>9 DEF Calls, Reading
<1> QED BY <1>10, <1>11, <1>12, <1>13 DEF Inv

\* The length is stored.
LEMMA CloseKeeps ==
  ASSUME NEW n, Inv(n), Close
  PROVE  Inv(n)'
<1> USE SizeAssumption
<1>0. Types(n) /\ Chain(n) /\ Writer(n) /\ Calls
  BY DEF Inv
<1>1. n \in Nat \ {0} /\ Blocks(blocks, n) /\ 1 \in 1 .. n
  BY <1>0 DEF Types
<1>2. pc = "write" /\ pc' = "packed" /\ UNCHANGED <<live, rb, left, sz, got>>
  BY DEF Close
<1>3. /\ wb.head = 1 /\ HEADER <= wb.len
      /\ End(n - 1) <= wb.len /\ wb.len <= End(n) /\ wb.len \in Nat
  BY <1>0, <1>2 DEF Writer, Writing, Total
<1>4. wb' = [head |-> 1, len |-> wb.len + HEADER, current |-> Null, ptr |-> HEADER]
  <2>1. wb' = [wb EXCEPT !.current = Null, !.ptr = HEADER, !.len = wb.len + HEADER]
    BY DEF Close
  <2>2. wb = [head |-> wb.head, len |-> wb.len, current |-> wb.current, ptr |-> wb.ptr]
    BY <1>0 DEF Types
  <2> QED BY <1>3, <2>1, <2>2
<1> DEFINE d == Data(<<"size", wb.len>>, HEADER)
<1>5. Is(d, HEADER) /\ d[1] = Stored(wb.len)
  BY DEF Is, Data, Stored
<1>6. blocks' = Overwritten(1, 0, d)
  BY <1>3 DEF Close
<1> HIDE DEF d
<1>7. /\ Blocks(blocks', n)
      /\ \A c \in 1 .. n : blocks'[c].next = blocks[c].next
      /\ \A i \in 1 .. BLOCK_SIZE :
           blocks'[1].buffer[i] = IF i \in 0 + 1 .. 0 + HEADER THEN d[i - 0] ELSE blocks[1].buffer[i]
  <2>1. Overwrites(blocks', n, 1, 0, d, HEADER)
    BY <1>1, <1>5, <1>6, OverwrittenIs
  <2> QED BY <2>1 DEF Overwrites
<1>8. blocks'[1].buffer[1] = Stored(wb.len)
  <2>1. 1 \in 1 .. BLOCK_SIZE /\ 1 \in 0 + 1 .. 0 + HEADER /\ 1 - 0 = 1
    OBVIOUS
  <2> QED BY <1>5, <1>7, <2>1
<1>9. Types(n)'
  BY <1>0, <1>2, <1>3, <1>4, <1>7 DEF Types, Null
<1>10. Chain(n)'
  BY <1>0, <1>2, <1>7 DEF Chain, Writing
<1>11. Writer(n)'
  <2>1. Total' = wb.len /\ wb'.head = 1 /\ ~Writing'
    BY <1>2, <1>3, <1>4 DEF Total, Writing
  <2> QED BY <1>3, <1>8, <2>1 DEF Writer
<1>12. Calls'
  BY <1>2 DEF Calls, Reading
<1> QED BY <1>9, <1>10, <1>11, <1>12 DEF Inv

\* The writer gives up.
LEMMA FreeKeeps ==
  ASSUME NEW n, Inv(n), Free
  PROVE  Inv(n)'
<1> USE SizeAssumption
<1>0. Types(n) /\ Chain(n) /\ Writer(n) /\ Calls
  BY DEF Inv
<1>1. n \in Nat \ {0} /\ DOMAIN blocks = 1 .. n
  BY <1>0 DEF Types, Blocks
<1>2. /\ pc = "write" /\ pc' = "closed" /\ UNCHANGED <<blocks, rb, left, sz, got>>
      /\ live' = live \ From(wb.head)
      /\ wb' = [head |-> Null, len |-> 0, current |-> Null, ptr |-> 0]
  BY DEF Free
<1>3. wb.head = 1 /\ live = 1 .. n
  BY <1>0, <1>2 DEF Writer, Chain, Writing
<1>4. live' = {}
  BY <1>1, <1>2, <1>3 DEF From, Null
<1>5. Types(n)'
  BY <1>0, <1>2 DEF Types, Null
<1>6. Chain(n)'
  BY <1>0, <1>2, <1>4 DEF Chain, Writing, Reading
<1>7. Writer(n)' /\ Calls'
  BY <1>2 DEF Writer, Calls, Reading
<1> QED BY <1>5, <1>6, <1>7 DEF Inv

-----------------------------------------------------------------------------
(* Every step of the reader keeps it                                       *)

\* The reader changes neither the blocks nor what the writer knows.
LEMMA ReaderLeaves ==
  ASSUME NEW n, Types(n), Chain(n), Writer(n),
         pc \in {"packed", "read", "copy", "loop"}, pc' \in {"read", "copy", "loop", "closed"},
         NEW c \in 0 .. n, NEW l \in Nat, NEW p \in 0 .. BLOCK_SIZE,
         rb' = [current |-> c, len |-> l, ptr |-> p],
         sz' \in Nat,
         live' = IF pc' = "closed" THEN {} ELSE After(n, c),
         UNCHANGED <<blocks, wb, left>>
  PROVE  Types(n)' /\ Chain(n)' /\ Writer(n)' /\ (pc' # "closed" => Total' = Total)
<1>1. rb' = [current |-> rb'.current, len |-> rb'.len, ptr |-> rb'.ptr]
      /\ rb'.current = c /\ rb'.len = l /\ rb'.ptr = p
  OBVIOUS
<1>2. Types(n)'
  BY <1>1 DEF Types
<1>3. Chain(n)'
  BY <1>1 DEF Chain, Writing, Reading
<1>4. Writer(n)' /\ (pc' # "closed" => Total' = Total)
  BY DEF Writer, Writing, Total
<1> QED BY <1>2, <1>3, <1>4

\* Where the reader is in the whole.
LEMMA Whereabouts ==
  ASSUME NEW n, Inv(n), Reading
  PROVE  /\ rb = [current |-> rb.current, len |-> rb.len, ptr |-> rb.ptr]
         /\ rb.len \in Nat /\ rb.ptr \in 0 .. BLOCK_SIZE /\ rb.current \in 0 .. n
         /\ live = After(n, rb.current)
         /\ n \in Nat \ {0} /\ Total \in Nat /\ Total <= End(n)
         /\ rb.current = 0 => rb.len = 0 /\ rb.ptr = 0 /\ pc # "loop"
         /\ rb.current # 0 =>
              /\ rb.current \in 1 .. n /\ End(rb.current - 1) \in Nat
              /\ End(rb.current) = End(rb.current - 1) + BLOCK_SIZE
              /\ pc # "loop" => End(rb.current - 1) + rb.ptr + rb.len = Total
              /\ pc = "loop" => End(rb.current) + rb.len = Total
<1> USE SizeAssumption
<1>0. Types(n) /\ Chain(n) /\ Writer(n) /\ Calls
  BY DEF Inv
<1>1. pc \in {"read", "copy", "loop"}
  BY DEF Reading
<1>2. /\ rb = [current |-> rb.current, len |-> rb.len, ptr |-> rb.ptr]
      /\ rb.len \in Nat /\ rb.ptr \in 0 .. BLOCK_SIZE /\ rb.current \in 0 .. n
      /\ n \in Nat \ {0}
  BY <1>0 DEF Types
<1>3. live = After(n, rb.current)
  BY <1>0, <1>1 DEF Chain, Writing, Reading
<1>4. Total \in Nat /\ Total <= End(n)
  BY <1>0, <1>1 DEF Writer
<1>5. ReaderAt
  BY <1>0 DEF Calls
<1>6. rb.current = 0 => rb.len = 0 /\ rb.ptr = 0 /\ pc # "loop"
  BY <1>5 DEF ReaderAt, Null
<1>7. ASSUME rb.current # 0
      PROVE  /\ rb.current \in 1 .. n /\ End(rb.current - 1) \in Nat
             /\ End(rb.current) = End(rb.current - 1) + BLOCK_SIZE
             /\ pc # "loop" => End(rb.current - 1) + rb.ptr + rb.len = Total
             /\ pc = "loop" => End(rb.current) + rb.len = Total
  <2>1. rb.current \in 1 .. n /\ rb.current \in Nat \ {0} /\ rb.current - 1 \in Nat
    BY <1>2, <1>7
  <2>2. End(rb.current - 1) \in Nat /\ End(rb.current) = End(rb.current - 1) + BLOCK_SIZE
    BY <2>1, EndIs DEF EndFacts
  <2>3. Position + rb.len = Total
    BY <1>5, <1>7 DEF ReaderAt, Null
  <2>4. pc # "loop" => Position = End(rb.current - 1) + rb.ptr
    BY DEF Position
  <2>5. pc = "loop" => Position = End(rb.current)
    BY <2>2 DEF Position
  <2> QED BY <2>1, <2>2, <2>3, <2>4, <2>5
<1> QED BY <1>2, <1>3, <1>4, <1>6, <1>7

\* The block after the one that the reader has come to the end of: if there is none,
\* everything has been read.
LEMMA NextBlock ==
  ASSUME NEW n, Inv(n), Reading, rb.current # 0, End(rb.current) + rb.len = Total,
         NEW b, b = blocks[rb.current].next
  PROVE  /\ b \in 0 .. n
         /\ live \ {rb.current} = After(n, b)
         /\ b = 0 => rb.len = 0
         /\ b # 0 => b \in 1 .. n /\ b = rb.current + 1 /\ b - 1 = rb.current
<1> USE SizeAssumption
<1>1. /\ n \in Nat \ {0} /\ rb.current \in 1 .. n /\ rb.len \in Nat
      /\ Total \in Nat /\ Total <= End(n) /\ live = After(n, rb.current)
  BY Whereabouts
<1>2. b = IF rb.current < n THEN rb.current + 1 ELSE 0
  BY <1>1 DEF Inv, Chain, Null
<1>3. CASE rb.current < n
  <2>1. b \in 1 .. n /\ b = rb.current + 1 /\ b - 1 = rb.current /\ b # 0 /\ b \in 0 .. n
    BY <1>1, <1>2, <1>3
  <2>2. live \ {rb.current} = After(n, b)
    BY <1>1, <2>1 DEF After, Null
  <2> QED BY <2>1, <2>2
<1>4. CASE ~(rb.current < n)
  <2>1. rb.current = n /\ b = 0 /\ b \in 0 .. n
    BY <1>1, <1>2, <1>4
  <2>2. End(n) \in Nat
    BY <1>1, EndIs DEF EndFacts
  <2>3. rb.len = 0
    BY <1>1, <2>1, <2>2
  <2>4. live \ {rb.current} = After(n, b)
    BY <1>1, <2>1 DEF After, Null
  <2> QED BY <2>1, <2>3, <2>4
<1> QED BY <1>3, <1>4

\* The reader is where it should be if it has moved by as much as it has read.
LEMMA ArrivesAt ==
  ASSUME NEW n, NEW c \in 0 .. n, NEW l \in Nat, NEW p \in 0 .. BLOCK_SIZE,
         rb' = [current |-> c, len |-> l, ptr |-> p],
         pc' \in {"read", "copy"},
         c = 0 => l = 0 /\ p = 0,
         c # 0 => End(c - 1) + p + l = Total'
  PROVE  ReaderAt'
<1>1. rb'.current = c /\ rb'.len = l /\ rb'.ptr = p
  OBVIOUS
<1>2. Position' = End(c - 1) + p
  BY <1>1 DEF Position, End
<1> QED BY <1>1, <1>2 DEF ReaderAt, Null

\* The receiver begins behind the length.
LEMMA OpenKeeps ==
  ASSUME NEW n, Inv(n), Open
  PROVE  Inv(n)'
<1> USE SizeAssumption
<1>0. Types(n) /\ Chain(n) /\ Writer(n) /\ Calls
  BY DEF Inv
<1>1. /\ pc = "packed" /\ pc' = "read" /\ UNCHANGED <<blocks, live, wb, left, sz, got>>
      /\ rb' = [current |-> wb.head, ptr |-> HEADER,
                len |-> blocks[wb.head].buffer[1][1][2] - HEADER]
  BY DEF Open, chain
<1>2. n \in Nat \ {0} /\ wb.head = 1 /\ HEADER <= Total /\ Total \in Nat
      /\ blocks[1].buffer[1] = Stored(Total) /\ live = 1 .. n
  BY <1>0, <1>1 DEF Types, Chain, Writer, Writing
<1>3. blocks[1].buffer[1][1][2] = Total
  BY <1>2 DEF Stored
<1> DEFINE l == Total - HEADER
<1>4. l \in Nat /\ HEADER + l = Total
  BY <1>2
<1>5. rb' = [current |-> 1, len |-> l, ptr |-> HEADER]
  BY <1>1, <1>2, <1>3
<1>6. live' = After(n, 1) /\ 1 \in 0 .. n /\ HEADER \in 0 .. BLOCK_SIZE
  BY <1>1, <1>2 DEF After, Null
<1>7. sz' \in Nat
  BY <1>0, <1>1 DEF Types
<1> HIDE DEF l
<1>8. Types(n)' /\ Chain(n)' /\ Writer(n)' /\ Total' = Total
  <2>1. PICK m : m = l
    OBVIOUS
  <2>2. m \in Nat /\ rb' = [current |-> 1, len |-> m, ptr |-> HEADER]
    BY <1>4, <1>5, <2>1
  <2> QED BY <1>0, <1>1, <1>6, <1>7, <2>2, ReaderLeaves
<1>9. ReaderAt'
  <2>1. PICK m : m = l
    OBVIOUS
  <2>2. m \in Nat /\ rb' = [current |-> 1, len |-> m, ptr |-> HEADER]
    BY <1>4, <1>5, <2>1
  <2>3. End(1 - 1) = 0
    BY EndIs DEF EndFacts
  <2>4. End(1 - 1) + HEADER + m = Total'
    BY <1>4, <1>8, <2>1, <2>2, <2>3
  <2> QED BY <1>1, <1>6, <2>2, <2>4, ArrivesAt
<1>10. Calls'
  BY <1>1, <1>9 DEF Calls
<1> QED BY <1>8, <1>10 DEF Inv

\* rb_read is called; it leaves a block that it has come to the end of.
LEMMA ReadKeeps ==
  ASSUME NEW n, Inv(n), NEW k \in 0 .. rb.len, Read(k)
  PROVE  Inv(n)'
<1> USE SizeAssumption
<1>0. Types(n) /\ Chain(n) /\ Writer(n) /\ Calls
  BY DEF Inv
<1>1. /\ pc = "read" /\ pc' = "copy" /\ sz' = k /\ got' = <<>> /\ k <= rb.len
      /\ UNCHANGED <<blocks, wb, left>>
  BY DEF Read
<1>2. Reading
  BY <1>1 DEF Reading
<1>3. /\ rb = [current |-> rb.current, len |-> rb.len, ptr |-> rb.ptr]
      /\ rb.len \in Nat /\ rb.ptr \in 0 .. BLOCK_SIZE /\ rb.current \in 0 .. n
      /\ live = After(n, rb.current)
      /\ rb.current = 0 => rb.len = 0 /\ rb.ptr = 0
      /\ rb.current # 0 =>
           /\ rb.current \in 1 .. n /\ End(rb.current - 1) \in Nat
           /\ End(rb.current) = End(rb.current - 1) + BLOCK_SIZE
           /\ End(rb.current - 1) + rb.ptr + rb.len = Total
  BY <1>1, <1>2, Whereabouts
<1>4. k \in Nat
  BY <1>3
<1> DEFINE To(c, p) ==
      /\ rb' = [current |-> c, len |-> rb.len, ptr |-> p]
      /\ live' = After(n, c)
      /\ c = 0 => rb.len = 0 /\ p = 0
      /\ c # 0 => End(c - 1) + p + rb.len = Total
<1>5. \E c \in 0 .. n : \E p \in 0 .. BLOCK_SIZE : To(c, p)
  <2>1. CASE rb.ptr = BLOCK_SIZE
    <3>1. rb.current # 0
      BY <1>3, <2>1
    <3>2. PICK b : b = blocks[rb.current].next
      OBVIOUS
    <3>3. End(rb.current) + rb.len = Total
      BY <1>3, <2>1, <3>1
    <3>4. /\ b \in 0 .. n /\ live \ {rb.current} = After(n, b)
          /\ b = 0 => rb.len = 0
          /\ b # 0 => b - 1 = rb.current
      BY <1>2, <3>1, <3>2, <3>3, NextBlock
    <3>5. rb' = [current |-> b, len |-> rb.len, ptr |-> 0] /\ live' = After(n, b)
      <4>1. rb' = [rb EXCEPT !.current = b, !.ptr = 0] /\ live' = live \ {rb.current}
        BY <2>1, <3>2 DEF Read
      <4> QED BY <1>3, <3>4, <4>1
    <3>6. b # 0 => End(b - 1) + 0 + rb.len = Total
      BY <1>3, <3>1, <3>3, <3>4
    <3>7. To(b, 0) /\ 0 \in 0 .. BLOCK_SIZE
      BY <3>4, <3>5, <3>6
    <3> QED BY <3>4, <3>7
  <2>2. CASE rb.ptr # BLOCK_SIZE
    <3>1. UNCHANGED <<live, rb>>
      BY <2>2 DEF Read
    <3>2. To(rb.current, rb.ptr)
      BY <1>3, <3>1
    <3> QED BY <1>3, <3>2
  <2> QED BY <2>1, <2>2
<1>6. PICK c \in 0 .. n, p \in 0 .. BLOCK_SIZE : To(c, p)
  BY <1>5
<1>7. PICK l \in Nat : l = rb.len
  BY <1>3
<1>8. /\ rb' = [current |-> c, len |-> l, ptr |-> p]
      /\ live' = After(n, c)
      /\ c = 0 => l = 0 /\ p = 0
      /\ c # 0 => End(c - 1) + p + l = Total
  BY <1>6, <1>7
<1> HIDE DEF To
<1>9. Types(n)' /\ Chain(n)' /\ Writer(n)' /\ Total' = Total
  BY <1>0, <1>1, <1>4, <1>8, ReaderLeaves
<1>10. ReaderAt'
  BY <1>1, <1>8, <1>9, ArrivesAt
<1>11. sz' <= rb'.len
  BY <1>1, <1>7, <1>8
<1>12. Calls'
  BY <1>1, <1>10, <1>11 DEF Calls
<1> QED BY <1>9, <1>12 DEF Inv

\* All that is asked for is copied from one block.
LEMMA CopyOutKeeps ==
  ASSUME NEW n, Inv(n), CopyOut
  PROVE  Inv(n)'
<1> USE SizeAssumption
<1>0. Types(n) /\ Chain(n) /\ Writer(n) /\ Calls
  BY DEF Inv
<1>1. /\ pc = "copy" /\ pc' = "read" /\ UNCHANGED <<blocks, live, wb, left, sz>>
      /\ sz <= BLOCK_SIZE - rb.ptr
      /\ rb' = [rb EXCEPT !.ptr = rb.ptr + sz, !.len = rb.len - sz]
  BY DEF CopyOut, chain
<1>2. Reading /\ sz <= rb.len /\ sz \in Nat
  BY <1>0, <1>1 DEF Reading, Calls, Types
<1>3. /\ rb = [current |-> rb.current, len |-> rb.len, ptr |-> rb.ptr]
      /\ rb.len \in Nat /\ rb.ptr \in 0 .. BLOCK_SIZE /\ rb.current \in 0 .. n
      /\ live = After(n, rb.current)
      /\ rb.current = 0 => rb.len = 0 /\ rb.ptr = 0
      /\ rb.current # 0 =>
           /\ End(rb.current - 1) \in Nat
           /\ End(rb.current - 1) + rb.ptr + rb.len = Total
  BY <1>1, <1>2, Whereabouts
<1>4. PICK c, l, p : c = rb.current /\ l = rb.len - sz /\ p = rb.ptr + sz
  OBVIOUS
<1>5. rb' = [current |-> c, len |-> l, ptr |-> p] /\ c \in 0 .. n
  BY <1>1, <1>3, <1>4
<1>6. l \in Nat /\ p \in 0 .. BLOCK_SIZE
  BY <1>1, <1>2, <1>3, <1>4
<1>7. Types(n)' /\ Chain(n)' /\ Writer(n)' /\ Total' = Total
  <2>1. sz' \in Nat /\ live' = After(n, c)
    BY <1>1, <1>2, <1>3, <1>4
  <2> QED BY <1>0, <1>1, <1>5, <1>6, <2>1, ReaderLeaves
<1>8. /\ c = 0 => l = 0 /\ p = 0
      /\ c # 0 => End(c - 1) + p + l = Total
  BY <1>2, <1>3, <1>4
<1>9. ReaderAt'
  BY <1>1, <1>5, <1>6, <1>7, <1>8, ArrivesAt
<1>10. Calls'
  BY <1>1, <1>9 DEF Calls
<1> QED BY <1>7, <1>10 DEF Inv

\* The rest of the block is copied.
LEMMA CopyRestKeeps ==
  ASSUME NEW n, Inv(n), CopyRest
  PROVE  Inv(n)'
<1> USE SizeAssumption
<1>0. Types(n) /\ Chain(n) /\ Writer(n) /\ Calls
  BY DEF Inv
<1>1. PICK k : k = BLOCK_SIZE - rb.ptr
  OBVIOUS
<1>2. /\ pc = "copy" /\ pc' = "loop" /\ UNCHANGED <<blocks, live, wb, left>>
      /\ sz > k /\ sz' = sz - k
      /\ rb' = [rb EXCEPT !.len = rb.len - k]
  BY <1>1 DEF CopyRest, chain
<1>3. Reading /\ sz <= rb.len /\ sz \in Nat
  BY <1>0, <1>2 DEF Reading, Calls, Types
<1>4. /\ rb = [current |-> rb.current, len |-> rb.len, ptr |-> rb.ptr]
      /\ rb.len \in Nat /\ rb.ptr \in 0 .. BLOCK_SIZE /\ rb.current \in 0 .. n
      /\ live = After(n, rb.current)
      /\ rb.current = 0 => rb.len = 0
      /\ rb.current # 0 =>
           /\ End(rb.current - 1) \in Nat
           /\ End(rb.current - 1) + rb.ptr + rb.len = Total
  BY <1>2, <1>3, Whereabouts
<1>5. PICK c, l, p : c = rb.current /\ l = rb.len - k /\ p = rb.ptr
  OBVIOUS
<1>6. rb' = [current |-> c, len |-> l, ptr |-> p] /\ c \in 0 .. n /\ p \in 0 .. BLOCK_SIZE
  BY <1>2, <1>4, <1>5
<1>7. k \in Nat /\ l \in Nat /\ sz' \in Nat /\ sz' <= l /\ c # 0
  BY <1>1, <1>2, <1>3, <1>4, <1>5
<1>8. Types(n)' /\ Chain(n)' /\ Writer(n)' /\ Total' = Total
  <2>1. live' = After(n, c)
    BY <1>2, <1>4, <1>5
  <2> QED BY <1>0, <1>2, <1>6, <1>7, <2>1, ReaderLeaves
<1>9. End(c - 1) + BLOCK_SIZE + l = Total
  BY <1>1, <1>4, <1>5, <1>7
<1>10. rb'.current = c /\ rb'.len = l
  BY <1>6
<1>11. ReaderAt'
  <2>1. Position' = End(c - 1) + BLOCK_SIZE
    BY <1>2, <1>10 DEF Position, End
  <2> QED BY <1>7, <1>8, <1>9, <1>10, <2>1 DEF ReaderAt, Null
<1>12. Calls'
  BY <1>2, <1>7, <1>10, <1>11 DEF Calls
<1> QED BY <1>8, <1>12 DEF Inv

\* The last piece is copied from the next block.
LEMMA LastPieceKeeps ==
  ASSUME NEW n, Inv(n), LastPiece
  PROVE  Inv(n)'
<1> USE SizeAssumption
<1>0. Types(n) /\ Chain(n) /\ Writer(n) /\ Calls
  BY DEF Inv
<1>1. PICK b : b = blocks[rb.current].next
  OBVIOUS
<1>2. /\ pc = "loop" /\ pc' = "read" /\ UNCHANGED <<blocks, wb, left, sz>>
      /\ sz < BLOCK_SIZE
      /\ rb' = [current |-> b, len |-> rb.len - sz, ptr |-> sz]
      /\ live' = live \ {rb.current}
  BY <1>1 DEF LastPiece
<1>3. Reading /\ sz <= rb.len /\ sz \in Nat
  BY <1>0, <1>2 DEF Reading, Calls, Types
<1>4. /\ rb.len \in Nat /\ rb.current # 0 /\ rb.current \in 1 .. n
      /\ End(rb.current) + rb.len = Total
  BY <1>2, <1>3, Whereabouts
<1>5. /\ b \in 0 .. n /\ live \ {rb.current} = After(n, b)
      /\ b = 0 => rb.len = 0
      /\ b # 0 => b - 1 = rb.current
  BY <1>1, <1>3, <1>4, NextBlock
<1>6. PICK l, p : l = rb.len - sz /\ p = sz
  OBVIOUS
<1>7. rb' = [current |-> b, len |-> l, ptr |-> p] /\ l \in Nat /\ p \in 0 .. BLOCK_SIZE
  BY <1>2, <1>3, <1>4, <1>6
<1>8. Types(n)' /\ Chain(n)' /\ Writer(n)' /\ Total' = Total
  <2>1. sz' \in Nat /\ live' = After(n, b)
    BY <1>2, <1>3, <1>5
  <2> QED BY <1>0, <1>2, <1>5, <1>7, <2>1, ReaderLeaves
<1>9. b = 0 => l = 0 /\ p = 0
  BY <1>3, <1>5, <1>6
<1>10. b # 0 => End(b - 1) + p + l = Total
  <2>1. End(rb.current) \in Nat
    BY <1>4, EndIs DEF EndFacts
  <2> QED BY <1>3, <1>4, <1>5, <1>6, <2>1
<1>11. ReaderAt'
  BY <1>2, <1>5, <1>7, <1>8, <1>9, <1>10, ArrivesAt
<1>12. Calls'
  BY <1>2, <1>11 DEF Calls
<1> QED BY <1>8, <1>12 DEF Inv

\* The whole of the next block is copied.
LEMMA WholeBlockKeeps ==
  ASSUME NEW n, Inv(n), WholeBlock
  PROVE  Inv(n)'
<1> USE SizeAssumption
<1>0. Types(n) /\ Chain(n) /\ Writer(n) /\ Calls
  BY DEF Inv
<1>1. PICK b : b = blocks[rb.current].next
  OBVIOUS
<1>2. /\ pc = "loop" /\ pc' = "loop" /\ UNCHANGED <<blocks, wb, left>>
      /\ sz >= BLOCK_SIZE
      /\ rb' = [rb EXCEPT !.current = b, !.len = rb.len - BLOCK_SIZE]
      /\ live' = live \ {rb.current}
      /\ sz' = sz - BLOCK_SIZE
  BY <1>1 DEF WholeBlock
<1>3. Reading /\ sz <= rb.len /\ sz \in Nat
  BY <1>0, <1>2 DEF Reading, Calls, Types
<1>4. /\ rb.len \in Nat /\ rb.current # 0 /\ rb.current \in 1 .. n
      /\ rb = [current |-> rb.current, len |-> rb.len, ptr |-> rb.ptr]
      /\ rb.ptr \in 0 .. BLOCK_SIZE
      /\ End(rb.current) + rb.len = Total
  BY <1>2, <1>3, Whereabouts
<1>5. /\ b \in 0 .. n /\ live \ {rb.current} = After(n, b)
      /\ b = 0 => rb.len = 0
      /\ b # 0 => b - 1 = rb.current /\ b \in 1 .. n
  BY <1>1, <1>3, <1>4, NextBlock
<1>6. PICK l, p : l = rb.len - BLOCK_SIZE /\ p = rb.ptr
  OBVIOUS
<1>7. rb' = [current |-> b, len |-> l, ptr |-> p] /\ p \in 0 .. BLOCK_SIZE
  BY <1>2, <1>4, <1>6
<1>8. l \in Nat /\ sz' \in Nat /\ sz' <= l /\ b # 0
  BY <1>2, <1>3, <1>4, <1>5, <1>6
<1>9. Types(n)' /\ Chain(n)' /\ Writer(n)' /\ Total' = Total
  <2>1. live' = After(n, b)
    BY <1>2, <1>5
  <2> QED BY <1>0, <1>2, <1>5, <1>7, <1>8, <2>1, ReaderLeaves
<1>10. End(b - 1) + BLOCK_SIZE + l = Total
  <2>1. End(rb.current) \in Nat
    BY <1>4, EndIs DEF EndFacts
  <2> QED BY <1>4, <1>5, <1>6, <1>8, <2>1
<1>11. rb'.current = b /\ rb'.len = l
  BY <1>7
<1>12. ReaderAt'
  <2>1. Position' = End(b - 1) + BLOCK_SIZE
    BY <1>2, <1>11 DEF Position, End
  <2> QED BY <1>8, <1>9, <1>10, <1>11, <2>1 DEF ReaderAt, Null
<1>13. Calls'
  BY <1>2, <1>8, <1>11, <1>12 DEF Calls
<1> QED BY <1>9, <1>13 DEF Inv

\* The reader gives up what is left.
LEMMA CloseReadKeeps ==
  ASSUME NEW n, Inv(n), CloseRead
  PROVE  Inv(n)'
<1> USE SizeAssumption
<1>0. Types(n) /\ Chain(n) /\ Writer(n) /\ Calls
  BY DEF Inv
<1>1. /\ pc = "read" /\ pc' = "closed" /\ UNCHANGED <<blocks, wb, left, sz>>
      /\ live' = live \ From(rb.current)
      /\ rb' = [current |-> 0, len |-> 0, ptr |-> 0]
  BY DEF CloseRead, Null
<1>2. live = After(n, rb.current)
  BY <1>0, <1>1 DEF Chain, Writing, Reading
<1>3. live' = {}
  BY <1>0, <1>1, <1>2 DEF From, After, Types, Blocks
<1>4. n \in Nat \ {0} /\ 0 \in 0 .. n /\ 0 \in 0 .. BLOCK_SIZE /\ sz \in Nat
  BY <1>0 DEF Types
<1>5. Types(n)' /\ Chain(n)' /\ Writer(n)'
  BY <1>0, <1>1, <1>3, <1>4, ReaderLeaves
<1>6. Calls'
  BY <1>1 DEF Calls, Reading
<1> QED BY <1>5, <1>6 DEF Inv

\* Every step keeps it.
LEMMA Keeps ==
  Ind /\ [BNext]_bvars => Ind'
<1> SUFFICES ASSUME Ind, [BNext]_bvars PROVE Ind'
  OBVIOUS
<1>1. PICK n \in Nat \ {0} : Inv(n)
  BY DEF Ind
<1>2. ASSUME Inv(n)' PROVE Ind'
  BY <1>2 DEF Ind
<1>3. ASSUME NewBlock PROVE Ind'
  <2>1. n + 1 \in Nat \ {0}
    OBVIOUS
  <2>2. Inv(n + 1)'
    BY <1>1, <1>3, NewBlockKeeps
  <2>3. PICK m \in Nat \ {0} : m = n + 1
    BY <2>1
  <2>4. Inv(m)'
    BY <2>2, <2>3
  <2> QED BY <2>4 DEF Ind
<1>4. ASSUME UNCHANGED bvars PROVE Inv(n)'
  <2>1. /\ UNCHANGED blocks /\ UNCHANGED live /\ UNCHANGED wb /\ UNCHANGED rb
        /\ UNCHANGED pc /\ UNCHANGED left /\ UNCHANGED sz /\ UNCHANGED got
    BY <1>4 DEF bvars
  <2>2. Types(n)'
    BY <1>1, <2>1 DEF Inv, Types
  <2>3. Chain(n)'
    BY <1>1, <2>1 DEF Inv, Chain, Writing, Reading
  <2>4. Writer(n)'
    BY <1>1, <2>1 DEF Inv, Writer, Writing, Total
  <2>5. Calls'
    BY <1>1, <2>1 DEF Inv, Calls, Reading, ReaderAt, Position, Total, Writing, End
  <2> QED BY <2>2, <2>3, <2>4, <2>5 DEF Inv
<1>5. CASE PushAny
  BY <1>1, <1>2, <1>5, PushKeeps
<1>6. CASE Close
  BY <1>1, <1>2, <1>6, CloseKeeps
<1>7. CASE Free
  BY <1>1, <1>2, <1>7, FreeKeeps
<1>8. CASE Open
  BY <1>1, <1>2, <1>8, OpenKeeps
<1>9. CASE \E k \in 0 .. rb.len : Read(k)
  BY <1>1, <1>2, <1>9, ReadKeeps
<1>10. CASE CloseRead
  BY <1>1, <1>2, <1>10, CloseReadKeeps
<1>11. CASE CopyIn
  BY <1>1, <1>2, <1>11, CopyInKeeps
<1>12. CASE CopyOut
  BY <1>1, <1>2, <1>12, CopyOutKeeps
<1>13. CASE CopyRest
  BY <1>1, <1>2, <1>13, CopyRestKeeps
<1>14. CASE LastPiece
  BY <1>1, <1>2, <1>14, LastPieceKeeps
<1>15. CASE WholeBlock
  BY <1>1, <1>2, <1>15, WholeBlockKeeps
<1> QED
  BY <1>2, <1>3, <1>4, <1>5, <1>6, <1>7, <1>8, <1>9, <1>10, <1>11, <1>12, <1>13, <1>14, <1>15
  DEF BNext, Step

\* Only allocated blocks are reached.
LEMMA NotWild == Ind => NeverWild
<1> USE SizeAssumption
<1> SUFFICES ASSUME Ind PROVE NeverWild
  OBVIOUS
<1>1. PICK n \in Nat \ {0} : Inv(n)
  BY DEF Ind
<1>2. LiveIsChain
  BY IndIs DEF BInv
<1>3. Writing => wb.current \in live
  BY <1>1 DEF Inv, Chain, Writer, Writing
<1>4. ASSUME Reading, rb.current # 0 PROVE rb.current \in live
  <2>1. rb.current \in 1 .. n /\ live = After(n, rb.current)
    BY <1>1, <1>4, Whereabouts
  <2> QED BY <1>4, <2>1 DEF After, Null
<1>5. ASSUME Reading, rb.len > 0 PROVE rb.current # 0
  BY <1>1, <1>5, Whereabouts
<1>6. ASSUME pc = "loop" PROVE rb.current # 0 /\ Reading
  BY <1>1, <1>6, Whereabouts DEF Reading
<1>7. ASSUME pc = "copy", sz > 0 PROVE Reading /\ rb.len > 0
  BY <1>1, <1>7 DEF Inv, Types, Calls, Reading
<1>8. ASSUME pc = "loop", sz > 0 PROVE blocks[rb.current].next \in live
  <2>1. Reading /\ rb.current # 0
    BY <1>6, <1>8
  <2>2. PICK b : b = blocks[rb.current].next
    OBVIOUS
  <2>3. End(rb.current) + rb.len = Total /\ rb.current \in 1 .. n /\ live = After(n, rb.current)
    BY <1>1, <1>8, <2>1, Whereabouts
  <2>4. /\ live \ {rb.current} = After(n, b)
        /\ b = 0 => rb.len = 0
        /\ b # 0 => b \in 1 .. n
    BY <1>1, <2>1, <2>2, <2>3, NextBlock
  <2>5. rb.len > 0
    BY <1>1, <1>8 DEF Inv, Types, Calls
  <2>6. b \in After(n, b)
    BY <2>4, <2>5 DEF After, Null
  <2> QED BY <2>2, <2>4, <2>6
<1> QED BY <1>2, <1>3, <1>4, <1>5, <1>6, <1>7, <1>8 DEF NeverWild

\* The chain is as long as the length that its first block stores, and writer and
\* reader are where what they have still to copy says that they are.
THEOREM Invariance == BSpec => []BInv
<1>1. BInit => Ind
  BY Starts
<1>2. Ind /\ [BNext]_bvars => Ind'
  BY Keeps
<1>3. Ind => BInv
  BY IndIs
<1> QED BY <1>1, <1>2, <1>3, PTL DEF BSpec

\* Every variable keeps its type.
THEOREM TypeCorrect == BSpec => []BTypeOK
<1>1. BInv => BTypeOK
  BY DEF BInv
<1> QED BY <1>1, Invariance, PTL

\* wb_push and rb_read copy to and from allocated blocks only; no block is leaked, and
\* none is freed twice or too early.
THEOREM OnlyLiveBlocks == BSpec => []NeverWild
<1>1. BInv => NeverWild
  BY IndIs, NotWild
<1> QED BY <1>1, Invariance, PTL

-----------------------------------------------------------------------------
(* The blocks are a stream of bytes                                        *)

\* k bytes of the whole from a on.
Piece(f, a, k) == SubSeq(f, a + 1, a + k)

\* What has been written and not read is the end of the whole.
View ==
  /\ Writing \/ pc = "packed" =>
       \E k \in Nat : HEADER + k = Total /\ Unread = Piece(Flat(blocks), HEADER, k)
  /\ Reading =>
       /\ rb.len \in Nat
       /\ \E a \in Nat : a + rb.len = Total /\ Unread = Piece(Flat(blocks), a, rb.len)
  /\ pc = "closed" => Unread = <<>>

\* Whatever has been written or read.
LEMMA Views == Ind => View
<1> USE SizeAssumption
<1> SUFFICES ASSUME Ind PROVE View
  OBVIOUS
<1>1. PICK n \in Nat \ {0} : Inv(n)
  BY DEF Ind
<1>2. Contents = Flat(blocks)
  BY DEF Contents, Flat
<1>3. ASSUME Writing \/ pc = "packed"
      PROVE  \E k \in Nat : HEADER + k = Total /\ Unread = Piece(Flat(blocks), HEADER, k)
  <2>1. HEADER <= Total /\ Total \in Nat
    BY <1>1, <1>3 DEF Inv, Writer, Writing
  <2>2. PICK k \in Nat : HEADER + k = Total
    <3>1. Total - HEADER \in Nat /\ HEADER + (Total - HEADER) = Total
      BY <2>1
    <3> QED BY <3>1
  <2>3. Unread = SubSeq(Contents, HEADER + 1, Total)
    <3>1. CASE Writing
      BY <3>1 DEF Unread, Total, Writing, Reading
    <3>2. CASE ~Writing
      <4>1. pc = "packed"
        BY <1>3, <3>2
      <4> QED BY <4>1 DEF Unread, Total, Writing, Reading
    <3> QED BY <3>1, <3>2
  <2>4. Unread = Piece(Flat(blocks), HEADER, k)
    BY <1>2, <2>2, <2>3 DEF Piece
  <2> QED BY <2>2, <2>4
<1>4. ASSUME Reading
      PROVE  /\ rb.len \in Nat
             /\ \E a \in Nat : a + rb.len = Total /\ Unread = Piece(Flat(blocks), a, rb.len)
  <2>1. /\ rb.len \in Nat /\ rb.ptr \in Nat /\ Total \in Nat
        /\ rb.current = 0 => rb.len = 0
        /\ rb.current # 0 =>
             /\ End(rb.current - 1) \in Nat
             /\ End(rb.current) = End(rb.current - 1) + BLOCK_SIZE
             /\ pc # "loop" => End(rb.current - 1) + rb.ptr + rb.len = Total
             /\ pc = "loop" => End(rb.current) + rb.len = Total
    BY <1>1, <1>4, Whereabouts
  <2>2. CASE rb.len = 0
    <3>1. Is(Piece(Flat(blocks), Total, 0), 0)
      BY <2>1, CutIs DEF Piece
    <3>2. Unread = Piece(Flat(blocks), Total, 0)
      BY <1>4, <2>2, <3>1, EmptyIs DEF Unread, Reading, Writing
    <3> QED BY <2>1, <2>2, <3>2
  <2>3. CASE rb.len # 0
    <3>1. Position \in Nat /\ Position + rb.len = Total
      BY <2>1, <2>3 DEF Position
    <3>2. Unread = SubSeq(Contents, Position + 1, Position + rb.len)
      BY <1>4, <2>3 DEF Unread, Reading, Writing
    <3>3. Unread = Piece(Flat(blocks), Position, rb.len)
      BY <1>2, <3>2 DEF Piece
    <3> QED BY <2>1, <3>1, <3>3
  <2> QED BY <2>2, <2>3
<1>5. ASSUME pc = "closed" PROVE Unread = <<>>
  BY <1>5 DEF Unread, Writing, Reading
<1> QED BY <1>3, <1>4, <1>5 DEF View

\* Nothing is left of the last byte.
LEMMA NoPiece ==
  ASSUME NEW f, NEW a \in Nat
  PROVE  Piece(f, a, 0) = <<>>
<1>1. Is(Piece(f, a, 0), 0)
  BY CutIs DEF Piece
<1> QED BY <1>1, EmptyIs

\* The first j bytes of a piece of l, and the m behind them.
Splits(f, a, l, j, m) ==
  /\ j \in 0 .. Len(Piece(f, a, l)) /\ Len(Piece(f, a, l)) = l
  /\ SubSeq(Piece(f, a, l), 1, j) = Piece(f, a, j)
  /\ SubSeq(Piece(f, a, l), j + 1, Len(Piece(f, a, l))) = Piece(f, a + j, m)

\* They are pieces of the whole again.
LEMMA PieceOfPiece ==
  ASSUME NEW f, NEW a \in Nat, NEW l \in Nat, NEW j \in Nat, NEW m \in Nat, m + j = l
  PROVE  Splits(f, a, l, j, m)
<1> DEFINE u == Piece(f, a, l)
<1>1. Len(u) = l
  BY CutIs DEF Piece
<1>2. j \in 0 .. l
  OBVIOUS
<1>3. SubSeq(u, 1, j) = Piece(f, a, j)
  <2>1. SubSeq(u, 0 + 1, 0 + j) = SubSeq(f, (a + 0) + 1, (a + 0) + j)
    <3>1. 0 + j <= l
      OBVIOUS
    <3> QED BY <3>1, CutOfCut DEF Piece
  <2>2. 0 + 1 = 1 /\ 0 + j = j /\ a + 0 = a
    OBVIOUS
  <2> QED BY <2>1, <2>2 DEF Piece
<1>4. SubSeq(u, j + 1, Len(u)) = Piece(f, a + j, m)
  <2>1. SubSeq(u, j + 1, j + m) = SubSeq(f, (a + j) + 1, (a + j) + m)
    <3>1. j + m <= l
      OBVIOUS
    <3> QED BY <3>1, CutOfCut DEF Piece
  <2>2. j + m = Len(u)
    BY <1>1
  <2> QED BY <2>1, <2>2 DEF Piece
<1> QED BY <1>1, <1>2, <1>3, <1>4 DEF Splits

\* What is copied out of a block is the piece of the whole that lies there.
LEMMA BytesIs ==
  ASSUME NEW n \in Nat \ {0}, Blocks(blocks, n), NEW b \in 0 .. n,
         NEW p \in Nat, NEW k \in Nat, NEW a \in Nat, p + k <= BLOCK_SIZE,
         b = 0 => k = 0,
         b # 0 => a = End(b - 1) + p
  PROVE  Bytes(b, p, k) = Piece(Flat(blocks), a, k)
<1> USE SizeAssumption
<1> DEFINE t == IF b \in DOMAIN blocks THEN blocks[b].buffer ELSE Junk
           f == Flat(blocks)
<1>1. Bytes(b, p, k) = SubSeq(t, p + 1, p + k)
  BY DEF Bytes
<1>2. ASSUME NEW i \in 1 .. k PROVE t[p + i] = f[a + i]
  <2>1. b \in 1 .. n /\ b - 1 \in Nat
    OBVIOUS
  <2>2. t = blocks[b].buffer
    BY <2>1 DEF Blocks
  <2>3. p + i \in 1 .. BLOCK_SIZE
    OBVIOUS
  <2>4. f[End(b - 1) + (p + i)] = blocks[b].buffer[p + i]
    BY <2>1, <2>3, FlatIs
  <2>5. End(b - 1) \in Nat
    BY <2>1, EndIs DEF EndFacts
  <2>6. End(b - 1) + (p + i) = a + i
    BY <2>1, <2>5
  <2> QED BY <2>2, <2>4, <2>6
<1> HIDE DEF t, f
<1>3. SameFrom(t, p, f, a, k)
  BY <1>2 DEF SameFrom
<1>4. SubSeq(t, p + 1, p + k) = SubSeq(f, a + 1, a + k)
  BY <1>3, SameCut
<1> QED BY <1>1, <1>4 DEF Piece, f

\* A step of the reader takes from the stream as much as it counts.
LEMMA Takes ==
  ASSUME NEW n, Inv(n), View, View', Reading, Reading',
         UNCHANGED <<blocks, wb>>, NEW j \in Nat, rb'.len + j = rb.len
  PROVE  \E a \in Nat :
           /\ a + rb.len = Total
           /\ j \in 0 .. Len(Unread)
           /\ SubSeq(Unread, 1, j) = Piece(Flat(blocks), a, j)
           /\ Unread' = SubSeq(Unread, j + 1, Len(Unread))
<1>1. PICK a \in Nat : a + rb.len = Total /\ Unread = Piece(Flat(blocks), a, rb.len)
  BY DEF View
<1>2. PICK c \in Nat : c + rb'.len = Total' /\ Unread' = Piece(Flat(blocks)', c, rb'.len)
  BY DEF View
<1>3. Flat(blocks)' = Flat(blocks)
  BY DEF Flat
<1>4. Total' = Total
  BY DEF Total, Writing, Reading
<1>5. rb.len \in Nat /\ rb'.len \in Nat
  BY DEF View
<1>6. PICK l \in Nat, m \in Nat : l = rb.len /\ m = rb'.len
  BY <1>5
<1>7. c = a + j /\ m + j = l
  BY <1>1, <1>2, <1>4, <1>6
<1> DEFINE u == Unread
           f == Flat(blocks)
<1>8. u = Piece(f, a, l) /\ Unread' = Piece(f, a + j, m)
  BY <1>1, <1>2, <1>3, <1>6, <1>7
<1> HIDE DEF u, f
<1>9. /\ j \in 0 .. Len(u)
      /\ SubSeq(u, 1, j) = Piece(f, a, j)
      /\ SubSeq(u, j + 1, Len(u)) = Piece(f, a + j, m)
  <2>1. Splits(f, a, l, j, m)
    BY <1>7, PieceOfPiece
  <2> QED BY <1>8, <2>1 DEF Splits
<1> QED BY <1>1, <1>8, <1>9 DEF u, f

\* As long as the chain only grows behind what has been written, what has been written
\* stays there.
LEMMA Grows ==
  ASSUME NEW n, Inv(n), NEW m \in Nat \ {0}, Blocks(blocks', m), n <= m,
         Writing, NEW t \in Nat, t <= End(n),
         \A b \in 1 .. n : \A k \in 1 .. BLOCK_SIZE :
           HEADER < End(b - 1) + k /\ End(b - 1) + k <= t
             => blocks'[b].buffer[k] = blocks[b].buffer[k]
  PROVE  \A i \in HEADER + 1 .. t : Flat(blocks')[i] = Flat(blocks)[i]
<1> USE SizeAssumption
<1>1. n \in Nat \ {0} /\ Blocks(blocks, n)
  BY DEF Inv, Types
<1> SUFFICES ASSUME NEW i \in HEADER + 1 .. t PROVE Flat(blocks')[i] = Flat(blocks)[i]
  OBVIOUS
<1>2. End(n) \in Nat
  BY <1>1, EndIs DEF EndFacts
<1>3. i \in 1 .. End(n)
  BY <1>2
<1>4. PICK b \in 1 .. n, k \in 1 .. BLOCK_SIZE : i = End(b - 1) + k
  BY <1>1, <1>3, PlaceOf
<1>5. Flat(blocks)[i] = blocks[b].buffer[k]
  BY <1>1, <1>4, FlatIs
<1>6. b \in 1 .. m
  BY <1>1
<1>7. Flat(blocks')[i] = blocks'[b].buffer[k]
  BY <1>4, <1>6, FlatIs
<1>8. blocks'[b].buffer[k] = blocks[b].buffer[k]
  BY <1>4
<1> QED BY <1>5, <1>7, <1>8

\* f and g have the same k bytes from a on.
Agree(f, g, a, k) == \A i \in a + 1 .. a + k : f[i] = g[i]

\* They are the same pieces.
LEMMA SamePiece ==
  ASSUME NEW f, NEW g, NEW a \in Nat, NEW k \in Nat, Agree(f, g, a, k)
  PROVE  Piece(f, a, k) = Piece(g, a, k)
<1>1. ASSUME NEW i \in 1 .. k PROVE f[a + i] = g[a + i]
  <2>1. a + i \in a + 1 .. a + k
    OBVIOUS
  <2> QED BY <2>1 DEF Agree
<1>2. SameFrom(f, a, g, a, k)
  BY <1>1 DEF SameFrom
<1>3. SubSeq(f, a + 1, a + k) = SubSeq(g, a + 1, a + k)
  BY <1>2, SameCut
<1> QED BY <1>3 DEF Piece

\* Pushing bytes, beginning a block and storing the length change nothing that is to be
\* read.
LEMMA PushStutters ==
  ASSUME PushAny
  PROVE  UNCHANGED <<Unread, got>>
<1>1. Writing /\ Writing' /\ UNCHANGED blocks /\ UNCHANGED wb /\ UNCHANGED got
  BY DEF PushAny, Push, chain, Writing
<1>2. Unread = SubSeq(Contents, HEADER + 1, wb.len)
  BY <1>1 DEF Unread, Writing, Reading
<1>3. Unread' = SubSeq(Contents', HEADER + 1, wb'.len)
  BY <1>1 DEF Unread, Writing, Reading
<1>4. Contents' = Contents
  BY <1>1 DEF Contents
<1> QED BY <1>1, <1>2, <1>3, <1>4

\* The new block is behind what has been written.
LEMMA NewBlockStutters ==
  ASSUME NEW n, Inv(n), Inv(n + 1)', View, View', NewBlock
  PROVE  UNCHANGED <<Unread, got>>
<1> USE SizeAssumption
<1>1. n \in Nat \ {0} /\ Blocks(blocks, n) /\ Len(blocks) = n
  BY DEF Inv, Types, Blocks
<1>2. Writing /\ Writing' /\ UNCHANGED got /\ pc = "push" /\ wb'.len = wb.len
  <2>1. wb = [head |-> wb.head, len |-> wb.len, current |-> wb.current, ptr |-> wb.ptr]
    BY DEF Inv, Types
  <2>2. wb' = [wb EXCEPT !.current = Len(blocks) + 1, !.ptr = 0]
    BY DEF NewBlock
  <2>3. wb'.len = wb.len
    BY <2>1, <2>2
  <2> QED BY <2>3 DEF NewBlock, Writing
<1>3. Total' = Total
  BY <1>2 DEF Total
<1>4. wb.current = n /\ Total <= End(n) /\ Total \in Nat
  BY <1>2 DEF Inv, Writer, Writing
<1>5. blocks' = Append([blocks EXCEPT ![n].next = n + 1], [next |-> Null, buffer |-> Junk])
  BY <1>1, <1>4 DEF NewBlock
<1>6. Blocks(blocks', n + 1) /\ \A c \in 1 .. n : blocks'[c].buffer = blocks[c].buffer
  <2>1. Links(blocks', n)
    BY <1>1, <1>5, LinkedIs
  <2> QED BY <2>1 DEF Links
<1>7. n + 1 \in Nat \ {0} /\ n <= n + 1
  BY <1>1
<1>8. \A i \in HEADER + 1 .. Total : Flat(blocks')[i] = Flat(blocks)[i]
  <2>1. PICK m \in Nat \ {0}, t \in Nat : m = n + 1 /\ t = Total
    BY <1>4, <1>7
  <2>2. \A i \in HEADER + 1 .. t : Flat(blocks')[i] = Flat(blocks)[i]
    BY <1>2, <1>4, <1>6, <1>7, <2>1, Grows
  <2> QED BY <2>1, <2>2
<1>9. PICK k \in Nat : HEADER + k = Total /\ Unread = Piece(Flat(blocks), HEADER, k)
  BY <1>2 DEF View
<1>10. PICK l \in Nat : HEADER + l = Total' /\ Unread' = Piece(Flat(blocks'), HEADER, l)
  BY <1>2 DEF View
<1>11. l = k
  BY <1>3, <1>9, <1>10
<1>12. Piece(Flat(blocks), HEADER, k) = Piece(Flat(blocks'), HEADER, k)
  <2>1. \A i \in HEADER + 1 .. HEADER + k : Flat(blocks)[i] = Flat(blocks')[i]
    BY <1>8, <1>9
  <2>2. Agree(Flat(blocks), Flat(blocks'), HEADER, k)
    BY <2>1 DEF Agree
  <2>3. HEADER \in Nat
    OBVIOUS
  <2> QED BY <2>2, <2>3, SamePiece
<1> QED BY <1>2, <1>9, <1>10, <1>11, <1>12

\* The length is in front of it.
LEMMA CloseStutters ==
  ASSUME NEW n, Inv(n), Inv(n)', View, View', Close
  PROVE  UNCHANGED <<Unread, got>>
<1> USE SizeAssumption
<1>1. n \in Nat \ {0} /\ Blocks(blocks, n) /\ 1 \in 1 .. n
  <2>1. n \in Nat \ {0} /\ Blocks(blocks, n)
    BY DEF Inv, Types
  <2> QED BY <2>1
<1>2. Writing /\ pc = "write" /\ pc' = "packed" /\ UNCHANGED got
  BY DEF Close, Writing
<1>3. Total <= End(n) /\ Total \in Nat /\ Total = wb.len /\ wb.head = 1
  BY <1>2 DEF Inv, Writer, Writing, Total
<1>4. Total' = Total
  <2>1. wb = [head |-> wb.head, len |-> wb.len, current |-> wb.current, ptr |-> wb.ptr]
        /\ wb.len \in Nat
    BY DEF Inv, Types
  <2>2. wb' = [wb EXCEPT !.current = Null, !.ptr = HEADER, !.len = wb.len + HEADER]
    BY DEF Close
  <2>3. wb'.len = wb.len + HEADER
    BY <2>1, <2>2
  <2> QED BY <1>2, <1>3, <2>1, <2>3 DEF Total, Writing
<1> DEFINE d == Data(<<"size", wb.len>>, HEADER)
<1>5. Is(d, HEADER)
  BY DEF Is, Data
<1>6. blocks' = Overwritten(1, 0, d)
  BY <1>3 DEF Close
<1> HIDE DEF d
<1>7. /\ Blocks(blocks', n)
      /\ \A c \in 1 .. n : c # 1 => blocks'[c].buffer = blocks[c].buffer
      /\ \A i \in 1 .. BLOCK_SIZE :
           blocks'[1].buffer[i] = IF i \in 0 + 1 .. 0 + HEADER THEN d[i - 0] ELSE blocks[1].buffer[i]
  <2>1. Overwrites(blocks', n, 1, 0, d, HEADER)
    BY <1>1, <1>5, <1>6, OverwrittenIs
  <2> QED BY <2>1 DEF Overwrites
<1>8. ASSUME NEW b \in 1 .. n, NEW k \in 1 .. BLOCK_SIZE, HEADER < End(b - 1) + k
      PROVE  blocks'[b].buffer[k] = blocks[b].buffer[k]
  <2>1. CASE b = 1
    <3>1. End(b - 1) = 0
      BY <2>1, EndIs DEF EndFacts
    <3>2. k \notin 0 + 1 .. 0 + HEADER
      BY <1>8, <3>1
    <3> QED BY <1>7, <2>1, <3>2
  <2>2. CASE b # 1
    BY <1>7, <2>2
  <2> QED BY <2>1, <2>2
<1>9. \A i \in HEADER + 1 .. Total : Flat(blocks')[i] = Flat(blocks)[i]
  <2>1. PICK t \in Nat : t = Total
    BY <1>3
  <2>2. \A i \in HEADER + 1 .. t : Flat(blocks')[i] = Flat(blocks)[i]
    BY <1>1, <1>2, <1>3, <1>7, <1>8, <2>1, Grows
  <2> QED BY <2>1, <2>2
<1>10. PICK k \in Nat : HEADER + k = Total /\ Unread = Piece(Flat(blocks), HEADER, k)
  BY <1>2 DEF View
<1>11. PICK l \in Nat : HEADER + l = Total' /\ Unread' = Piece(Flat(blocks'), HEADER, l)
  BY <1>2 DEF View
<1>12. l = k
  BY <1>4, <1>10, <1>11
<1>13. Piece(Flat(blocks), HEADER, k) = Piece(Flat(blocks'), HEADER, k)
  <2>1. \A i \in HEADER + 1 .. HEADER + k : Flat(blocks)[i] = Flat(blocks')[i]
    BY <1>9, <1>10
  <2>2. Agree(Flat(blocks), Flat(blocks'), HEADER, k)
    BY <2>1 DEF Agree
  <2>3. HEADER \in Nat
    OBVIOUS
  <2> QED BY <2>2, <2>3, SamePiece
<1> QED BY <1>2, <1>10, <1>11, <1>12, <1>13

\* Neither does the receiver's beginning.
LEMMA OpenStutters ==
  ASSUME NEW n, Inv(n), View, View', Open
  PROVE  UNCHANGED <<Unread, got>>
<1> USE SizeAssumption
<1>1. pc = "packed" /\ pc' = "read" /\ UNCHANGED <<blocks, wb, got>>
      /\ rb' = [current |-> wb.head, ptr |-> HEADER,
                len |-> blocks[wb.head].buffer[1][1][2] - HEADER]
  BY DEF Open, chain
<1>2. wb.head = 1 /\ blocks[1].buffer[1] = Stored(Total) /\ Total \in Nat
  BY <1>1 DEF Inv, Writer, Writing
<1>3. rb'.len = Total - HEADER
  BY <1>1, <1>2 DEF Stored
<1>4. Total' = Total
  BY <1>1 DEF Total, Writing
<1>5. PICK k \in Nat : HEADER + k = Total /\ Unread = Piece(Flat(blocks), HEADER, k)
  BY <1>1 DEF View
<1>6. PICK a \in Nat : a + rb'.len = Total' /\ Unread' = Piece(Flat(blocks'), a, rb'.len)
  BY <1>1 DEF View, Reading
<1>7. rb'.len = k /\ a = HEADER
  BY <1>2, <1>3, <1>4, <1>5, <1>6
<1> QED BY <1>1, <1>5, <1>6, <1>7

\* What is copied in comes behind what is there.
LEMMA CopyInWrites ==
  ASSUME NEW n, Inv(n), View, View', CopyIn, Inv(n)'
  PROVE  IsPrefix(Unread, Unread') /\ UNCHANGED got
<1> USE SizeAssumption
<1>1. n \in Nat \ {0} /\ Blocks(blocks, n) /\ n \in 1 .. n
  <2>1. n \in Nat \ {0} /\ Blocks(blocks, n)
    BY DEF Inv, Types
  <2> QED BY <2>1
<1>2. PICK j \in Nat : Fits(j)
  BY CopyInFits DEF Inv
<1>3. Writing /\ Writing' /\ UNCHANGED got
  BY <1>2 DEF Fits, Writing
<1>4. wb.current = n /\ Total = End(n - 1) + wb.ptr /\ Total <= End(n) /\ Total \in Nat
      /\ Total = wb.len
  BY <1>3 DEF Inv, Writer, Writing, Total
<1>5. wb.ptr \in Nat
  BY DEF Inv, Types
<1>6. Total' = Total + j
  <2>1. wb = [head |-> wb.head, len |-> wb.len, current |-> wb.current, ptr |-> wb.ptr]
    BY DEF Inv, Types
  <2>2. wb' = [wb EXCEPT !.ptr = wb.ptr + j, !.len = wb.len + j]
    BY <1>2 DEF Fits
  <2>3. wb'.len = wb.len + j
    BY <2>1, <2>2
  <2> QED BY <1>3, <1>4, <2>3 DEF Total
<1> DEFINE d == SubSeq(left, 1, j)
<1>7. Is(d, j)
  <2>1. Is(SubSeq(left, 0 + 1, 0 + j), j)
    BY CutIs
  <2> QED BY <2>1
<1>8. blocks' = Overwritten(n, wb.ptr, d)
  BY <1>2, <1>4 DEF Fits
<1> HIDE DEF d
<1>9. /\ Blocks(blocks', n)
      /\ \A c \in 1 .. n : c # n => blocks'[c].buffer = blocks[c].buffer
      /\ \A i \in 1 .. BLOCK_SIZE :
           blocks'[n].buffer[i] = IF i \in wb.ptr + 1 .. wb.ptr + j THEN d[i - wb.ptr]
                                  ELSE blocks[n].buffer[i]
  <2>1. Overwrites(blocks', n, n, wb.ptr, d, j)
    BY <1>1, <1>5, <1>7, <1>8, OverwrittenIs
  <2> QED BY <2>1 DEF Overwrites
<1>10. ASSUME NEW b \in 1 .. n, NEW k \in 1 .. BLOCK_SIZE, End(b - 1) + k <= Total
       PROVE  blocks'[b].buffer[k] = blocks[b].buffer[k]
  <2>1. CASE b = n
    <3>1. End(n - 1) \in Nat
      <4>1. n - 1 \in Nat
        BY <1>1
      <4> QED BY <4>1, EndIs DEF EndFacts
    <3>2. k \notin wb.ptr + 1 .. wb.ptr + j
      BY <1>4, <1>5, <1>10, <2>1, <3>1
    <3> QED BY <1>9, <2>1, <3>2
  <2>2. CASE b # n
    BY <1>9, <2>2
  <2> QED BY <2>1, <2>2
<1>11. \A i \in HEADER + 1 .. Total : Flat(blocks')[i] = Flat(blocks)[i]
  <2>1. PICK t \in Nat : t = Total
    BY <1>4
  <2>2. n <= n
    BY <1>1
  <2>3. \A i \in HEADER + 1 .. t : Flat(blocks')[i] = Flat(blocks)[i]
    BY <1>1, <1>3, <1>4, <1>9, <1>10, <2>1, <2>2, Grows
  <2> QED BY <2>1, <2>3
<1>12. PICK k \in Nat : HEADER + k = Total /\ Unread = Piece(Flat(blocks), HEADER, k)
  BY <1>3 DEF View
<1>13. PICK l \in Nat : HEADER + l = Total' /\ Unread' = Piece(Flat(blocks'), HEADER, l)
  BY <1>3 DEF View
<1>14. j + k = l
  BY <1>6, <1>12, <1>13
<1> DEFINE u == Unread
           v == Unread'
<1>15. Len(u) = k /\ SubSeq(u, 1, k) = Piece(Flat(blocks), HEADER, k)
  <2>1. 0 + k = k /\ 0 \in Nat
    OBVIOUS
  <2>2. Splits(Flat(blocks), HEADER, k, k, 0)
    BY <2>1, PieceOfPiece
  <2> QED BY <1>12, <2>2 DEF Splits
<1>16. Len(v) = l /\ SubSeq(v, 1, k) = Piece(Flat(blocks'), HEADER, k)
  <2>1. Splits(Flat(blocks'), HEADER, l, k, j)
    BY <1>14, PieceOfPiece
  <2> QED BY <1>13, <2>1 DEF Splits
<1>17. Piece(Flat(blocks), HEADER, k) = Piece(Flat(blocks'), HEADER, k)
  <2>1. \A i \in HEADER + 1 .. HEADER + k : Flat(blocks)[i] = Flat(blocks')[i]
    BY <1>11, <1>12
  <2>2. Agree(Flat(blocks), Flat(blocks'), HEADER, k)
    BY <2>1 DEF Agree
  <2>3. HEADER \in Nat
    OBVIOUS
  <2> QED BY <2>2, <2>3, SamePiece
<1>18. k <= l
  BY <1>14
<1> HIDE DEF u, v
<1>19. IsPrefix(u, v)
  BY <1>15, <1>16, <1>17, <1>18 DEF IsPrefix
<1> QED BY <1>3, <1>19 DEF u, v

\* Writer or reader gives up what is left.
LEMMA CloseDiscards ==
  ASSUME View', Free \/ CloseRead
  PROVE  Unread' = <<>> /\ UNCHANGED got
<1>1. pc' = "closed" /\ UNCHANGED got
  BY DEF Free, CloseRead
<1> QED BY <1>1 DEF View

\* rb_read begins with nothing.
LEMMA ReadBegins ==
  ASSUME NEW n, Inv(n), View, View', NEW k, Read(k)
  PROVE  got' = <<>> /\ UNCHANGED Unread
<1>1. /\ pc = "read" /\ pc' = "copy" /\ got' = <<>>
      /\ UNCHANGED <<blocks, wb>>
  BY DEF Read
<1>2. Reading /\ Reading'
  BY <1>1 DEF Reading
<1>3. rb'.len = rb.len
  <2>1. rb = [current |-> rb.current, len |-> rb.len, ptr |-> rb.ptr]
    BY <1>2, Whereabouts
  <2>2. CASE rb.ptr = BLOCK_SIZE
    <3>1. PICK b : rb' = [rb EXCEPT !.current = b, !.ptr = 0]
      BY <2>2 DEF Read
    <3> QED BY <2>1, <3>1
  <2>3. CASE rb.ptr # BLOCK_SIZE
    BY <2>3 DEF Read
  <2> QED BY <2>2, <2>3
<1>4. Total' = Total
  BY <1>1 DEF Total, Writing
<1>5. PICK a \in Nat : a + rb.len = Total /\ Unread = Piece(Flat(blocks), a, rb.len)
  BY <1>2 DEF View
<1>6. PICK c \in Nat : c + rb'.len = Total' /\ Unread' = Piece(Flat(blocks'), c, rb'.len)
  BY <1>2 DEF View
<1>7. rb.len \in Nat
  BY <1>2 DEF View
<1>8. c = a
  BY <1>3, <1>4, <1>5, <1>6, <1>7
<1> QED BY <1>1, <1>3, <1>5, <1>6, <1>8

\* What is copied out, at most the rest of a block, is the beginning of what is left.
LEMMA CopiesTake ==
  ASSUME NEW n, Inv(n), View, View', Reading, Reading',
         UNCHANGED <<blocks, wb>>, NEW j \in Nat, rb'.len + j = rb.len,
         NEW b \in 0 .. n, NEW p \in Nat, p + j <= BLOCK_SIZE,
         b = 0 => j = 0,
         b # 0 => End(b - 1) + p + rb.len = Total,
         got' = got \o Bytes(b, p, j)
  PROVE  Stream!Take
<1>1. PICK a \in Nat :
        /\ a + rb.len = Total
        /\ j \in 0 .. Len(Unread)
        /\ SubSeq(Unread, 1, j) = Piece(Flat(blocks), a, j)
        /\ Unread' = SubSeq(Unread, j + 1, Len(Unread))
  BY Takes
<1>2. n \in Nat \ {0} /\ Blocks(blocks, n)
  BY DEF Inv, Types
<1>3. rb.len \in Nat
  BY DEF View
<1>4. b # 0 => a = End(b - 1) + p
  <2>1. ASSUME b # 0 PROVE End(b - 1) \in Nat
    <3>1. b - 1 \in Nat
      BY <1>2, <2>1
    <3> QED BY <3>1, EndIs DEF EndFacts
  <2>2. ASSUME b # 0 PROVE a = End(b - 1) + p
    <3>1. PICK e \in Nat, x \in Nat : e = End(b - 1) /\ x = rb.len
      BY <1>3, <2>1, <2>2
    <3>2. e + p + x = Total
      BY <2>2, <3>1
    <3>3. a + x = Total
      BY <1>1, <3>1
    <3>4. a = e + p
      BY <3>2, <3>3
    <3> QED BY <3>1, <3>4
  <2> QED BY <2>2
<1>5. Bytes(b, p, j) = Piece(Flat(blocks), a, j)
  BY <1>1, <1>2, <1>4, BytesIs
<1>6. got' = got \o SubSeq(Unread, 1, j)
  BY <1>1, <1>5
<1> QED BY <1>1, <1>6 DEF Stream!Take

\* A call of rb_read has copied nothing before its first piece.
LEMMA FirstPiece ==
  ASSUME NEW b, NEW p \in Nat, NEW k \in Nat, got = <<>>
  PROVE  Bytes(b, p, k) = got \o Bytes(b, p, k)
<1> DEFINE s == Bytes(b, p, k)
<1>1. Is(s, k)
  BY CutIs DEF Bytes
<1> HIDE DEF s
<1>2. s \in Seq({s[i] : i \in 1 .. k})
  BY <1>1, AsSeq
<1>3. <<>> \o s = s
  BY <1>2, ConcatEmptySeq
<1> QED BY <1>3 DEF s

\* A read within one block.
LEMMA CopyOutTakes ==
  ASSUME NEW n, Inv(n), View, View', CopyOut
  PROVE  Stream!Take
<1> USE SizeAssumption
<1>1. /\ pc = "copy" /\ pc' = "read" /\ UNCHANGED <<blocks, wb>>
      /\ sz <= BLOCK_SIZE - rb.ptr
      /\ got' = Bytes(rb.current, rb.ptr, sz)
      /\ rb' = [rb EXCEPT !.ptr = rb.ptr + sz, !.len = rb.len - sz]
  BY DEF CopyOut, chain
<1>2. Reading /\ Reading' /\ got = <<>> /\ sz <= rb.len /\ sz \in Nat
  BY <1>1 DEF Inv, Calls, Types, Reading
<1>3. /\ rb = [current |-> rb.current, len |-> rb.len, ptr |-> rb.ptr]
      /\ rb.len \in Nat /\ rb.ptr \in 0 .. BLOCK_SIZE /\ rb.current \in 0 .. n
      /\ rb.current = 0 => rb.len = 0
      /\ rb.current # 0 => End(rb.current - 1) + rb.ptr + rb.len = Total
  BY <1>1, <1>2, Whereabouts
<1>4. PICK j \in Nat, b \in 0 .. n, p \in Nat : j = sz /\ b = rb.current /\ p = rb.ptr
  BY <1>2, <1>3
<1>5. rb'.len = rb.len - j
  BY <1>1, <1>3, <1>4
<1>6. rb'.len + j = rb.len /\ p + j <= BLOCK_SIZE /\ (b = 0 => j = 0)
  BY <1>1, <1>2, <1>3, <1>4, <1>5
<1>7. got' = got \o Bytes(b, p, j)
  BY <1>1, <1>2, <1>4, FirstPiece
<1>8. b # 0 => End(b - 1) + p + rb.len = Total
  BY <1>3, <1>4
<1> QED BY <1>1, <1>2, <1>6, <1>7, <1>8, CopiesTake

\* The first piece of a read over several blocks.
LEMMA CopyRestTakes ==
  ASSUME NEW n, Inv(n), View, View', CopyRest
  PROVE  Stream!Take
<1> USE SizeAssumption
<1>1. PICK j : j = BLOCK_SIZE - rb.ptr
  OBVIOUS
<1>2. /\ pc = "copy" /\ pc' = "loop" /\ UNCHANGED <<blocks, wb>>
      /\ sz > j
      /\ got' = Bytes(rb.current, rb.ptr, j)
      /\ rb' = [rb EXCEPT !.len = rb.len - j]
  BY <1>1 DEF CopyRest, chain
<1>3. Reading /\ Reading' /\ got = <<>> /\ sz <= rb.len /\ sz \in Nat
  BY <1>2 DEF Inv, Calls, Types, Reading
<1>4. /\ rb = [current |-> rb.current, len |-> rb.len, ptr |-> rb.ptr]
      /\ rb.len \in Nat /\ rb.ptr \in 0 .. BLOCK_SIZE /\ rb.current \in 0 .. n
      /\ rb.current = 0 => rb.len = 0
      /\ rb.current # 0 => End(rb.current - 1) + rb.ptr + rb.len = Total
  BY <1>2, <1>3, Whereabouts
<1>5. PICK b \in 0 .. n, p \in Nat : b = rb.current /\ p = rb.ptr
  BY <1>4
<1>6. j \in Nat /\ rb'.len = rb.len - j
  BY <1>1, <1>2, <1>4
<1>7. rb'.len + j = rb.len /\ p + j <= BLOCK_SIZE /\ (b = 0 => j = 0)
  BY <1>1, <1>2, <1>3, <1>4, <1>5, <1>6
<1>8. got' = got \o Bytes(b, p, j)
  BY <1>2, <1>3, <1>5, <1>6, FirstPiece
<1>9. b # 0 => End(b - 1) + p + rb.len = Total
  BY <1>4, <1>5
<1> QED BY <1>2, <1>3, <1>6, <1>7, <1>8, <1>9, CopiesTake

\* Its last piece.
LEMMA LastPieceTakes ==
  ASSUME NEW n, Inv(n), View, View', LastPiece
  PROVE  Stream!Take
<1> USE SizeAssumption
<1>1. PICK b : b = blocks[rb.current].next
  OBVIOUS
<1>2. /\ pc = "loop" /\ pc' = "read" /\ UNCHANGED <<blocks, wb>>
      /\ sz < BLOCK_SIZE
      /\ got' = got \o Bytes(b, 0, sz)
      /\ rb' = [current |-> b, len |-> rb.len - sz, ptr |-> sz]
  BY <1>1 DEF LastPiece
<1>3. Reading /\ Reading' /\ sz <= rb.len /\ sz \in Nat
  BY <1>2 DEF Inv, Calls, Types, Reading
<1>4. rb.len \in Nat /\ rb.current # 0 /\ End(rb.current) + rb.len = Total
      /\ rb.current \in 1 .. n /\ n \in Nat
  BY <1>2, <1>3, Whereabouts
<1>5. /\ b \in 0 .. n
      /\ b = 0 => rb.len = 0
      /\ b # 0 => b - 1 = rb.current
  BY <1>1, <1>3, <1>4, NextBlock
<1>6. PICK j \in Nat : j = sz
  BY <1>3
<1>7. rb'.len = rb.len - j
  BY <1>2, <1>6
<1>8. rb'.len + j = rb.len /\ 0 + j <= BLOCK_SIZE /\ (b = 0 => j = 0)
  BY <1>2, <1>3, <1>4, <1>5, <1>6, <1>7
<1>9. b # 0 => End(b - 1) + 0 + rb.len = Total
  <2>1. End(rb.current) \in Nat
    BY <1>4, EndIs DEF EndFacts
  <2> QED BY <1>4, <1>5, <2>1
<1>10. got' = got \o Bytes(b, 0, j)
  BY <1>2, <1>6
<1> QED BY <1>2, <1>3, <1>5, <1>8, <1>9, <1>10, CopiesTake

\* A block between them.
LEMMA WholeBlockTakes ==
  ASSUME NEW n, Inv(n), View, View', WholeBlock
  PROVE  Stream!Take
<1> USE SizeAssumption
<1>1. PICK b : b = blocks[rb.current].next
  OBVIOUS
<1>2. /\ pc = "loop" /\ pc' = "loop" /\ UNCHANGED <<blocks, wb>>
      /\ sz >= BLOCK_SIZE
      /\ got' = got \o Bytes(b, 0, BLOCK_SIZE)
      /\ rb' = [rb EXCEPT !.current = b, !.len = rb.len - BLOCK_SIZE]
  BY <1>1 DEF WholeBlock
<1>3. Reading /\ Reading' /\ sz <= rb.len /\ sz \in Nat
  BY <1>2 DEF Inv, Calls, Types, Reading
<1>4. /\ rb.len \in Nat /\ rb.current # 0 /\ End(rb.current) + rb.len = Total
      /\ rb.current \in 1 .. n /\ n \in Nat
      /\ rb = [current |-> rb.current, len |-> rb.len, ptr |-> rb.ptr]
  BY <1>2, <1>3, Whereabouts
<1>5. /\ b \in 0 .. n
      /\ b = 0 => rb.len = 0
      /\ b # 0 => b - 1 = rb.current
  BY <1>1, <1>3, <1>4, NextBlock
<1>6. b # 0
  BY <1>2, <1>3, <1>4, <1>5
<1>7. rb'.len = rb.len - BLOCK_SIZE
  BY <1>2, <1>4
<1>8. rb'.len + BLOCK_SIZE = rb.len /\ 0 + BLOCK_SIZE <= BLOCK_SIZE
  BY <1>4, <1>7
<1>9. End(b - 1) + 0 + rb.len = Total
  <2>1. End(rb.current) \in Nat
    BY <1>4, EndIs DEF EndFacts
  <2> QED BY <1>4, <1>5, <1>6, <2>1
<1> QED BY <1>2, <1>3, <1>5, <1>6, <1>8, <1>9, CopiesTake

\* Every step of the blocks is one of the stream, or none.
LEMMA StepsOfStream ==
  ASSUME Ind, Ind', View, View', [BNext]_bvars
  PROVE  [Stream!Next]_Stream!vars
<1>1. PICK n \in Nat \ {0} : Inv(n)
  BY DEF Ind
<1>2. ASSUME UNCHANGED <<Unread, got>> PROVE UNCHANGED Stream!vars
  BY <1>2 DEF Stream!vars
<1>3. ASSUME Stream!Take PROVE Stream!Next
  BY <1>3 DEF Stream!Next
<1>4. CASE PushAny
  BY <1>2, <1>4, PushStutters
<1>5. CASE NewBlock
  <2>1. UNCHANGED <<Unread, got>>
    BY <1>1, <1>5, NewBlockKeeps, NewBlockStutters
  <2> QED BY <1>2, <2>1
<1>6. CASE Close
  <2>1. UNCHANGED <<Unread, got>>
    BY <1>1, <1>6, CloseKeeps, CloseStutters
  <2> QED BY <1>2, <2>1
<1>7. CASE Open
  <2>1. UNCHANGED <<Unread, got>>
    BY <1>1, <1>7, OpenStutters
  <2> QED BY <1>2, <2>1
<1>8. CASE CopyIn
  <2>1. IsPrefix(Unread, Unread') /\ UNCHANGED got
    BY <1>1, <1>8, CopyInKeeps, CopyInWrites
  <2> QED BY <2>1 DEF Stream!Next, Stream!Write, Stream!IsPrefix, IsPrefix
<1>9. CASE Free \/ CloseRead
  <2>1. Unread' = <<>> /\ UNCHANGED got
    BY <1>9, CloseDiscards
  <2> QED BY <2>1 DEF Stream!Next, Stream!Discard
<1>10. CASE \E k \in 0 .. rb.len : Read(k)
  <2>1. got' = <<>> /\ UNCHANGED Unread
    BY <1>1, <1>10, ReadBegins
  <2> QED BY <2>1 DEF Stream!Next, Stream!BeginRead
<1>11. CASE CopyOut
  BY <1>1, <1>3, <1>11, CopyOutTakes
<1>12. CASE CopyRest
  BY <1>1, <1>3, <1>12, CopyRestTakes
<1>13. CASE LastPiece
  BY <1>1, <1>3, <1>13, LastPieceTakes
<1>14. CASE WholeBlock
  BY <1>1, <1>3, <1>14, WholeBlockTakes
<1>15. CASE UNCHANGED bvars
  <2>1. UNCHANGED blocks /\ UNCHANGED wb /\ UNCHANGED rb /\ UNCHANGED pc /\ UNCHANGED got
    BY <1>15 DEF bvars
  <2>2. UNCHANGED <<Unread, got>>
    BY <2>1 DEF Unread, Contents, Writing, Reading, Position, End
  <2> QED BY <1>2, <2>2
<1> QED
  BY <1>4, <1>5, <1>6, <1>7, <1>8, <1>9, <1>10, <1>11, <1>12, <1>13, <1>14, <1>15
  DEF BNext, Step

\* There is nothing to read at first.
LEMMA StreamStarts ==
  ASSUME BInit, View
  PROVE  Stream!Init
<1> USE SizeAssumption
<1>1. Writing /\ Total = HEADER /\ got = <<>>
  BY DEF BInit, Writing, Total
<1>2. PICK k \in Nat : HEADER + k = Total /\ Unread = Piece(Flat(blocks), HEADER, k)
  BY <1>1 DEF View
<1>3. k = 0
  BY <1>1, <1>2
<1>4. Unread = <<>>
  BY <1>2, <1>3, NoPiece
<1> QED BY <1>1, <1>4 DEF Stream!Init

\* The bytes come out of the blocks in the order they were pushed in, none lost, none
\* twice and none that was not pushed, wherever the boundaries of the blocks fall.
THEOREM Implementation == BSpec => ImplementsStream
<1>1. BInit => Ind
  BY Starts
<1>2. Ind /\ [BNext]_bvars => Ind'
  BY Keeps
<1>3. BInit /\ View => Stream!Init
  BY StreamStarts
<1>4. Ind /\ Ind' /\ View /\ View' /\ [BNext]_bvars => [Stream!Next]_Stream!vars
  BY StepsOfStream
<1> QED BY <1>1, <1>2, <1>3, <1>4, Views, PTL DEF BSpec, ImplementsStream, Stream!Spec
=============================================================================
