-------------------------- MODULE SocketReaderProofs --------------------------
(***************************************************************************)
(* Proofs about SocketReader, for any readers, separator, sizes and        *)
(* stream: what is read is the stream, and no reader is forgotten.         *)
(*                                                                         *)
(* First what the operators of SocketBuffer do to the contents of a        *)
(* buffer, for every size, place and length: a push appends to them, a pop *)
(* and a line take the first of them off and return them.                  *)
(***************************************************************************)
EXTENDS SocketReader, DataLemmas

\* A buffer whose memory holds members of S.
IsBuffer(b, S) ==
  /\ b = [size |-> b.size, head |-> b.head, tail |-> b.tail, mem |-> b.mem]
  /\ BufferOK(b)
  /\ b.mem \in [0 .. b.size - 1 -> S]

\* Where the k-th byte is.
Place(b, k) == IF b.head + k - 1 < b.size THEN b.head + k - 1 ELSE b.head + k - 1 - b.size

\* The bounds of the indices, and of what lies between them.
LEMMA BytesBound ==
  ASSUME NEW b, BufferOK(b)
  PROVE  /\ b.size \in Nat /\ b.head \in 0 .. b.size /\ b.tail \in 0 .. b.size
         /\ Bytes(b) \in Nat
         /\ b.size > 0 => b.tail < b.size /\ Bytes(b) < b.size
         /\ b.size = 0 => Bytes(b) = 0 /\ b.head = 0 /\ b.tail = 0
BY DEF BufferOK, Bytes

\* Place is the remainder that the code computes.
LEMMA PlaceOf ==
  ASSUME NEW b, BufferOK(b), NEW k \in 1 .. Bytes(b)
  PROVE  /\ (b.head + k - 1) % b.size = Place(b, k)
         /\ Place(b, k) \in 0 .. b.size - 1
<1>1. /\ b.size \in Nat \ {0} /\ b.head \in Nat /\ b.head <= b.size
      /\ k \in Nat /\ 1 <= k /\ k < b.size
  BY BytesBound
<1> DEFINE at == b.head + k - 1
           c == b.size
<1>2. at \in Nat /\ at < 2 * c /\ c \in Nat \ {0}
  BY <1>1
<1>3. at % c = IF at < c THEN at ELSE at - c
  <2> HIDE DEF at, c
  <2> QED BY <1>2, Remainder
<1>4. (IF at < c THEN at ELSE at - c) \in 0 .. c - 1
  BY <1>2
<1>5. Place(b, k) = IF at < c THEN at ELSE at - c
  BY <1>1 DEF Place
<1>6. at % c = Place(b, k) /\ Place(b, k) \in 0 .. c - 1
  <2> HIDE DEF at, c
  <2> QED BY <1>3, <1>4, <1>5
<1> QED BY <1>6

\* A function on 1 .. n is a sequence.
LEMMA AsSeq ==
  ASSUME NEW S, NEW n \in Nat, NEW f \in [1 .. n -> S]
  PROVE  f \in Seq(S) /\ Len(f) = n
<1>1. f \in Seq(S) /\ DOMAIN f = 1 .. n
  OBVIOUS
<1> QED BY <1>1, LenProperties

\* The contents of a buffer are a sequence of Bytes of them.
LEMMA ContentsOf ==
  ASSUME NEW S, NEW b, IsBuffer(b, S)
  PROVE  /\ Contents(b) \in Seq(S)
         /\ Len(Contents(b)) = Bytes(b)
         /\ \A k \in 1 .. Bytes(b) : Contents(b)[k] = b.mem[Place(b, k)]
<1> DEFINE C == Contents(b)
           n == Bytes(b)
<1>1. BufferOK(b) /\ n \in Nat
  BY BytesBound DEF IsBuffer
<1>2. \A k \in 1 .. n : C[k] = b.mem[Place(b, k)] /\ b.mem[Place(b, k)] \in S
  BY <1>1, PlaceOf DEF Contents, IsBuffer
<1>3. C \in [1 .. n -> S]
  BY <1>2 DEF Contents
<1>4. C \in Seq(S) /\ Len(C) = n
  <2> HIDE DEF C, n
  <2> QED BY <1>1, <1>3, AsSeq
<1> QED BY <1>2, <1>4

\* s is the n bytes of b's memory at i.
IsSlice(s, b, i, n, S) ==
  s \in Seq(S) /\ Len(s) = n /\ \A k \in 1 .. n : s[k] = b.mem[i + k - 1]

\* A stretch of memory that does not wrap.
LEMMA SliceOf ==
  ASSUME NEW S, NEW b, IsBuffer(b, S),
         NEW i \in Nat, NEW n \in Nat, NEW j \in Nat, j = i + n, j <= b.size
  PROVE  IsSlice(Slice(b, i, j), b, i, n, S)
<1> DEFINE s == [k \in 1 .. n |-> b.mem[i + k - 1]]
<1>1. b.size \in Nat /\ b.mem \in [0 .. b.size - 1 -> S]
  BY BytesBound DEF IsBuffer
<1>2. \A k \in 1 .. n : i + k - 1 \in 0 .. b.size - 1
  BY <1>1
<1>3. s \in [1 .. n -> S] /\ \A k \in 1 .. n : s[k] = b.mem[i + k - 1]
  BY <1>1, <1>2
<1>4. Slice(b, i, j) = s
  <2>1. j - i = n
    OBVIOUS
  <2> QED BY <2>1 DEF Slice
<1> HIDE DEF s
<1>5. s \in Seq(S) /\ Len(s) = n
  BY <1>3, AsSeq
<1> QED BY <1>3, <1>4, <1>5 DEF IsSlice

-----------------------------------------------------------------------------
(* The first bytes                                                         *)

\* In one piece.
LEMMA Straight ==
  ASSUME NEW S, NEW b, IsBuffer(b, S),
         NEW n \in 0 .. Bytes(b), b.head + n <= b.size
  PROVE  Slice(b, b.head, b.head + n) = SubSeq(Contents(b), 1, n)
<1> DEFINE s == Slice(b, b.head, b.head + n)
           u == SubSeq(Contents(b), 1, n)
<1>1. /\ b.size \in Nat /\ b.head \in Nat /\ Bytes(b) \in Nat /\ n \in Nat
      /\ b.head + n \in Nat /\ b.head <= b.head + n /\ (b.head + n) - b.head = n
  BY BytesBound DEF IsBuffer
<1>2. s \in Seq(S) /\ Len(s) = n /\ \A k \in 1 .. n : s[k] = b.mem[b.head + k - 1]
  <2> DEFINE i == b.head
             j == b.head + n
  <2>1. i \in Nat /\ j \in Nat /\ j = i + n /\ j <= b.size /\ s = Slice(b, i, j)
    BY <1>1
  <2>2. IsSlice(s, b, i, n, S)
    <3> HIDE DEF i, j, s
    <3> QED BY <1>1, <2>1, SliceOf
  <2> QED BY <2>2 DEF IsSlice
<1>3. ASSUME NEW k \in 1 .. n
      PROVE  Contents(b)[k] \in S /\ Contents(b)[k] = b.mem[b.head + k - 1]
  <2>1. k \in 1 .. Bytes(b) /\ b.head + k - 1 < b.size
    BY <1>1
  <2>2. Contents(b)[k] = b.mem[Place(b, k)] /\ Contents(b)[k] \in S
    BY <2>1, ContentsOf, ElementOfSeq
  <2> QED BY <2>1, <2>2 DEF Place
<1>4. u \in Seq(S) /\ Len(u) = n /\ \A k \in 1 .. n : u[k] = Contents(b)[k]
  BY <1>1, <1>3, SubSeqProperties
<1> HIDE DEF s, u
<1>5. s = u
  BY <1>2, <1>3, <1>4, SeqEqual
<1> QED BY <1>5 DEF s, u

\* In two pieces.
LEMMA Wrapped ==
  ASSUME NEW S, NEW b, IsBuffer(b, S),
         NEW n \in 0 .. Bytes(b), b.size - b.head <= n
  PROVE  Slice(b, b.head, b.size) \o Slice(b, 0, n - (b.size - b.head))
           = SubSeq(Contents(b), 1, n)
<1> DEFINE p == b.size - b.head
           s == Slice(b, b.head, b.size)
           r == Slice(b, 0, n - p)
           u == SubSeq(Contents(b), 1, n)
<1>1. /\ b.size \in Nat /\ b.head \in Nat /\ Bytes(b) \in Nat /\ n \in Nat
      /\ b.head <= b.size /\ p \in Nat /\ p <= n /\ n <= b.size
      /\ 0 \in Nat /\ n - p \in Nat /\ 0 <= n - p /\ n - p <= b.size /\ (n - p) - 0 = n - p
  BY BytesBound DEF IsBuffer
<1> HIDE DEF p, s, r, u
<1>2. s \in Seq(S) /\ Len(s) = p /\ \A k \in 1 .. p : s[k] = b.mem[b.head + k - 1]
  <2> DEFINE i == b.head
             j == b.size
  <2>1. i \in Nat /\ j \in Nat /\ p \in Nat /\ j = i + p /\ j <= b.size
    BY <1>1 DEF p
  <2>2. s = Slice(b, i, j)
    BY DEF s
  <2>3. IsSlice(s, b, i, p, S)
    <3> HIDE DEF i, j
    <3> QED BY <2>1, <2>2, SliceOf
  <2> QED BY <2>3 DEF IsSlice
<1>3. r \in Seq(S) /\ Len(r) = n - p /\ \A k \in 1 .. n - p : r[k] = b.mem[0 + k - 1]
  <2> DEFINE i == 0
             j == n - p
  <2>1. i \in Nat /\ j \in Nat /\ j = i + j /\ j <= b.size
    BY <1>1
  <2>2. r = Slice(b, i, j)
    BY DEF r
  <2>3. IsSlice(r, b, i, j, S)
    <3> HIDE DEF i, j
    <3> QED BY <2>1, <2>2, SliceOf
  <2> QED BY <2>3 DEF IsSlice
<1>4. \A k \in 1 .. n : Contents(b)[k] \in S /\ Contents(b)[k] = b.mem[Place(b, k)]
  BY <1>1, ContentsOf, ElementOfSeq
<1>5. u \in Seq(S) /\ Len(u) = n /\ \A k \in 1 .. n : u[k] = Contents(b)[k]
  BY <1>1, <1>4, SubSeqProperties DEF u
<1>6. /\ s \o r \in Seq(S) /\ Len(s \o r) = Len(s) + Len(r)
      /\ \A k \in 1 .. Len(s) + Len(r) :
           (s \o r)[k] = IF k <= Len(s) THEN s[k] ELSE r[k - Len(s)]
  BY <1>2, <1>3, ConcatProperties
<1>7. Len(s \o r) = n
  BY <1>1, <1>2, <1>3, <1>6
<1>8. ASSUME NEW k \in 1 .. n PROVE (s \o r)[k] = u[k]
  <2>1. CASE k <= p
    <3>1. k \in 1 .. p /\ b.head + k - 1 < b.size
      BY <1>1, <2>1 DEF p
    <3>2. (s \o r)[k] = b.mem[b.head + k - 1]
      BY <1>1, <1>2, <1>3, <1>6, <2>1, <3>1
    <3> QED BY <1>4, <1>5, <3>1, <3>2 DEF Place
  <2>2. CASE ~(k <= p)
    <3>1. /\ k - p \in 1 .. n - p /\ ~(b.head + k - 1 < b.size)
          /\ b.head + k - 1 - b.size = 0 + (k - p) - 1
      <4> DEFINE head == b.head
                 size == b.size
      <4>1. /\ head \in Nat /\ size \in Nat /\ p \in Nat /\ n \in Nat
            /\ p = size - head
        BY <1>1 DEF p
      <4> HIDE DEF head, size
      <4>2. /\ k - p \in 1 .. n - p /\ ~(head + k - 1 < size)
            /\ head + k - 1 - size = 0 + (k - p) - 1
        BY <2>2, <4>1
      <4> QED BY <4>2 DEF head, size
    <3>2. (s \o r)[k] = r[k - p]
      BY <1>1, <1>2, <1>3, <1>6, <2>2
    <3>3. r[k - p] = b.mem[0 + (k - p) - 1]
      BY <1>3, <3>1
    <3> QED BY <1>4, <1>5, <3>1, <3>2, <3>3 DEF Place
  <2> QED BY <2>1, <2>2
<1>9. s \o r = u
  BY <1>5, <1>6, <1>7, <1>8, SeqEqual
<1> QED BY <1>9 DEF p, s, r, u

\* The first bytes, copied in one piece or two, are the first of the contents.
LEMMA First ==
  ASSUME NEW S, NEW b, IsBuffer(b, S), NEW n \in 0 .. Bytes(b)
  PROVE  FirstBytes(b, n) = SubSeq(Contents(b), 1, n)
<1>1. b.size \in Nat /\ b.head \in Nat /\ Bytes(b) \in Nat
  BY BytesBound DEF IsBuffer
<1>2. CASE b.size - b.head >= n
  <2>1. b.head + n <= b.size
    BY <1>1, <1>2
  <2> QED BY <1>2, <2>1, Straight DEF FirstBytes
<1>3. CASE ~(b.size - b.head >= n)
  <2>1. b.size - b.head <= n
    BY <1>1, <1>3
  <2> QED BY <1>3, <2>1, Wrapped DEF FirstBytes
<1> QED BY <1>2, <1>3

-----------------------------------------------------------------------------
(* A push                                                                  *)

\* m is mem with bytes written to it at a place.
IsWritten(m, mem, n, at, bytes, S) ==
  /\ m \in [0 .. n - 1 -> S]
  /\ \A i \in 0 .. n - 1 : m[i] = IF at <= i /\ i < at + Len(bytes) THEN bytes[i - at + 1]
                                   ELSE mem[i]

\* What a copy writes, and what it leaves.
LEMMA MemcpyOf ==
  ASSUME NEW S, NEW n \in Nat, NEW mem \in [0 .. n - 1 -> S],
         NEW at \in Nat, NEW bytes \in Seq(S)
  PROVE  IsWritten(memcpy(mem, at, bytes), mem, n, at, bytes, S)
<1>1. Len(bytes) \in Nat
  BY LenProperties
<1>2. \A i \in 0 .. n - 1 : i \in at .. at + Len(bytes) - 1 => i - at + 1 \in 1 .. Len(bytes)
  BY <1>1
<1>3. \A i \in 0 .. n - 1 : i \in at .. at + Len(bytes) - 1 => bytes[i - at + 1] \in S
  BY <1>2, ElementOfSeq
<1>4. \A i \in 0 .. n - 1 : i \in at .. at + Len(bytes) - 1 <=> at <= i /\ i < at + Len(bytes)
  BY <1>1
<1> QED BY <1>3, <1>4 DEF memcpy, IsWritten

\* A new buffer is empty.
LEMMA NewBuffer ==
  ASSUME NEW S, Junk \in S, NEW n \in Nat
  PROVE  IsBuffer(new_buffer(n), S) /\ Bytes(new_buffer(n)) = 0
BY DEF new_buffer, IsBuffer, BufferOK, Bytes

\* copy_buffer takes the contents to the front of a larger ring.
LEMMA Copied ==
  ASSUME NEW S, Junk \in S, NEW b, IsBuffer(b, S), NEW n \in Nat, Bytes(b) < n
  PROVE  LET c == copy_buffer(new_buffer(n), b)
         IN IsBuffer(c, S) /\ c.size = n /\ Bytes(c) = Bytes(b) /\ Contents(c) = Contents(b)
<1> DEFINE d == new_buffer(n)
           held == IF b.tail >= b.head
                     THEN Slice(b, b.head, b.tail)
                     ELSE Slice(b, b.head, b.size) \o Slice(b, 0, b.tail)
           c == copy_buffer(d, b)
           C == Contents(b)
           m == memcpy(d.mem, 0, C)
<1>1. /\ b.size \in Nat /\ b.head \in Nat /\ b.tail \in Nat /\ Bytes(b) \in Nat
      /\ b.head <= b.size /\ b.tail <= b.size
  BY BytesBound DEF IsBuffer
<1>2. C \in Seq(S) /\ Len(C) = Bytes(b) /\ SubSeq(C, 1, Bytes(b)) = C
  BY ContentsOf, SubSeqFull
<1>3. held = C
  <2>1. Bytes(b) \in 0 .. Bytes(b)
    BY <1>1
  <2>2. CASE b.tail >= b.head
    <3>1. b.head + Bytes(b) = b.tail /\ b.head + Bytes(b) <= b.size
      BY <1>1, <2>2 DEF Bytes
    <3>2. Slice(b, b.head, b.head + Bytes(b)) = SubSeq(C, 1, Bytes(b))
      BY <2>1, <3>1, Straight
    <3> QED BY <1>2, <2>2, <3>1, <3>2
  <2>3. CASE ~(b.tail >= b.head)
    <3>1. Bytes(b) - (b.size - b.head) = b.tail /\ b.size - b.head <= Bytes(b)
      BY <1>1, <2>3 DEF Bytes
    <3>2. Slice(b, b.head, b.size) \o Slice(b, 0, Bytes(b) - (b.size - b.head))
            = SubSeq(C, 1, Bytes(b))
      BY <2>1, <3>1, Wrapped
    <3> QED BY <1>2, <2>3, <3>1, <3>2
  <2> QED BY <2>2, <2>3
<1>4. d = [size |-> n, head |-> 0, tail |-> 0, mem |-> [i \in 0 .. n - 1 |-> Junk]]
  BY DEF new_buffer
<1>5. c = [size |-> n, head |-> 0, tail |-> Bytes(b), mem |-> m]
  <2>1. c = [d EXCEPT !.mem = memcpy(d.mem, 0, held), !.tail = Len(held)]
    BY DEF copy_buffer
  <2>2. c = [d EXCEPT !.mem = m, !.tail = Bytes(b)]
    BY <1>2, <1>3, <2>1
  <2> HIDE DEF c, d, m
  <2> QED BY <1>4, <2>2
<1>6. IsWritten(m, d.mem, n, 0, C, S)
  <2>1. d.mem \in [0 .. n - 1 -> S] /\ 0 \in Nat
    BY <1>4
  <2> HIDE DEF d, C
  <2> QED BY <1>2, <2>1, MemcpyOf
<1> HIDE DEF c, C, m, held, d
<1>7. IsBuffer(c, S) /\ c.size = n
  BY <1>1, <1>5, <1>6 DEF IsBuffer, BufferOK, IsWritten
<1>8. Bytes(c) = Bytes(b)
  BY <1>1, <1>5 DEF Bytes
<1>9. /\ Contents(c) \in Seq(S) /\ Len(Contents(c)) = Bytes(b)
      /\ \A k \in 1 .. Bytes(b) : Contents(c)[k] = c.mem[Place(c, k)]
  BY <1>7, <1>8, ContentsOf
<1>10. ASSUME NEW k \in 1 .. Bytes(b) PROVE Contents(c)[k] = C[k]
  <2>1. /\ Place(c, k) = k - 1 /\ k - 1 \in 0 .. n - 1
        /\ 0 <= k - 1 /\ k - 1 < 0 + Len(C) /\ (k - 1) - 0 + 1 = k
    BY <1>1, <1>2, <1>5 DEF Place
  <2>2. c.mem[k - 1] = C[k]
    BY <1>5, <1>6, <2>1 DEF IsWritten
  <2> QED BY <1>9, <2>1, <2>2
<1>11. Contents(c) = C
  BY <1>2, <1>9, <1>10, SeqEqual
<1> QED BY <1>7, <1>8, <1>11 DEF c, C, d

\* append_buffer: the message goes after the contents.
LEMMA Appended ==
  ASSUME NEW S, NEW b, IsBuffer(b, S), NEW msg \in Seq(S), Bytes(b) + Len(msg) < b.size
  PROVE  LET c == append_buffer(b, msg)
         IN IsBuffer(c, S) /\ Contents(c) = Contents(b) \o msg
<1> DEFINE c == append_buffer(b, msg)
           C == Contents(b)
           n == b.size
           h == b.head
           t == b.tail
           mem == b.mem
           held == Bytes(b)
           len == Len(msg)
           part == n - t
           At(k) == IF h + k - 1 < n THEN h + k - 1 ELSE h + k - 1 - n
<1> SUFFICES IsBuffer(c, S) /\ Contents(c) = C \o msg
  OBVIOUS
<1>1. /\ n \in Nat /\ h \in Nat /\ t \in Nat /\ held \in Nat /\ len \in Nat /\ part \in Nat
      /\ h <= n /\ t < n /\ mem \in [0 .. n - 1 -> S] /\ msg \in Seq(S)
      /\ b = [size |-> n, head |-> h, tail |-> t, mem |-> mem]
      /\ held + len < n
  BY BytesBound, LenProperties DEF IsBuffer
<1>2. held = IF t < h THEN t - h + n ELSE t - h
  BY DEF Bytes
<1>3. part = n - t /\ len = Len(msg)
  OBVIOUS
<1>4. \A k \in Nat : Place(b, k) = At(k)
  BY DEF Place
<1>5. C \in Seq(S) /\ Len(C) = held /\ \A k \in 1 .. held : C[k] = mem[At(k)]
  <2>1. \A k \in 1 .. held : Place(b, k) = At(k)
    BY <1>1, <1>4
  <2> HIDE DEF At
  <2> QED BY <2>1, ContentsOf
<1>6. c = IF len < part
            THEN [b EXCEPT !.mem = memcpy(mem, t, msg), !.tail = t + len]
            ELSE [b EXCEPT !.mem = memcpy(memcpy(mem, t, SubSeq(msg, 1, part)),
                                          0, SubSeq(msg, part + 1, len)),
                           !.tail = len - part]
  BY DEF append_buffer
<1> HIDE DEF c, C, n, h, t, mem, held, len, part
\* What is to be shown of the new buffer: where it ends and what it writes.
<1>7. ASSUME NEW m, NEW e \in Nat, e < n, m \in [0 .. n - 1 -> S],
             c = [b EXCEPT !.mem = m, !.tail = e],
             held + len = IF e < h THEN e - h + n ELSE e - h,
             \A k \in 1 .. held : m[At(k)] = mem[At(k)],
             \A k \in 1 .. len : m[At(held + k)] = msg[k]
      PROVE  IsBuffer(c, S) /\ Contents(c) = C \o msg
  <2>1. c = [size |-> n, head |-> h, tail |-> e, mem |-> m]
    BY <1>1, <1>7
  <2>0. c.size = n /\ c.head = h /\ c.tail = e /\ c.mem = m
    BY <2>1
  <2>2. IsBuffer(c, S)
    <3>1. c = [size |-> c.size, head |-> c.head, tail |-> c.tail, mem |-> c.mem]
      BY <2>0, <2>1
    <3>2. BufferOK(c) /\ c.mem \in [0 .. c.size - 1 -> S]
      BY <1>1, <1>7, <2>0 DEF BufferOK
    <3> QED BY <3>1, <3>2 DEF IsBuffer
  <2>3. Bytes(c) = held + len
    BY <1>7, <2>0 DEF Bytes
  <2>4. \A k \in 1 .. held + len : c.mem[Place(c, k)] = m[At(k)]
    BY <2>0 DEF Place
  <2>5. Contents(c) \in Seq(S) /\ Len(Contents(c)) = held + len
        /\ \A k \in 1 .. held + len : Contents(c)[k] = m[At(k)]
    <3> HIDE DEF At
    <3> QED BY <2>2, <2>3, <2>4, ContentsOf
  <2>6. /\ C \o msg \in Seq(S) /\ Len(C \o msg) = held + len
        /\ \A k \in 1 .. held + len : (C \o msg)[k] = IF k <= held THEN C[k] ELSE msg[k - held]
    BY <1>1, <1>3, <1>5, ConcatProperties
  <2>7. ASSUME NEW k \in 1 .. held + len PROVE Contents(c)[k] = (C \o msg)[k]
    <3> HIDE DEF At
    <3>1. CASE k <= held
      <4>1. k \in 1 .. held
        BY <1>1, <3>1
      <4> QED BY <1>5, <1>7, <2>5, <2>6, <3>1, <4>1
    <3>2. CASE ~(k <= held)
      <4>1. k - held \in 1 .. len /\ held + (k - held) = k
        BY <1>1, <3>2
      <4>2. m[At(k)] = msg[k - held]
        BY <1>7, <4>1
      <4> QED BY <2>5, <2>6, <3>2, <4>2
    <3> QED BY <3>1, <3>2
  <2> QED BY <1>1, <2>2, <2>5, <2>6, <2>7, SeqEqual
<1>8. CASE len < part
  <2> DEFINE m == memcpy(mem, t, msg)
             e == t + len
  <2>1. c = [b EXCEPT !.mem = m, !.tail = e]
    BY <1>6, <1>8
  <2>2. IsWritten(m, mem, n, t, msg, S)
    BY <1>1, MemcpyOf
  <2> HIDE DEF m
  <2>3. e \in Nat /\ e < n /\ held + len = IF e < h THEN e - h + n ELSE e - h
    BY <1>1, <1>2, <1>3, <1>8
  <2>4. ASSUME NEW k \in 1 .. held PROVE m[At(k)] = mem[At(k)]
    <3>1. At(k) \in 0 .. n - 1 /\ ~(t <= At(k) /\ At(k) < t + len)
      BY <1>1, <1>2, <1>3, <1>8
    <3> HIDE DEF At
    <3> QED BY <1>3, <2>2, <3>1 DEF IsWritten
  <2>5. ASSUME NEW k \in 1 .. len PROVE m[At(held + k)] = msg[k]
    <3> DEFINE i == t + k - 1
    <3>1. At(held + k) = i /\ i \in 0 .. n - 1 /\ t <= i /\ i < t + len /\ i - t + 1 = k
      BY <1>1, <1>2, <1>3, <1>8
    <3> HIDE DEF At, i
    <3> QED BY <1>3, <2>2, <3>1 DEF IsWritten
  <2>6. m \in [0 .. n - 1 -> S]
    BY <2>2 DEF IsWritten
  <2> HIDE DEF e, At
  <2> QED BY <1>7, <2>1, <2>3, <2>4, <2>5, <2>6
<1>9. CASE ~(len < part)
  <2> DEFINE u == SubSeq(msg, 1, part)
             v == SubSeq(msg, part + 1, len)
             q == memcpy(mem, t, u)
             m == memcpy(q, 0, v)
             e == len - part
  <2>1. c = [b EXCEPT !.mem = m, !.tail = e]
    BY <1>6, <1>9
  <2>2. e \in Nat /\ e < h /\ h <= t /\ e < n
    BY <1>1, <1>2, <1>3, <1>9
  <2>3. u \in Seq(S) /\ Len(u) = part /\ \A k \in 1 .. part : u[k] = msg[k]
    <3>1. \A k \in 1 .. part : msg[k] \in S
      BY <1>1, <1>3, <1>9, ElementOfSeq
    <3>2. Len(u) = IF 1 <= part THEN part - 1 + 1 ELSE 0
      BY <1>1, <3>1, SubSeqProperties
    <3>3. u \in Seq(S) /\ \A k \in 1 .. part - 1 + 1 : u[k] = msg[1 + k - 1]
      BY <1>1, <3>1, SubSeqProperties
    <3> HIDE DEF u
    <3> QED BY <1>1, <3>2, <3>3
  <2>4. v \in Seq(S) /\ Len(v) = e /\ \A k \in 1 .. e : v[k] = msg[part + k]
    <3>1. \A k \in part + 1 .. len : msg[k] \in S
      BY <1>1, <1>3, <1>9, ElementOfSeq
    <3>2. Len(v) = IF part + 1 <= len THEN len - (part + 1) + 1 ELSE 0
      BY <1>1, <3>1, SubSeqProperties
    <3>3. v \in Seq(S) /\ \A k \in 1 .. len - (part + 1) + 1 : v[k] = msg[(part + 1) + k - 1]
      BY <1>1, <3>1, SubSeqProperties
    <3> HIDE DEF v
    <3>4. \A k \in 1 .. e : k \in 1 .. len - (part + 1) + 1 /\ (part + 1) + k - 1 = part + k
      BY <1>1, <1>9
    <3>5. Len(v) = e
      BY <1>1, <1>9, <3>2
    <3> QED BY <3>3, <3>4, <3>5
  <2> HIDE DEF u, v
  <2>5. IsWritten(q, mem, n, t, u, S)
    BY <1>1, <2>3, MemcpyOf
  <2>6. IsWritten(m, q, n, 0, v, S)
    <3>1. q \in [0 .. n - 1 -> S] /\ 0 \in Nat
      BY <2>5 DEF IsWritten
    <3> HIDE DEF q
    <3> QED BY <1>1, <2>4, <3>1, MemcpyOf
  <2> HIDE DEF q, m
  <2>7. held + len = IF e < h THEN e - h + n ELSE e - h
    BY <1>1, <1>2, <1>3, <2>2
  <2>8. ASSUME NEW k \in 1 .. held PROVE m[At(k)] = mem[At(k)]
    <3>1. /\ At(k) \in 0 .. n - 1
          /\ ~(t <= At(k) /\ At(k) < t + part)
          /\ ~(0 <= At(k) /\ At(k) < 0 + e)
      BY <1>1, <1>2, <1>3, <2>2
    <3> HIDE DEF At, e
    <3> QED BY <2>3, <2>4, <2>5, <2>6, <3>1 DEF IsWritten
  <2>9. ASSUME NEW k \in 1 .. len PROVE m[At(held + k)] = msg[k]
    <3>1. CASE k <= part
      <4> DEFINE i == t + k - 1
      <4>1. /\ At(held + k) = i /\ i \in 0 .. n - 1 /\ t <= i /\ i < t + part
            /\ i - t + 1 = k /\ k \in 1 .. part
        BY <1>1, <1>2, <1>3, <2>2, <3>1
      <4>2. ~(0 <= i /\ i < 0 + e)
        BY <1>1, <2>2
      <4> HIDE DEF At, i, e
      <4> QED BY <2>3, <2>4, <2>5, <2>6, <4>1, <4>2 DEF IsWritten
    <3>2. CASE ~(k <= part)
      <4> DEFINE i == k - part - 1
      <4>1. At(held + k) = i
        BY <1>1, <1>2, <1>3, <2>2, <3>2
      <4>2. /\ i \in 0 .. n - 1 /\ 0 <= i /\ i < 0 + e /\ i - 0 + 1 \in 1 .. e
            /\ part + (i - 0 + 1) = k
        BY <1>1, <1>3, <2>2, <3>2
      <4> HIDE DEF At, i, e
      <4> QED BY <2>4, <2>6, <4>1, <4>2 DEF IsWritten
    <3> QED BY <3>1, <3>2
  <2>10. m \in [0 .. n - 1 -> S]
    BY <2>6 DEF IsWritten
  <2> HIDE DEF e, At
  <2> QED BY <1>7, <2>1, <2>2, <2>7, <2>8, <2>9, <2>10
<1> QED BY <1>8, <1>9

\* lpush of a message: it follows what the buffer held, even when the ring grows.
LEMMA Pushed ==
  ASSUME NEW S, Junk \in S, NEW b, IsBuffer(b, S), NEW msg \in Seq(S), msg # <<>>
  PROVE  IsBuffer(lpush(b, msg), S) /\ Contents(lpush(b, msg)) = Contents(b) \o msg
<1> DEFINE n == Len(msg) + Bytes(b)
           c == copy_buffer(new_buffer(n * 2), b)
<1>1. b.size \in Nat /\ Bytes(b) \in Nat /\ Len(msg) \in Nat /\ Len(msg) > 0
  BY BytesBound, LenProperties, EmptySeq DEF IsBuffer
<1>2. CASE n >= b.size
  <2>1. n * 2 \in Nat /\ Bytes(b) < n * 2
    BY <1>1
  <2>2. IsBuffer(c, S) /\ c.size = n * 2 /\ Bytes(c) = Bytes(b) /\ Contents(c) = Contents(b)
    <3> DEFINE d == n * 2
    <3> HIDE DEF d
    <3>1. LET e == copy_buffer(new_buffer(d), b)
          IN IsBuffer(e, S) /\ e.size = d /\ Bytes(e) = Bytes(b) /\ Contents(e) = Contents(b)
      BY <2>1, Copied DEF d
    <3> QED BY <3>1 DEF d
  <2>3. Bytes(c) + Len(msg) < c.size
    BY <1>1, <2>2
  <2>4. lpush(b, msg) = append_buffer(c, msg)
    BY <1>2 DEF lpush
  <2> HIDE DEF c
  <2> QED BY <2>2, <2>3, <2>4, Appended
<1>3. CASE ~(n >= b.size)
  <2>1. Bytes(b) + Len(msg) < b.size
    BY <1>1, <1>3
  <2>2. lpush(b, msg) = append_buffer(b, msg)
    BY <1>3 DEF lpush
  <2> QED BY <2>1, <2>2, Appended
<1> QED BY <1>2, <1>3

-----------------------------------------------------------------------------
(* What is taken off                                                       *)

\* The head moves by n bytes, once round or not.
LEMMA Dropped ==
  ASSUME NEW S, NEW b, IsBuffer(b, S), NEW n \in 0 .. Bytes(b), NEW e \in 0 .. b.size,
         e = b.head + n \/ e = b.head + n - b.size,
         Bytes(b) - n = IF b.tail < e THEN b.tail - e + b.size ELSE b.tail - e
  PROVE  LET c == [b EXCEPT !.head = e]
         IN IsBuffer(c, S) /\ Contents(c) = SubSeq(Contents(b), n + 1, Bytes(b))
<1> DEFINE c == [b EXCEPT !.head = e]
           C == Contents(b)
           u == SubSeq(C, n + 1, Bytes(b))
           left == Bytes(b) - n
<1>1. /\ b.size \in Nat /\ b.head \in Nat /\ b.tail \in Nat /\ Bytes(b) \in Nat
      /\ n \in Nat /\ e \in Nat /\ left \in Nat /\ n <= Bytes(b)
      /\ b.head <= b.size /\ b.tail <= b.size /\ b.mem \in [0 .. b.size - 1 -> S]
      /\ b = [size |-> b.size, head |-> b.head, tail |-> b.tail, mem |-> b.mem]
      /\ b.size > 0 => b.tail < b.size /\ Bytes(b) < b.size
      /\ b.size = 0 => Bytes(b) = 0
  BY BytesBound DEF IsBuffer
<1>2. c = [size |-> b.size, head |-> e, tail |-> b.tail, mem |-> b.mem]
  <2>1. b = [size |-> b.size, head |-> b.head, tail |-> b.tail, mem |-> b.mem]
    BY <1>1
  <2> QED BY ONLY <2>1
<1> HIDE DEF c
<1>3. c.size = b.size /\ c.head = e /\ c.tail = b.tail /\ c.mem = b.mem
  BY <1>2
<1>4. IsBuffer(c, S)
  <2>1. c = [size |-> c.size, head |-> c.head, tail |-> c.tail, mem |-> c.mem]
    BY <1>2, <1>3
  <2>2. BufferOK(c) /\ c.mem \in [0 .. c.size - 1 -> S]
    BY <1>1, <1>3 DEF BufferOK
  <2> QED BY <2>1, <2>2 DEF IsBuffer
<1>5. Bytes(c) = left
  BY <1>3 DEF Bytes
<1>6. Contents(c) \in Seq(S) /\ Len(Contents(c)) = left
      /\ \A k \in 1 .. left : Contents(c)[k] = b.mem[Place(c, k)]
  <2> HIDE DEF left
  <2> QED BY <1>3, <1>4, <1>5, ContentsOf
<1>7. C \in Seq(S) /\ Len(C) = Bytes(b) /\ \A k \in 1 .. Bytes(b) : C[k] = b.mem[Place(b, k)]
  BY ContentsOf
<1>8. u \in Seq(S) /\ Len(u) = left /\ \A k \in 1 .. left : u[k] = C[n + k]
  <2> DEFINE p == n + 1
             q == Bytes(b)
  <2>1. p \in Int /\ q \in Int /\ \A k \in p .. q : C[k] \in S
    BY <1>1, <1>7, ElementOfSeq
  <2> HIDE DEF C, p, q
  <2>2. /\ SubSeq(C, p, q) \in Seq(S) /\ Len(SubSeq(C, p, q)) = IF p <= q THEN q - p + 1 ELSE 0
        /\ \A k \in 1 .. q - p + 1 : SubSeq(C, p, q)[k] = C[p + k - 1]
    BY <2>1, SubSeqProperties
  <2>3. u = SubSeq(C, p, q)
    BY DEF p, q
  <2> HIDE DEF u
  <2>4. Len(u) = left
    BY <1>1, <2>2, <2>3 DEF p, q
  <2>5. \A k \in 1 .. left : k \in 1 .. q - p + 1 /\ p + k - 1 = n + k
    BY <1>1 DEF p, q
  <2> QED BY <2>2, <2>3, <2>4, <2>5
<1>9. ASSUME NEW k \in 1 .. left PROVE Contents(c)[k] = u[k]
  <2>1. n + k \in 1 .. Bytes(b)
    BY <1>1
  <2>2. Place(c, k) = Place(b, n + k)
    <3>1. Place(c, k) = IF e + k - 1 < b.size THEN e + k - 1 ELSE e + k - 1 - b.size
      BY <1>3 DEF Place
    <3>2. Place(b, n + k) = IF b.head + (n + k) - 1 < b.size THEN b.head + (n + k) - 1
                            ELSE b.head + (n + k) - 1 - b.size
      BY DEF Place
    <3>3. CASE e = b.head + n
      BY <1>1, <3>1, <3>2, <3>3
    <3>4. CASE e = b.head + n - b.size
      <4>1. e + k - 1 < b.size /\ ~(b.head + (n + k) - 1 < b.size)
        <5> DEFINE size == b.size
                   head == b.head
                   tail == b.tail
                   bytes == Bytes(b)
        <5>1. /\ size \in Nat /\ head \in Nat /\ tail \in Nat /\ bytes \in Nat
              /\ size > 0 => tail < size
              /\ size = 0 => bytes = 0
              /\ k \in Nat /\ k > 0 /\ n + k <= bytes
          BY <1>1
        <5>2. bytes = IF tail < head THEN tail - head + size ELSE tail - head
          BY DEF Bytes
        <5>3. e = head + n - size
          BY <3>4
        <5> HIDE DEF size, head, tail, bytes
        <5>4. e + k - 1 < size /\ ~(head + (n + k) - 1 < size)
          <6>1. size > 0 /\ n \in Nat /\ e \in Nat
            BY <1>1, <5>1
          <6>2. tail < head
            BY <5>1, <5>2, <5>3, <6>1
          <6> QED BY <5>1, <5>2, <5>3, <6>1, <6>2
        <5> QED BY <5>4 DEF size, head
      <4> QED BY <1>1, <3>1, <3>2, <3>4, <4>1
    <3> QED BY <3>3, <3>4
  <2> HIDE DEF C, u, left
  <2> QED BY <1>6, <1>7, <1>8, <2>1, <2>2
<1>10. Contents(c) = u
  <2> HIDE DEF u, left
  <2> QED BY <1>1, <1>6, <1>8, <1>9, SeqEqual
<1> QED BY <1>4, <1>10 DEF c

\* c is b without the first bytes, which are s.
TakesOff(b, c, s, S) ==
  /\ IsBuffer(c, S)
  /\ \E n \in 0 .. Len(Contents(b)) :
       /\ s = SubSeq(Contents(b), 1, n)
       /\ Contents(c) = SubSeq(Contents(b), n + 1, Len(Contents(b)))

\* lpop returns the first bytes and keeps the rest.
LEMMA PoppedOf ==
  ASSUME NEW S, NEW b, IsBuffer(b, S), NEW n \in Nat, CanPop(b, n)
  PROVE  TakesOff(b, Popped(b, n), FirstBytes(b, PopSize(b, n)), S)
<1> DEFINE sz == PopSize(b, n)
           c == Popped(b, n)
<1>1. /\ b.size \in Nat /\ b.head \in Nat /\ b.tail \in Nat /\ Bytes(b) \in Nat
      /\ b.head <= b.size /\ b.tail <= b.size /\ b.mem \in [0 .. b.size - 1 -> S]
      /\ b = [size |-> b.size, head |-> b.head, tail |-> b.tail, mem |-> b.mem]
      /\ b.size > 0 /\ b.tail < b.size
  BY BytesBound DEF IsBuffer, CanPop
<1>2. sz \in 0 .. Bytes(b)
  BY <1>1 DEF PopSize, CanPop
<1>3. FirstBytes(b, sz) = SubSeq(Contents(b), 1, sz)
  <2> HIDE DEF sz
  <2> QED BY <1>2, First
<1>4. c = CASE sz = Bytes(b) -> [b EXCEPT !.head = 0, !.tail = 0]
            [] sz < Bytes(b) /\ b.size - b.head >= sz -> [b EXCEPT !.head = b.head + sz]
            [] OTHER -> [b EXCEPT !.head = sz - (b.size - b.head)]
  BY DEF Popped
<1> HIDE DEF sz, c
<1>5. IsBuffer(c, S) /\ Contents(c) = SubSeq(Contents(b), sz + 1, Bytes(b))
  <2>1. CASE sz = Bytes(b)
    <3>1. c = [b EXCEPT !.head = 0, !.tail = 0]
      BY <1>1, <1>2, <1>4, <2>1
    <3>2. c = [size |-> b.size, head |-> 0, tail |-> 0, mem |-> b.mem]
      BY <1>1, <3>1
    <3>3. c.size = b.size /\ c.head = 0 /\ c.tail = 0 /\ c.mem = b.mem
      BY <3>2
    <3>4. IsBuffer(c, S)
      <4>1. c = [size |-> c.size, head |-> c.head, tail |-> c.tail, mem |-> c.mem]
        BY <3>2, <3>3
      <4>2. BufferOK(c) /\ c.mem \in [0 .. c.size - 1 -> S]
        BY <1>1, <3>3 DEF BufferOK
      <4> QED BY <4>1, <4>2 DEF IsBuffer
    <3>5. Bytes(c) = 0
      BY <3>3 DEF Bytes
    <3>6. Contents(c) = <<>>
      BY <3>4, <3>5, ContentsOf, EmptySeq
    <3>7. SubSeq(Contents(b), sz + 1, Bytes(b)) = <<>>
      <4>1. sz + 1 \in Int /\ Bytes(b) \in Int /\ Bytes(b) < sz + 1
        BY <1>1, <1>2, <2>1
      <4> QED BY <4>1, SubSeqEmpty
    <3> QED BY <3>4, <3>6, <3>7
  <2>2. CASE sz < Bytes(b) /\ b.size - b.head >= sz
    <3> DEFINE e == b.head + sz
    <3>1. c = [b EXCEPT !.head = e]
      BY <1>1, <1>2, <1>4, <2>2
    <3>2. /\ e \in 0 .. b.size /\ e = b.head + sz
          /\ Bytes(b) - sz = IF b.tail < e THEN b.tail - e + b.size ELSE b.tail - e
      BY <1>1, <1>2, <2>2 DEF Bytes
    <3> HIDE DEF e
    <3> QED BY <1>2, <3>1, <3>2, Dropped
  <2>3. CASE sz < Bytes(b) /\ ~(b.size - b.head >= sz)
    <3> DEFINE e == sz - (b.size - b.head)
    <3>1. c = [b EXCEPT !.head = e]
      BY <1>1, <1>2, <1>4, <2>3
    <3>2. /\ e \in 0 .. b.size /\ e = b.head + sz - b.size
          /\ Bytes(b) - sz = IF b.tail < e THEN b.tail - e + b.size ELSE b.tail - e
      BY <1>1, <1>2, <2>3 DEF Bytes
    <3> HIDE DEF e
    <3> QED BY <1>2, <3>1, <3>2, Dropped
  <2> QED BY <1>1, <1>2, <2>1, <2>2, <2>3
<1>6. TakesOff(b, c, FirstBytes(b, sz), S)
  BY <1>2, <1>3, <1>5, ContentsOf DEF TakesOff
<1> QED BY <1>6 DEF sz, c

\* Where sep is in a sequence, and the places that check_sep finds.
Found(s, sep) == {i \in 0 .. Len(s) - Len(sep) : \A j \in 1 .. Len(sep) : s[i + j] = sep[j]}

\* The search through the ring finds what a search through its contents would.
LEMMA LinesOf ==
  ASSUME NEW S, NEW b, IsBuffer(b, S), NEW sep \in Seq(S)
  PROVE  Lines(b, sep) = Found(Contents(b), sep)
<1> DEFINE C == Contents(b)
<1>1. C \in Seq(S) /\ Len(C) = Bytes(b) /\ \A k \in 1 .. Bytes(b) : C[k] = b.mem[Place(b, k)]
  BY ContentsOf
<1>2. BufferOK(b) /\ Bytes(b) \in Nat /\ Len(sep) \in Nat /\ DOMAIN sep = 1 .. Len(sep)
      /\ b.head \in Nat /\ b.size \in Nat
  BY BytesBound, LenProperties DEF IsBuffer
<1>3. ASSUME NEW i \in 0 .. Bytes(b) - Len(sep), NEW j \in 1 .. Len(sep)
      PROVE  b.mem[(b.head + i + j - 1) % b.size] = C[i + j]
  <2>1. i + j \in 1 .. Bytes(b) /\ b.head + (i + j) - 1 = b.head + i + j - 1
    BY <1>2
  <2>2. (b.head + (i + j) - 1) % b.size = Place(b, i + j)
    <3> DEFINE k == i + j
    <3> HIDE DEF k
    <3>1. (b.head + k - 1) % b.size = Place(b, k)
      BY <1>2, <2>1, PlaceOf DEF k
    <3> QED BY <3>1 DEF k
  <2> QED BY <1>1, <2>1, <2>2
<1> HIDE DEF C
<1>4. ASSUME NEW i \in 0 .. Bytes(b) - Len(sep)
      PROVE  check_sep(b, b.head + i, sep) <=> \A j \in 1 .. Len(sep) : C[i + j] = sep[j]
  <2>1. \A j \in 1 .. Len(sep) : b.mem[(b.head + i + j - 1) % b.size] = C[i + j]
    BY <1>3
  <2> QED BY <1>2, <2>1 DEF check_sep
<1>5. Len(C) - Len(sep) = Bytes(b) - Len(sep)
  BY <1>1
<1>6. Lines(b, sep) = Found(C, sep)
  BY <1>4, <1>5 DEF Lines, Found
<1> QED BY <1>6 DEF C

\* lreadline returns the bytes before the first separator and keeps those after it.
LEMMA LineOff ==
  ASSUME NEW S, NEW b, IsBuffer(b, S), NEW sep \in Seq(S), sep # <<>>, HasLine(b, sep)
  PROVE  /\ TakesOff(b, AfterLine(b, sep), Line(b, sep) \o sep, S)
         /\ Line(b, sep) \in Seq(S)
<1> DEFINE C == Contents(b)
           L == Lines(b, sep)
           i == Min(L)
           len == Len(sep)
           n == i + len
           c == AfterLine(b, sep)
<1>1. /\ b.size \in Nat /\ b.head \in Nat /\ b.tail \in Nat /\ Bytes(b) \in Nat
      /\ b.head <= b.size /\ b.tail <= b.size /\ len \in Nat /\ len > 0
  BY BytesBound, LenProperties, EmptySeq DEF IsBuffer
<1>2. C \in Seq(S) /\ Len(C) = Bytes(b)
  BY ContentsOf
<1>3. i \in L
  <2>1. L \in SUBSET Nat /\ L # {}
    BY DEF Lines, HasLine
  <2> HIDE DEF L
  <2>2. \E x \in L : \A y \in L : x <= y
    BY <2>1, Least
  <2> QED BY <2>2 DEF Min
<1>4. /\ i \in Nat /\ n \in Nat /\ i <= n /\ n <= Bytes(b) /\ b.size > 0 /\ b.tail < b.size
      /\ \A j \in 1 .. len : C[i + j] = sep[j]
  <2>1. i \in Found(C, sep)
    BY <1>3, LinesOf
  <2>2. i \in 0 .. Bytes(b) - len /\ \A j \in 1 .. len : C[i + j] = sep[j]
    <3> HIDE DEF i, C
    <3> QED BY <1>2, <2>1 DEF Found
  <2> HIDE DEF i
  <2>3. i \in Nat /\ n \in Nat /\ i <= n /\ n <= Bytes(b) /\ Bytes(b) > 0
    BY <1>1, <2>2
  <2> QED BY <2>2, <2>3, BytesBound DEF IsBuffer
<1>5. Line(b, sep) = FirstBytes(b, i)
  BY DEF Line
<1>6. c = [b EXCEPT !.head = (b.head + i + len) % b.size]
  BY DEF AfterLine
<1> HIDE DEF C, L, i, c
<1>7. FirstBytes(b, i) = SubSeq(C, 1, i)
  <2>1. i \in 0 .. Bytes(b)
    BY <1>1, <1>4
  <2> QED BY <2>1, First DEF C
<1>8. SubSeq(C, 1, i) \in Seq(S) /\ Len(SubSeq(C, 1, i)) = i
      /\ \A k \in 1 .. i : SubSeq(C, 1, i)[k] = C[k]
  <2>1. \A k \in 1 .. i : C[k] \in S
    BY <1>1, <1>2, <1>4, ElementOfSeq
  <2> QED BY <1>4, <2>1, SubSeqProperties
<1>9. SubSeq(C, 1, i) \o sep = SubSeq(C, 1, n)
  <2> DEFINE s == SubSeq(C, 1, i)
             u == SubSeq(C, 1, n)
  <2>1. s \o sep \in Seq(S) /\ Len(s \o sep) = n
        /\ \A k \in 1 .. n : (s \o sep)[k] = IF k <= i THEN s[k] ELSE sep[k - i]
    <3> HIDE DEF s
    <3> QED BY <1>8, ConcatProperties DEF s
  <2>2. u \in Seq(S) /\ Len(u) = n /\ \A k \in 1 .. n : u[k] = C[k]
    <3>1. \A k \in 1 .. n : C[k] \in S
      BY <1>1, <1>2, <1>4, ElementOfSeq
    <3> HIDE DEF n
    <3> QED BY <1>4, <3>1, SubSeqProperties
  <2>3. ASSUME NEW k \in 1 .. n PROVE (s \o sep)[k] = u[k]
    <3>1. CASE k <= i
      <4>1. k \in 1 .. i
        BY <1>4, <3>1
      <4> HIDE DEF u
      <4> QED BY <1>8, <2>1, <2>2, <3>1, <4>1
    <3>2. CASE ~(k <= i)
      <4>1. k - i \in 1 .. len /\ i + (k - i) = k
        BY <1>1, <1>4, <3>2
      <4> HIDE DEF s, u, n
      <4> QED BY <1>4, <2>1, <2>2, <3>2, <4>1
    <3> QED BY <3>1, <3>2
  <2> HIDE DEF s, u
  <2>4. s \o sep = u
    BY <2>1, <2>2, <2>3, SeqEqual
  <2> QED BY <2>4 DEF s, u
<1>10. IsBuffer(c, S) /\ Contents(c) = SubSeq(C, n + 1, Bytes(b))
  <2> DEFINE at == b.head + i + len
             e == IF at < b.size THEN at ELSE at - b.size
  <2>1. at % b.size = e
    <3> DEFINE z == b.size
    <3>1. at \in Nat /\ z \in Nat \ {0} /\ at < 2 * z
      BY <1>1, <1>4, BytesBound DEF IsBuffer
    <3> HIDE DEF at, z
    <3>2. at % z = IF at < z THEN at ELSE at - z
      BY <3>1, Remainder
    <3> QED BY <3>2 DEF z
  <2>2. c = [b EXCEPT !.head = e]
    BY <1>6, <2>1
  <2>3. /\ n \in 0 .. Bytes(b) /\ e \in 0 .. b.size
        /\ e = b.head + n \/ e = b.head + n - b.size
        /\ Bytes(b) - n = IF b.tail < e THEN b.tail - e + b.size ELSE b.tail - e
    <3>1. Bytes(b) < b.size
      BY <1>4, BytesBound DEF IsBuffer
    <3>2. Bytes(b) = IF b.tail < b.head THEN b.tail - b.head + b.size ELSE b.tail - b.head
      BY DEF Bytes
    <3>3. at = b.head + n /\ at \in Nat
      <4> HIDE DEF i
      <4> QED BY <1>1, <1>4
    <3>4. e = IF at < b.size THEN at ELSE at - b.size
      OBVIOUS
    <3> HIDE DEF e, n, at
    <3> DEFINE size == b.size
               head == b.head
               tail == b.tail
               bytes == Bytes(b)
    <3>5. /\ size \in Nat /\ head \in Nat /\ tail \in Nat /\ bytes \in Nat /\ n \in Nat
          /\ head <= size /\ tail < size /\ n <= bytes /\ bytes < size
          /\ bytes = IF tail < head THEN tail - head + size ELSE tail - head
          /\ at = head + n /\ at \in Nat
          /\ e = IF at < size THEN at ELSE at - size
      BY <1>1, <1>4, <3>1, <3>2, <3>3, <3>4
    <3> HIDE DEF size, head, tail, bytes
    <3>6. /\ n \in 0 .. bytes /\ e \in 0 .. size
          /\ e = head + n \/ e = head + n - size
          /\ bytes - n = IF tail < e THEN tail - e + size ELSE tail - e
      <4>1. CASE at < size
        BY <3>5, <4>1
      <4>2. CASE ~(at < size)
        BY <3>5, <4>2
      <4> QED BY <4>1, <4>2
    <3> QED BY <3>6 DEF size, head, tail, bytes
  <2> HIDE DEF e, n
  <2> QED BY <2>2, <2>3, Dropped DEF C
<1>11. Line(b, sep) \in Seq(S) /\ Line(b, sep) \o sep = SubSeq(C, 1, n)
  BY <1>5, <1>7, <1>8, <1>9
<1>12. n \in 0 .. Len(C)
  BY <1>1, <1>2, <1>4
<1> HIDE DEF n
<1>13. TakesOff(b, c, Line(b, sep) \o sep, S)
  BY <1>2, <1>10, <1>11, <1>12 DEF TakesOff, C
<1> QED BY <1>11, <1>13 DEF c

-----------------------------------------------------------------------------
(* The reads of a socket                                                   *)

\* A byte of the stream is its position or one of Sep; Junk fills new memory.
Byte == {Junk} \union Range(Sep) \union Nat

\* What a read finds, in the bytes that the buffer holds.
Readable(s, a) == IF a.line THEN Found(s, Sep) # {} ELSE a.size <= Len(s) /\ Len(s) # 0

BytesInv ==
  /\ IsBuffer(buffer, Byte)
  /\ stream \in Seq(Byte) /\ taken \in Seq(Byte)
  /\ ReadsInOrder

\* The event of the socket is that of one reader, whose read arg is.
EventInv ==
  ~gone /\ event # Nil => /\ wants[event] = arg
                         /\ event \notin ToSet(event_q)

WaitInv ==
  /\ event \in Reader \union {Nil}
  /\ event # Nil => arg \in Reads
  /\ closed \in BOOLEAN
  /\ event_q \in Seq(Reader)
  /\ wants \in [Reader -> Reads \union {Nil}]
  /\ gone => closed
  /\ EventInv
  /\ NobodyWaitsInVain
  /\ WokenIsServed
  /\ WokenOnce

IInv == BytesInv /\ WaitInv

\* The separator is a sequence of bytes, and not empty.
LEMMA SepType == Sep \in Seq(Byte) /\ Sep # <<>> /\ Len(Sep) \in Nat /\ Len(Sep) > 0
<1>1. Sep \in Seq(Range(Sep)) /\ Sep # <<>>
  BY ReaderAssumption
<1>2. Sep \in Seq(Byte)
  <2>1. Range(Sep) \subseteq Byte
    BY DEF Byte
  <2> QED BY <1>1, <2>1, SeqMonotonic
<1> QED BY <1>1, <1>2, LenProperties, EmptySeq

\* A read is not Nil.
LEMMA ReadsType ==
  \A a \in Reads : a # Nil /\ a.line \in BOOLEAN /\ a.size \in Nat
<1> TAKE a \in Reads
<1>1. a # Nil
  BY ReaderAssumption
<1>2. Sizes \subseteq Nat
  BY ReaderAssumption
<1>3. a.line \in BOOLEAN /\ a.size \in Nat
  <2>1. CASE a = [line |-> TRUE, size |-> 0]
    BY <2>1
  <2>2. CASE \E n \in Sizes : a = [line |-> FALSE, size |-> n]
    BY <1>2, <2>2
  <2> QED BY <2>1, <2>2 DEF Reads
<1> QED BY <1>1, <1>3

\* Has looks at nothing but the bytes that the buffer holds.
HasReadable == \A a \in Reads : Has(a) <=> Readable(Contents(buffer), a)

\* Whether a read finds something is a question about the contents.
LEMMA HasIs == BytesInv => HasReadable
<1> SUFFICES ASSUME BytesInv, NEW a \in Reads
             PROVE  Has(a) <=> Readable(Contents(buffer), a)
  BY DEF HasReadable
<1>1. Lines(buffer, Sep) = Found(Contents(buffer), Sep)
  BY SepType, LinesOf DEF BytesInv
<1>2. Len(Contents(buffer)) = Bytes(buffer)
  BY ContentsOf DEF BytesInv
<1> QED BY <1>1, <1>2 DEF Has, Readable, HasLine, CanPop

-----------------------------------------------------------------------------
(* Sequences                                                               *)

\* A prefix, element by element.
LEMMA PrefixIs ==
  ASSUME NEW S, NEW s \in Seq(S), NEW t \in Seq(S)
  PROVE  IsPrefix(s, t) <=> Len(s) <= Len(t) /\ \A i \in 1 .. Len(s) : s[i] = t[i]
<1> DEFINE n == Len(s)
           u == SubSeq(t, 1, n)
<1>1. n \in Nat /\ Len(t) \in Nat /\ SubSeq(s, 1, n) = s
  BY LenProperties, SubSeqFull
<1> SUFFICES ASSUME n <= Len(t)
             PROVE  s = u <=> \A i \in 1 .. n : s[i] = t[i]
  BY <1>1 DEF IsPrefix
<1>2. u \in Seq(S) /\ Len(u) = n /\ \A i \in 1 .. n : u[i] = t[i]
  <2>1. \A i \in 1 .. n : t[i] \in S
    BY <1>1, ElementOfSeq
  <2> HIDE DEF n
  <2> QED BY <1>1, <2>1, SubSeqProperties
<1> HIDE DEF u
<1>3. (\A i \in 1 .. n : s[i] = t[i]) => s = u
  BY <1>2, SeqEqual
<1> QED BY <1>2, <1>3

\* A prefix stays one when the sequence grows.
LEMMA PrefixOfConcat ==
  ASSUME NEW S, NEW s \in Seq(S), NEW t \in Seq(S), NEW u \in Seq(S), IsPrefix(s, t)
  PROVE  IsPrefix(s, t \o u)
<1>1. Len(s) <= Len(t) /\ \A i \in 1 .. Len(s) : s[i] = t[i]
  BY PrefixIs
<1>2. /\ t \o u \in Seq(S) /\ Len(t \o u) = Len(t) + Len(u)
      /\ \A i \in 1 .. Len(t) + Len(u) : (t \o u)[i] = IF i <= Len(t) THEN t[i] ELSE u[i - Len(t)]
  BY ConcatProperties
<1>3. Len(s) \in Nat /\ Len(t) \in Nat /\ Len(u) \in Nat
  BY LenProperties
<1>4. Len(s) <= Len(t \o u) /\ \A i \in 1 .. Len(s) : s[i] = (t \o u)[i]
  <2>1. \A i \in 1 .. Len(s) : i \in 1 .. Len(t) + Len(u) /\ i <= Len(t)
    BY <1>1, <1>3
  <2> QED BY <1>1, <1>2, <1>3, <2>1
<1> QED BY <1>2, <1>4, PrefixIs

\* A sequence is a prefix of itself.
LEMMA PrefixRefl == ASSUME NEW S, NEW s \in Seq(S) PROVE IsPrefix(s, s)
<1>1. Len(s) \in Nat
  BY LenProperties
<1> QED BY <1>1, PrefixIs

\* A sequence is what comes before a place and what comes after it.
LEMMA SplitAt ==
  ASSUME NEW S, NEW s \in Seq(S), NEW n \in 0 .. Len(s)
  PROVE  /\ SubSeq(s, 1, n) \in Seq(S) /\ SubSeq(s, n + 1, Len(s)) \in Seq(S)
         /\ SubSeq(s, 1, n) \o SubSeq(s, n + 1, Len(s)) = s
         /\ Len(SubSeq(s, n + 1, Len(s))) = Len(s) - n
         /\ \A i \in 1 .. Len(s) - n : SubSeq(s, n + 1, Len(s))[i] = s[n + i]
<1> DEFINE len == Len(s)
           m == n + 1
           u == SubSeq(s, m, len)
<1>1. len \in Nat /\ n \in Nat /\ n <= len /\ m \in Int /\ len \in Int
  BY LenProperties
<1>2. SubSeq(s, 1, n) \in Seq(S)
  <2>1. \A i \in 1 .. n : s[i] \in S
    BY <1>1, ElementOfSeq
  <2> QED BY <1>1, <2>1, SubSeqProperties
<1>3. \A i \in m .. len : s[i] \in S
  BY <1>1, ElementOfSeq
<1>4. SubSeq(s, 1, n) \o SubSeq(s, n + 1, len) = SubSeq(s, 1, len)
  <2>1. 1 \in 1 .. Len(s) + 1 /\ n \in 1 - 1 .. Len(s) /\ len \in n .. Len(s)
    BY <1>1
  <2> QED BY <2>1, ConcatAdjacentSubSeq
<1>5. SubSeq(s, 1, len) = s
  BY SubSeqFull
<1>6. /\ u \in Seq(S) /\ Len(u) = IF m <= len THEN len - m + 1 ELSE 0
      /\ \A i \in 1 .. len - m + 1 : u[i] = s[m + i - 1]
  <2> HIDE DEF m, len
  <2> QED BY <1>1, <1>3, SubSeqProperties
<1> HIDE DEF u
<1>7. Len(u) = len - n
  BY <1>1, <1>6
<1>8. \A i \in 1 .. len - n : i \in 1 .. len - m + 1 /\ m + i - 1 = n + i
  BY <1>1
<1>9. \A i \in 1 .. len - n : u[i] = s[n + i]
  BY <1>6, <1>8
<1> QED BY <1>2, <1>4, <1>5, <1>6, <1>7, <1>9 DEF u

\* Fewer bytes in front make no read possible.
LEMMA LessIsReadable ==
  ASSUME NEW s \in Seq(Byte), NEW n \in 0 .. Len(s), NEW a \in Reads,
         Readable(SubSeq(s, n + 1, Len(s)), a)
  PROVE  Readable(s, a)
<1> DEFINE u == SubSeq(s, n + 1, Len(s))
<1>1. /\ Len(u) = Len(s) - n /\ \A i \in 1 .. Len(s) - n : u[i] = s[n + i]
  BY SplitAt
<1>2. Len(s) \in Nat /\ n \in Nat /\ n <= Len(s) /\ Len(Sep) \in Nat
  BY LenProperties, SepType
<1> HIDE DEF u
<1>3. CASE a.line
  <2>1. PICK i \in 0 .. Len(u) - Len(Sep) : \A j \in 1 .. Len(Sep) : u[i + j] = Sep[j]
    BY <1>3 DEF Readable, Found, u
  <2>2. n + i \in 0 .. Len(s) - Len(Sep)
    BY <1>1, <1>2
  <2>3. \A j \in 1 .. Len(Sep) : i + j \in 1 .. Len(s) - n /\ n + (i + j) = (n + i) + j
    BY <1>1, <1>2
  <2>4. \A j \in 1 .. Len(Sep) : s[(n + i) + j] = Sep[j]
    BY <1>1, <2>1, <2>3
  <2>5. n + i \in Found(s, Sep)
    BY <2>2, <2>4 DEF Found
  <2> QED BY <1>3, <2>5 DEF Readable
<1>4. CASE ~a.line
  <2>1. a.size <= Len(u) /\ Len(u) # 0
    BY <1>4 DEF Readable, u
  <2>2. a.size <= Len(s) /\ Len(s) # 0
    BY <1>1, <1>2, <2>1, ReadsType
  <2> QED BY <1>4, <2>2 DEF Readable
<1> QED BY <1>3, <1>4

\* The events once one is woken.
LEMMA SetOfAppend ==
  ASSUME NEW S, NEW s \in Seq(S), NEW x \in S
  PROVE  ToSet(Append(s, x)) = ToSet(s) \union {x}
<1> DEFINE t == Append(s, x)
<1>1. Len(s) \in Nat /\ DOMAIN s = 1 .. Len(s)
  BY LenProperties
<1>2. /\ t \in Seq(S) /\ Len(t) = Len(s) + 1
      /\ \A i \in 1 .. Len(s) : t[i] = s[i]
      /\ t[Len(s) + 1] = x
  BY AppendProperties
<1> HIDE DEF t
<1>3. DOMAIN t = 1 .. Len(s) + 1
  BY <1>2, LenProperties
<1>4. \A i \in 1 .. Len(s) + 1 : i \in 1 .. Len(s) \/ i = Len(s) + 1
  BY <1>1
<1>5. 1 .. Len(s) \subseteq 1 .. Len(s) + 1 /\ Len(s) + 1 \in 1 .. Len(s) + 1
  BY <1>1
<1>6. ToSet(t) = ToSet(s) \union {x}
  BY <1>1, <1>2, <1>3, <1>4, <1>5 DEF ToSet
<1> QED BY <1>6 DEF t

\* The events once one is delivered.
LEMMA SetOfTail ==
  ASSUME NEW S, NEW s \in Seq(S), s # <<>>
  PROVE  /\ Head(s) \in S /\ Tail(s) \in Seq(S)
         /\ ToSet(s) = {Head(s)} \union ToSet(Tail(s))
         /\ \A i \in DOMAIN Tail(s) : i + 1 \in DOMAIN s /\ i + 1 # 1 /\ Tail(s)[i] = s[i + 1]
         /\ 1 \in DOMAIN s /\ Head(s) = s[1] /\ DOMAIN Tail(s) \subseteq Nat
<1> DEFINE t == Tail(s)
<1>1. Len(s) \in Nat /\ DOMAIN s = 1 .. Len(s) /\ Len(s) > 0 /\ Head(s) = s[1]
  BY LenProperties, EmptySeq
<1>2. /\ Head(s) \in S /\ t \in Seq(S) /\ Len(t) = Len(s) - 1
      /\ \A i \in 1 .. Len(t) : t[i] = s[i + 1]
  BY HeadTailProperties
<1> HIDE DEF t
<1>3. DOMAIN t = 1 .. Len(s) - 1
  BY <1>2, LenProperties
<1>4. \A i \in DOMAIN t : i + 1 \in DOMAIN s /\ i + 1 # 1 /\ t[i] = s[i + 1] /\ i \in Nat
  BY <1>1, <1>2, <1>3
<1>5. ASSUME NEW x PROVE x \in ToSet(s) <=> x \in {Head(s)} \union ToSet(t)
  <2>1. ASSUME x \in ToSet(s) PROVE x \in {Head(s)} \union ToSet(t)
    <3>1. PICK i \in DOMAIN s : x = s[i]
      BY <2>1 DEF ToSet
    <3>2. CASE i = 1
      BY <1>1, <3>1, <3>2
    <3>3. CASE i # 1
      <4>1. i - 1 \in DOMAIN t /\ (i - 1) + 1 = i
        BY <1>1, <1>3, <3>3
      <4>2. t[i - 1] = x
        BY <1>4, <3>1, <4>1
      <4> QED BY <4>1, <4>2 DEF ToSet
    <3> QED BY <3>2, <3>3
  <2>2. 1 \in DOMAIN s
    BY <1>1
  <2>3. ASSUME x \in {Head(s)} \union ToSet(t) PROVE x \in ToSet(s)
    BY <1>1, <1>4, <2>2, <2>3 DEF ToSet
  <2> QED BY <2>1, <2>3
<1>6. 1 \in DOMAIN s
  BY <1>1
<1> QED BY <1>1, <1>2, <1>4, <1>5, <1>6 DEF t

-----------------------------------------------------------------------------
(* What is read is the stream                                              *)

\* The buffer of a socket that has received nothing.
LEMMA Empty == IsBuffer(NoBuffer, Byte) /\ Contents(NoBuffer) = <<>>
<1>1. Junk \in Byte /\ 0 \in Nat
  BY DEF Byte
<1>2. IsBuffer(NoBuffer, Byte) /\ Bytes(NoBuffer) = 0
  BY <1>1, NewBuffer DEF NoBuffer
<1> QED BY <1>2, ContentsOf, EmptySeq

\* Nothing has been received or read.
LEMMA BytesInit == Init => BytesInv
<1> SUFFICES ASSUME Init PROVE BytesInv
  OBVIOUS
<1>1. <<>> \in Seq(Byte)
  OBVIOUS
<1>2. IsPrefix(<<>>, <<>>) /\ <<>> \o <<>> = <<>>
  BY <1>1, PrefixRefl, ConcatEmptySeq
<1>3. IsBuffer(buffer, Byte) /\ Contents(buffer) = <<>> /\ stream = <<>> /\ taken = <<>>
  BY Empty DEF Init
<1> QED BY <1>1, <1>2, <1>3 DEF BytesInv, ReadsInOrder

\* A message that port 6 passes on is bytes.
LEMMA ChunkType ==
  ASSUME BytesInv, NEW n \in 1 .. MaxChunk, NEW m \in Chunks(n)
  PROVE  m \in Seq(Byte) /\ Len(m) = n /\ m # <<>>
<1>1. Len(stream) \in Nat /\ n \in Nat
  BY LenProperties, ReaderAssumption DEF BytesInv
<1>2. m \in [1 .. n -> Byte]
  <2>1. Len(stream) + 1 .. Len(stream) + n \subseteq Nat
    BY <1>1
  <2>2. m \in [1 .. n -> Range(Sep) \union (Len(stream) + 1 .. Len(stream) + n)]
    BY DEF Chunks
  <2>3. Range(Sep) \union (Len(stream) + 1 .. Len(stream) + n) \subseteq Byte
    BY <2>1 DEF Byte
  <2> QED BY <2>2, <2>3
<1>3. m \in Seq(Byte) /\ Len(m) = n
  BY <1>1, <1>2, AsSeq
<1> QED BY <1>3, EmptySeq

\* lpush appends a message to what can be read.
LEMMA BytesData ==
  ASSUME BytesInv, NEW msg \in Seq(Byte), msg # <<>>, Data(msg)
  PROVE  /\ BytesInv'
         /\ Bytes(buffer') > 0
<1> DEFINE C == Contents(buffer)
<1>1. Junk \in Byte
  BY DEF Byte
<1>2. buffer' = lpush(buffer, msg) /\ stream' = stream \o msg /\ taken' = taken /\ closed' = closed
  BY DEF Data
<1>3. IsBuffer(buffer', Byte) /\ Contents(buffer') = C \o msg
  BY <1>1, <1>2, Pushed DEF BytesInv
<1>4. C \in Seq(Byte) /\ stream \in Seq(Byte) /\ taken \in Seq(Byte)
  BY ContentsOf DEF BytesInv
<1>5. stream' \in Seq(Byte) /\ taken' \in Seq(Byte)
  BY <1>2, <1>4, ConcatProperties
<1>6. IsPrefix(taken', stream')
  BY <1>2, <1>4, PrefixOfConcat DEF BytesInv, ReadsInOrder
<1> HIDE DEF C
<1>7. ~closed => taken' \o (C \o msg) = stream'
  <2>1. taken \o (C \o msg) = (taken \o C) \o msg
    BY <1>4, ConcatAssociative
  <2> QED BY <1>2, <2>1 DEF BytesInv, ReadsInOrder, C
<1>8. Bytes(buffer') > 0
  <2>1. Len(C \o msg) = Len(C) + Len(msg)
    BY <1>4, ConcatProperties
  <2>2. Len(C) \in Nat /\ Len(msg) \in Nat /\ Len(msg) > 0
    BY <1>4, LenProperties, EmptySeq
  <2>3. Bytes(buffer') = Len(C \o msg)
    BY <1>3, ContentsOf DEF C
  <2> QED BY <2>1, <2>2, <2>3
<1>9. ReadsInOrder'
  BY <1>2, <1>3, <1>6, <1>7 DEF ReadsInOrder, C
<1> QED BY <1>3, <1>5, <1>8, <1>9 DEF BytesInv

\* A read takes bytes off the front and appends them to what was read.
LEMMA TakeOff ==
  ASSUME BytesInv, NEW r \in Reader, NEW a \in Reads, Has(a), Take(r, a)
  PROVE  \E s : taken' = taken \o s /\ TakesOff(buffer, buffer', s, Byte)
<1>1. IsBuffer(buffer, Byte) /\ taken \in Seq(Byte)
  BY DEF BytesInv
<1>2. CASE a.line
  <2>1. /\ taken' = taken \o Line(buffer, Sep) \o Sep
        /\ buffer' = AfterLine(buffer, Sep)
        /\ HasLine(buffer, Sep)
    BY <1>2 DEF Take, Has
  <2>2. /\ TakesOff(buffer, buffer', Line(buffer, Sep) \o Sep, Byte)
        /\ Line(buffer, Sep) \in Seq(Byte)
    BY <1>1, <2>1, SepType, LineOff
  <2>3. taken \o Line(buffer, Sep) \o Sep = taken \o (Line(buffer, Sep) \o Sep)
    BY <1>1, <2>2, SepType, ConcatAssociative
  <2> QED BY <2>1, <2>2, <2>3
<1>3. CASE ~a.line
  <2> DEFINE n == a.size
  <2>1. /\ taken' = taken \o FirstBytes(buffer, PopSize(buffer, n))
        /\ buffer' = Popped(buffer, n)
        /\ CanPop(buffer, n) /\ n \in Nat
    BY <1>3, ReadsType DEF Take, Has
  <2> HIDE DEF n
  <2>2. TakesOff(buffer, buffer', FirstBytes(buffer, PopSize(buffer, n)), Byte)
    BY <1>1, <2>1, PoppedOf
  <2> QED BY <2>1, <2>2
<1> QED BY <1>2, <1>3

\* A read takes from the front, and what was not there before is not there after.
LEMMA BytesTake ==
  ASSUME BytesInv, NEW r \in Reader, NEW what \in Reads, Has(what), Take(r, what),
         ~closed, closed' = closed, stream' = stream
  PROVE  /\ BytesInv'
         /\ \A x \in Reads : Has(x)' => Has(x)
<1> DEFINE C == Contents(buffer)
           len == Len(C)
<1>0. PICK s : taken' = taken \o s /\ TakesOff(buffer, buffer', s, Byte)
  BY TakeOff
<1>1. IsBuffer(buffer', Byte) /\ IsBuffer(buffer, Byte)
  BY <1>0 DEF BytesInv, TakesOff
<1>2. PICK n \in 0 .. len : /\ taken' = taken \o SubSeq(C, 1, n)
                            /\ Contents(buffer') = SubSeq(C, n + 1, len)
  BY <1>0 DEF TakesOff
<1>3. C \in Seq(Byte) /\ stream \in Seq(Byte) /\ taken \in Seq(Byte)
  BY ContentsOf DEF BytesInv
<1>4. taken \o C = stream
  BY DEF BytesInv, ReadsInOrder
<1> HIDE DEF C
<1> DEFINE u == SubSeq(C, 1, n)
           v == SubSeq(C, n + 1, len)
<1>5. u \in Seq(Byte) /\ v \in Seq(Byte) /\ u \o v = C
  BY <1>3, SplitAt
<1>6. Contents(buffer') = v /\ taken' = taken \o u
  BY <1>2
<1> HIDE DEF u, v
<1>7. taken' \in Seq(Byte) /\ taken' \o v = stream
  <2>0. taken \in Seq(Byte) /\ u \in Seq(Byte) /\ v \in Seq(Byte)
    BY <1>3, <1>5
  <2>1. (taken \o u) \o v = taken \o (u \o v)
    BY <2>0, ConcatAssociative
  <2>2. taken \o u \in Seq(Byte)
    BY <1>3, <1>5, ConcatProperties
  <2> QED BY <1>4, <1>5, <1>6, <2>1, <2>2
<1>8. IsPrefix(taken', stream)
  <2>1. IsPrefix(taken', taken')
    BY <1>7, PrefixRefl
  <2>2. IsPrefix(taken', taken' \o v)
    BY <1>5, <1>7, <2>1, PrefixOfConcat
  <2> QED BY <1>7, <2>2
<1>9. ReadsInOrder'
  BY <1>6, <1>7, <1>8 DEF ReadsInOrder
<1>10. BytesInv'
  BY <1>1, <1>3, <1>7, <1>9 DEF BytesInv
<1>11. ASSUME NEW x \in Reads, Has(x)' PROVE Has(x)
  <2>1. (BytesInv => HasReadable)'
    BY HasIs, PTL
  <2>2. Readable(Contents(buffer'), x)
    BY <1>10, <1>11, <2>1 DEF HasReadable
  <2>3. Readable(C, x)
    BY <1>2, <1>3, <2>2, LessIsReadable
  <2> QED BY <2>3, HasIs DEF HasReadable, C
<1> QED BY <1>10, <1>11

\* A close loses what was not read; what was read stays read.
LEMMA BytesGiveUp ==
  ASSUME BytesInv, buffer' = NoBuffer, closed', taken' = taken, stream' = stream
  PROVE  BytesInv'
<1>1. IsBuffer(buffer', Byte)
  BY Empty
<1>2. ReadsInOrder'
  BY DEF BytesInv, ReadsInOrder
<1> QED BY <1>1, <1>2 DEF BytesInv

-----------------------------------------------------------------------------
(* Nobody is forgotten                                                     *)

\* Nobody waits.
LEMMA WaitInit == Init => WaitInv
<1> SUFFICES ASSUME Init PROVE WaitInv
  OBVIOUS
<1>1. event_q \in Seq(Reader) /\ ToSet(event_q) = {} /\ DOMAIN event_q = {}
  BY DEF Init, ToSet
<1>2. wants \in [Reader -> Reads \union {Nil}] /\ \A r \in Reader : ~Waiting(r)
  BY DEF Init, Waiting
<1> QED BY <1>1, <1>2 DEF Init, WaitInv, EventInv, NobodyWaitsInVain, WokenIsServed, WokenOnce

\* What is woken when the queue was empty is one reader.
LEMMA OneWoken ==
  ASSUME NEW x \in Reader
  PROVE  LET q == Append(<<>>, x)
         IN q \in Seq(Reader) /\ ToSet(q) = {x} /\ DOMAIN q = {1} /\ q[1] = x
<1>1. Append(<<>>, x) = <<x>>
  OBVIOUS
<1>2. <<x>> \in Seq(Reader) /\ DOMAIN <<x>> = {1} /\ <<x>>[1] = x
  OBVIOUS
<1>3. ToSet(<<x>>) = {x}
  BY <1>2 DEF ToSet
<1> QED BY <1>1, <1>2, <1>3

\* Data that arrives wakes the reader that it is enough for.
LEMMA WaitData ==
  ASSUME IInv, NEW msg \in Seq(Byte), msg # <<>>, Data(msg)
  PROVE  WaitInv'
<1>1. /\ event_q = <<>> /\ ToSet(event_q) = {}
      /\ UNCHANGED <<arg, closed, wants, gone>>
      /\ Bytes(buffer') > 0
  BY BytesData DEF IInv, Data, ToSet
<1>2. Bytes(buffer') \in Int
  <2>1. BytesInv'
    BY BytesData DEF IInv
  <2> QED BY <2>1, BytesBound DEF BytesInv, IsBuffer
\* The only reader that waits is the one whose event the socket has.
<1>3. \A r \in Reader : Waiting(r) =>
        event = r /\ ~closed /\ ~gone /\ wants[r] = arg /\ arg \in Reads
  <2>1. ASSUME NEW r \in Reader, Waiting(r) PROVE event = r /\ ~closed
    BY <1>1, <2>1 DEF IInv, WaitInv, NobodyWaitsInVain
  <2>2. ~closed => ~gone
    BY DEF IInv, WaitInv
  <2>3. ASSUME NEW r \in Reader, event = r, ~gone PROVE wants[r] = arg /\ arg \in Reads
    BY <2>3, ReaderAssumption DEF IInv, WaitInv, EventInv
  <2> QED BY <2>1, <2>2, <2>3
<1>4. \A r \in Reader : Waiting(r)' <=> Waiting(r)
  BY <1>1 DEF Waiting
<1>5. \A a \in Reads : (Has(a))' <=> Enough(buffer', a)
  BY <1>1, <1>2, ReadsType DEF Has, Enough, CanPop
<1>6. CASE event # Nil /\ Enough(buffer', arg)
  <2>1. event \in Reader /\ event_q' = Append(<<>>, event) /\ event' = Nil
    BY <1>1, <1>6 DEF Data, Wake, IInv, WaitInv
  <2>2. event_q' \in Seq(Reader) /\ ToSet(event_q') = {event} /\ DOMAIN event_q' = {1}
        /\ event_q'[1] = event
    BY <2>1, OneWoken
  <2>3. NobodyWaitsInVain'
    BY <1>3, <1>4, <2>2 DEF NobodyWaitsInVain
  <2>4. WokenIsServed'
    <3>1. ASSUME NEW r \in Reader, Waiting(r) PROVE (Has(wants[r]))'
      BY <1>1, <1>3, <1>5, <1>6, <3>1
    <3> QED BY <1>4, <3>1 DEF WokenIsServed
  <2>5. ~gone => Waiting(event)
    BY <1>6, ReadsType DEF IInv, WaitInv, EventInv, Waiting
  <2>6. WokenOnce'
    BY <1>1, <1>4, <2>1, <2>2, <2>5 DEF WokenOnce
  <2> QED BY <1>1, <2>1, <2>2, <2>3, <2>4, <2>6 DEF IInv, WaitInv, EventInv
<1>7. CASE ~(event # Nil /\ Enough(buffer', arg))
  <2>1. event' = event /\ event_q' = event_q
    BY <1>7 DEF Data
  <2>2. ToSet(event_q') = {} /\ DOMAIN event_q' = {}
    BY <1>1, <2>1
  <2>3. NobodyWaitsInVain'
    <3>1. ASSUME NEW r \in Reader, Waiting(r) PROVE event = r /\ ~closed /\ ~(Has(wants[r]))'
      BY <1>1, <1>3, <1>5, <1>7, <3>1, ReaderAssumption
    <3> QED BY <1>1, <1>4, <2>1, <3>1 DEF NobodyWaitsInVain
  <2>4. WokenIsServed' /\ WokenOnce'
    BY <2>2 DEF WokenIsServed, WokenOnce
  <2> QED BY <1>1, <2>1, <2>2, <2>3, <2>4 DEF IInv, WaitInv, EventInv
<1> QED BY <1>6, <1>7

\* The end of the connection wakes the reader, whatever it waits for.
LEMMA WaitClose ==
  ASSUME IInv, Close
  PROVE  WaitInv'
<1>1. /\ event_q = <<>> /\ ToSet(event_q) = {} /\ closed' = TRUE
      /\ UNCHANGED <<arg, wants, gone>>
  BY DEF Close, ToSet
<1>2. \A r \in Reader : Waiting(r) => event = r
  BY <1>1 DEF IInv, WaitInv, NobodyWaitsInVain
<1>3. \A r \in Reader : Waiting(r)' <=> Waiting(r)
  BY <1>1 DEF Waiting
<1>4. WokenIsServed'
  BY <1>1 DEF WokenIsServed
<1>5. CASE event # Nil
  <2>1. event \in Reader /\ event_q' = Append(<<>>, event) /\ event' = Nil
    BY <1>1, <1>5 DEF Close, Wake, IInv, WaitInv
  <2>2. event_q' \in Seq(Reader) /\ ToSet(event_q') = {event} /\ DOMAIN event_q' = {1}
        /\ event_q'[1] = event
    BY <2>1, OneWoken
  <2>3. NobodyWaitsInVain'
    BY <1>2, <1>3, <2>2 DEF NobodyWaitsInVain
  <2>4. ~gone => Waiting(event)
    BY <1>5, ReadsType DEF IInv, WaitInv, EventInv, Waiting
  <2>5. WokenOnce'
    BY <1>1, <1>3, <2>1, <2>2, <2>4 DEF WokenOnce
  <2> QED BY <1>1, <1>4, <2>1, <2>2, <2>3, <2>5 DEF IInv, WaitInv, EventInv
<1>6. CASE event = Nil
  <2>1. event' = event /\ event_q' = event_q
    BY <1>6 DEF Close
  <2>2. DOMAIN event_q' = {} /\ \A r \in Reader : ~Waiting(r)'
    BY <1>1, <1>2, <1>3, <1>6, <2>1, ReaderAssumption
  <2>3. NobodyWaitsInVain' /\ WokenOnce'
    BY <2>2 DEF NobodyWaitsInVain, WokenOnce
  <2> QED BY <1>1, <1>4, <1>6, <2>1, <2>3 DEF IInv, WaitInv, EventInv
<1> QED BY <1>5, <1>6

\* A read that finds too little waits; no other reader is waiting then.
LEMMA WaitRead ==
  ASSUME IInv, NEW r \in Reader, NEW a \in Reads, Read(r, a)
  PROVE  IInv'
<1>1. /\ ~Waiting(r)
      /\ UNCHANGED <<closed, event_q, stream, eof, gone>>
  BY DEF Read
<1>2. CASE closed
  <2>1. buffer' = NoBuffer /\ UNCHANGED <<event, arg, wants, taken, robbed>>
    BY <1>2 DEF Read, GiveUp
  <2>2. BytesInv'
    BY <1>1, <1>2, <2>1, BytesGiveUp DEF IInv
  <2>3. NobodyWaitsInVain' /\ WokenIsServed' /\ WokenOnce'
    BY <1>1, <1>2, <2>1
       DEF IInv, WaitInv, NobodyWaitsInVain, WokenIsServed, WokenOnce, Waiting
  <2> QED BY <1>1, <2>1, <2>2, <2>3 DEF IInv, WaitInv, EventInv
<1>3. CASE ~closed /\ Has(a)
  <2>1. Take(r, a) /\ UNCHANGED <<event, arg, wants>>
    BY <1>3 DEF Read
  <2>2. BytesInv' /\ \A x \in Reads : Has(x)' => Has(x)
    BY <1>1, <1>3, <2>1, BytesTake DEF IInv
  <2>3. \A x \in Reader : Waiting(x)' <=> Waiting(x)
    BY <2>1 DEF Waiting
  <2>4. NobodyWaitsInVain'
    <3>1. ASSUME NEW x \in Reader, Waiting(x), ~Has(wants[x]) PROVE ~(Has(wants[x]))'
      <4>1. wants[x] \in Reads
        BY <3>1 DEF IInv, WaitInv, Waiting
      <4> QED BY <2>1, <2>2, <3>1, <4>1
    <3> QED BY <1>1, <2>1, <2>3, <3>1 DEF IInv, WaitInv, NobodyWaitsInVain
  <2>5. WokenIsServed'
    <3>1. \A x \in ToSet(event_q) : x # r => x \in robbed'
      BY <2>1 DEF Take
    <3> QED BY <1>1, <2>3, <3>1 DEF WokenIsServed
  <2>6. WokenOnce'
    BY <1>1, <2>1 DEF IInv, WaitInv, WokenOnce, Waiting
  <2> QED BY <1>1, <2>1, <2>2, <2>4, <2>5, <2>6 DEF IInv, WaitInv, EventInv
<1>4. CASE ~closed /\ ~Has(a)
  <2>1. /\ event = Nil /\ event' = r /\ arg' = a
        /\ wants' = [wants EXCEPT ![r] = a]
        /\ UNCHANGED <<buffer, taken, robbed>>
    BY <1>4 DEF Read
  <2>2. ~gone
    BY <1>4 DEF IInv, WaitInv
  <2>3. /\ wants' \in [Reader -> Reads \union {Nil}] /\ wants'[r] = a
        /\ \A x \in Reader \ {r} : wants'[x] = wants[x]
    BY <2>1 DEF IInv, WaitInv
  <2>4. Waiting(r)' /\ \A x \in Reader \ {r} : Waiting(x)' <=> Waiting(x)
    BY <2>3, ReadsType DEF Waiting
  <2>5. \A i \in DOMAIN event_q : event_q[i] \in Reader \ {r} /\ Waiting(event_q[i])
    <3>1. \A i \in DOMAIN event_q : event_q[i] \in Reader
      BY DEF IInv, WaitInv
    <3> QED BY <1>1, <2>2, <3>1 DEF IInv, WaitInv, WokenOnce
  <2>6. r \notin ToSet(event_q')
    BY <1>1, <2>5 DEF ToSet
  <2>7. \A x \in Reads : Has(x)' <=> Has(x)
    BY <2>1 DEF Has
  <2>8. BytesInv'
    BY <1>1, <2>1 DEF IInv, BytesInv, ReadsInOrder
  <2>9. NobodyWaitsInVain'
    <3>1. ASSUME NEW x \in Reader \ {r}, Waiting(x) PROVE x \in ToSet(event_q)
      BY <2>1, <3>1, ReaderAssumption DEF IInv, WaitInv, NobodyWaitsInVain
    <3>2. ~(Has(wants[r]))' /\ ~closed'
      BY <1>1, <1>4, <2>3, <2>7
    <3> QED BY <1>1, <2>1, <2>4, <3>1, <3>2 DEF NobodyWaitsInVain
  <2>10. WokenIsServed'
    <3>1. ASSUME NEW x \in Reader \ {r}, Waiting(x), Has(wants[x]) PROVE (Has(wants[x]))'
      <4>1. wants[x] \in Reads
        BY <3>1 DEF IInv, WaitInv, Waiting
      <4> QED BY <2>3, <2>7, <3>1, <4>1
    <3> QED BY <1>1, <2>1, <2>4, <2>6, <3>1 DEF IInv, WaitInv, WokenIsServed
  <2>11. WokenOnce'
    BY <1>1, <2>2, <2>4, <2>5 DEF IInv, WaitInv, WokenOnce
  <2>12. EventInv'
    BY <2>1, <2>3, <2>6 DEF EventInv
  <2>13. event' \in Reader /\ arg' \in Reads
    BY <2>1
  <2> QED BY <1>1, <2>3, <2>8, <2>9, <2>10, <2>11, <2>12, <2>13 DEF IInv, WaitInv
<1> QED BY <1>2, <1>3, <1>4

\* A woken reader looks again, takes what it waited for or gives up.
LEMMA WaitResume ==
  ASSUME IInv, Resume
  PROVE  IInv'
<1>0. event_q # <<>> /\ Head(event_q) \in Reader
  BY SetOfTail DEF Resume, IInv, WaitInv
<1> PICK r \in Reader : r = Head(event_q)
  BY <1>0
<1>1. /\ event_q # <<>> /\ event_q' = Tail(event_q)
      /\ wants' = [wants EXCEPT ![r] = Nil]
      /\ UNCHANGED <<event, arg, closed, stream, eof, gone>>
  BY DEF Resume
<1>2. /\ r \in Reader /\ event_q' \in Seq(Reader)
      /\ ToSet(event_q) = {r} \union ToSet(event_q')
      /\ \A i \in DOMAIN event_q' : i + 1 \in DOMAIN event_q /\ i + 1 # 1 /\ event_q'[i] = event_q[i + 1]
      /\ 1 \in DOMAIN event_q /\ r = event_q[1] /\ DOMAIN event_q' \subseteq Nat
  BY <1>1, SetOfTail DEF IInv, WaitInv
<1>3. \/ ~Waiting(r) /\ UNCHANGED <<buffer, taken, robbed>>
      \/ Waiting(r) /\ closed /\ GiveUp
      \/ Waiting(r) /\ ~closed /\ Has(wants[r]) /\ Take(r, wants[r])
      \/ Waiting(r) /\ ~closed /\ robbed' = robbed \ {r} /\ UNCHANGED <<buffer, taken>>
  BY DEF Resume
<1>4. /\ wants' \in [Reader -> Reads \union {Nil}] /\ wants'[r] = Nil
      /\ \A x \in Reader \ {r} : wants'[x] = wants[x]
  BY <1>1, <1>2 DEF IInv, WaitInv
<1>5. ~Waiting(r)' /\ \A x \in Reader \ {r} : Waiting(x)' <=> Waiting(x)
  <2>1. ~Waiting(r)'
    BY <1>1, <1>2 DEF Waiting, IInv, WaitInv
  <2>2. ASSUME NEW x \in Reader \ {r} PROVE Waiting(x)' <=> Waiting(x)
    BY <1>4, <2>2 DEF Waiting
  <2> QED BY <2>1, <2>2
\* Whoever does what with the buffer, no read becomes possible.
<1>6. BytesInv' /\ (~closed => \A x \in Reads : Has(x)' => Has(x))
  <2>1. CASE UNCHANGED <<buffer, taken>>
    BY <1>1, <2>1 DEF IInv, BytesInv, ReadsInOrder, Has
  <2>2. CASE closed /\ GiveUp
    BY <1>1, <2>2, BytesGiveUp DEF IInv, GiveUp
  <2>3. CASE Waiting(r) /\ ~closed /\ Has(wants[r]) /\ Take(r, wants[r])
    <3>1. wants[r] \in Reads
      BY <1>2, <2>3 DEF IInv, WaitInv, Waiting
    <3> QED BY <1>1, <1>2, <2>3, <3>1, BytesTake DEF IInv
  <2> QED BY <1>3, <2>1, <2>2, <2>3
<1>7. NobodyWaitsInVain'
  <2>1. ASSUME NEW x \in Reader \ {r}, Waiting(x), ~closed, ~Has(wants[x])
        PROVE  ~(Has(wants[x]))'
    <3>1. wants[x] \in Reads
      BY <2>1 DEF IInv, WaitInv, Waiting
    <3> QED BY <1>4, <1>6, <2>1, <3>1
  <2>2. ASSUME NEW x \in Reader \ {r}, Waiting(x)
        PROVE  x \in ToSet(event_q') \/ (event' = x /\ ~closed' /\ ~(Has(wants[x]))')
    <3>1. x \in ToSet(event_q) \/ (event = x /\ ~closed /\ ~Has(wants[x]))
      BY <2>2 DEF IInv, WaitInv, NobodyWaitsInVain
    <3> QED BY <1>1, <1>2, <2>1, <2>2, <3>1
  <2> QED BY <1>5, <2>2 DEF NobodyWaitsInVain
<1>8. WokenIsServed'
  <2>1. ASSUME NEW x \in Reader \ {r}, Waiting(x), x \in ToSet(event_q'), ~closed, x \notin robbed'
        PROVE  (Has(wants[x]))'
    <3>1. x \in ToSet(event_q) /\ x \notin robbed /\ UNCHANGED buffer
      BY <1>2, <1>3, <2>1 DEF Take
    <3>2. Has(wants[x])
      BY <2>1, <3>1 DEF IInv, WaitInv, WokenIsServed
    <3> QED BY <1>4, <2>1, <3>1, <3>2 DEF Has
  <2> QED BY <1>1, <1>5, <2>1 DEF WokenIsServed
<1>9. ASSUME ~gone
      PROVE  \A i \in DOMAIN event_q' : event_q'[i] \in Reader \ {r} /\ wants'[event_q'[i]] # Nil
  <2>1. ASSUME NEW i \in DOMAIN event_q'
        PROVE  event_q'[i] \in Reader \ {r} /\ Waiting(event_q[i + 1]) /\ event_q'[i] = event_q[i + 1]
    <3>1. event_q'[i] \in Reader
      BY <1>2
    <3> QED BY <1>2, <1>9, <3>1 DEF IInv, WaitInv, WokenOnce
  <2> QED BY <1>4, <2>1 DEF Waiting
<1>10. WokenOnce'
  <2>1. ASSUME ~gone, NEW i \in DOMAIN event_q', NEW j \in DOMAIN event_q', event_q'[i] = event_q'[j]
        PROVE  i = j
    <3>1. i + 1 \in DOMAIN event_q /\ j + 1 \in DOMAIN event_q /\ event_q[i + 1] = event_q[j + 1]
      BY <1>2, <2>1
    <3>2. i + 1 = j + 1
      BY <2>1, <3>1 DEF IInv, WaitInv, WokenOnce
    <3>3. i \in Nat /\ j \in Nat
      BY <1>2
    <3> QED BY <3>2, <3>3
  <2> QED BY <1>1, <1>9, <2>1 DEF WokenOnce, Waiting
<1>11. EventInv'
  <2>1. ASSUME ~gone, event # Nil PROVE wants'[event] = arg /\ event \notin ToSet(event_q')
    <3>1. wants[event] = arg /\ event \notin ToSet(event_q) /\ event \in Reader
      BY <2>1 DEF IInv, WaitInv, EventInv
    <3> QED BY <1>2, <1>4, <3>1
  <2> QED BY <1>1, <2>1 DEF EventInv
<1> QED BY <1>1, <1>2, <1>4, <1>6, <1>7, <1>8, <1>10, <1>11 DEF IInv, WaitInv

\* A disconnect wakes whoever waits.
LEMMA WaitDisconnect ==
  ASSUME IInv, Disconnect
  PROVE  IInv'
<1>1. /\ closed' = TRUE /\ gone' = TRUE /\ buffer' = NoBuffer
      /\ UNCHANGED <<event, arg, wants, stream, taken>>
      /\ event_q' = IF event = Nil THEN event_q ELSE Append(event_q, event)
  BY DEF Disconnect
<1>2. BytesInv'
  BY <1>1, BytesGiveUp DEF IInv
<1>3. event_q' \in Seq(Reader)
      /\ \A x \in Reader : x \in ToSet(event_q) \/ x = event => x \in ToSet(event_q')
  <2>1. CASE event = Nil
    BY <1>1, <2>1, ReaderAssumption DEF IInv, WaitInv
  <2>2. CASE event # Nil
    BY <1>1, <2>2, SetOfAppend, AppendProperties DEF IInv, WaitInv
  <2> QED BY <2>1, <2>2
<1>4. NobodyWaitsInVain'
  <2>1. \A x \in Reader : Waiting(x)' <=> Waiting(x)
    BY <1>1 DEF Waiting
  <2> QED BY <1>3, <2>1 DEF IInv, WaitInv, NobodyWaitsInVain
<1>5. WokenIsServed' /\ WokenOnce' /\ EventInv'
  BY <1>1 DEF WokenIsServed, WokenOnce, EventInv
<1> QED BY <1>1, <1>2, <1>3, <1>4, <1>5 DEF IInv, WaitInv

-----------------------------------------------------------------------------
(* The theorems                                                            *)

\* The invariant holds at first.
LEMMA InitInvariant == Init => IInv
BY BytesInit, WaitInit DEF IInv

\* One case per action.
LEMMA NextInvariant == IInv /\ [Next]_vars => IInv'
<1> SUFFICES ASSUME IInv, [Next]_vars PROVE IInv'
  OBVIOUS
<1>1. CASE UNCHANGED vars
  BY <1>1 DEF vars, IInv, BytesInv, WaitInv, EventInv, ReadsInOrder, NobodyWaitsInVain,
              WokenIsServed, WokenOnce, Waiting, Has
<1>2. ASSUME NEW n \in 1 .. MaxChunk, NEW m \in Chunks(n), Data(m) PROVE IInv'
  <2>1. m \in Seq(Byte) /\ m # <<>>
    BY ChunkType DEF IInv
  <2> QED BY <1>2, <2>1, BytesData, WaitData DEF IInv
<1>3. CASE Close
  <2>1. BytesInv'
    BY <1>3 DEF Close, IInv, BytesInv, ReadsInOrder
  <2> QED BY <1>3, <2>1, WaitClose DEF IInv
<1>4. CASE Resume
  BY <1>4, WaitResume
<1>5. CASE Disconnect
  BY <1>5, WaitDisconnect
<1>6. ASSUME NEW r \in Reader, NEW a \in Reads, Read(r, a) PROVE IInv'
  BY <1>6, WaitRead
<1> QED BY <1>1, <1>2, <1>3, <1>4, <1>5, <1>6 DEF Next, Port6

\* The invariant holds for any readers, separator, sizes and stream.
THEOREM Invariance == Spec => []IInv
BY InitInvariant, NextInvariant, PTL DEF Spec

\* The type invariant: the indices of the read buffer stay inside it, and the
\* tables of cell.lua hold what they should.
THEOREM TypeCorrect == Spec => []TypeOK
<1>1. IInv => TypeOK
  <2> SUFFICES ASSUME IInv PROVE TypeOK
    OBVIOUS
  <2>1. \A i \in DOMAIN event_q : event_q[i] \in Reader
    BY DEF IInv, WaitInv
  <2>2. ToSet(event_q) \subseteq Reader
    BY <2>1 DEF ToSet
  <2> QED BY <2>2 DEF IInv, BytesInv, WaitInv, IsBuffer, TypeOK
<1> QED BY <1>1, Invariance, PTL

\* The reads of an open socket return its stream, in order and complete, whatever
\* the sizes of the messages, of the reads and of the ring (readbytes, readline,
\* push_buffer, lpop and lreadline).
THEOREM InOrder == Spec => []ReadsInOrder
<1>1. IInv => ReadsInOrder
  BY DEF IInv, BytesInv
<1> QED BY <1>1, Invariance, PTL

\* No reader waits for bytes that are there or on a socket that is closed, however
\* many read, whoever disconnects and whatever comes first (port 6, disconnect).
THEOREM NobodyForgotten == Spec => []NobodyWaitsInVain
<1>1. IInv => NobodyWaitsInVain
  BY DEF IInv, WaitInv
<1> QED BY <1>1, Invariance, PTL

\* A reader that was woken finds its bytes, unless another one was faster.
THEOREM Served == Spec => []WokenIsServed
<1>1. IInv => WokenIsServed
  BY DEF IInv, WaitInv
<1> QED BY <1>1, Invariance, PTL

\* An event is woken once, until somebody disconnects.
THEOREM OneWakeup == Spec => []WokenOnce
<1>1. IInv => WokenOnce
  BY DEF IInv, WaitInv
<1> QED BY <1>1, Invariance, PTL
=============================================================================
